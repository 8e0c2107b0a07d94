\* Streams of each format, with up to two faults.
SPECIFICATION Spec
CONSTANTS
    Scripts <- AllScripts
    MaxItems = 3
    MaxFaults = 2
INVARIANTS OutputIsTheAnswer DeltasAgree OnlyFaultsFail
CHECK_DEADLOCK FALSE
