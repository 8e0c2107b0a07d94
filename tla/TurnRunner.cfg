\* Two rounds of up to two calls, a preparer, a deadline.
SPECIFICATION FairSpec
CONSTANTS
    ToolName = {"search"}
    MaxModelRounds = 2
    MaxToolCalls = 3
    U32Max = 3
    MaxCalls = 2
    HasPreparer = TRUE
    HasDeadline = TRUE
INVARIANTS AsksWithNothingOpen BatchAccountedFor ObserverSawEverything CauseOutranks LimitsHold
PROPERTIES LedgerKept StopEnds RunEnds
