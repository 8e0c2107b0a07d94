\* The documented meaning of a failed result.
SPECIFICATION CallSpec
CONSTANT Answers <- UpToThree
INVARIANT FailedWasReported
CHECK_DEADLOCK FALSE
