\* Up to three attempts with waits of 0 to 2 by the wrapper, and of 3 (longer
\* than those) or 4 (more than the host allows) by the server; without a deadline,
\* with one that an attempt reaches, and with one that some waits reach.
\* Any attempt may hang for ever.
SPECIFICATION FairSpec
CONSTANTS
    MaxAttempts = 3
    BaseDelay = 1
    MaxDelay = 2
    MaxServerDelay = 3
    ServerDelay = {3, 4}
    Deadlines = {2, 5, None}
    None = None
    MaxTime = 2
INVARIANTS NothingRepeated PolicyHonoured ResultExplained
PROPERTY StopEnds
