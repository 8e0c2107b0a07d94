\* Two calls, one processor before and one after dispatch, two edits in all, a
\* deadline and a call timeout; no symmetry, because of the liveness property.
SPECIFICATION FairSpec
CONSTANTS
    c1 = c1  c2 = c2
    r1 = r1  r2 = r2  note = note
    BlockId = {c1, c2, r1, r2}
    ToolName = {"bound", "other"}
    Note = {note}
    NoResult = NoResult
    N = 2
    Declared <- Calls2
    Bound = {"bound"}
    NumProcessors <- OneProcessor
    CallTimeout = TRUE
    HasDeadline = TRUE
    ToolReturns <- Noted
    MaxEdits = 2
INVARIANTS PendingNeverRan CollectedResultsKept ResolvesValidBatch DispatchesBoundTools OkReportsWhatHappened
PROPERTIES ResultsOnlyAppended StopEnds
