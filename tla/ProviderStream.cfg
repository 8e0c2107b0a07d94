\* One call, streaming or not; lines, events and streams around their limits.
SPECIFICATION Spec
CONSTANTS
    Calls = {"stream", "invoke"}
    Responses <- AllResponses
    DecodeWindow = 3
    MaxLineBytes = 4
    MaxEventBytes = 8
    MaxTotalBytes = 15
    MaxPendingDeltas = 2
    MaxResponseBytes = 2
    Meaning <- Meanings
    Document <- Documents
INVARIANTS YieldsWhatWasSent OneClassification
PROPERTIES StoppedStreamEnds
CHECK_DEADLOCK FALSE
