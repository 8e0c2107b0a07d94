\* Each format with and without its option; four steps of host, runtime and
\* model, the results of every call, and one edit.
SPECIFICATION Spec
CONSTANTS
    Apis <- AllApis
    HostParts <- HostMessages
    Responses <- Answers
    Foreign <- ForeignAnswers
    ResultFacts <- ResultsOfTools
    Surfaces <- ToolsBound
    MaxActs = 4
INVARIANTS RoundTrip EarlierMessagesKept SaysTheConversation OffersBoundTools
CHECK_DEADLOCK FALSE
