SPECIFICATION Spec
CONSTANTS
    Named <- MCNamed
    CodeFence <- MCCodeFence
    Unparsed <- MCUnparsed
    Kinds = {"basic", "advanced"}
    Filters = {TRUE, FALSE}
    Batches <- MCBatches
    Replies <- MCReplies
    MaxTurns = 3
    MaxCancels = 1
    MaxFaults = 1
INVARIANTS
    HistoryIsContext NothingForgotten ChannelsForgotten EndIsTold CancelUndoes
CHECK_DEADLOCK FALSE
