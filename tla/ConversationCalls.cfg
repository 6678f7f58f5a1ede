SPECIFICATION Spec
CONSTANTS
    Named <- MCNamed
    CodeFence <- MCCodeFence
    Unparsed <- MCUnparsed
    Kinds = {"basic"}
    Filters = {FALSE}
    Batches <- MCBatches
    Replies <- MCReplyWithCall
    MaxTurns = 1
    MaxCancels = 0
    MaxFaults = 0
INVARIANTS
    CallsKept
CHECK_DEADLOCK FALSE
