SPECIFICATION SessionSpec
CONSTANTS
    Sessions = {s1, s2}
    Tasks = {t1, t2, t3}
    NoTask = NoTask
    NoSession = NoSession
    Kinds = {"prefill", "decode", "clone"}
    MaxDeps = 1
    MaxChunks = 0
    EarlyRelease = FALSE
    SlowCallbacks = FALSE
    BufferFault = FALSE
    Template = FALSE
CHECK_DEADLOCK FALSE
INVARIANTS
    AddNeverRefused
PROPERTIES
    ImplementsManager
