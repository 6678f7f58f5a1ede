SPECIFICATION SessionSpec
CONSTANTS
    Sessions = {s1}
    Tasks = {t1, t2, t3, t4}
    NoTask = NoTask
    NoSession = NoSession
    Kinds = {"prefill", "decode", "score"}
    MaxDeps = 1
    MaxChunks = 0
    EarlyRelease = FALSE
    SlowCallbacks = FALSE
    BufferFault = FALSE
    Template = TRUE
CHECK_DEADLOCK FALSE
INVARIANTS
    TypeOK
    ActiveTasksExact
    SessionInOrder
PROPERTIES
    EveryTaskEnds
