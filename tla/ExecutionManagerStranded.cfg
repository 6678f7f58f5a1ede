SPECIFICATION Spec
CONSTANTS
    Sessions = {s1}
    Tasks = {t1, t2, t3, t4}
    NoTask = NoTask
    NoSession = NoSession
    Kinds = {"prefill"}
    MaxDeps = 2
    MaxChunks = 0
    EarlyRelease = FALSE
    SlowCallbacks = FALSE
    BufferFault = FALSE
SYMMETRY Symmetry
CHECK_DEADLOCK FALSE
INVARIANTS
    FollowersShareFailure
