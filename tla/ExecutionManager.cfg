SPECIFICATION Spec
CONSTANTS
    Sessions = {s1, s2}
    Tasks = {t1, t2, t3}
    NoTask = NoTask
    NoSession = NoSession
    Kinds = {"prefill", "decode", "clone"}
    MaxDeps = 2
    MaxChunks = 1
    EarlyRelease = TRUE
    SlowCallbacks = TRUE
    BufferFault = TRUE
CONSTRAINT OneMoreOfPrefills
SYMMETRY Symmetry
CHECK_DEADLOCK FALSE
INVARIANTS
    RunsAfterDependencies
    QueueExact
    EndedMeansReported
    CancelHonoured
PROPERTIES
    EndIsFinal
