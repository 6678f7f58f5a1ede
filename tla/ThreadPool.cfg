SPECIFICATION Spec
CONSTANTS
    Workers = {w1, w2}
    Tasks = {t1, t2, t3}
    NoTask = NoTask
    CreateFaults = TRUE
CHECK_DEADLOCK FALSE
INVARIANTS
    NoneLostNorOvertaken
    ThreadsOnDemand
    WaitMeansFinished
    ShutdownDrains
PROPERTIES
    DestructorReturns
    ImplementsPool
