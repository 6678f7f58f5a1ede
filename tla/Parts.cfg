SPECIFICATION PartsSpec
CONSTANTS
    Handler = {h1, h2, h3}
    NoHandler = NoHandler
    Inputs <- MCInputs
    Sampled = {1}
    MaxStep = 2
    Call = {1, 2, 3, 4, 5}
    MaxConcurrency = 2
    MaxReconnectAttempts = 2
    MaxSockets = 5
    Shapes <- MCShapes
    MaxSamples = 16
    MaxChunk = 7
    Plain = {1, 2, 3}
    Lead = 8
    Trail = 9
    StopChoice <- MCStops
    MaxStops = 2
    MaxStream <- MCStream
    Words = {7}
    MaxPrompt = 3
    MaxPrefills = 3
    Key = {"model", "tokenizer"}
    Once = {"tokenizer"}
    Length = {0, 1, 3}
    MaxSections = 4
    HeaderRoom = 3
    BlockSize = 2
    Alignments = {1, 4}
    Reader = {"r1", "r2"}
    Roles = {"user", "tool", "system"}
    MaxSent = 4
SYMMETRY MCHandlers
INVARIANTS
    PiecesDoNotMatter
    StopIsCut
    EmbeddingsInOrder
    SectionsRead
    NoneForgotten
    TurnsClosed
    OneConnection
    WindowsOfStream
    TypeOK
    OwnedOnce
PROPERTIES
    PrefillAppends
    ImplementsPrivate
\* The parts' inputs are bounded and run out.
CHECK_DEADLOCK FALSE
