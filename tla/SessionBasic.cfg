SPECIFICATION Spec
CONSTANTS
    Unwritten = Unwritten
    Lost = Lost
    Configs <- MCConfigs
    Prompts <- MCPrompts
    Targets <- MCTargets
    Sampled = {1, 2}
    Stop = 2
    Label = {a, b}
    MaxTokens = 6
    MaxOutput = 2
    MaxCalls = 2
    MaxCancels = 1
    MaxFailures = 1
    Careless = FALSE
SYMMETRY MCLabels
CHECK_DEADLOCK FALSE
INVARIANTS TypeOK KvHolds RoomSuffices
PROPERTIES PrefillCounts TurnKept ImplementsTranscript
