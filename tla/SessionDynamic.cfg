SPECIFICATION Spec
CONSTANTS
    Unwritten = Unwritten
    Lost = Lost
    Configs <- MCDynamic
    Prompts <- MCPrompts
    Targets <- MCTargets
    Sampled = {1, 2}
    Stop = 2
    Label = {a}
    MaxTokens = 6
    MaxOutput = 2
    MaxCalls = 2
    MaxCancels = 0
    MaxFailures = 0
    Careless = FALSE
CHECK_DEADLOCK FALSE
PROPERTY LastTokenPends
