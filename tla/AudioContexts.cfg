SPECIFICATION Spec
CONSTANTS
  a = a
  b = b
  c = c
  Handler = {a, b, c}
  NoHandler = NoHandler
  Memory <- MCMemory
  Unset = Unset
  MaxChunks = 3
PROPERTY OthersUntouched
CHECK_DEADLOCK FALSE
