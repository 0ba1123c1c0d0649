SPECIFICATION Spec
CONSTANTS
  Streams = {"stdout", "stderr"}
  FIRST_EXEMPLARS = 1
  SAMPLED_EXEMPLARS = 1
  MAX_BEHAVIORS = 2
  MAX_SCOPE_CELLS = 1
  MAX_MEASURES = 1
  OVERFLOW_TEMPLATE <- MCOverflow
  NoScope = NoScope
  MAX_LINE = 3
  MAX_KEY_LINES = 2
  MAX_REMEMBERED = 1
  Inputs <- MCInputs
  RNG <- MCRNG
  CHUNK_BYTES = 2
  MaxSignals = 2
PROPERTY OnceIsKept
