SPECIFICATION Spec
CONSTANTS
  FIRST_EXEMPLARS = 1
  SAMPLED_EXEMPLARS = 2
  MAX_BEHAVIORS = 2
  MAX_SCOPE_CELLS = 2
  MAX_MEASURES = 6
  OVERFLOW_TEMPLATE <- MCOverflow
  NoScope = NoScope
  NoExample = NoExample
  NoNumber = NoNumber
  Workers = {w1, w2}
  Examples <- MCExamples
  Outside = {}
  Statements = {}
  Tests = {}
  Actions = {"index"}
  Drawn <- MCDrawn
  MaxLines = 6
  MaxLog = 3
  MaxOut = 0
  MaxMishaps = 1
SYMMETRY Processes
INVARIANT RightScope
CHECK_DEADLOCK FALSE
