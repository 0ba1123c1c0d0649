SPECIFICATION Spec
CONSTANTS
  FIRST_EXEMPLARS = 1
  SAMPLED_EXEMPLARS = 2
  MAX_BEHAVIORS = 2
  MAX_SCOPE_CELLS = 2
  MAX_MEASURES = 6
  OVERFLOW_TEMPLATE <- MCOverflow
  NoScope = NoScope
  NoExample = NoExample
  NoNumber = NoNumber
  Workers = {w1}
  Examples <- MCExamples
  Outside <- MCOutside
  Statements <- MCStatements
  Tests = {"t"}
  Actions = {"index", "show"}
  Drawn <- MCDrawn
  MaxLines = 6
  MaxLog = 5
  MaxOut = 4
  MaxMishaps = 1
INVARIANTS
  CountsExact ExemplarsReal QueriesTold RequestsWhole
CHECK_DEADLOCK FALSE
