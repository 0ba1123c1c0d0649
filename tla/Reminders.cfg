SPECIFICATION Spec
CONSTANTS
  e1 = e1  e2 = e2  q = q  l = l  x = x
  Examples = {e1, e2}
  Others = {q}
  ClassOf <- Class
  FileOf <- OneFile
  Exceptions = {x}
  MAX_RUNS = 2
  MIN_RUNS = 2
  VARYING_WIDTHS = 2
  COLLAPSE_EXAMPLES = 2
  Codes <- Changing
  Cuts = {"filter", "kill", "switch", "interrupt"}
  MAX_SIGNALS = 3
  KEEP_RUNS = 3
  MaxRuns = 4
  MaxCut = 2
  MaxAcks = 1
CHECK_DEADLOCK FALSE
INVARIANTS GoneForGood NewSinceBaseline RegressionShown AnswersHold
