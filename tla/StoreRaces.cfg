CONSTANTS
  Recorders = {p1, p2}
  Collectors = {}
  NoProc = NoProc
  Contexts = {c1}
  MAX_RUNS = 1
  MaxRuns = 4
  MaxCrashes = 0
  MaxDay = 0
  SIFTR_KEEP_RUNS = 1
  SIFTR_KEEP_EVIDENCE = 1
  SIFTR_KEEP_DAYS = 1
SPECIFICATION Spec
SYMMETRY Processes
INVARIANTS BaselineSound LastRunsKept LatestUsableKept
PROPERTIES RunHistoryKept
