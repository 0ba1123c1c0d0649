CONSTANTS
  Recorders = {p1}
  Collectors = {g1}
  NoProc = NoProc
  Contexts = {c1}
  MAX_RUNS = 1
  MaxRuns = 2
  MaxCrashes = 2
  MaxDay = 2
  SIFTR_KEEP_RUNS = 1
  SIFTR_KEEP_EVIDENCE = 1
  SIFTR_KEEP_DAYS = 1
SPECIFICATION FairSpec
INVARIANT NoLeakedRows
PROPERTIES CaptureOutlivesEvidence WorkEnds
