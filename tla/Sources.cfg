SPECIFICATION Spec
CONSTANTS
  Argvs <- Commands
  Trees <- Directories
  Files <- Configurations
  Behaviors = {"example", "query"}
  StreamOf <- Streams
  MIN_RUNS = 2
  MaxRuns = 3
  MaxEdits = 1
INVARIANTS ClaimsAreReal RecordedWasReported
PROPERTY OffIsUntouched
CHECK_DEADLOCK FALSE
