SPECIFICATION FairSpec
CONSTANTS
  Streams = {stdout}
  QUEUED_CHUNKS = 1
  PENDING_CHUNKS = 1
  PipeChunks = 1
  MaxChunks = 2
  MaxNoise = 1
  MaxSignals = 1
INVARIANTS NothingLost FinishedWhole
PROPERTIES ShownSoon WrapEnds
