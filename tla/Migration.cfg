SPECIFICATION FairSpec
CONSTANTS
  Openers = {p1, p2}
  OldCaptures = {c1, c2}
  Latest = 3
  SCRUB = 1
  MaxPolls = 2
  MaxOpens = 2
  NoOne = NoOne
INVARIANTS OpenedIsCurrent RedactedForGood NewCapturesKept
PROPERTY NoStall
CHECK_DEADLOCK FALSE
