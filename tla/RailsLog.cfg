SPECIFICATION Spec
CONSTANTS
  Inodes = {i1, i2, i3, i4}
  NoFile = NoFile
  GUARD_LINES = 1
  MaxBefore = 2
  MaxLines = 3
  MaxMishaps = 3
  MaxEvents = 1
SYMMETRY Numbers
INVARIANTS Exact EventsPlaced RefusedForCause
