CONSTANTS
  Procs = {p, q}
  NumPages = 2
  MaxBytes = 3
  Settings <- Sound
SPECIFICATION Spec
SYMMETRY Symmetry
INVARIANT IoSound
INVARIANT ResultIsTrue
INVARIANT RefusedReadHolds
CHECK_DEADLOCK FALSE
