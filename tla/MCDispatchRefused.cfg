CONSTANTS
  Procs = {p, q}
  NumPages = 2
  MaxBytes = 3
  Settings <- Lazy
SPECIFICATION Spec
INVARIANT RefusalHolds
