CONSTANTS
  a = a
  b = b
  Pids = {root, a, b}
  Root = root
  AnyPid = any_pid
  Murphy = murphy
  Settings <- Refused
SPECIFICATION Spec
SYMMETRY Symmetry
INVARIANT NarrowOnlyInFork
