CONSTANTS
  Procs = {p, q}
  Tables = {1, 2}
  NFds = 3
  Objs = {1, 2, 3}
  MaxOff = 3
  Settings <- Sound
  Null = Null
  Gone = Gone
  First = p
  PageSize = 2
  InitSize = 12
  MaxSize = 18
  Lengths = {0, 1, 3, 6}
  Traced = {p1, p2}
  Gremlins = {"eintr", "readone"}
  Campaigns <- Reproducible
SPECIFICATION AllSpec
SYMMETRY TracedSymmetry
CHECK_DEADLOCK FALSE
INVARIANT TableSound
INVARIANT OffsetsKept
PROPERTY CloexecKept
PROPERTY RefinesAbs
INVARIANT ListSound
INVARIANT HeldIsInUse
PROPERTY GrowsOnlyWhenFull
PROPERTY ImplementsAbs
INVARIANT Reproduces
INVARIANT AttachesWhenReplayed
 
