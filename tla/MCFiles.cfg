CONSTANTS
  m = m
  n = n
  Murphys = {m, n, k}
  Inodes = {1, 2, 3, 4, 5, 6}
  Chunks = 2
  Versions = 2
  MaxCreates = 2
  Timeout = 4
  Settings <- Sound
  None = None
  GrowMurphys = {1, 2}
  GrowVersions = 2
  GrowTimeout = 4
  GrowSettings <- GrowSound
  Absent = Absent
SPECIFICATION AllSpec
CHECK_DEADLOCK FALSE
INVARIANT CopiesFaithful
INVARIANT NothingLeftBehind
INVARIANT GrowTreeSound
INVARIANT StaleListingHeals
PROPERTY OpensEnd
