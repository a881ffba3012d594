CONSTANTS
  Block = 2
  MaxLen = 3
  ChirpSettings <- AllSettings
  Servers = {s1, s2}
  Nobody = Nobody
  BlockBytes = 2
  RootSize = 6
  SubSizes = {3}
  FileSizes = {0, 3}
  MaxStates = 2
  Mixes <- AllMixes
  t1 = t1
  t2 = t2
  f1 = f1
  f2 = f2
  w1 = w1
  w2 = w2
  Workers = {w1, w2}
  Tasks = {t1, t2}
  Files = {f1, f2}
  Out = Out
  NLinks = 4
  MaxFaults = 2
  AbortMin = 1
  WqSettings <- WqSound
  NoTask = NoTask
  NoWorker = NoWorker
SPECIFICATION AllSpec
SYMMETRY ServerSymmetry
CHECK_DEADLOCK FALSE
INVARIANT WritesKept
INVARIANT ReplacementUntouched
INVARIANT AccountsRight
INVARIANT BlockedHoldsNothing
INVARIANT QueueSound
INVARIANT ResultIsOfCurrentTask
INVARIANT InputsPresent
PROPERTY CallsEnd
PROPERTY TasksReturn
