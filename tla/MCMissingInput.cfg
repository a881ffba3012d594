CONSTANTS
  t1 = t1
  t2 = t2
  f1 = f1
  f2 = f2
  w1 = w1
  w2 = w2
  Workers = {w1, w2}
  Tasks = {t1, t2}
  Files = {f1, f2}
  Out = Out
  NLinks = 4
  MaxFaults = 2
  AbortMin = 1
  WqSettings <- WqMissing
  NoTask = NoTask
  NoWorker = NoWorker
SPECIFICATION WqFairSpec
CHECK_DEADLOCK FALSE
PROPERTY MissingInputReturned
