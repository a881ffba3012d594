CONSTANTS
  a = a
  b = b
  Pids = {root, a, b}
  Root = root
  AnyPid = any_pid
  Murphy = murphy
  Settings <- AllSound
  Procs = {p, q}
  Fds = {1, 2}
  PollMax = 5
  SleepMax = 4
  Second = 3
  MaxTime = 8
  PsSettings <- Sleeps
  NoProc = NoProc
  Forever = Forever
SPECIFICATION AllSpec
INVARIANT TreeSound
INVARIANT NothingMissed
INVARIANT WaitTellsTheTruth
INVARIANT EndsLast
INVARIANT TablesSound
INVARIANT TimesKept
PROPERTY Terminates
PROPERTY CallsReturn
