----------------------------- MODULE PollSleep -----------------------------
(***************************************************************************)
(* How Murphy sleeps: pfs_poll_sleep and the poll and sleep tables of      *)
(* pfs_poll.cc, the calls select and poll that fill them                   *)
(* (pfs_table::select and poll, and their cases in pfs_dispatch64.cc), and *)
(* the main loop of pfs_main.cc that alternates between collecting stops   *)
(* with wait4 and sleeping.                                                *)
(*                                                                         *)
(* SIGCHLD is masked except between CRITICAL_END and CRITICAL_BEGIN of     *)
(* pfs_poll_sleep, so the loop is in one of these places (pc):             *)
(*   events    collecting stops, everything masked                         *)
(*   unmasked  after CRITICAL_END, before poll_abort_now is tested         *)
(*   enter     after the test, before the kernel has put it to sleep       *)
(*   select    asleep in select                                            *)
(*   scan      after CRITICAL_BEGIN, waking processes                      *)
(* Time passes only while Murphy is asleep; what it does itself takes no   *)
(* time.  A timeval is a pair of seconds and fractions.                    *)
(***************************************************************************)
EXTENDS Integers, FiniteSets, FiniteSetsExt

CONSTANTS
  Procs,      \* the traced processes; they share the file table
  Fds,        \* the descriptors of that table
  PollMax,    \* POLL_TABLE_MAX
  SleepMax,   \* SLEEP_TABLE_MAX
  Second,     \* fractions of a second (1000000 in the code)
  MaxTime,    \* bound: the clock stops here
  PsSettings, \* the settings considered
  NoProc,     \* the pid of a free entry (-1 in the code)
  Forever     \* the timeout of a call without one

(* A setting is a record of                                                *)
(*   ops       the calls the programs make: "select", "close"      *)
(*   sets      the sets of descriptors they give                           *)
(*   timeouts  the timeouts they give                                      *)
(*   faults    "signals" when signals without SA_RESTART arrive            *)
(*   calls     bound: calls in all                                         *)
(*   traffic   bound: arrivals at a descriptor, and signals                *)
ASSUME PollAssumption ==
  /\ PollMax \in Nat \ {0} /\ SleepMax \in Nat \ {0}
  /\ Second \in Nat \ {0} /\ MaxTime \in Nat
  /\ NoProc \notin Procs /\ Forever \notin Nat
  /\ \A s \in PsSettings :
       /\ s.ops \subseteq {"select", "close"}
       /\ s.sets \subseteq SUBSET Fds
       /\ s.timeouts \subseteq Nat \cup {Forever}
       /\ s.faults \subseteq {"signals"}
       /\ s.calls \in Nat /\ s.traffic \in Nat

POLL_TIME_MAX == 1
EINTR == -4
EAGAIN == -11

VARIABLES
  poll_table,   \* slot -> pid and descriptor
  sleep_table,  \* slot -> pid and stoptime
  aborted,      \* poll_abort_now
  fatal,        \* a table was full and Murphy gave up
  proc,         \* struct pfs_process
  open,         \* descriptors that are open
  ready,        \* descriptors with something to read
  clock,        \* gettimeofday
  pc,           \* where the main loop is
  deadline,     \* when select times out
  scan,         \* what the loop after select looks at next
  at,           \* where a process is: user, entry, incall or exit
  uncollected,  \* stops that wait4 has not collected
  sigchld,      \* SIGCHLD is pending
  waitcall,     \* the call a process makes
  since,        \* history: when the process stopped; when its call began
  raced,        \* history: stops whose SIGCHLD came between test and select
  left,         \* calls and arrivals that are left in this run
  psset         \* the setting of this run; it never changes

tables == <<poll_table, sleep_table, fatal, proc, open, at>>
psLoop == <<aborted, pc, deadline, scan, raced>>
outside == <<ready, clock, uncollected, sigchld, waitcall, since, left, psset>>
psVars == <<tables, psLoop, outside>>

PsWorld == [poll_table |-> poll_table, sleep_table |-> sleep_table, fatal |-> fatal,
          proc |-> proc, open |-> open, at |-> at]

PsInstall(w) ==
  /\ poll_table' = w.poll_table
  /\ sleep_table' = w.sleep_table
  /\ fatal' = w.fatal
  /\ proc' = w.proc
  /\ open' = w.open
  /\ at' = w.at

---------------------------------------------------------------------------
(* struct timeval.                                                         *)

Timeval(t) == [sec |-> t \div Second, usec |-> t % Second]
Ticks(tv) == tv.sec * Second + tv.usec
timercmp(a, b) == a.sec > b.sec \/ (a.sec = b.sec /\ a.usec > b.usec)

Carry_none(tv) == tv

(* The carry of pfs_poll_wakein: a full second is left in the fractions.   *)
Carry(tv) ==
  LET n == IF tv.usec > Second THEN (tv.usec - 1) \div Second ELSE 0
  IN  [sec |-> tv.sec + n, usec |-> tv.usec - n * Second]

---------------------------------------------------------------------------
(* The two tables.                                                         *)

FreePoll == [pid |-> NoProc, fd |-> 0]
FreeSleep == [pid |-> NoProc, stoptime |-> Timeval(0)]
FreeSlots(table) == {i \in DOMAIN table : table[i].pid = NoProc}

pfs_poll_clear_polls(w, p) ==
  [w EXCEPT !.poll_table = [i \in DOMAIN @ |-> IF @[i].pid = p THEN FreePoll ELSE @[i]]]

pfs_poll_clear(w, p) ==
  [w EXCEPT !.poll_table = [i \in DOMAIN @ |-> IF @[i].pid = p THEN FreePoll ELSE @[i]],
            !.sleep_table = [i \in DOMAIN @ |-> IF @[i].pid = p THEN FreeSleep ELSE @[i]]]

pfs_poll_wakeon(w, p, fd) ==
  IF FreeSlots(w.poll_table) = {} THEN [w EXCEPT !.fatal = TRUE]
  ELSE [w EXCEPT !.poll_table[Min(FreeSlots(w.poll_table))] = [pid |-> p, fd |-> fd]]

pfs_poll_wakein(w, p, ticks) ==
  LET now == Timeval(clock)
      tv == Timeval(ticks)
      stop == Carry([sec |-> now.sec + tv.sec, usec |-> now.usec + tv.usec])
  IN  IF FreeSlots(w.sleep_table) = {} THEN [w EXCEPT !.fatal = TRUE]
      ELSE [w EXCEPT !.sleep_table[Min(FreeSlots(w.sleep_table))] = [pid |-> p, stoptime |-> stop]]

RegisterAll_oneShort(w, p, fds) ==
  LET upto[n \in 0 .. Cardinality(fds)] ==
        IF n = 0 THEN w
        ELSE pfs_poll_wakeon(upto[n - 1], p,
                             CHOOSE f \in fds : Cardinality({g \in fds : g <= f}) = n)
  IN  upto[Max({Cardinality(fds) - 1, 0})]

(* Registering the descriptors of a call, lowest first.                    *)
RegisterAll(w, p, fds) ==
  LET upto[n \in 0 .. Cardinality(fds)] ==
        IF n = 0 THEN w
        ELSE pfs_poll_wakeon(upto[n - 1], p,
                             CHOOSE f \in fds : Cardinality({g \in fds : g <= f}) = n)
  IN  upto[Cardinality(fds)]

---------------------------------------------------------------------------
(* pfs_table::select, which pfs_table::poll calls with the sets and the    *)
(* timeout it is given: the two wait alike.                                *)

SelectReady_keepTime(w, p, hit) ==
  [w EXCEPT !.proc[p].syscall_result = Cardinality(hit)]

(* Something is ready: report it, and forget when the waiting began.       *)
SelectReady(w, p, hit) ==
  [w EXCEPT !.proc[p].syscall_result = Cardinality(hit), !.proc[p].seltime = Forever]

(* Nothing is ready: the time is over, or register and wait.               *)
SelectWaits_forgetful(w, p, fds, timeout) ==
  IF timeout = 0
  THEN [w EXCEPT !.proc[p].syscall_result = 0, !.proc[p].seltime = Forever]
  ELSE RegisterAll([w EXCEPT !.proc[p].syscall_result = EAGAIN], p, fds)

SelectWaits(w, p, fds, timeout) ==
  LET began == IF w.proc[p].seltime = Forever THEN clock ELSE w.proc[p].seltime
      again == [w EXCEPT !.proc[p].syscall_result = EAGAIN]
  IN  IF timeout = Forever THEN RegisterAll(again, p, fds)
      ELSE IF clock >= began + timeout
      THEN [w EXCEPT !.proc[p].syscall_result = 0, !.proc[p].seltime = Forever]
      ELSE RegisterAll(pfs_poll_wakein([again EXCEPT !.proc[p].seltime = began], p,
                                       began + timeout - clock), p, fds)

pfs_select(w, p, fds, timeout) ==
  LET live == fds \cap w.open
      hit == live \cap ready
  IN  IF hit # {} THEN SelectReady(w, p, hit) ELSE SelectWaits(w, p, live, timeout)

---------------------------------------------------------------------------
(* decode_syscall and pfs_dispatch64 for these calls.                      *)

Continued(w, p) ==
  [w EXCEPT !.at[p] = CASE @ = "entry" -> "incall"
                        [] @ = "exit" -> "user"
                        [] OTHER -> @]

(* The call could not be answered: the process waits, unless a signal      *)
(* interrupts it.                                                          *)
WaitOrInterrupt(w, p) ==
  IF w.proc[p].syscall_result # EAGAIN THEN w
  ELSE IF w.proc[p].interrupted
  THEN [w EXCEPT !.proc[p].interrupted = FALSE, !.proc[p].syscall_result = EINTR]
  ELSE [w EXCEPT !.proc[p].state = "WAITREAD"]

EnterWaitCall(w, p) ==
  LET in == [w EXCEPT !.proc[p].state = "KERNEL"]
  IN  CASE waitcall[p].op = "select" ->
             WaitOrInterrupt(pfs_select(in, p, waitcall[p].fds, waitcall[p].timeout), p)
        [] waitcall[p].op = "close" ->
             [in EXCEPT !.open = @ \ waitcall[p].fds, !.proc[p].syscall_result = 0]

pfs_dispatch_wait(w, p) ==
  LET after == CASE w.proc[p].state = "USER" ->
                      EnterWaitCall([w EXCEPT !.proc[p].interrupted = FALSE], p)
                 [] w.proc[p].state = "WAITREAD" -> EnterWaitCall(w, p)
                 [] w.proc[p].state = "KERNEL" -> [w EXCEPT !.proc[p].state = "USER"]
  IN  IF after.proc[p].state \in {"KERNEL", "USER"} THEN Continued(after, p) ELSE after

pfs_process_wake(w, p) == IF w.proc[p].state = "WAITREAD" THEN pfs_dispatch_wait(w, p) ELSE w

---------------------------------------------------------------------------
(* The main loop.                                                          *)

CollectStop(p) ==
  /\ pc = "events" /\ ~fatal
  /\ p \in uncollected
  /\ PsInstall(pfs_dispatch_wait(PsWorld, p))
  /\ uncollected' = uncollected \ {p}
  /\ since' = [since EXCEPT ![p].stop = 0]
  /\ raced' = raced \ {p}
  /\ UNCHANGED <<aborted, pc, deadline, scan, ready, clock, sigchld, waitcall, left, psset>>

(* A signal that another process sends to one that waits, where its        *)
(* handler has no SA_RESTART: pfs_process_raise.                           *)
Interrupt(p) ==
  /\ "signals" \in psset.faults /\ left.traffic > 0
  /\ pc = "events" /\ ~fatal
  /\ proc[p].state = "WAITREAD"
  /\ PsInstall(pfs_dispatch_wait([PsWorld EXCEPT !.proc[p].interrupted = TRUE], p))
  /\ left' = [left EXCEPT !.traffic = @ - 1]
  /\ UNCHANGED <<psLoop, ready, clock, uncollected, sigchld, waitcall, since, psset>>

(* The earliest stop time, but not after POLL_TIME_MAX seconds, and how    *)
(* long it is until then.                                                  *)
SleepTime_unbounded ==
  LET stops == {sleep_table[i].stoptime : i \in DOMAIN sleep_table \ FreeSlots(sleep_table)}
      stop == IF stops = {} THEN Timeval(MaxTime)
              ELSE CHOOSE s \in stops : \A t \in stops : ~timercmp(s, t)
  IN  Ticks(stop) - clock

SleepTime ==
  LET bound == Timeval(clock + POLL_TIME_MAX * Second)
      stops == {bound} \cup {sleep_table[i].stoptime :
                               i \in DOMAIN sleep_table \ FreeSlots(sleep_table)}
      stop == CHOOSE s \in stops : \A t \in stops : ~timercmp(s, t)
  IN  Ticks(stop) - clock

(* wait4 finds nothing more: pfs_poll_sleep up to CRITICAL_END.            *)
PrepareSleep ==
  /\ pc = "events" /\ ~fatal
  /\ uncollected = {}
  /\ aborted' = FALSE
  /\ deadline' = Max({SleepTime, 0})
  /\ raced' = {}
  /\ pc' = "unmasked"
  /\ UNCHANGED <<tables, outside, scan>>

(* A pending SIGCHLD has been delivered as soon as it was unmasked.        *)
TestAbort ==
  /\ pc = "unmasked" /\ ~sigchld
  /\ deadline' = clock + (IF aborted THEN 0 ELSE deadline)
  /\ pc' = "enter"
  /\ UNCHANGED <<tables, outside, aborted, scan, raced>>

EnterSelect ==
  /\ pc = "enter" /\ ~sigchld
  /\ pc' = "select"
  /\ UNCHANGED <<tables, outside, aborted, deadline, scan, raced>>

(* The descriptors that select watches, those with something to read, and  *)
(* those that are not open any more.                                       *)
Polled == {poll_table[i].fd : i \in DOMAIN poll_table \ FreeSlots(poll_table)}
ReadyPolls == Polled \cap ready \cap open
BadPolls == Polled \ open

(* handle_sigchld.  Delivered in select, it ends the sleep.                *)
handle_sigchld ==
  /\ sigchld
  /\ pc \in {"unmasked", "enter", "select"}
  /\ pc = "select" => ReadyPolls \cup BadPolls = {}
  /\ aborted' = TRUE
  /\ sigchld' = FALSE
  /\ raced' = IF pc = "enter" THEN uncollected ELSE raced
  /\ pc' = IF pc = "select" THEN "events" ELSE pc
  /\ deadline' = IF pc = "select" THEN 0 ELSE deadline
  /\ UNCHANGED <<tables, scan, ready, clock, uncollected, waitcall, since, left, psset>>

(* What the loop after select has to look at: a kind, the next slot, and   *)
(* the descriptors that select reported.                                   *)
NoScan == [kind |-> "none", slot |-> 0, fds |-> {}]

(* select returns: EBADF, something is ready, or the time is over.  A      *)
(* SIGCHLD that came meanwhile is delivered before CRITICAL_BEGIN.         *)
SelectReturns ==
  /\ pc = "select"
  /\ \/ /\ BadPolls # {}
        /\ scan' = [kind |-> "polls", slot |-> 1, fds |-> Polled]
     \/ /\ BadPolls = {} /\ ReadyPolls # {}
        /\ scan' = [kind |-> "polls", slot |-> 1, fds |-> ReadyPolls]
     \/ /\ BadPolls \cup ReadyPolls = {}
        /\ clock >= deadline
        /\ scan' = [kind |-> "sleeps", slot |-> 1, fds |-> {}]
  /\ pc' = "scan"
  /\ deadline' = 0
  /\ aborted' = (aborted \/ sigchld)
  /\ sigchld' = FALSE
  /\ UNCHANGED <<tables, raced, ready, clock, uncollected, waitcall, since, left, psset>>

ScanTable == IF scan.kind = "polls" THEN poll_table ELSE sleep_table

(* The entry's descriptor was reported, or its time is over.               *)
Due_notYet(i) ==
  /\ ScanTable[i].pid # NoProc
  /\ IF scan.kind = "polls" THEN poll_table[i].fd \in scan.fds
     ELSE timercmp(sleep_table[i].stoptime, Timeval(clock))

Due(i) ==
  /\ ScanTable[i].pid # NoProc
  /\ IF scan.kind = "polls" THEN poll_table[i].fd \in scan.fds
     ELSE timercmp(Timeval(clock), sleep_table[i].stoptime)

(* The next process is taken out of both tables and woken; what it         *)
(* registers while it runs may be met later in the same pass.              *)
ScanStep ==
  LET later == {i \in DOMAIN ScanTable : i >= scan.slot /\ Due(i)}
  IN  /\ pc = "scan" /\ later # {} /\ ~fatal
      /\ LET p == ScanTable[Min(later)].pid
         IN  PsInstall(pfs_process_wake(pfs_poll_clear(PsWorld, p), p))
      /\ scan' = [scan EXCEPT !.slot = Min(later) + 1]
      /\ UNCHANGED <<outside, aborted, pc, deadline, raced>>

ScanEnd ==
  /\ pc = "scan" /\ ~fatal
  /\ \A i \in DOMAIN ScanTable : i >= scan.slot => ~Due(i)
  /\ pc' = "events"
  /\ scan' = NoScan
  /\ UNCHANGED <<tables, outside, aborted, deadline, raced>>

---------------------------------------------------------------------------
(* The traced processes, the files and the clock (external).               *)

Stop(p, place) ==
  /\ at' = [at EXCEPT ![p] = place]
  /\ uncollected' = uncollected \cup {p}
  /\ sigchld' = TRUE

(* Bound: a call with a timeout begins only while there is time left for   *)
(* it to end, even if its stop is collected late.                          *)
Slack == POLL_TIME_MAX * Second + 1

NoCall == [op |-> "none", fds |-> {}, timeout |-> Forever]

BeginsCall(p) ==
  /\ at[p] = "user" /\ left.calls > 0
  /\ \E op \in psset.ops, fds \in psset.sets, timeout \in psset.timeouts :
       /\ IF op = "close" THEN fds \subseteq open /\ timeout = Forever
          ELSE timeout # Forever => clock + timeout + Slack <= MaxTime
       /\ waitcall' = [waitcall EXCEPT ![p] = [op |-> op, fds |-> fds, timeout |-> timeout]]
  /\ Stop(p, "entry")
  /\ since' = [since EXCEPT ![p] = [stop |-> clock, call |-> clock]]
  /\ left' = [left EXCEPT !.calls = @ - 1]
  /\ UNCHANGED <<poll_table, sleep_table, fatal, proc, open, psLoop, ready, clock, psset>>

KernelAnswers(p) ==
  /\ at[p] = "incall"
  /\ Stop(p, "exit")
  /\ since' = [since EXCEPT ![p] = [stop |-> clock, call |-> 0]]
  /\ waitcall' = [waitcall EXCEPT ![p] = NoCall]
  /\ UNCHANGED <<poll_table, sleep_table, fatal, proc, open, psLoop, ready, clock, left,
                 psset>>

Arrives(f) ==
  /\ left.traffic > 0
  /\ f \notin ready
  /\ ready' = ready \cup {f}
  /\ left' = [left EXCEPT !.traffic = @ - 1]
  /\ UNCHANGED <<tables, psLoop, clock, uncollected, sigchld, waitcall, since, psset>>

(* A process reads what has arrived.                                       *)
Consumes(f) ==
  /\ f \in ready
  /\ \E p \in Procs : at[p] = "user"
  /\ ready' = ready \ {f}
  /\ UNCHANGED <<tables, psLoop, clock, uncollected, sigchld, waitcall, since, left, psset>>

(* Time passes while Murphy is asleep and nothing wakes it, or while it    *)
(* goes round the loop because a stop time is reached but not passed.      *)
Tick ==
  /\ clock < MaxTime
  /\ \/ /\ pc = "select" /\ clock < deadline
        /\ ~sigchld /\ ReadyPolls \cup BadPolls = {}
     \/ /\ pc = "events" /\ uncollected = {}
        /\ \E i \in DOMAIN sleep_table \ FreeSlots(sleep_table) :
             Ticks(sleep_table[i].stoptime) = clock
  /\ clock' = clock + 1
  /\ UNCHANGED <<tables, psLoop, ready, uncollected, sigchld, waitcall, since, left, psset>>

PsInit ==
  /\ psset \in PsSettings
  /\ poll_table = [i \in 1 .. PollMax |-> FreePoll]
  /\ sleep_table = [i \in 1 .. SleepMax |-> FreeSleep]
  /\ aborted = FALSE
  /\ fatal = FALSE
  /\ proc = [p \in Procs |-> [state |-> "USER", seltime |-> Forever, interrupted |-> FALSE,
                              syscall_result |-> 0]]
  /\ open = Fds
  /\ ready = {}
  /\ clock = 0
  /\ pc = "events"
  /\ deadline = 0
  /\ scan = NoScan
  /\ at = [p \in Procs |-> "user"]
  /\ uncollected = {}
  /\ sigchld = FALSE
  /\ waitcall = [p \in Procs |-> NoCall]
  /\ since = [p \in Procs |-> [stop |-> 0, call |-> 0]]
  /\ raced = {}
  /\ left = [calls |-> psset.calls, traffic |-> psset.traffic]

PsNext ==
  \/ \E p \in Procs : CollectStop(p) \/ Interrupt(p) \/ BeginsCall(p) \/ KernelAnswers(p)
  \/ PrepareSleep \/ TestAbort \/ EnterSelect \/ handle_sigchld
  \/ SelectReturns \/ ScanStep \/ ScanEnd
  \/ \E f \in Fds : Arrives(f) \/ Consumes(f)
  \/ Tick

PsSpec == PsInit /\ [][PsNext]_psVars

(* Murphy is one thread that goes on running (a signal handler runs in     *)
(* it); the kernel runs the calls; and time passes, although the loop may  *)
(* be elsewhere whenever it could.                                         *)
MurphyRuns ==
  \/ \E p \in Procs : CollectStop(p)
  \/ PrepareSleep \/ TestAbort \/ EnterSelect \/ handle_sigchld
  \/ SelectReturns \/ ScanStep \/ ScanEnd

Asleep == pc = "select" /\ ~sigchld /\ ReadyPolls \cup BadPolls = {} /\ clock < deadline

(* The first conjunct is weak fairness of MurphyRuns, which is disabled    *)
(* just when Murphy is asleep or has given up.                             *)
PsFairness ==
  /\ []<>(Asleep \/ fatal) \/ []<><<MurphyRuns>>_psVars
  /\ WF_psVars(\E p \in Procs : KernelAnswers(p))
  /\ SF_psVars(Tick)

PsFairSpec == PsSpec /\ PsFairness

---------------------------------------------------------------------------
(* Properties.                                                             *)

IsWaiting(p) == proc[p].state = "WAITREAD"
PollsOf(p) == {i \in DOMAIN poll_table : poll_table[i].pid = p}
SleepsOf(p) == {i \in DOMAIN sleep_table : sleep_table[i].pid = p}

(* The types of the variables.                                             *)
PollTypeOK ==
  /\ poll_table \in [1 .. PollMax -> [pid : Procs \cup {NoProc}, fd : Fds \cup {0}]]
  /\ \A i \in 1 .. SleepMax : sleep_table[i].stoptime.usec \in 0 .. Second
  /\ \A p \in Procs :
       /\ proc[p].state \in {"USER", "KERNEL", "WAITREAD"}
       /\ proc[p].seltime \in 0 .. MaxTime \cup {Forever}
       /\ proc[p].syscall_result \in {EINTR, EAGAIN} \cup 0 .. Cardinality(Fds)
  /\ pc \in {"events", "unmasked", "enter", "select", "scan"}
  /\ clock \in 0 .. MaxTime
  /\ at \in [Procs -> {"user", "entry", "incall", "exit"}]

(* A process that waits in select or poll is registered for every          *)
(* descriptor it asked for that is open, and with its stop time if it gave *)
(* a timeout: whatever woke it before, it cannot be forgotten.             *)
WaiterIsRegistered ==
  \A p \in Procs : IsWaiting(p) /\ ~fatal =>
    /\ waitcall[p].fds \cap open \subseteq {poll_table[i].fd : i \in PollsOf(p)}
    /\ waitcall[p].timeout # Forever =>
         \E i \in SleepsOf(p) :
           Ticks(sleep_table[i].stoptime) = proc[p].seltime + waitcall[p].timeout

(* A process has at most one entry for each descriptor and one stop time,  *)
(* and none when it does not wait, so the tables cannot run full before    *)
(* there are as many waiting processes as entries.  (Not so with signals:  *)
(* an interrupted call leaves its entries behind.)                         *)
EntriesOnlyForWaiters ==
  "signals" \notin psset.faults =>
    /\ ~fatal
    /\ \A p \in Procs :
         /\ Cardinality(PollsOf(p)) <= Cardinality({poll_table[i].fd : i \in PollsOf(p)})
         /\ Cardinality(SleepsOf(p)) <= 1
         /\ PollsOf(p) \cup SleepsOf(p) # {} => IsWaiting(p)

(* "If result is zero, then we timed out": a select or poll that returns   *)
(* zero has waited for as long as it was told to.                          *)
TimeoutIsOver ==
  \A p \in Procs :
    /\ at[p] = "incall" /\ proc[p].syscall_result = 0 /\ waitcall[p].op # "close"
    => waitcall[p].timeout # Forever /\ clock - since[p].call >= waitcall[p].timeout

(* A call that reports that its time is over has waited that long.  (Not   *)
(* so with signals: see TimeoutIsOver.)                                    *)
TimeoutHasPassed ==
  "signals" \notin psset.faults => TimeoutIsOver

(* A stop is collected at once unless its SIGCHLD fell between the test of *)
(* poll_abort_now and select; then it is collected when POLL_TIME_MAX is   *)
(* over, which is what the comment on the race promises.                   *)
StopCollectedInTime ==
  \A p \in uncollected :
    clock - since[p].stop <= IF p \in raced THEN POLL_TIME_MAX * Second ELSE 0

(* Both tables are sound: those that wait are in them, with all they wait  *)
(* for, and nobody else is.                                                *)
TablesSound == PollTypeOK /\ WaiterIsRegistered /\ EntriesOnlyForWaiters

(* The times are kept: of the calls that wait and of the stops that are to *)
(* be collected.                                                           *)
TimesKept == TimeoutHasPassed /\ StopCollectedInTime

(* A call with a timeout does return: no process waits in one for ever.    *)
TimedCallReturns ==
  \A p \in Procs : []<>(~IsWaiting(p) \/ waitcall[p].timeout = Forever)

(* A call does return when one of its descriptors stays readable.          *)
ReadyCallReturns ==
  \A p \in Procs, f \in Fds :
    []<>~(IsWaiting(p) /\ f \in waitcall[p].fds \cap open \cap ready)

(* No call waits for ever for what has come, be it time or data.           *)
CallsReturn == TimedCallReturns /\ ReadyCallReturns

============================================================================
