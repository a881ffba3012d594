---------------------------- MODULE ProcessTree ----------------------------
(***************************************************************************)
(* The process table (pfs_process.cc), the system calls that shape the     *)
(* process tree (fork, clone, wait4, exit, exit_group in                   *)
(* pfs_dispatch64.cc) and the event loop of pfs_main.cc that feeds them.   *)
(*                                                                         *)
(* Every traced process is a child of Murphy, who learns of its stops and  *)
(* of its death through wait4, one event at a time and in any order.  The  *)
(* table has to keep the parent/child relation the processes believe in,   *)
(* and Murphy answers their wait4 calls itself.                            *)
(*                                                                         *)
(* "kern" is where the kernel has a process:                               *)
(*   none    not created yet           entry   stopped at a call's entry   *)
(*   born    stopped, not yet run      incall  the call runs               *)
(*   user    runs its own code         exit    stopped at a call's exit    *)
(*   zombie  dead, not yet collected   gone    dead and collected          *)
(*   loose   detached: runs untraced                                       *)
(***************************************************************************)
EXTENDS Integers, FiniteSets

CONSTANTS
  Pids,      \* the process ids the kernel may hand out
  Root,      \* root_pid, the process murphy was asked to run
  Settings,  \* the settings considered: records [ops, faults, calls]
  AnyPid,    \* -1 as trace_this_pid, any value <= 0 as wait_pid
  Murphy     \* the pid of Murphy itself, the parent of the root

(* A "stray_fork" is a fork whose first argument register happens to hold  *)
(* the bits CLONE_PARENT or CLONE_THREAD: fork has no argument, so any     *)
(* value may be left there.  The waits are wait4 without options, with     *)
(* WUNTRACED and with WNOHANG.  Every program exits with code 1.           *)
Forks == {"fork", "stray_fork", "thread"}
Waits == {"wait", "wait_untraced", "wait_nohang"}
AllOps == Forks \cup Waits \cup {"exit", "exit_group", "sigaction"}

(* A setting says which calls the traced programs make besides exit_group, *)
(* how many calls a process makes at most before it exits (a bound), and   *)
(* what may go wrong.  "clone_fails": the kernel refuses a clone;          *)
(* "eagain": the eagain gremlin is on for fork and clone; "sigkill": one   *)
(* process may be killed from outside at any moment.                       *)
Numbers == {"0", "ECHILD", "EINTR", "EAGAIN"}

ASSUME ConstantsAssumption ==
  /\ Root \in Pids
  /\ AnyPid \notin Pids
  /\ Murphy \notin Pids
  /\ Pids \cap Numbers = {}
  /\ Settings # {}
  /\ \A s \in Settings : /\ s.ops \subseteq AllOps
                        /\ s.faults \subseteq {"clone_fails", "eagain", "sigkill"}
                        /\ s.calls \in Nat

VARIABLES
  table,            \* pfs_process_table: pid -> struct pfs_process
  nprocs,           \* nprocs
  trace_this_pid,   \* the pid the main loop waits for
  root_exitstatus,  \* how the root ended
  looping,          \* the main loop has not ended
  stopper,          \* the process whose exit_group is being handled
  tostop,           \* the threads that its loop has not come to yet
  kern,             \* see above
  ktgid,            \* the thread group of a pid, as the kernel has it
  forker,           \* the process that created a pid
  events,           \* pids with an event that wait4 has not returned yet
  call,             \* the call a process makes: operation, argument and
                    \* the call the kernel will really run
  ret,              \* the result register of a process
  status,           \* how a dead process died
  ustatus,          \* the status a process got from its last wait4
  queued,           \* pids with a SIGCHLD pending in the kernel
  owed,             \* pids that were sent a SIGCHLD and have not had it
  ncalls,           \* calls a process has made (bounded by the setting)
  setting           \* the setting of this run; it never changes

murphyVars == <<table, nprocs, trace_this_pid, root_exitstatus, looping, stopper, tostop>>
kernelVars == <<kern, ktgid, forker, events, call, ret, status, ustatus, queued, owed, ncalls, setting>>
vars == <<table, nprocs, trace_this_pid, root_exitstatus, looping, stopper, tostop,
          kern, ktgid, forker, events, call, ret, status, ustatus, queued, owed, ncalls, setting>>

Dead == {"zombie", "gone"}
Stopped == {"born", "entry", "exit"}
Live(p) == kern[p] \notin Dead \cup {"none"}
Group(p) == {q \in Pids : ktgid[q] = ktgid[p]}

---------------------------------------------------------------------------
(* A handler is an operator from the state it may change to another.       *)

World == [table |-> table, nprocs |-> nprocs, trace |-> trace_this_pid,
          kern |-> kern, events |-> events, call |-> call, ret |-> ret,
          status |-> status, ustatus |-> ustatus, queued |-> queued, owed |-> owed,
          stopper |-> stopper, tostop |-> tostop]

Install(w) ==
  /\ table' = w.table
  /\ nprocs' = w.nprocs
  /\ trace_this_pid' = w.trace
  /\ kern' = w.kern
  /\ events' = w.events
  /\ call' = w.call
  /\ ret' = w.ret
  /\ status' = w.status
  /\ ustatus' = w.ustatus
  /\ queued' = w.queued
  /\ owed' = w.owed
  /\ stopper' = w.stopper
  /\ tostop' = w.tostop

pfs_process_lookup(w, p) == p \in DOMAIN w.table

(* A stopped process goes on; ptrace refuses one that is not stopped.      *)
Resumed(k) == CASE k \in {"exit", "born"} -> "user"
                [] k = "entry" -> "incall"
                [] OTHER -> k

tracer_continue(w, p) == [w EXCEPT !.kern[p] = Resumed(@)]

(* PTRACE_DETACH lets a stopped process run on its own.                    *)
tracer_detach(w, p) ==
  IF w.kern[p] \in Stopped
  THEN [w EXCEPT !.kern[p] = "loose", !.events = @ \ {p}]
  ELSE w

(* SIGKILL takes the whole thread group, stopped or not.                   *)
kill9(w, p) ==
  LET hit == {q \in Group(p) : w.kern[q] \notin Dead \cup {"none"}}
  IN  [w EXCEPT !.kern = [q \in Pids |-> IF q \in hit THEN "zombie" ELSE @[q]],
                !.status = [q \in Pids |-> IF q \in hit THEN "killed" ELSE @[q]],
                !.events = @ \cup hit]

---------------------------------------------------------------------------
(* pfs_process.cc.                                                         *)

NewProcess(ppid, tgid, exit_signal, interruptible) ==
  [state |-> "USER", ppid |-> ppid, tgid |-> tgid, exit_signal |-> exit_signal,
   interruptible |-> interruptible, syscall_dummy |-> FALSE, syscall_result |-> "0",
   exit_status |-> "exit0", wait_pid |-> AnyPid, wait_untraced |-> FALSE]

pfs_process_create_uncounted(w, pid, actual, notify, tgid, exit_signal) ==
  LET ppid == IF pfs_process_lookup(w, notify) THEN notify ELSE actual
  IN  [w EXCEPT !.table = [x \in DOMAIN @ \cup {pid} |->
                             IF x = pid
                             THEN NewProcess(ppid, tgid, exit_signal, FALSE)
                             ELSE @[x]]]

(* An entry under the same pid is replaced.  A notify parent that is not   *)
(* in the table is replaced by the actual one.                             *)
pfs_process_create(w, pid, actual, notify, tgid, exit_signal) ==
  LET ppid == IF pfs_process_lookup(w, notify) THEN notify ELSE actual
      interruptible == w.table[actual].interruptible
  IN  [w EXCEPT !.nprocs = @ + 1,
                !.table = [x \in DOMAIN @ \cup {pid} |->
                             IF x = pid
                             THEN NewProcess(ppid, tgid, exit_signal, interruptible)
                             ELSE @[x]]]

pfs_process_delete(w, p) ==
  tracer_detach([w EXCEPT !.table = [x \in DOMAIN @ \ {p} |-> @[x]]], p)

pfs_process_do_wake(w, parent, child) ==
  LET woken == [w EXCEPT !.table[parent].state = "KERNEL",
                         !.table[parent].syscall_result = child,
                         !.ustatus[parent] = w.table[child].exit_status]
  IN  IF w.table[child].state = "DONE"
      THEN pfs_process_delete(woken, child)
      ELSE [woken EXCEPT !.table[child].state = "USER"]

MayWake_anyState(w, parent, child) ==
  /\ w.table[child].ppid = parent
  /\ w.table[parent].state = "WAITPID"
  /\ w.table[parent].wait_pid \in {AnyPid, child}

(* The condition under which pfs_process_may_wake wakes the parent.  A     *)
(* child blocked in a wait of its own has the state of a stopped one.      *)
MayWake(w, parent, child) ==
  LET p == w.table[parent]
      c == w.table[child]
  IN  /\ c.ppid = parent
      /\ c.state = "DONE" \/ (c.state = "WAITPID" /\ p.wait_untraced)
      /\ p.state = "WAITPID"
      /\ p.wait_pid \in {AnyPid, child}

pfs_process_raise_never(w, p) == [w EXCEPT !.owed = @ \cup {p}]

(* pfs_process_raise(p, SIGCHLD, 1).  A process in WAITPID that the signal *)
(* may interrupt is given to pfs_dispatch, which leaves it as it is.       *)
pfs_process_raise(w, p) ==
  LET sent == [w EXCEPT !.owed = @ \cup {p}]
  IN  IF w.table[p].state = "WAITPID" /\ w.table[p].interruptible
      THEN sent
      ELSE [sent EXCEPT !.queued = @ \cup {p}]

Complete_noStatus(w, child, how) ==
  [w EXCEPT !.table[child].state = "DONE", !.nprocs = @ - 1]

(* The process is DONE and no longer counted.                              *)
Complete(w, child, how) ==
  [w EXCEPT !.table[child].state = "DONE", !.table[child].exit_status = how,
            !.nprocs = @ - 1]

(* Tell the parent: wake it, or send it the exit signal.                   *)
TellParent(w, child) ==
  LET parent == w.table[child].ppid
  IN  CASE ~pfs_process_lookup(w, parent) -> w
        [] pfs_process_lookup(w, parent) /\ MayWake(w, parent, child) ->
             tracer_continue(pfs_process_do_wake(w, parent, child), parent)
        [] OTHER ->
             IF w.table[child].exit_signal THEN pfs_process_raise(w, parent) ELSE w

pfs_process_stop_again(w, child, how) == TellParent(Complete(w, child, how), child)

pfs_process_stop_quiet(w, child, how) ==
  IF w.table[child].state = "DONE" THEN w ELSE Complete(w, child, how)

pfs_process_stop(w, child, how) ==
  IF w.table[child].state = "DONE" THEN w
  ELSE TellParent(Complete(w, child, how), child)

(* The loop of pfs_process_exit_group begins: the threads of the group are *)
(* stopped, with status 0, in the order the hash table holds them, while   *)
(* the processes run on.                                                   *)
pfs_process_exit_group(w, p) ==
  LET threads == {q \in DOMAIN w.table \ {p} : w.table[q].tgid = w.table[p].tgid}
  IN  [w EXCEPT !.stopper = p, !.tostop = threads]

pfs_process_waitpid_blind(w, p, wait_pid, op) ==
  LET waiting == [w EXCEPT !.table[p].state = "WAITPID",
                           !.table[p].wait_pid = wait_pid,
                           !.table[p].wait_untraced = (op = "wait_untraced"),
                           !.table[p].syscall_result = "EINTR"]
      children == {c \in DOMAIN w.table : w.table[c].ppid = p}
      back(result) == [waiting EXCEPT !.table[p].state = "KERNEL",
                                      !.table[p].syscall_result = result]
  IN  {CASE children = {} -> back("ECHILD")
         [] children # {} /\ op = "wait_nohang" -> back("0")
         [] OTHER -> waiting}

(* The worlds pfs_process_waitpid may end in: the first child in the order *)
(* of the hash table that lets the parent go on.                           *)
pfs_process_waitpid(w, p, wait_pid, op) ==
  LET waiting == [w EXCEPT !.table[p].state = "WAITPID",
                           !.table[p].wait_pid = wait_pid,
                           !.table[p].wait_untraced = (op = "wait_untraced"),
                           !.table[p].syscall_result = "EINTR"]
      children == {c \in DOMAIN w.table : w.table[c].ppid = p}
      ready == {c \in children : MayWake(waiting, p, c)}
      back(result) == [waiting EXCEPT !.table[p].state = "KERNEL",
                                      !.table[p].syscall_result = result]
  IN  IF ready # {}
      THEN {pfs_process_do_wake(waiting, p, c) : c \in ready}
      ELSE {CASE children = {} -> back("ECHILD")
              [] children # {} /\ op = "wait_nohang" -> back("0")
              [] OTHER -> waiting}

---------------------------------------------------------------------------
(* pfs_dispatch64.cc: the entry and the exit of the calls.                 *)

divert_to_dummy(w, p, result) ==
  [w EXCEPT !.table[p].syscall_dummy = TRUE,
            !.table[p].syscall_result = result,
            !.call[p].real = "getpid"]

EnterFork_anyPid(w, p) == {w}

(* The call becomes a clone, and only the forking process is waited for    *)
(* until its child is known.                                               *)
EnterFork(w, p) == {[w EXCEPT !.trace = p]}

EnterGremlin(w, p) == {divert_to_dummy(w, p, "EAGAIN")}

EnterWait(w, p) ==
  {divert_to_dummy(v, p, v.table[p].syscall_result) :
     v \in pfs_process_waitpid(w, p, w.call[p].arg, w.call[p].op)}

(* decode_syscall(p, 1).                                                   *)
EnterSyscall(w, p) ==
  LET in == [w EXCEPT !.table[p].state = "KERNEL", !.table[p].syscall_dummy = FALSE]
      op == w.call[p].op
  IN  CASE op \in Forks -> EnterFork(in, p) \cup
                           (IF "eagain" \in setting.faults THEN EnterGremlin(in, p) ELSE {})
        [] op \in Waits -> EnterWait(in, p)
        [] op = "exit_group" -> {pfs_process_exit_group(in, p)}
        [] op = "sigaction" -> {[in EXCEPT !.table[p].interruptible = TRUE]}
        [] OTHER -> {in}

ExitFork_stayNarrow(w, p) ==
  IF w.ret[p] \in Pids
  THEN pfs_process_create(w, w.ret[p], p, p, w.ret[p], TRUE)
  ELSE w

ExitFork_parentOfParent(w, p) ==
  IF w.ret[p] \in Pids
  THEN [pfs_process_create(w, w.ret[p], p, w.table[p].ppid, w.ret[p], TRUE)
          EXCEPT !.trace = AnyPid]
  ELSE w

(* A positive result of the call is taken for the pid of the child.        *)
ExitFork(w, p) ==
  LET child == w.ret[p]
      me == w.table[p]
      shared == w.call[p].op \in {"stray_fork", "thread"}
      notify == IF shared THEN me.ppid ELSE p
      tgid == IF shared THEN me.tgid ELSE child
      created == pfs_process_create(w, child, p, notify, tgid, w.call[p].op # "thread")
  IN  IF child \in Pids THEN [created EXCEPT !.trace = AnyPid] ELSE w

Epilogue_stayInKernel(w, p, me) ==
  [w EXCEPT !.ret[p] = IF me.syscall_dummy THEN me.syscall_result ELSE @]

(* The end of decode_syscall(p, 0).  "me" is the process record the call   *)
(* began with: the table may hold another one under the pid by now.        *)
Epilogue(w, p, me) ==
  [w EXCEPT !.table[p] = IF @.state = "KERNEL"
                         THEN [@ EXCEPT !.state = "USER", !.syscall_dummy = FALSE]
                         ELSE @,
            !.ret[p] = IF me.syscall_dummy THEN me.syscall_result ELSE @]

(* decode_syscall(p, 0).                                                   *)
ExitSyscall(w, p) ==
  LET out == IF w.call[p].op \in Forks THEN ExitFork(w, p) ELSE w
  IN  Epilogue(out, p, w.table[p])

(* The end of pfs_dispatch64, which the exit_group loop comes before.      *)
Proceed(w, p) ==
  IF w.stopper = AnyPid /\ w.table[p].state \in {"KERNEL", "USER"}
  THEN tracer_continue(w, p) ELSE w

(* pfs_dispatch64.                                                         *)
pfs_dispatch(w, p) ==
  LET after == CASE w.table[p].state = "USER" -> EnterSyscall(w, p)
                 [] w.table[p].state = "KERNEL" -> {ExitSyscall(w, p)}
                 [] OTHER -> {w}
  IN  {Proceed(v, p) : v \in after}

---------------------------------------------------------------------------
(* pfs_main.cc: the event loop.                                            *)

(* wait4(trace_this_pid) may return p.  The kernel keeps the death of a    *)
(* thread group's leader back until the other threads are gone.            *)
Collectible(p) ==
  /\ p \in events
  /\ trace_this_pid \in {AnyPid, p}
  /\ kern[p] = "zombie" /\ ktgid[p] = p => \A q \in Group(p) \ {p} : kern[q] \in {"none", "gone", "loose"}

(* wait4 fails with ECHILD.                                                *)
NoChild == \A p \in Pids : trace_this_pid \in {AnyPid, p} => kern[p] \in {"none", "gone", "loose"}

HandleExited_tableStatus(p) ==
  LET w == [World EXCEPT !.kern[p] = "gone", !.events = @ \ {p}]
      known == pfs_process_lookup(w, p)
      v == IF known THEN pfs_process_stop(w, p, status[p]) ELSE w
  IN  /\ kern[p] = "zombie"
      /\ Install(v)
      /\ root_exitstatus' = IF known /\ p = Root THEN v.table[p].exit_status
                            ELSE root_exitstatus

(* A death of a process that is not in the table is ignored.               *)
HandleExited(p) ==
  LET w == [World EXCEPT !.kern[p] = "gone", !.events = @ \ {p}]
      known == pfs_process_lookup(w, p)
  IN  /\ kern[p] = "zombie"
      /\ Install(IF known THEN pfs_process_stop(w, p, status[p]) ELSE w)
      /\ root_exitstatus' = IF known /\ p = Root THEN status[p] ELSE root_exitstatus

HandleStopped(p) ==
  LET w == [World EXCEPT !.events = @ \ {p}]
  IN  /\ kern[p] \in Stopped
      /\ \E v \in CASE ~pfs_process_lookup(w, p) -> {kill9(w, p)}
                    [] pfs_process_lookup(w, p) /\ kern[p] = "born" -> {tracer_continue(w, p)}
                    [] OTHER -> pfs_dispatch(w, p) :
            Install(v)
      /\ UNCHANGED root_exitstatus

handle_event(p) ==
  /\ looping
  /\ stopper = AnyPid
  /\ Collectible(p)
  /\ HandleExited(p) \/ HandleStopped(p)
  /\ UNCHANGED <<looping, ktgid, forker, ncalls, setting>>

(* One pass of the loop of pfs_process_exit_group, or what follows it.     *)
exit_group_loop ==
  /\ looping
  /\ stopper # AnyPid
  /\ \/ \E q \in tostop :
          Install([pfs_process_stop(World, q, "exit0") EXCEPT !.tostop = tostop \ {q}])
     \/ tostop = {} /\ Install(Proceed([World EXCEPT !.stopper = AnyPid], stopper))
  /\ UNCHANGED <<looping, root_exitstatus, ktgid, forker, ncalls, setting>>

(* The loop ends when the count is 0 and no event is left, or on ECHILD.   *)
LoopEnds ==
  /\ looping
  /\ stopper = AnyPid
  /\ \/ NoChild
     \/ nprocs <= 0 /\ trace_this_pid = AnyPid /\ \A p \in Pids : ~Collectible(p)
  /\ looping' = FALSE
  /\ UNCHANGED <<table, nprocs, trace_this_pid, root_exitstatus, stopper, tostop, kernelVars>>

---------------------------------------------------------------------------
(* The traced processes and the kernel (external).                         *)

(* The kernel still has a pid for one more fork (bounded by Pids).         *)
PidLeft ==
  Cardinality({q \in Pids : kern[q] = "none"}) >
    Cardinality({q \in Pids : kern[q] \in {"entry", "incall"} /\ call[q].op \in Forks})

(* A process makes its next call.  It waits for any child, or for one that *)
(* it has and that was not waited for yet.                                 *)
MakesCall(p) ==
  /\ kern[p] = "user"
  /\ \E op \in setting.ops \cup {"exit_group"}, arg \in Pids \cup {AnyPid} :
       /\ ncalls[p] < setting.calls \/ op = "exit_group"
       /\ op \in Forks => PidLeft
       /\ op \notin Waits => arg = AnyPid
       /\ arg \in Pids => arg \in DOMAIN table /\ table[arg].ppid = p
       /\ call' = [call EXCEPT ![p] = [op |-> op, arg |-> arg, real |-> op]]
  /\ kern' = [kern EXCEPT ![p] = "entry"]
  /\ events' = events \cup {p}
  /\ ncalls' = [ncalls EXCEPT ![p] = IF @ < setting.calls THEN @ + 1 ELSE @]
  /\ UNCHANGED <<murphyVars, ktgid, forker, ret, status, ustatus, queued, owed, setting>>

Returns(p, result) ==
  /\ kern' = [kern EXCEPT ![p] = "exit"]
  /\ events' = events \cup {p}
  /\ ret' = [ret EXCEPT ![p] = result]

RunsGetpid(p) ==
  /\ call[p].real \in {"getpid", "sigaction"}
  /\ Returns(p, IF call[p].real = "getpid" THEN ktgid[p] ELSE "0")
  /\ UNCHANGED <<ktgid, forker, status>>

RunsClone(p) ==
  /\ call[p].real \in Forks
  /\ \E c \in Pids :
       /\ kern[c] = "none"
       /\ kern' = [kern EXCEPT ![p] = "exit", ![c] = "born"]
       /\ events' = events \cup {p, c}
       /\ ret' = [ret EXCEPT ![p] = c]
       /\ forker' = [forker EXCEPT ![c] = p]
       /\ ktgid' = [ktgid EXCEPT ![c] = IF call[p].real = "thread" THEN ktgid[p] ELSE c]
  /\ UNCHANGED status

(* Out of pids, or refused for another reason.                             *)
RefusesClone(p) ==
  /\ call[p].real \in Forks
  /\ "clone_fails" \in setting.faults
  /\ Returns(p, "EAGAIN")
  /\ UNCHANGED <<ktgid, forker, status>>

RunsExit(p) ==
  LET dies == IF call[p].real = "exit" THEN {p} ELSE {q \in Group(p) : Live(q)}
  IN  /\ call[p].real \in {"exit", "exit_group"}
      /\ kern' = [q \in Pids |-> IF q \in dies THEN "zombie" ELSE kern[q]]
      /\ status' = [q \in Pids |-> IF q \in dies THEN "exit1" ELSE status[q]]
      /\ events' = events \cup dies
      /\ UNCHANGED <<ktgid, forker, ret>>

KernelRuns(p) ==
  /\ kern[p] = "incall"
  /\ RunsGetpid(p) \/ RunsClone(p) \/ RefusesClone(p) \/ RunsExit(p)
  /\ UNCHANGED <<murphyVars, call, ustatus, queued, owed, ncalls, setting>>

(* A pending SIGCHLD stops the process, and the main loop passes it on.    *)
DeliverSignal(p) ==
  /\ p \in queued
  /\ kern[p] = "user"
  /\ looping /\ stopper = AnyPid /\ trace_this_pid \in {AnyPid, p}
  /\ queued' = queued \ {p}
  /\ owed' = owed \ {p}
  /\ UNCHANGED <<murphyVars, kern, ktgid, forker, events, call, ret, status, ustatus,
                 ncalls, setting>>

(* Somebody kills the process from outside (bounded to one process).       *)
Killed(p) ==
  /\ "sigkill" \in setting.faults
  /\ \A q \in Pids : status[q] # "killed"
  /\ Live(p)
  /\ Install(kill9(World, p))
  /\ UNCHANGED <<looping, root_exitstatus, ktgid, forker, ncalls, setting>>

Init ==
  /\ table = [p \in {Root} |-> NewProcess(Murphy, Root, TRUE, FALSE)]
  /\ nprocs = 1
  /\ trace_this_pid = AnyPid
  /\ root_exitstatus = "none"
  /\ looping = TRUE
  /\ stopper = AnyPid
  /\ tostop = {}
  /\ kern = [p \in Pids |-> IF p = Root THEN "user" ELSE "none"]
  /\ ktgid = [p \in Pids |-> p]
  /\ forker = [p \in Pids |-> Murphy]
  /\ events = {}
  /\ call = [p \in Pids |-> [op |-> "exit", arg |-> AnyPid, real |-> "exit"]]
  /\ ret = [p \in Pids |-> "0"]
  /\ status = [p \in Pids |-> "none"]
  /\ ustatus = [p \in Pids |-> "none"]
  /\ queued = {}
  /\ owed = {}
  /\ ncalls = [p \in Pids |-> 0]
  /\ setting \in Settings

(* Everything is over: the loop ended and nobody makes calls any more.     *)
Over == ~looping /\ UNCHANGED vars

Next ==
  \/ \E p \in Pids : handle_event(p)
  \/ exit_group_loop
  \/ LoopEnds
  \/ \E p \in Pids : MakesCall(p)
  \/ \E p \in Pids : KernelRuns(p)
  \/ \E p \in Pids : DeliverSignal(p)
  \/ \E p \in Pids : Killed(p)
  \/ Over

Spec == Init /\ [][Next]_vars

(* The main loop handles every event it can see; the kernel runs calls and *)
(* delivers signals; the traced programs do not compute for ever.          *)
Fairness ==
  /\ \A p \in Pids : WF_vars(handle_event(p))
  /\ WF_vars(exit_group_loop)
  /\ WF_vars(LoopEnds)
  /\ \A p \in Pids : WF_vars(MakesCall(p)) /\ WF_vars(KernelRuns(p))
  /\ \A p \in Pids : WF_vars(DeliverSignal(p))

FairSpec == Spec /\ Fairness

---------------------------------------------------------------------------
(* Properties.                                                             *)

Statuses == {"none", "exit0", "exit1", "killed"}

ProcessType ==
  [state : {"USER", "KERNEL", "WAITPID", "DONE"}, ppid : Pids \cup {Murphy},
   tgid : Pids, exit_signal : BOOLEAN, interruptible : BOOLEAN,
   syscall_dummy : BOOLEAN, syscall_result : Pids \cup Numbers,
   exit_status : Statuses, wait_pid : Pids \cup {AnyPid}, wait_untraced : BOOLEAN]

(* The types of the variables.                                             *)
TypeOK ==
  /\ DOMAIN table \subseteq Pids
  /\ \A p \in DOMAIN table : table[p] \in ProcessType
  /\ nprocs \in Nat
  /\ trace_this_pid \in Pids \cup {AnyPid}
  /\ root_exitstatus \in Statuses
  /\ looping \in BOOLEAN
  /\ stopper \in Pids \cup {AnyPid}
  /\ tostop \in SUBSET Pids
  /\ kern \in [Pids -> {"none", "loose"} \cup {"user", "incall"} \cup Stopped \cup Dead]
  /\ ktgid \in [Pids -> Pids]
  /\ forker \in [Pids -> Pids \cup {Murphy}]
  /\ events \in SUBSET Pids
  /\ call \in [Pids -> [op : AllOps, arg : Pids \cup {AnyPid}, real : AllOps \cup {"getpid"}]]
  /\ ret \in [Pids -> Pids \cup Numbers]
  /\ status \in [Pids -> Statuses]
  /\ ustatus \in [Pids -> Statuses]
  /\ queued \in SUBSET Pids
  /\ owed \in SUBSET Pids
  /\ ncalls \in [Pids -> 0 .. setting.calls]

(* A thread group on its way out: a member called exit_group, or is dead.  *)
Leaving(p) ==
  \E q \in Group(p) : \/ kern[q] \in Dead
                      \/ kern[q] = "incall" /\ call[q].real = "exit_group"
                      \/ q = stopper

(* The state in the table is where the process is.  The ptrace stops carry *)
(* no mark of entry or exit, so decode_syscall goes by p->state alone, and *)
(* one missed or extra stop would have every later call taken backwards.   *)
StateMatchesKernel ==
  \A p \in DOMAIN table :
    LET at == <<kern[p], p \in events>>
    IN  Live(p) =>
          CASE table[p].state = "USER" -> at \in {<<"user", FALSE>>, <<"born", TRUE>>, <<"entry", TRUE>>}
            [] table[p].state = "KERNEL" ->
                 at \in {<<"incall", FALSE>>, <<"exit", TRUE>>} \/ (p = stopper /\ at = <<"entry", FALSE>>)
            [] table[p].state = "WAITPID" -> at = <<"entry", FALSE>>
            [] table[p].state = "DONE" -> Leaving(p)

(* nprocs, on which the main loop ends, counts the entries of the table    *)
(* that are not DONE, whichever way and however often a death is reported. *)
CountsTheLiving ==
  nprocs = Cardinality({p \in DOMAIN table : table[p].state # "DONE"})

(* Murphy kills nobody: handle_event sees no stop of a process that the    *)
(* table does not hold, because a child is entered into the table before   *)
(* any of its own events is collected.                                     *)
NoStranger ==
  \A p \in Pids :
    Collectible(p) /\ kern[p] \in Stopped => p \in DOMAIN table

(* No wake-up is lost: a process blocked in wait4 has no dead child that   *)
(* it waits for, in whatever order the call and the death were handled.    *)
NoMissedChild ==
  \A p, c \in DOMAIN table :
    /\ table[p].state = "WAITPID"
    /\ table[p].wait_pid \in {AnyPid, c}
    /\ table[c].ppid = p
    => table[c].state # "DONE"

(* A wait4 that returns a pid returns a process that has died (or, for a   *)
(* thread, one whose group is leaving), with the status that it died with. *)
WaitTellsTheTruth ==
  \A p \in Pids :
    kern[p] = "user" /\ call[p].op \in Waits /\ ret[p] \in Pids =>
      Leaving(ret[p]) /\ ustatus[p] = status[ret[p]]

(* Only a fork in progress narrows the main loop to one process: once the  *)
(* call is over any process is traced again.                               *)
NarrowOnlyInFork ==
  trace_this_pid \in Pids =>
    call[trace_this_pid].op \in Forks /\ kern[trace_this_pid] \in {"incall", "exit", "zombie"}

(* So it is as long as no fork is refused and nobody is killed inside one. *)
NarrowOnlyInGoodFork == setting.faults = {} => NarrowOnlyInFork

(* When the main loop ends no traced process is left alive, and Murphy's   *)
(* exit status is the root's; again unless a fork was refused or a process *)
(* was killed inside one: then the loop is left waiting for a pid that is  *)
(* gone, and ends on ECHILD.                                               *)
EndsLast ==
  setting.faults = {} /\ ~looping =>
    root_exitstatus = status[Root] /\ \A p \in Pids : ~Live(p)

(* The parent that is told of the death of a process, other than a thread, *)
(* is the one that forked it.                                              *)
ParentIsForker ==
  \A p \in DOMAIN table : ktgid[p] = p => table[p].ppid = forker[p]

(* When the traced programs end, so does Murphy: no order of forks, waits  *)
(* and deaths, by exit or by SIGKILL, leaves somebody blocked in wait4 or  *)
(* a count that never reaches 0.  (A refused fork may: the loop then stays *)
(* narrowed to a process that waits for another.)                          *)
Terminates == []<>("clone_fails" \in setting.faults \/ ~looping)

(* The table of processes is sound: typed, in step with the kernel, counted *)
(* right, of every child that can stop, with its forker as the parent, and *)
(* the main loop is narrowed only inside a fork.                           *)
TreeSound ==
  /\ TypeOK /\ StateMatchesKernel /\ CountsTheLiving /\ NoStranger
  /\ ParentIsForker /\ NarrowOnlyInGoodFork

(* A SIGCHLD that Murphy sends to a process is not lost: it is pending in  *)
(* the kernel until the process takes it.  (Not so once handlers without   *)
(* SA_RESTART are installed: see pfs_process_raise.)                       *)
NoSignalLost ==
  "sigaction" \notin setting.ops => \A p \in owed : Live(p) => p \in queued

(* Nothing that a process waits for is lost: neither the death of a child  *)
(* nor the signal that tells of it.                                        *)
NothingMissed == NoMissedChild /\ NoSignalLost
============================================================================
