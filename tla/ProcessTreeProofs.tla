------------------------- MODULE ProcessTreeProofs -------------------------
(***************************************************************************)
(* The process table of ProcessTree is sound for any number of processes.  *)
(***************************************************************************)
EXTENDS ProcessTreeSteps, FiniteSetTheorems

USE Zenon

(* The laws of finite sets hold.                                           *)
LEMMA LawsHold == FiniteSetLaws
<1>1. SUFFICES ASSUME NEW S, IsFiniteSet(S)
      PROVE  /\ Cardinality(S) \in Nat
             /\ Cardinality(S) = 0 => S = {}
             /\ \A T \in SUBSET S : IsFiniteSet(T)
             /\ \A x : /\ IsFiniteSet(S \cup {x})
                       /\ x \notin S => Cardinality(S \cup {x}) = Cardinality(S) + 1
                       /\ x \in S => Cardinality(S \ {x}) = Cardinality(S) - 1
  BY DEF FiniteSetLaws
<1>2. Cardinality(S) \in Nat /\ (Cardinality(S) = 0 => S = {})
  BY <1>1, FS_CardinalityType, FS_EmptySet
<1>3. \A T \in SUBSET S : IsFiniteSet(T)
  BY <1>1, FS_Subset
<1>4. ASSUME NEW x
      PROVE  /\ IsFiniteSet(S \cup {x})
             /\ x \notin S => Cardinality(S \cup {x}) = Cardinality(S) + 1
  BY <1>1, FS_AddElement
<1>5. ASSUME NEW x
      PROVE  x \in S => Cardinality(S \ {x}) = Cardinality(S) - 1
  BY <1>1, FS_RemoveElement
<1> QED  BY <1>2, <1>3, <1>4, <1>5

---------------------------------------------------------------------------
(* The stop of a process is handled: the calls that shape the tree.        *)

(* A fork has returned the pid of its child.                               *)
LEMMA ForkedKeeps ==
  ASSUME Inv, Usual(setting), NEW p \in Pids, Handling(p), table[p].state = "KERNEL",
         kern[p] # "born", call[p].op \in Forks, ret[p] \in Pids,
         NEW w, w = Taken(p), NEW v \in pfs_dispatch(w, p), Install(v)
  PROVE  Inv'
<1>0. Typed /\ Calls /\ Forking
  BY DEF Inv
<1>1. /\ w \in WorldType
      /\ w.table = table /\ w.nprocs = nprocs /\ w.trace = trace_this_pid
      /\ w.kern = kern /\ w.events = events \ {p} /\ w.call = call /\ w.ret = ret
      /\ w.status = status /\ w.ustatus = ustatus /\ w.queued = queued
      /\ w.owed = owed /\ w.stopper = stopper /\ w.tostop = tostop
  BY <1>0, TakenHas
<1>2. /\ kern[p] = "exit" /\ p \in DOMAIN table /\ stopper = AnyPid
      /\ table[p] \in ProcessType
  BY HandlingHas DEF Handling
<1>3. call[p].op \in {"fork", "thread"} /\ call[p].real \in Forks
  <2>1. call[p].op \in setting.ops
    BY <1>0 DEF Calls, Forks
  <2>2. call[p].op # "stray_fork"
    BY <2>1 DEF Usual
  <2>3. call[p].real = call[p].op
    BY <1>0 DEF Calls, Forks, Waits
  <2> QED  BY <2>2, <2>3 DEF Forks
<1> DEFINE c == ret[p]
<1>4. c = ret[p] /\ c \in Pids /\ c = w.ret[p] /\ c \notin DOMAIN table /\ c # p
  BY <1>0, <1>1, <1>2, <1>3 DEF Forking, Begotten
<1> HIDE DEF c
<1>5. /\ v \in WorldType /\ v.stopper = AnyPid /\ v.trace = AnyPid
      /\ DOMAIN v.table = DOMAIN w.table \cup {w.ret[p]}
      /\ v.table[w.ret[p]] = Child(w, p) /\ v.table[p] = Released(w.table[p])
      /\ \A q \in DOMAIN w.table \ {p, w.ret[p]} : v.table[q] = w.table[q]
      /\ v.nprocs = w.nprocs + 1 /\ v.kern = [w.kern EXCEPT ![p] = Resumed(w.kern[p])]
      /\ v.ret = [w.ret EXCEPT ![p] = Answer(w, p)]
      /\ v.events = w.events /\ v.call = w.call /\ v.status = w.status
      /\ v.ustatus = w.ustatus /\ v.queued = w.queued /\ v.owed = w.owed
      /\ v.tostop = w.tostop
  <2>1. /\ w \in WorldType /\ p \in DOMAIN w.table /\ w.stopper = AnyPid
        /\ w.table[p].state = "KERNEL" /\ w.call[p].op \in {"fork", "thread"}
        /\ w.ret[p] \in Pids /\ w.ret[p] # p /\ AnyPid \notin Pids
    BY <1>1, <1>2, <1>3, <1>4, ConstantsAssumption
  <2>2. ChildEntered(w, v, p)
    BY <2>1, DispatchChild
  <2> QED  BY <2>2 DEF ChildEntered
<1> DEFINE e == Released(table[p])
           d == Child(w, p)
<1>6. /\ e.state = "USER" /\ e.ppid = table[p].ppid /\ e.tgid = table[p].tgid
      /\ e.interruptible = table[p].interruptible
  BY <1>2, ReleasedType
<1>7. /\ d.state = "USER" /\ d.interruptible = table[p].interruptible
      /\ call[p].op = "thread" => d.tgid = table[p].tgid
      /\ call[p].op # "thread" => d.tgid = c /\ d.ppid = p
  BY <1>1, <1>4 DEF Child, NewProcess
<1> HIDE DEF e, d
<1>8. /\ DOMAIN v.table = DOMAIN table \cup {c} /\ v.table[p] = e /\ v.table[c] = d
      /\ \A q \in DOMAIN table \ {p, c} : v.table[q] = table[q]
  BY <1>1, <1>4, <1>5 DEF e, d
<1>9. Typed'
  <2>1. IsFiniteSet(DOMAIN v.table)
    BY SMT, <1>0, <1>8, TypedHas, FS_AddElement
  <2> QED  BY <1>0, <1>5, <2>1, Installed DEF Handling, Typed
<1>10. /\ DOMAIN table' = DOMAIN table \cup {c} /\ table'[p] = e /\ table'[c] = d
       /\ \A q \in DOMAIN table \ {p, c} : table'[q] = table[q]
  BY <1>8 DEF Install
<1>11. /\ nprocs' = nprocs + 1 /\ trace_this_pid' = AnyPid /\ events' = events \ {p}
       /\ stopper' = stopper /\ call' = call /\ status' = status /\ ustatus' = ustatus
       /\ queued' = queued /\ owed' = owed /\ tostop' = tostop
  BY <1>1, <1>2, <1>5 DEF Install
<1>12. kern'[p] = "user" /\ \A q \in Pids \ {p} : kern'[q] = kern[q] /\ ret'[q] = ret[q]
  <2>1. kern \in KernType /\ ret \in RetType
    BY <1>0, TypedHas
  <2>2. kern' = [kern EXCEPT ![p] = "user"] /\ ret' = [ret EXCEPT ![p] = Answer(w, p)]
    BY <1>1, <1>2, <1>5 DEF Install, Resumed
  <2> QED  BY <2>1, <2>2 DEF KernType, RetType
<1>13. Enlists(p, c)
  BY <1>2, <1>3, <1>4, <1>6, <1>7, <1>10, <1>11, <1>12 DEF Enlists, Handling
<1> QED  BY <1>4, <1>9, <1>13, EnlistKeeps, LawsHold

(* wait4 has found no dead child.                                          *)
LEMMA UnansweredKeeps ==
  ASSUME Inv, NEW p \in Pids, Handling(p), table[p].state = "USER", kern[p] # "born",
         call[p].op \in Waits, NEW w, w = Taken(p), NEW v \in WorldType, Install(v),
         v.stopper = AnyPid, NEW e, Unanswered(w, v, p, e)
  PROVE  Inv'
<1>0. Typed /\ Calls
  BY DEF Inv
<1>1. /\ w.kern = kern /\ w.call = call /\ w.ret = ret /\ w.trace = trace_this_pid
      /\ w.table = table
  BY <1>0, TakenHas
<1>2. /\ Live(p) /\ p # stopper /\ kern[p] = "entry" /\ p \in DOMAIN table
      /\ ~(setting.faults = {} /\ trace_this_pid = p)
      /\ trace_this_pid \in {AnyPid, p} /\ stopper = AnyPid
  BY HandlingHas DEF Handling
<1> DEFINE k == IF e.state = "WAITPID" THEN w.kern[p] ELSE Resumed(w.kern[p])
           c == [w.call[p] EXCEPT !.real = "getpid"]
           r == w.ret[p]
           t == w.trace
<1>3. Turn(w, v, p, e, k, c, r, t) /\ r = ret[p] /\ t = trace_this_pid
  BY <1>1 DEF Unanswered
<1>4. /\ e.state \in {"WAITPID", "KERNEL"} /\ e.syscall_dummy /\ e.syscall_result \in Numbers
      /\ e.ppid = table[p].ppid /\ e.tgid = table[p].tgid
      /\ e.interruptible = table[p].interruptible
      /\ e.state = "WAITPID" => \A q \in DOMAIN table \ {p} :
           table[q].ppid = p /\ e.wait_pid \in {AnyPid, q} => table[q].state # "DONE"
  BY <1>1 DEF Unanswered
<1>5. (e.state = "WAITPID" /\ k = "entry") \/ (e.state = "KERNEL" /\ k = "incall")
  BY <1>1, <1>2, <1>4 DEF Resumed
<1>6. c.op = call[p].op /\ c.real = "getpid"
  <2>1. call[p] \in CallType
    BY <1>0, TypedHas DEF CallsType
  <2> QED  BY <1>1, <2>1 DEF CallType
<1> HIDE DEF k, c, r, t
<1>7. /\ Typed' /\ Beside(p) /\ table'[p] = e /\ kern'[p] = k /\ call'[p] = c
      /\ ret'[p] = r /\ trace_this_pid' = t /\ events' = events \ {p}
      /\ setting' = setting
  BY <1>0, <1>3, TurnInstalled
<1>8. call[p].op \in setting.ops \cup {"exit", "exit_group"}
  BY <1>0 DEF Calls
<1>9. e.syscall_result \notin Pids
  BY <1>4, ConstantsAssumption
<1>10. Moves(p)
  <2>1. ~Exiting(p) /\ ~Exiting(p)'
    BY <1>2, <1>6, <1>7 DEF Exiting
  <2> QED  BY <1>2, <1>3, <1>4, <1>5, <1>7, <2>1 DEF Moves
<1>11. Reaped(p, e.syscall_result)
  BY <1>9 DEF Reaped
<1>12. c.real \notin Forks
  BY <1>6 DEF Forks
<1>13. InOrder(p)
  <2>1. /\ table'[p].state = "USER" => kern'[p] = "user" \/ (kern'[p] = "entry" /\ p \in events')
        /\ table'[p].state = "KERNEL" => kern'[p] = "incall" \/ (kern'[p] = "exit" /\ p \in events')
    BY <1>4, <1>5, <1>7
  <2>2. table'[p].state = "WAITPID" =>
          /\ kern'[p] = "entry" /\ p \notin events'
          /\ call'[p].op \in Waits /\ table'[p].syscall_dummy
          /\ \A q \in DOMAIN table \ {p} :
               table[q].ppid = p /\ table'[p].wait_pid \in {AnyPid, q} => table[q].state # "DONE"
    BY <1>4, <1>5, <1>6, <1>7
  <2>3. ~(setting.faults = {} /\ trace_this_pid' = p) /\ call'[p].real \notin Forks
    BY <1>2, <1>3, <1>7, <1>12
  <2>4. /\ call'[p].op \in setting.ops \cup {"exit", "exit_group"}
        /\ call'[p].op \in Waits /\ call'[p].real = "getpid"
    BY <1>6, <1>7, <1>8
  <2>5. /\ kern'[p] # "user"
        /\ table'[p].syscall_dummy /\ Reaped(p, table'[p].syscall_result)
    BY <1>4, <1>5, <1>7, <1>11
  <2> QED  BY <2>1, <2>2, <2>3, <2>4, <2>5 DEF InOrder
<1> QED  BY <1>7, <1>10, <1>13, TurnKeeps

(* wait4 has found a dead child.                                           *)
LEMMA AnsweredKeeps ==
  ASSUME Inv, Usual(setting), NEW p \in Pids, Handling(p), table[p].state = "USER",
         kern[p] # "born", call[p].op \in Waits, NEW w, w = Taken(p),
         NEW v \in WorldType, Install(v), NEW c \in DOMAIN table \ {p}, NEW e,
         Answered(w, v, p, c, e)
  PROVE  Inv'
<1>0. Typed /\ Calls /\ Single /\ Parents /\ Created /\ CountsTheLiving
  BY DEF Inv
<1>1. /\ w.table = table /\ w.nprocs = nprocs /\ w.trace = trace_this_pid
      /\ w.kern = kern /\ w.events = events \ {p} /\ w.call = call /\ w.ret = ret
      /\ w.status = status /\ w.ustatus = ustatus /\ w.queued = queued
      /\ w.owed = owed /\ w.stopper = stopper /\ w.tostop = tostop
  BY <1>0, TakenHas
<1>2. kern[p] = "entry" /\ p \in DOMAIN table /\ stopper = AnyPid /\ c \in Pids
  BY <1>0, TypedHas, HandlingHas DEF Handling
<1>3. "thread" \notin setting.ops
  <2>1. call[p].op \in setting.ops
    BY <1>0 DEF Calls, Waits
  <2> QED  BY <2>1 DEF Usual
<1>4. /\ Reaps(w, v, p, c, e) /\ v.nprocs = nprocs
      /\ v.kern = [kern EXCEPT ![p] = "incall"]
      /\ v.call = [call EXCEPT ![p] = [call[p] EXCEPT !.real = "getpid"]]
      /\ v.ustatus = [ustatus EXCEPT ![p] = table[c].exit_status]
      /\ table[c].ppid = p /\ table[c].state = "DONE"
      /\ e.state = "KERNEL" /\ e.syscall_dummy /\ e.syscall_result = c
      /\ e.ppid = table[p].ppid /\ e.tgid = table[p].tgid
      /\ e.interruptible = table[p].interruptible
  BY <1>1, <1>2 DEF Answered, Resumed
<1>5. /\ DOMAIN v.table = DOMAIN table \ {c} /\ v.table[p] = e
      /\ \A q \in DOMAIN table \ {c, p} : v.table[q] = table[q]
      /\ v.events = events \ {p} /\ v.ret = ret /\ v.status = status
      /\ v.queued = queued /\ v.owed = owed /\ v.trace = trace_this_pid
      /\ v.stopper = stopper /\ v.tostop = tostop
  BY <1>1, <1>4 DEF Reaps
<1>6. Typed'
  <2>1. IsFiniteSet(DOMAIN v.table)
    BY <1>0, <1>5, TypedHas, FS_Subset
  <2> QED  BY <1>0, <2>1, Installed DEF Handling, Typed
<1>7. kern[c] = "gone" /\ table[c].exit_status = status[c] /\ c \notin events
  BY <1>0, <1>2, <1>3, <1>4 DEF Single, Created
<1>8. c # Root
  <2>1. SUFFICES ASSUME c = Root  PROVE FALSE
    OBVIOUS
  <2>2. p = Murphy
    BY SMT, <1>0, <1>4, <2>1 DEF Parents
  <2> QED  BY <2>2, ConstantsAssumption
<1>9. /\ DOMAIN table' = DOMAIN table \ {c} /\ table'[p] = e
      /\ \A q \in DOMAIN table \ {p, c} : table'[q] = table[q]
      /\ events' = events \ {p} /\ ret' = ret /\ status' = status
      /\ queued' = queued /\ owed' = owed /\ trace_this_pid' = trace_this_pid
      /\ stopper' = stopper /\ tostop' = tostop /\ nprocs' = nprocs
  BY <1>4, <1>5 DEF Install
<1>10. kern'[p] = "incall" /\ \A q \in Pids \ {p} : kern'[q] = kern[q]
  <2>1. kern' = [kern EXCEPT ![p] = "incall"] /\ kern \in KernType
    BY <1>0, <1>4, TypedHas DEF Install
  <2> QED  BY <2>1 DEF KernType
<1>11. /\ call'[p].op = call[p].op /\ call'[p].real = "getpid"
       /\ \A q \in Pids \ {p} : call'[q] = call[q]
  <2>1. /\ call' = [call EXCEPT ![p] = [call[p] EXCEPT !.real = "getpid"]]
        /\ call \in CallsType /\ call[p] \in CallType
    BY <1>0, <1>4, TypedHas DEF Install, CallsType
  <2> QED  BY <2>1 DEF CallsType, CallType
<1>12. ustatus'[p] = status[c] /\ \A q \in Pids \ {p} : ustatus'[q] = ustatus[q]
  <2>1. ustatus' = [ustatus EXCEPT ![p] = status[c]] /\ ustatus \in StatusType
    BY <1>0, <1>4, <1>7, TypedHas DEF Install
  <2> QED  BY <2>1 DEF StatusType
<1>13. kern'[c] = "gone" /\ kern[c] \in Dead /\ c # p
  BY <1>2, <1>7, <1>10 DEF Dead
<1>14. /\ p \notin events' /\ c \notin events'
       /\ \A q \in Pids \ {p, c} : kern'[q] = kern[q] /\ (q \in events' <=> q \in events)
  BY <1>7, <1>9, <1>10
<1>15. Takes(p, c)
  <2>1. /\ c \in DOMAIN table /\ p \in DOMAIN table \ {c} /\ c # Root
        /\ "thread" \notin setting.ops /\ stopper = AnyPid
        /\ kern[c] \in Dead /\ kern'[c] = "gone"
        /\ kern[p] = "entry" /\ kern'[p] = "incall" /\ p \notin events'
    BY <1>2, <1>3, <1>8, <1>10, <1>13, <1>14
  <2>2. /\ call[p].op \in Waits /\ call'[p].op = call[p].op
        /\ call'[p].real \in {call[p].op, "getpid"}
        /\ \A q \in Pids \ {p} : call'[q] = call[q] /\ ustatus'[q] = ustatus[q]
    BY <1>11, <1>12
  <2>3. /\ table'[p].state = "KERNEL" /\ table'[p].syscall_dummy /\ table'[p].syscall_result = c
        /\ table'[p].ppid = table[p].ppid /\ table'[p].tgid = table[p].tgid
        /\ table'[p].interruptible = table[p].interruptible
    BY <1>4, <1>9
  <2>4. UNCHANGED <<trace_this_pid, root_exitstatus, looping, stopper, tostop, ktgid, forker, ret,
                    status, queued, owed, setting>>
    BY <1>9 DEF Handling
  <2> QED  BY <1>9, <1>12, <1>14, <2>1, <2>2, <2>3, <2>4 DEF Takes
<1>16. CountsTheLiving'
  <2>1. {q \in DOMAIN table' : table'[q].state # "DONE"}
          = {q \in DOMAIN table : table[q].state # "DONE"}
    BY SMT, <1>2, <1>4, <1>9
  <2> QED  BY <1>0, <1>9, <2>1 DEF CountsTheLiving
<1> QED  BY <1>2, <1>6, <1>15, <1>16, TakeKeeps

(* A call is entered.                                                      *)
LEMMA EnteredKeeps ==
  ASSUME Inv, Usual(setting), NEW p \in Pids, Handling(p), table[p].state = "USER",
         kern[p] # "born", NEW w, w = Taken(p), NEW v \in pfs_dispatch(w, p), Install(v)
  PROVE  Inv'
<1>0. Typed /\ Calls /\ Single
  BY DEF Inv
<1>1. /\ w \in WorldType /\ w.table = table /\ w.trace = trace_this_pid
      /\ w.kern = kern /\ w.call = call /\ w.ret = ret /\ w.stopper = stopper
  BY <1>0, TakenHas
<1>2. /\ p \in DOMAIN table /\ stopper = AnyPid /\ table[p] \in ProcessType
      /\ setting \in Settings
  BY <1>0, TypedHas, HandlingHas DEF Handling
<1>3. AtEntry(w, p)
  BY <1>1, <1>2 DEF AtEntry
<1>4. call[p].op \in AllOps /\ call[p].op \in setting.ops \cup {"exit", "exit_group"}
  <2>1. call[p] \in CallType
    BY <1>0, TypedHas DEF CallsType
  <2> QED  BY <1>0, <2>1 DEF CallType, Calls
<1> DEFINE d == InKernel(table[p])
<1>5. /\ d \in ProcessType /\ d.state = "KERNEL"
      /\ d.ppid = table[p].ppid /\ d.tgid = table[p].tgid
      /\ d.interruptible = table[p].interruptible
  BY <1>2, InKernelType
<1>6. d = InKernel(w.table[p])
  BY <1>1
<1> HIDE DEF d
<1>7. CASE call[p].op \in Forks
  <2>1. "eagain" \notin setting.faults
    BY DEF Usual
  <2>2. /\ v \in WorldType /\ v.stopper = AnyPid
        /\ Turn(w, v, p, d, Resumed(w.kern[p]), w.call[p], w.ret[p], p)
    BY <1>1, <1>3, <1>6, <1>7, <2>1, DispatchFork
  <2> QED  BY <1>5, <1>7, <2>2, EntryKeeps
<1>8. CASE call[p].op = "exit"
  <2>1. /\ v \in WorldType /\ v.stopper = AnyPid
        /\ Turn(w, v, p, d, Resumed(w.kern[p]), w.call[p], w.ret[p], trace_this_pid)
    BY <1>1, <1>3, <1>6, <1>8, DispatchExit
  <2> QED  BY <1>5, <1>8, <2>1, EntryKeeps
<1>9. CASE call[p].op = "sigaction"
  <2> DEFINE f == [d EXCEPT !.interruptible = TRUE]
  <2>1. f.state = "KERNEL" /\ f.ppid = table[p].ppid /\ f.tgid = table[p].tgid
    BY <1>5 DEF ProcessType
  <2>2. f = [InKernel(w.table[p]) EXCEPT !.interruptible = TRUE]
    BY <1>6
  <2> HIDE DEF f
  <2>3. /\ v \in WorldType /\ v.stopper = AnyPid
        /\ Turn(w, v, p, f, Resumed(w.kern[p]), w.call[p], w.ret[p], trace_this_pid)
    BY <1>1, <1>3, <1>9, <2>2, DispatchSigaction
  <2> QED  BY <1>9, <2>1, <2>3, EntryKeeps
<1>10. CASE call[p].op = "exit_group"
  BY <1>10, ExitGroupBeginKeeps
<1>11. CASE call[p].op \in Waits
  <2>1. call[p].op \in setting.ops
    BY <1>4, <1>11 DEF Waits
  <2>2. call[p].op \in {"wait", "wait_nohang"} /\ "thread" \notin setting.ops
    BY <1>11, <2>1 DEF Usual, Waits
  <2>3. \A c \in DOMAIN w.table : w.table[c].state = "DONE" => w.kern[c] \notin Stopped
    BY <1>0, <1>1, <2>2 DEF Single, Stopped
  <2>4. /\ v \in WorldType /\ v.stopper = AnyPid
        /\ \/ \E e \in ProcessType : Unanswered(w, v, p, e)
           \/ \E c \in DOMAIN w.table \ {p} : \E e \in ProcessType : Answered(w, v, p, c, e)
    BY <1>1, <1>3, <2>2, <2>3, DispatchWait
  <2>5. CASE \E e \in ProcessType : Unanswered(w, v, p, e)
    BY <1>11, <2>4, <2>5, UnansweredKeeps
  <2>6. CASE \E c \in DOMAIN table \ {p} : \E e \in ProcessType : Answered(w, v, p, c, e)
    BY <1>11, <2>4, <2>6, AnsweredKeeps
  <2> QED  BY <1>1, <2>4, <2>5, <2>6
<1> QED  BY <1>4, <1>7, <1>8, <1>9, <1>10, <1>11 DEF AllOps

LEMMA StoppedKeeps ==
  ASSUME Inv, Usual(setting), NEW p \in Pids, looping, stopper = AnyPid, Collectible(p),
         HandleStopped(p), UNCHANGED <<looping, ktgid, forker, ncalls, setting>>
  PROVE  Inv'
<1> DEFINE w == Taken(p)
<1>0. Typed /\ Outside
  BY DEF Inv
<1>1. w.table = table /\ w = Taken(p)
  BY <1>0, TakenHas
<1>2. /\ kern[p] \in Stopped /\ p \in events /\ trace_this_pid \in {AnyPid, p}
      /\ root_exitstatus' = root_exitstatus
      /\ \E v \in CASE ~pfs_process_lookup(w, p) -> {kill9(w, p)}
                    [] pfs_process_lookup(w, p) /\ kern[p] = "born" -> {tracer_continue(w, p)}
                    [] OTHER -> pfs_dispatch(w, p) :
           Install(v)
  BY DEF HandleStopped, Taken, Collectible
<1>3. p \in DOMAIN table
  BY <1>0, <1>2, StoppedIsKnown
<1> HIDE DEF w
<1>4. \/ kern[p] = "born" /\ Install(tracer_continue(w, p))
      \/ kern[p] # "born" /\ \E v \in pfs_dispatch(w, p) : Install(v)
  BY <1>1, <1>2, <1>3 DEF pfs_process_lookup
<1>5. Handling(p)
  BY <1>2, <1>3 DEF Handling
<1>6. CASE kern[p] = "born" /\ Install(tracer_continue(w, p))
  BY <1>1, <1>5, <1>6, BornKeeps
<1>7. CASE kern[p] # "born" /\ \E v \in pfs_dispatch(w, p) : Install(v)
  <2>1. PICK v \in pfs_dispatch(w, p) : Install(v)
    BY <1>7
  <2>2. table[p].state \in {"USER", "KERNEL", "DONE"}
    BY <1>5, HandlingHas DEF ProcessType
  <2>3. CASE table[p].state = "USER"
    BY <1>1, <1>5, <1>7, <2>1, <2>3, EnteredKeeps
  <2>4. CASE table[p].state = "KERNEL" /\ call[p].op \in Forks /\ ret[p] \in Pids
    BY <1>1, <1>5, <1>7, <2>1, <2>4, ForkedKeeps
  <2>5. CASE table[p].state = "KERNEL" /\ ~(call[p].op \in Forks /\ ret[p] \in Pids)
    BY <1>1, <1>5, <1>7, <2>1, <2>5, ReturnedKeeps
  <2>6. CASE table[p].state = "DONE"
    BY <1>1, <1>5, <1>7, <2>1, <2>6, DoneKeeps
  <2> QED  BY <2>2, <2>3, <2>4, <2>5, <2>6
<1> QED  BY <1>4, <1>6, <1>7

---------------------------------------------------------------------------
(* The invariant holds.                                                    *)

LEMMA InvNext ==
  ASSUME Inv, Usual(setting), [Next]_vars
  PROVE  Inv' /\ Usual(setting)'
<1>1. setting' = setting
  BY DEF Next, vars, handle_event, exit_group_loop, LoopEnds, MakesCall, KernelRuns,
         DeliverSignal, Killed, Over, kernelVars
<1>2. ASSUME NEW p \in Pids, handle_event(p)  PROVE Inv'
  <2>1. looping /\ stopper = AnyPid /\ Collectible(p)
        /\ UNCHANGED <<looping, ktgid, forker, ncalls, setting>>
    BY <1>2 DEF handle_event
  <2>2. CASE HandleExited(p)
    BY <2>1, <2>2, ExitedKeeps, LawsHold
  <2>3. CASE HandleStopped(p)
    BY <2>1, <2>3, StoppedKeeps
  <2> QED  BY <1>2, <2>2, <2>3 DEF handle_event
<1>3. ASSUME exit_group_loop  PROVE Inv'
  BY <1>3, ExitGroupKeeps, LawsHold
<1>4. ASSUME LoopEnds  PROVE Inv'
  BY <1>4, ConstantsAssumption, QuietKeeps, LawsHold
<1>5. ASSUME NEW p \in Pids, MakesCall(p)  PROVE Inv'
  BY <1>5, CallKeeps
<1>6. ASSUME NEW p \in Pids, KernelRuns(p)  PROVE Inv'
  BY <1>6, RunKeeps
<1>7. ASSUME NEW p \in Pids, DeliverSignal(p)  PROVE Inv'
  BY <1>7, QuietKeeps, LawsHold
<1>8. ASSUME NEW p \in Pids, Killed(p)  PROVE Inv'
  BY <1>8, KillKeeps
<1>9. ASSUME Over \/ UNCHANGED vars  PROVE Inv'
  BY <1>9, Stutters DEF Over
<1>10. Inv'
  BY <1>2, <1>3, <1>4, <1>5, <1>6, <1>7, <1>8, <1>9 DEF Next
<1> QED  BY <1>1, <1>10 DEF Usual

LEMMA FirstEntry ==
  ASSUME NEW e, e = NewProcess(Murphy, Root, TRUE, FALSE)
  PROVE  /\ e \in ProcessType /\ e.state = "USER" /\ e.ppid = Murphy /\ e.tgid = Root
         /\ e.interruptible = FALSE
<1>1. Root \in Pids
  BY ConstantsAssumption
<1> QED  BY <1>1 DEF NewProcess, ProcessType, Numbers, Statuses

LEMMA InitTyped ==
  ASSUME Init
  PROVE  Typed
<1> DEFINE e == NewProcess(Murphy, Root, TRUE, FALSE)
<1>1. /\ Root \in Pids /\ setting \in Settings /\ setting.calls \in Nat
  BY ConstantsAssumption DEF Init
<1>2. e \in ProcessType
  BY FirstEntry
<1> HIDE DEF e
<1>3. table \in Tables
  <2>1. table \in [{Root} -> ProcessType]
    BY <1>2 DEF Init, e
  <2> QED  BY <1>1, <2>1, TableIs
<1>4. /\ nprocs \in Int /\ trace_this_pid \in Pids \cup {AnyPid} /\ events \in SUBSET Pids
      /\ queued \in SUBSET Pids /\ owed \in SUBSET Pids
      /\ stopper \in Pids \cup {AnyPid} /\ tostop \in SUBSET Pids
  BY SMT DEF Init
<1>5. kern \in KernType
  BY DEF Init, KernType, Places
<1>6. call \in CallsType
  BY DEF Init, CallsType, CallType, AllOps
<1>7. ret \in RetType /\ status \in StatusType /\ ustatus \in StatusType
  BY DEF Init, RetType, StatusType, Numbers, Statuses
<1>8. World \in WorldType
  BY <1>3, <1>4, <1>5, <1>6, <1>7 DEF World, WorldType
<1>9. root_exitstatus \in Statuses /\ looping \in BOOLEAN
  BY DEF Init, Statuses
<1>10. /\ ktgid \in [Pids -> Pids] /\ forker \in [Pids -> Pids \cup {Murphy}]
       /\ ncalls \in [Pids -> 0 .. setting.calls]
  BY SMT, <1>1 DEF Init
<1>11. IsFiniteSet(DOMAIN table)
  BY FS_Singleton DEF Init
<1> QED  BY <1>1, <1>8, <1>9, <1>10, <1>11 DEF Typed

LEMMA InvInit ==
  ASSUME Init
  PROVE  Inv
<1>1. /\ DOMAIN table = {Root} /\ table[Root].state = "USER" /\ table[Root].ppid = Murphy
      /\ table[Root].tgid = Root /\ table[Root].interruptible = FALSE
  BY FirstEntry DEF Init
<1>2. /\ Root \in Pids /\ AnyPid \notin Pids
  BY ConstantsAssumption
<1>3. /\ \A p \in Pids : kern[p] = IF p = Root THEN "user" ELSE "none"
      /\ \A p \in Pids : ktgid[p] = p
      /\ \A p \in Pids : forker[p] = Murphy
      /\ \A p \in Pids : call[p].op = "exit" /\ call[p].real = "exit"
  BY DEF Init
<1>4. /\ nprocs = 1 /\ trace_this_pid = AnyPid /\ looping = TRUE /\ stopper = AnyPid
      /\ tostop = {} /\ events = {} /\ queued = {} /\ owed = {}
  BY DEF Init
<1>5. Typed
  BY InitTyped
<1>6. Created
  BY <1>1, <1>3, <1>4 DEF Created, Waits
<1>7. Match
  BY <1>1, <1>2, <1>3 DEF Match
<1>8. Outside
  BY <1>1, <1>3 DEF Outside, Live
<1>9. Forking /\ Calls
  BY <1>3 DEF Forking, Calls
<1>10. Narrow /\ Loop
  BY <1>2, <1>4 DEF Narrow, Loop
<1>11. Alone
  BY <1>1 DEF Alone, Exiting
<1>12. Parents /\ Signals
  BY <1>1, <1>2, <1>3, <1>4 DEF Parents, Signals
<1>13. Single
  BY <1>1, <1>3, <1>4 DEF Single
<1>14. Truth /\ Waiting
  BY <1>1, <1>3 DEF Truth, Waiting, Waits
<1>15. Ending
  BY <1>2, <1>3, <1>4 DEF Ending
<1>16. CountsTheLiving
  <2>1. {p \in DOMAIN table : table[p].state # "DONE"} = {Root}
    BY <1>1
  <2> QED  BY <1>4, <2>1, FS_Singleton DEF CountsTheLiving
<1>17. NoMissedChild
  BY <1>1 DEF NoMissedChild
<1> QED  BY <1>5, <1>6, <1>7, <1>8, <1>9, <1>10, <1>11, <1>12, <1>13, <1>14, <1>15, <1>16, <1>17
            DEF Inv

(* The invariant, in every state of a behaviour whose setting is usual.    *)
LEMMA InvAlways ==
  ASSUME \A s \in Settings : Usual(s)
  PROVE  Spec => [](Inv /\ Usual(setting))
<1>1. Init => Inv /\ Usual(setting)
  BY InvInit DEF Init
<1>2. (Inv /\ Usual(setting)) /\ [Next]_vars => (Inv /\ Usual(setting))'
  BY InvNext
<1> QED  BY <1>1, <1>2, PTL DEF Spec

(* The process table stays sound: for any number of processes, forks,      *)
(* waits, signals, kills and threads and in every order of events, its     *)
(* entries match what the kernel does with the processes, nprocs counts    *)
(* the living, no child stops before handle_event knows of it, the parent  *)
(* in the table is the forker, and wait4 is narrowed to one pid only while *)
(* that process forks.  The hypothesis leaves out what breaks it: a fork   *)
(* whose stray argument bits are taken for clone flags, WUNTRACED, the     *)
(* eagain gremlin on fork, and threads whose process waits for children.   *)
THEOREM TableStaysSound ==
  ASSUME \A s \in Settings : Usual(s)
  PROVE  Spec => []TreeSound
<1>1. Inv => TreeSound
  BY InvTree, LawsHold
<1> QED  BY <1>1, InvAlways, PTL

(* No process blocks in the wait4 of pfs_process_waitpid while a child it  *)
(* waits for is dead, and no SIGCHLD sent by pfs_process_raise is lost.    *)
THEOREM NothingIsMissed ==
  ASSUME \A s \in Settings : Usual(s)
  PROVE  Spec => []NothingMissed
<1>1. Inv => NothingMissed
  BY InvRest
<1> QED  BY <1>1, InvAlways, PTL

(* The pid and the status that pfs_process_do_wake leaves for a wait4 are  *)
(* those of a process that is dead and died so.                            *)
THEOREM WaitIsTruthful ==
  ASSUME \A s \in Settings : Usual(s)
  PROVE  Spec => []WaitTellsTheTruth
<1>1. Inv => WaitTellsTheTruth
  BY InvRest
<1> QED  BY <1>1, InvAlways, PTL

(* Where nothing is refused or killed, the main loop ends only when no     *)
(* traced process is alive, and Murphy exits with the root's status.       *)
THEOREM LoopEndsLast ==
  ASSUME \A s \in Settings : Usual(s)
  PROVE  Spec => []EndsLast
<1>1. Inv => EndsLast
  BY InvRest
<1> QED  BY <1>1, InvAlways, PTL
============================================================================
