----------------------- MODULE ProcessTreeInvariant -----------------------
(***************************************************************************)
(* The inductive invariant of ProcessTree, and that the kinds of step its  *)
(* handlers and its kernel take keep it.                                   *)
(***************************************************************************)
EXTENDS ProcessTree, TLAPS

USE Zenon

---------------------------------------------------------------------------
(* The types of the variables.                                             *)

Places == {"none", "loose"} \cup {"user", "incall"} \cup Stopped \cup Dead
KernType == [Pids -> Places]
CallType == [op : AllOps, arg : Pids \cup {AnyPid}, real : AllOps \cup {"getpid"}]
CallsType == [Pids -> CallType]
RetType == [Pids -> Pids \cup Numbers]
StatusType == [Pids -> Statuses]
Tables == UNION {[S -> ProcessType] : S \in SUBSET Pids}
WorldType ==
  [table : Tables, nprocs : Int, trace : Pids \cup {AnyPid}, kern : KernType,
   events : SUBSET Pids, call : CallsType, ret : RetType, status : StatusType,
   ustatus : StatusType, queued : SUBSET Pids, owed : SUBSET Pids,
   stopper : Pids \cup {AnyPid}, tostop : SUBSET Pids]

LEMMA TableHas ==
  ASSUME NEW t \in Tables
  PROVE  /\ DOMAIN t \subseteq Pids
         /\ t \in [DOMAIN t -> ProcessType]
         /\ \A p \in DOMAIN t : p \in Pids /\ t[p] \in ProcessType
<1>1. PICK S \in SUBSET Pids : t \in [S -> ProcessType]
  BY DEF Tables
<1> QED  BY <1>1

LEMMA TableIs ==
  ASSUME NEW S \in SUBSET Pids, NEW t \in [S -> ProcessType]
  PROVE  t \in Tables
  BY DEF Tables

LEMMA WorldHas ==
  ASSUME NEW w \in WorldType
  PROVE  /\ w.table \in Tables /\ w.nprocs \in Int /\ w.trace \in Pids \cup {AnyPid}
         /\ w.kern \in KernType /\ w.events \subseteq Pids /\ w.call \in CallsType
         /\ w.ret \in RetType /\ w.status \in StatusType /\ w.ustatus \in StatusType
         /\ w.queued \subseteq Pids /\ w.owed \subseteq Pids
         /\ w.stopper \in Pids \cup {AnyPid} /\ w.tostop \subseteq Pids
  BY DEF WorldType

(* What counting rests on: the laws of finite sets, which the module       *)
(* ProcessTreeProofs takes from the library; here they are a hypothesis of *)
(* the lemmas that count.                                                  *)
FiniteSetLaws ==
  \A S : IsFiniteSet(S) =>
    /\ Cardinality(S) \in Nat
    /\ Cardinality(S) = 0 => S = {}
    /\ \A T \in SUBSET S : IsFiniteSet(T)
    /\ \A x : /\ IsFiniteSet(S \cup {x})
              /\ x \notin S => Cardinality(S \cup {x}) = Cardinality(S) + 1
              /\ x \in S => Cardinality(S \ {x}) = Cardinality(S) - 1

LEMMA FiniteSubset ==
  ASSUME FiniteSetLaws, NEW S, IsFiniteSet(S), NEW T \in SUBSET S
  PROVE  IsFiniteSet(T)
  BY DEF FiniteSetLaws

LEMMA FiniteCount ==
  ASSUME FiniteSetLaws, NEW S, IsFiniteSet(S)
  PROVE  Cardinality(S) \in Nat /\ (Cardinality(S) = 0 => S = {})
  BY DEF FiniteSetLaws

LEMMA OneMoreElement ==
  ASSUME FiniteSetLaws, NEW S, IsFiniteSet(S), NEW x
  PROVE  IsFiniteSet(S \cup {x}) /\ (x \notin S => Cardinality(S \cup {x}) = Cardinality(S) + 1)
  BY DEF FiniteSetLaws

LEMMA OneElementLess ==
  ASSUME FiniteSetLaws, NEW S, IsFiniteSet(S), NEW x \in S
  PROVE  Cardinality(S \ {x}) = Cardinality(S) - 1
  BY DEF FiniteSetLaws


---------------------------------------------------------------------------
(* The inductive invariant.                                                *)

(* The settings it is about: no fork with bits of a clone in its register, *)
(* no wait4 that takes stopped children, no fork refused by a gremlin, and *)
(* not both threads and waits (see README, section 5).                     *)
Usual(s) ==
  /\ s.ops \cap {"stray_fork", "wait_untraced"} = {}
  /\ "eagain" \notin s.faults
  /\ "thread" \in s.ops => s.ops \cap Waits = {}

Typed ==
  /\ World \in WorldType
  /\ root_exitstatus \in Statuses /\ looping \in BOOLEAN
  /\ ktgid \in [Pids -> Pids] /\ forker \in [Pids -> Pids \cup {Murphy}]
  /\ setting \in Settings /\ ncalls \in [Pids -> 0 .. setting.calls]
  /\ IsFiniteSet(DOMAIN table)

(* What the kernel has of a process, whether the table has it or not.      *)
Created ==
  \A p \in Pids :
    /\ kern[p] \in {"none", "born"} => call[p].op \notin Waits
    /\ kern[p] = "none" => p \notin DOMAIN table /\ p \notin owed /\ ktgid[p] = p
    /\ ktgid[p] # p => kern[p] # "none" /\ kern[ktgid[p]] # "none"
    /\ kern[p] = "born" /\ ktgid[p] = p => \A q \in Pids : ktgid[q] = p => q = p
    /\ kern[p] # "loose"
    /\ kern[p] = "zombie" => p \in events
    /\ kern[p] \in {"none", "user", "incall", "gone"} => p \notin events

(* q has called exit_group and is on its way into it.                      *)
Exiting(q) ==
  /\ q \in DOMAIN table /\ table[q].state = "KERNEL" /\ call[q].real = "exit_group"
  /\ kern[q] = "incall" \/ (q = stopper /\ kern[q] = "entry")

(* StateMatchesKernel, with the reason for which a live process is DONE.   *)
Match ==
  \A p \in DOMAIN table :
    /\ kern[p] = "gone" => table[p].state = "DONE"
    /\ Live(p) =>
         /\ table[p].state = "USER" =>
              kern[p] = "user" \/ (kern[p] \in {"born", "entry"} /\ p \in events)
         /\ table[p].state = "KERNEL" =>
              \/ kern[p] = "incall" \/ (kern[p] = "exit" /\ p \in events)
              \/ p = stopper /\ kern[p] = "entry" /\ p \notin events
         /\ table[p].state = "WAITPID" => kern[p] = "entry" /\ p \notin events
         /\ table[p].state = "DONE" => \E q \in Pids : ktgid[q] = ktgid[p] /\ Exiting(q)

(* A live process that the table does not have yet was just created by the *)
(* one process that Murphy waits for.                                      *)
Newborn(p) ==
  LET f == forker[p]
  IN  /\ kern[p] = "born" /\ p \in events /\ f \in Pids /\ trace_this_pid = f /\ f # p
      /\ kern[f] \in Dead \/ (kern[f] = "exit" /\ call[f].real \in Forks /\ ret[f] = p)

Outside == \A p \in Pids : Live(p) /\ p \notin DOMAIN table => Newborn(p)

(* The child c that the clone of p has made.                               *)
Begotten(p, c) ==
  /\ c \notin DOMAIN table /\ c # p /\ kern[c] \in {"born", "zombie"}
  /\ c \in events /\ forker[c] = p
  /\ call[p].op = "thread" => ktgid[c] = ktgid[p] /\ ktgid[c] # c
  /\ call[p].op # "thread" => ktgid[c] = c

Forking ==
  \A p \in Pids : kern[p] \in {"incall", "exit"} /\ call[p].real \in Forks =>
     /\ trace_this_pid = p /\ p \in DOMAIN table /\ table[p].state = "KERNEL"
     /\ kern[p] = "exit" /\ ret[p] \in Pids => Begotten(p, ret[p])
     /\ kern[p] = "exit" /\ ret[p] \notin Pids => "clone_fails" \in setting.faults

Calls ==
  \A p \in Pids :
    /\ call[p].op \in setting.ops \cup {"exit", "exit_group"}
    /\ call[p].real = call[p].op \/ (call[p].op \in Waits /\ call[p].real = "getpid")

InFork(p) ==
  /\ p \in DOMAIN table /\ table[p].state = "KERNEL"
  /\ kern[p] \in {"incall", "exit"} /\ call[p].real \in Forks

Narrow == setting.faults = {} /\ trace_this_pid \in Pids => InFork(trace_this_pid)

(* The exit_group loop.                                                    *)
Loop ==
  /\ tostop # {} => stopper # AnyPid
  /\ stopper # AnyPid =>
       /\ stopper \in DOMAIN table /\ table[stopper].state = "KERNEL"
       /\ call[stopper].real = "exit_group"
       /\ \/ kern[stopper] = "entry"
          \/ kern[stopper] = "zombie" /\ \A r \in Pids : ktgid[r] = ktgid[stopper] => ~Live(r)
       /\ trace_this_pid \in {AnyPid, stopper}
       /\ \A q \in tostop : q \in DOMAIN table /\ q # stopper /\ ktgid[q] = ktgid[stopper]

(* Whoever calls exit_group has no other live thread but those that are    *)
(* DONE or will be.                                                        *)
Alone ==
  \A q, r \in Pids : Exiting(q) /\ ktgid[r] = ktgid[q] /\ r # q /\ Live(r) =>
    r \in DOMAIN table /\ (table[r].state = "DONE" \/ r \in tostop)

Parents ==
  /\ Root \in DOMAIN table /\ ktgid[Root] = Root /\ forker[Root] = Murphy
  /\ \A p \in DOMAIN table :
       table[p].tgid = ktgid[p] /\ (ktgid[p] = p => table[p].ppid = forker[p])

Signals ==
  "sigaction" \notin setting.ops =>
    /\ \A p \in DOMAIN table : ~table[p].interruptible
    /\ \A p \in owed : p \in queued \/ ~Live(p)

(* Without threads every group is of one, and only the collected are DONE. *)
Single ==
  "thread" \notin setting.ops =>
    /\ tostop = {} /\ \A p \in Pids : ktgid[p] = p
    /\ \A p \in DOMAIN table :
         table[p].state = "DONE" => kern[p] = "gone" /\ table[p].exit_status = status[p]

Reaped(p, c) == c \in Pids => kern[c] = "gone" /\ ustatus[p] = status[c]

Truth ==
  \A p \in Pids : call[p].op \in Waits =>
    /\ kern[p] = "user" => Reaped(p, ret[p])
    /\ p \in DOMAIN table =>
         /\ table[p].state = "WAITPID" => table[p].syscall_dummy
         /\ table[p].state = "KERNEL" =>
              table[p].syscall_dummy /\ Reaped(p, table[p].syscall_result)

Waiting == \A p \in DOMAIN table : table[p].state = "WAITPID" => call[p].op \in Waits

Ending ==
  /\ kern[Root] = "gone" => root_exitstatus = status[Root]
  /\ setting.faults = {} /\ ~looping => kern[Root] = "gone" /\ \A p \in Pids : ~Live(p)

Inv ==
  /\ Typed /\ Created /\ Match /\ Outside /\ Forking /\ Calls /\ Narrow /\ Loop /\ Alone
  /\ Parents /\ Signals /\ Single /\ Truth /\ Waiting /\ Ending
  /\ CountsTheLiving /\ NoMissedChild

LEMMA TypedHas ==
  ASSUME Typed
  PROVE  /\ table \in Tables /\ DOMAIN table \subseteq Pids
         /\ (\A p \in DOMAIN table : p \in Pids /\ table[p] \in ProcessType)
         /\ nprocs \in Int /\ trace_this_pid \in Pids \cup {AnyPid}
         /\ kern \in KernType /\ events \subseteq Pids /\ call \in CallsType
         /\ ret \in RetType /\ status \in StatusType /\ ustatus \in StatusType
         /\ queued \subseteq Pids /\ owed \subseteq Pids
         /\ stopper \in Pids \cup {AnyPid} /\ tostop \subseteq Pids
         /\ ktgid \in [Pids -> Pids] /\ forker \in [Pids -> Pids \cup {Murphy}]
         /\ setting \in Settings /\ IsFiniteSet(DOMAIN table)
<1>1. World \in WorldType
  BY DEF Typed
<1>2. /\ World.table \in Tables /\ World.nprocs \in Int /\ World.trace \in Pids \cup {AnyPid}
      /\ World.kern \in KernType /\ World.events \subseteq Pids /\ World.call \in CallsType
      /\ World.ret \in RetType /\ World.status \in StatusType /\ World.ustatus \in StatusType
      /\ World.queued \subseteq Pids /\ World.owed \subseteq Pids
      /\ World.stopper \in Pids \cup {AnyPid} /\ World.tostop \subseteq Pids
  BY <1>1, WorldHas
<1>3. /\ table \in Tables /\ nprocs \in Int /\ trace_this_pid \in Pids \cup {AnyPid}
      /\ kern \in KernType /\ events \subseteq Pids /\ call \in CallsType
      /\ ret \in RetType /\ status \in StatusType /\ ustatus \in StatusType
      /\ queued \subseteq Pids /\ owed \subseteq Pids
      /\ stopper \in Pids \cup {AnyPid} /\ tostop \subseteq Pids
  BY <1>2 DEF World
<1> QED  BY <1>3, TableHas DEF Typed

---------------------------------------------------------------------------
(* A step of one live process.                                             *)

(* Nothing changes of the processes other than p, ...                      *)
Beside(p) ==
  /\ DOMAIN table' = DOMAIN table
  /\ \A q \in DOMAIN table \ {p} : table'[q] = table[q]
  /\ \A q \in Pids \ {p} : /\ kern'[q] = kern[q] /\ call'[q] = call[q] /\ ret'[q] = ret[q]
                           /\ q \in events' <=> q \in events
  /\ ktgid' = ktgid /\ forker' = forker /\ status' = status /\ ustatus' = ustatus
  /\ queued' = queued /\ owed' = owed /\ nprocs' = nprocs /\ stopper' = stopper
  /\ tostop' = tostop /\ looping' = looping /\ root_exitstatus' = root_exitstatus
  /\ setting' = setting

(* ... p is live, not in a clone that has made a child, and not leaving,   *)
(* and keeps what others see of it, ...                                    *)
Moves(p) ==
  /\ p \in DOMAIN table /\ Live(p) /\ p # stopper /\ ~Exiting(p) /\ ~Exiting(p)'
  /\ kern'[p] \in {"user", "incall", "entry", "exit"}
  /\ kern'[p] \in {"user", "incall"} => p \notin events'
  /\ table'[p].ppid = table[p].ppid /\ table'[p].tgid = table[p].tgid
  /\ table[p].state = "DONE" => table'[p] = table[p]
  /\ table'[p].state = "DONE" => table[p].state = "DONE"
  /\ "sigaction" \notin setting.ops => table'[p].interruptible = table[p].interruptible
  /\ \/ trace_this_pid' = trace_this_pid
     \/ /\ trace_this_pid \in {AnyPid, p} /\ trace_this_pid' \in {AnyPid, p}
        /\ stopper = AnyPid
  /\ kern[p] = "exit" /\ call[p].real \in Forks => ret[p] \notin Pids

(* ... and is itself in order after the step.                              *)
InOrder(p) ==
  /\ table'[p].state = "USER" => kern'[p] = "user" \/ (kern'[p] = "entry" /\ p \in events')
  /\ table'[p].state = "KERNEL" => kern'[p] = "incall" \/ (kern'[p] = "exit" /\ p \in events')
  /\ table'[p].state = "WAITPID" =>
       /\ kern'[p] = "entry" /\ p \notin events'
       /\ call'[p].op \in Waits /\ table'[p].syscall_dummy
       /\ \A c \in DOMAIN table \ {p} :
            table[c].ppid = p /\ table'[p].wait_pid \in {AnyPid, c} => table[c].state # "DONE"
  /\ kern'[p] \in {"incall", "exit"} /\ call'[p].real \in Forks =>
       /\ trace_this_pid' = p /\ table'[p].state = "KERNEL"
       /\ kern'[p] = "exit" => ret'[p] \notin Pids /\ "clone_fails" \in setting.faults
  /\ call'[p].op \in setting.ops \cup {"exit", "exit_group"}
  /\ call'[p].real = call'[p].op \/ (call'[p].op \in Waits /\ call'[p].real = "getpid")
  /\ setting.faults = {} /\ trace_this_pid' = p =>
       table'[p].state = "KERNEL" /\ kern'[p] \in {"incall", "exit"} /\ call'[p].real \in Forks
  /\ call'[p].op \in Waits =>
       /\ kern'[p] = "user" => Reaped(p, ret'[p])
       /\ table'[p].state = "KERNEL" =>
            table'[p].syscall_dummy /\ Reaped(p, table'[p].syscall_result)

LEMMA TurnKeeps ==
  ASSUME Inv, NEW p \in Pids, Typed', Beside(p), Moves(p), InOrder(p)
  PROVE  Inv'
<1>0. /\ Typed /\ Created /\ Match /\ Outside /\ Forking /\ Calls /\ Narrow /\ Loop /\ Alone
      /\ Parents /\ Signals /\ Single /\ Truth /\ Waiting /\ Ending
      /\ CountsTheLiving /\ NoMissedChild
  BY DEF Inv
<1>1. /\ DOMAIN table' = DOMAIN table /\ p \in DOMAIN table
      /\ (\A q \in DOMAIN table \ {p} : table'[q] = table[q])
      /\ ktgid' = ktgid /\ forker' = forker /\ status' = status /\ ustatus' = ustatus
      /\ queued' = queued /\ owed' = owed /\ nprocs' = nprocs /\ stopper' = stopper
      /\ tostop' = tostop /\ looping' = looping /\ root_exitstatus' = root_exitstatus
      /\ setting' = setting
  BY DEF Beside, Moves
<1>2. \A q \in Pids \ {p} : /\ kern'[q] = kern[q] /\ call'[q] = call[q] /\ ret'[q] = ret[q]
                            /\ q \in events' <=> q \in events
  BY DEF Beside
<1>3. DOMAIN table \subseteq Pids /\ trace_this_pid \in Pids \cup {AnyPid}
      /\ owed \subseteq Pids /\ AnyPid \notin Pids /\ Root \in Pids
      /\ ktgid \in [Pids -> Pids] /\ stopper \in Pids \cup {AnyPid} /\ tostop \subseteq Pids
  BY <1>0, TypedHas, ConstantsAssumption
<1>4. Live(p) /\ Live(p)' /\ \A q \in Pids : Live(q)' <=> Live(q)
  BY <1>2 DEF Moves, Live, Dead
<1>5. \A q \in Pids : Exiting(q)' <=> Exiting(q)
  <2>1. \A q \in Pids \ {p} : Exiting(q)' <=> Exiting(q)
    BY <1>1, <1>2 DEF Exiting
  <2> QED  BY <2>1 DEF Moves
<1>6. kern'[p] \in {"user", "incall", "entry", "exit"} /\ kern[p] \notin Dead \cup {"none"}
  BY <1>4 DEF Moves, Live
<1>7. Created'
  BY SMT, <1>0, <1>1, <1>2, <1>3, <1>6 DEF Created, Moves
<1>8. Match'
  <2>1. \A q \in DOMAIN table : table'[q].state = "DONE" => table[q].state = "DONE"
    BY <1>1 DEF Moves
  <2>2. ASSUME NEW q \in DOMAIN table, q # p
        PROVE  /\ kern'[q] = "gone" => table'[q].state = "DONE"
               /\ Live(q)' =>
                    /\ table'[q].state = "USER" =>
                         kern'[q] = "user" \/ (kern'[q] \in {"born", "entry"} /\ q \in events')
                    /\ table'[q].state = "KERNEL" =>
                         \/ kern'[q] = "incall" \/ (kern'[q] = "exit" /\ q \in events')
                         \/ q = stopper' /\ kern'[q] = "entry" /\ q \notin events'
                    /\ table'[q].state = "WAITPID" => kern'[q] = "entry" /\ q \notin events'
    BY <1>0, <1>1, <1>2, <1>3, <1>4, <2>2 DEF Match
  <2>3. /\ kern'[p] # "gone"
        /\ table'[p].state = "USER" =>
             kern'[p] = "user" \/ (kern'[p] \in {"born", "entry"} /\ p \in events')
        /\ table'[p].state = "KERNEL" => kern'[p] = "incall" \/ (kern'[p] = "exit" /\ p \in events')
        /\ table'[p].state = "WAITPID" => kern'[p] = "entry" /\ p \notin events'
    BY <1>6 DEF InOrder
  <2>4. \A q \in DOMAIN table : Live(q)' /\ table'[q].state = "DONE" =>
          \E r \in Pids : ktgid'[r] = ktgid'[q] /\ Exiting(r)'
    BY <1>0, <1>1, <1>3, <1>4, <1>5, <2>1 DEF Match
  <2> QED  BY <1>1, <2>2, <2>3, <2>4 DEF Match
<1>9. Outside'
  <2>1. SUFFICES ASSUME NEW q \in Pids, Live(q)', q \notin DOMAIN table'
                 PROVE  Newborn(q)'
    BY DEF Outside
  <2>2. Live(q) /\ q \notin DOMAIN table /\ q # p
    BY <1>1, <1>4, <2>1
  <2>3. Newborn(q)
    BY <1>0, <2>2 DEF Outside
  <2>4. forker[q] # p
    BY <1>6, <2>2, <2>3 DEF Newborn, Moves
  <2> QED  BY <1>1, <1>2, <1>3, <2>2, <2>3, <2>4 DEF Newborn, Moves
<1>10. Forking'
  <2>1. SUFFICES ASSUME NEW q \in Pids, kern'[q] \in {"incall", "exit"}, call'[q].real \in Forks
                 PROVE  /\ trace_this_pid' = q /\ q \in DOMAIN table' /\ table'[q].state = "KERNEL"
                        /\ kern'[q] = "exit" /\ ret'[q] \in Pids => Begotten(q, ret[q])'
                        /\ kern'[q] = "exit" /\ ret'[q] \notin Pids => "clone_fails" \in setting'.faults
    BY DEF Forking
  <2>2. CASE q = p
    BY <1>1, <2>1, <2>2 DEF InOrder
  <2>3. CASE q # p
    <3>1. /\ trace_this_pid = q /\ q \in DOMAIN table /\ table[q].state = "KERNEL"
          /\ kern[q] = "exit" /\ ret[q] \in Pids => Begotten(q, ret[q])
          /\ kern[q] = "exit" /\ ret[q] \notin Pids => "clone_fails" \in setting.faults
      BY <1>0, <1>2, <2>1, <2>3 DEF Forking
    <3>2. trace_this_pid' = q
      BY <1>3, <2>3, <3>1 DEF Moves
    <3>3. ASSUME kern'[q] = "exit", ret'[q] \in Pids  PROVE Begotten(q, ret[q])'
      <4>1. Begotten(q, ret[q])
        BY <1>2, <2>3, <3>1, <3>3
      <4>2. ret[q] # p /\ ret'[q] = ret[q]
        BY <1>1, <1>2, <2>3, <4>1 DEF Begotten
      <4> QED  BY <1>1, <1>2, <2>3, <3>3, <4>1, <4>2 DEF Begotten
    <3> QED  BY <1>1, <1>2, <2>3, <3>1, <3>2, <3>3
  <2> QED  BY <2>2, <2>3
<1>11. Calls'
  BY <1>0, <1>1, <1>2 DEF Calls, InOrder
<1>12. Narrow'
  <2>1. SUFFICES ASSUME setting'.faults = {}, trace_this_pid' \in Pids
                 PROVE  InFork(trace_this_pid)'
    BY DEF Narrow
  <2>2. CASE trace_this_pid' = p
    BY <1>1, <2>1, <2>2 DEF InFork, InOrder
  <2>3. CASE trace_this_pid' # p
    <3>1. trace_this_pid' = trace_this_pid
      BY <1>3, <2>1, <2>3 DEF Moves
    <3> QED  BY <1>0, <1>1, <1>2, <2>1, <2>3, <3>1 DEF Narrow, InFork
  <2> QED  BY <2>2, <2>3
<1>13. Loop'
  <2>1. ASSUME stopper # AnyPid
        PROVE  stopper # p /\ trace_this_pid' = trace_this_pid
    BY <2>1 DEF Moves
  <2> QED  BY <1>0, <1>1, <1>2, <1>3, <1>4, <2>1 DEF Loop
<1>14. Alone'
  BY <1>0, <1>1, <1>3, <1>4, <1>5 DEF Alone, Moves
<1>15. Parents'
  BY <1>0, <1>1, <1>3 DEF Parents, Moves
<1>16. Signals'
  <2>1. "sigaction" \notin setting.ops =>
          \A q \in DOMAIN table : table'[q].interruptible = table[q].interruptible
    BY <1>1 DEF Moves
  <2> QED  BY <1>0, <1>1, <1>3, <1>4, <2>1 DEF Signals
<1>17. Single'
  <2>1. "thread" \notin setting.ops => table'[p].state # "DONE"
    BY <1>0, <1>1, <1>6 DEF Single, Moves, Dead
  <2> QED  BY <1>0, <1>1, <1>2, <1>3, <2>1 DEF Single
<1>18. Truth'
  <2>1. \A q, c : Reaped(q, c) => Reaped(q, c)'
    BY <1>1, <1>2, <1>6 DEF Reaped, Dead
  <2> QED  BY <1>0, <1>1, <1>2, <2>1 DEF Truth, InOrder
<1>19. Waiting'
  BY <1>0, <1>1, <1>2, <1>3 DEF Waiting, InOrder
<1>20. Ending'
  BY <1>0, <1>1, <1>2, <1>3, <1>4, <1>6 DEF Ending, Dead
<1>21. CountsTheLiving'
  <2>1. \A q \in DOMAIN table : table'[q].state = "DONE" <=> table[q].state = "DONE"
    BY <1>1 DEF Moves
  <2>2. {q \in DOMAIN table' : table'[q].state # "DONE"} = {q \in DOMAIN table : table[q].state # "DONE"}
    BY <1>1, <2>1
  <2> QED  BY <1>0, <1>1, <2>2 DEF CountsTheLiving
<1>22. NoMissedChild'
  <2>1. \A c \in DOMAIN table : table'[c].state = "DONE" => table[c].state = "DONE"
    BY <1>1 DEF Moves
  <2>2. \A c \in DOMAIN table : table'[c].ppid = table[c].ppid
    BY <1>1 DEF Moves
  <2> QED  BY SMT, <1>0, <1>1, <2>1, <2>2 DEF NoMissedChild, InOrder
<1> QED
  BY <1>7, <1>8, <1>9, <1>10, <1>11, <1>12, <1>13, <1>14, <1>15, <1>16, <1>17, <1>18, <1>19,
     <1>20, <1>21, <1>22 DEF Inv

---------------------------------------------------------------------------
(* The death of a process or of a thread group.                            *)

Dies(p, dies) ==
  /\ p \in dies /\ \A q \in dies : Live(q)
  /\ \/ dies = {p} /\ kern[p] = "incall" /\ call[p].real = "exit"
     \/ /\ \A q \in Pids : q \in dies <=> ktgid[q] = ktgid[p] /\ Live(q)
        /\ "sigkill" \in setting.faults \/ (kern[p] = "incall" /\ call[p].real = "exit_group")
  /\ \A q \in dies : kern'[q] = "zombie"
  /\ \A q \in Pids \ dies : kern'[q] = kern[q] /\ status'[q] = status[q]
  /\ events' = events \cup dies
  /\ UNCHANGED <<table, nprocs, trace_this_pid, root_exitstatus, looping, stopper, tostop,
                 ktgid, forker, call, ret, ustatus, queued, owed, setting>>

LEMMA DeathKeeps ==
  ASSUME Inv, NEW p \in Pids, Typed', NEW dies \in SUBSET Pids, Dies(p, dies)
  PROVE  Inv'
<1>0. /\ Typed /\ Created /\ Match /\ Outside /\ Forking /\ Calls /\ Narrow /\ Loop /\ Alone
      /\ Parents /\ Signals /\ Single /\ Truth /\ Waiting /\ Ending
      /\ CountsTheLiving /\ NoMissedChild
  BY DEF Inv
<1>1. /\ table' = table /\ nprocs' = nprocs /\ trace_this_pid' = trace_this_pid
      /\ root_exitstatus' = root_exitstatus /\ looping' = looping /\ stopper' = stopper
      /\ tostop' = tostop /\ ktgid' = ktgid /\ forker' = forker /\ call' = call /\ ret' = ret
      /\ ustatus' = ustatus /\ queued' = queued /\ owed' = owed /\ setting' = setting
      /\ events' = events \cup dies
  BY DEF Dies
<1>2. /\ \A q \in dies : kern'[q] = "zombie" /\ kern[q] \notin Dead \cup {"none"}
      /\ \A q \in Pids \ dies : kern'[q] = kern[q] /\ status'[q] = status[q]
  BY DEF Dies, Live
<1>3. DOMAIN table \subseteq Pids /\ trace_this_pid \in Pids \cup {AnyPid}
      /\ owed \subseteq Pids /\ AnyPid \notin Pids /\ Root \in Pids
      /\ ktgid \in [Pids -> Pids] /\ stopper \in Pids \cup {AnyPid} /\ tostop \subseteq Pids
  BY <1>0, TypedHas, ConstantsAssumption
<1>4. /\ \A q \in Pids : Live(q)' <=> Live(q) /\ q \notin dies
  BY <1>2 DEF Live, Dead
<1>5. p \in dies /\ Live(p)
  BY DEF Dies
<1>6. \A q \in Pids : Exiting(q)' <=> Exiting(q) /\ q \notin dies
  BY <1>1, <1>2 DEF Exiting
<1>7. \A q, r \in Pids : Live(q) /\ q \notin dies /\ ktgid[r] = ktgid[q] /\ Exiting(r) => r \notin dies
  BY <1>3 DEF Dies, Exiting
<1>8. Created'
  BY SMT, <1>0, <1>1, <1>2, <1>3 DEF Created, Dead
<1>9. Match'
  <2>1. ASSUME NEW q \in DOMAIN table
        PROVE  /\ kern'[q] = "gone" => table'[q].state = "DONE"
               /\ Live(q)' =>
                    /\ table'[q].state = "USER" =>
                         kern'[q] = "user" \/ (kern'[q] \in {"born", "entry"} /\ q \in events')
                    /\ table'[q].state = "KERNEL" =>
                         \/ kern'[q] = "incall" \/ (kern'[q] = "exit" /\ q \in events')
                         \/ q = stopper' /\ kern'[q] = "entry" /\ q \notin events'
                    /\ table'[q].state = "WAITPID" => kern'[q] = "entry" /\ q \notin events'
    BY <1>0, <1>1, <1>2, <1>3, <1>4 DEF Match
  <2>2. \A q \in DOMAIN table : Live(q)' /\ table'[q].state = "DONE" =>
          \E r \in Pids : ktgid'[r] = ktgid'[q] /\ Exiting(r)'
    BY <1>0, <1>1, <1>3, <1>4, <1>6, <1>7 DEF Match
  <2> QED  BY <1>1, <2>1, <2>2 DEF Match
<1>10. Outside'
  BY <1>0, <1>1, <1>2, <1>3, <1>4 DEF Outside, Newborn, Dead
<1>11. Forking'
  <2>1. SUFFICES ASSUME NEW q \in Pids, kern'[q] \in {"incall", "exit"}, call'[q].real \in Forks
                 PROVE  /\ trace_this_pid' = q /\ q \in DOMAIN table' /\ table'[q].state = "KERNEL"
                        /\ kern'[q] = "exit" /\ ret'[q] \in Pids => Begotten(q, ret[q])'
                        /\ kern'[q] = "exit" /\ ret'[q] \notin Pids => "clone_fails" \in setting'.faults
    BY DEF Forking
  <2>2. /\ kern'[q] = kern[q]
        /\ trace_this_pid = q /\ q \in DOMAIN table /\ table[q].state = "KERNEL"
        /\ kern[q] = "exit" /\ ret[q] \in Pids => Begotten(q, ret[q])
        /\ kern[q] = "exit" /\ ret[q] \notin Pids => "clone_fails" \in setting.faults
    BY <1>0, <1>1, <1>2, <2>1 DEF Forking
  <2>3. ret[q] \in Pids /\ Begotten(q, ret[q]) => Begotten(q, ret[q])'
    BY <1>1, <1>2 DEF Begotten
  <2> QED  BY <1>1, <2>2, <2>3
<1>12. Calls'
  BY <1>0, <1>1 DEF Calls
<1>13. Narrow'
  <2>1. SUFFICES ASSUME setting.faults = {}, trace_this_pid \in Pids
                 PROVE  InFork(trace_this_pid)'
    BY <1>1 DEF Narrow
  <2> DEFINE t == trace_this_pid
  <2>2. InFork(t) /\ t \in Pids
    BY <1>0, <2>1 DEF Narrow
  <2>3. /\ kern[p] = "incall" /\ call[p].real \in {"exit", "exit_group"}
        /\ call[p].real = "exit" => dies = {p}
    BY <2>1 DEF Dies
  <2>4. t # p
    BY <2>2, <2>3 DEF InFork, Forks
  <2>5. t \notin dies
    <3>1. SUFFICES ASSUME t \in dies PROVE FALSE
      OBVIOUS
    <3>2. ktgid[t] = ktgid[p] /\ Live(t) /\ call[p].real = "exit_group"
      BY <2>3, <2>4, <3>1 DEF Dies
    <3>3. p \in DOMAIN table
      BY <1>0, <1>5, <2>3 DEF Outside, Newborn
    <3>4. PICK r \in Pids : ktgid[r] = ktgid[p] /\ Exiting(r)
      <4>1. CASE table[p].state = "KERNEL"
        BY <2>3, <3>2, <3>3, <4>1 DEF Exiting
      <4>2. CASE table[p].state = "DONE"
        BY <1>0, <1>5, <3>3, <4>2 DEF Match
      <4>3. table[p].state \in {"USER", "KERNEL", "WAITPID", "DONE"}
        BY <1>0, <3>3, TypedHas DEF ProcessType
      <4>4. table[p].state \notin {"USER", "WAITPID"}
        BY <1>0, <1>5, <2>3, <3>3 DEF Match
      <4> QED  BY <4>1, <4>2, <4>3, <4>4
    <3>5. t # r
      BY <2>2, <3>4 DEF InFork, Exiting, Forks
    <3>6. table[t].state = "DONE" \/ t \in tostop
      BY <1>0, <2>2, <3>2, <3>4, <3>5 DEF Alone
    <3>7. t \in tostop
      BY <2>2, <3>6 DEF InFork
    <3>8. stopper # AnyPid /\ t # stopper /\ t \in {AnyPid, stopper}
      BY <1>0, <3>7 DEF Loop
    <3> QED  BY <1>3, <2>2, <3>8
  <2> QED  BY <1>1, <1>2, <2>2, <2>5 DEF InFork
<1>14. Loop'
  <2>1. SUFFICES ASSUME stopper # AnyPid
                 PROVE  \/ kern'[stopper] = "entry"
                        \/ /\ kern'[stopper] = "zombie"
                           /\ \A r \in Pids : ktgid[r] = ktgid[stopper] => ~Live(r)'
    BY <1>0, <1>1 DEF Loop
  <2>2. stopper \in Pids
    BY <1>3, <2>1
  <2>3. CASE stopper \in dies
    <3>1. kern[stopper] = "entry"
      BY <1>0, <1>2, <2>1, <2>3 DEF Loop, Dead
    <3>2. \A q \in Pids : q \in dies <=> ktgid[q] = ktgid[p] /\ Live(q)
      BY <2>3, <3>1 DEF Dies
    <3> QED  BY <1>2, <1>4, <2>2, <2>3, <3>2
  <2>4. CASE stopper \notin dies
    BY <1>0, <1>2, <1>4, <2>1, <2>2, <2>4 DEF Loop
  <2> QED  BY <2>3, <2>4
<1>15. Alone'
  BY <1>0, <1>1, <1>4, <1>6 DEF Alone
<1>16. Parents'
  BY <1>0, <1>1 DEF Parents
<1>17. Signals'
  BY <1>0, <1>1, <1>3, <1>4 DEF Signals
<1>18. Single'
  BY <1>0, <1>1, <1>2, <1>3 DEF Single, Dead
<1>19. Truth'
  <2>1. \A q, c : Reaped(q, c) => Reaped(q, c)'
    BY <1>1, <1>2 DEF Reaped, Dead
  <2>2. \A q \in Pids : kern'[q] = "user" => kern[q] = "user"
    BY <1>2
  <2> QED  BY <1>0, <1>1, <2>1, <2>2 DEF Truth
<1>20. Waiting' /\ CountsTheLiving' /\ NoMissedChild'
  BY <1>0, <1>1 DEF Waiting, CountsTheLiving, NoMissedChild
<1>21. Ending'
  BY <1>0, <1>1, <1>2, <1>3, <1>5 DEF Ending, Dead
<1> QED
  BY <1>8, <1>9, <1>10, <1>11, <1>12, <1>13, <1>14, <1>15, <1>16, <1>17, <1>18, <1>19,
     <1>20, <1>21 DEF Inv

---------------------------------------------------------------------------
(* A clone that makes the process c.                                       *)

Clones(p, c) ==
  /\ kern[p] = "incall" /\ call[p].real \in Forks /\ kern[c] = "none"
  /\ kern'[p] = "exit" /\ kern'[c] = "born"
  /\ \A q \in Pids \ {p, c} : kern'[q] = kern[q]
  /\ events' = events \cup {p, c}
  /\ ret'[p] = c /\ \A q \in Pids \ {p} : ret'[q] = ret[q]
  /\ forker'[c] = p /\ ktgid'[c] = (IF call[p].real = "thread" THEN ktgid[p] ELSE c)
  /\ \A q \in Pids \ {c} : forker'[q] = forker[q] /\ ktgid'[q] = ktgid[q]
  /\ UNCHANGED <<table, nprocs, trace_this_pid, root_exitstatus, looping, stopper, tostop,
                 call, status, ustatus, queued, owed, setting>>

LEMMA CloneKeeps ==
  ASSUME Inv, NEW p \in Pids, NEW c \in Pids, Typed', Clones(p, c)
  PROVE  Inv'
<1>0. /\ Typed /\ Created /\ Match /\ Outside /\ Forking /\ Calls /\ Narrow /\ Loop /\ Alone
      /\ Parents /\ Signals /\ Single /\ Truth /\ Waiting /\ Ending
      /\ CountsTheLiving /\ NoMissedChild
  BY DEF Inv
<1>1. /\ table' = table /\ nprocs' = nprocs /\ trace_this_pid' = trace_this_pid
      /\ root_exitstatus' = root_exitstatus /\ looping' = looping /\ stopper' = stopper
      /\ tostop' = tostop /\ call' = call /\ status' = status
      /\ ustatus' = ustatus /\ queued' = queued /\ owed' = owed /\ setting' = setting
      /\ events' = events \cup {p, c}
  BY DEF Clones
<1>2. /\ kern[p] = "incall" /\ kern[c] = "none" /\ c # p /\ kern'[p] = "exit" /\ kern'[c] = "born"
      /\ \A q \in Pids \ {p, c} : kern'[q] = kern[q]
      /\ ret'[p] = c /\ \A q \in Pids \ {p} : ret'[q] = ret[q]
      /\ forker'[c] = p /\ \A q \in Pids \ {c} : forker'[q] = forker[q] /\ ktgid'[q] = ktgid[q]
  BY DEF Clones
<1>3. DOMAIN table \subseteq Pids /\ trace_this_pid \in Pids \cup {AnyPid}
      /\ owed \subseteq Pids /\ AnyPid \notin Pids /\ Root \in Pids /\ Murphy \notin Pids
      /\ ktgid \in [Pids -> Pids] /\ stopper \in Pids \cup {AnyPid} /\ tostop \subseteq Pids
  BY <1>0, TypedHas, ConstantsAssumption
<1>4. /\ Live(p) /\ Live(p)' /\ Live(c)' /\ \A q \in Pids \ {c} : Live(q)' <=> Live(q)
  BY <1>2 DEF Live, Dead
<1>5. /\ call[p].real \in Forks /\ call[p].op = call[p].real
      /\ trace_this_pid = p /\ p \in DOMAIN table /\ table[p].state = "KERNEL"
  BY <1>0, <1>2 DEF Clones, Forking, Calls, Forks, Waits
<1>6. c \notin DOMAIN table /\ c \notin owed /\ c # Root /\ \A q \in Pids \ {c} : ktgid[q] # c
  <2>1. c \notin DOMAIN table /\ c \notin owed
    BY <1>0, <1>2 DEF Created
  <2>2. \A q \in Pids \ {c} : ktgid[q] # c
    BY <1>0, <1>2 DEF Created
  <2> QED  BY <1>0, <2>1, <2>2 DEF Parents
<1>7. /\ call[p].op = "thread" => ktgid'[c] = ktgid[p] /\ ktgid'[c] # c
      /\ call[p].op # "thread" => ktgid'[c] = c
      /\ ktgid'[p] = ktgid[p]
  BY <1>2, <1>5, <1>6 DEF Clones
<1>8. stopper = AnyPid /\ tostop = {}
  BY <1>0, <1>2, <1>3, <1>5 DEF Loop
<1>9. \A q \in Pids : Exiting(q)' <=> Exiting(q)
  <2>1. ~Exiting(p) /\ ~Exiting(p)' /\ ~Exiting(c) /\ ~Exiting(c)'
    BY <1>1, <1>5, <1>6 DEF Exiting, Forks
  <2> QED  BY <1>1, <1>2, <2>1 DEF Exiting
<1>10. Created'
  <2>1. ktgid'[c] # c => kern'[ktgid'[c]] # "none"
    BY SMT, <1>0, <1>2, <1>3, <1>7 DEF Created
  <2> QED  BY SMT, <1>0, <1>1, <1>2, <1>3, <1>6, <1>7, <2>1 DEF Created
<1>11. Match'
  <2>1. ASSUME NEW q \in DOMAIN table
        PROVE  /\ kern'[q] = "gone" => table'[q].state = "DONE"
               /\ Live(q)' =>
                    /\ table'[q].state = "USER" =>
                         kern'[q] = "user" \/ (kern'[q] \in {"born", "entry"} /\ q \in events')
                    /\ table'[q].state = "KERNEL" =>
                         \/ kern'[q] = "incall" \/ (kern'[q] = "exit" /\ q \in events')
                         \/ q = stopper' /\ kern'[q] = "entry" /\ q \notin events'
                    /\ table'[q].state = "WAITPID" => kern'[q] = "entry" /\ q \notin events'
    BY SMT, <1>0, <1>1, <1>2, <1>3, <1>4, <1>5, <1>6 DEF Match
  <2>2. \A q \in DOMAIN table : Live(q)' /\ table'[q].state = "DONE" =>
          \E r \in Pids : ktgid'[r] = ktgid'[q] /\ Exiting(r)'
    <3>1. SUFFICES ASSUME NEW q \in DOMAIN table, Live(q)', table[q].state = "DONE"
                   PROVE  \E r \in Pids : ktgid'[r] = ktgid'[q] /\ Exiting(r)'
      BY <1>1
    <3>2. PICK r \in Pids : ktgid[r] = ktgid[q] /\ Exiting(r)
      BY <1>0, <1>3, <1>4, <1>6, <3>1 DEF Match
    <3>3. r # c /\ q # c /\ q \in Pids
      BY <1>3, <1>6, <3>2 DEF Exiting
    <3> QED  BY <1>2, <1>9, <3>2, <3>3
  <2> QED  BY <1>1, <2>1, <2>2 DEF Match
<1>12. Outside'
  <2>1. ASSUME NEW q \in Pids, q # c, Live(q)', q \notin DOMAIN table  PROVE FALSE
    <3>1. Newborn(q)
      BY <1>0, <1>4, <2>1 DEF Outside
    <3> QED  BY <1>2, <1>5, <3>1 DEF Newborn, Dead
  <2>2. Newborn(c)'
    BY <1>1, <1>2, <1>5 DEF Newborn
  <2> QED  BY <1>1, <2>1, <2>2 DEF Outside
<1>13. Forking'
  <2>1. Begotten(p, c)'
    BY <1>1, <1>2, <1>6, <1>7 DEF Begotten
  <2>2. \A q \in Pids \ {p} : ~(kern'[q] \in {"incall", "exit"} /\ call'[q].real \in Forks)
    BY <1>0, <1>1, <1>2, <1>5 DEF Forking
  <2>3. Begotten(p, ret[p])'
    BY <1>2, <2>1
  <2> QED  BY <1>1, <1>2, <1>5, <2>2, <2>3 DEF Forking
<1>14. Calls' /\ Waiting' /\ CountsTheLiving' /\ NoMissedChild'
  BY <1>0, <1>1 DEF Calls, Waiting, CountsTheLiving, NoMissedChild
<1>15. Narrow'
  BY <1>1, <1>2, <1>5 DEF Narrow, InFork
<1>16. Loop'
  BY <1>1, <1>8 DEF Loop
<1>17. Alone'
  <2>1. SUFFICES ASSUME NEW q \in Pids, NEW r \in Pids,
                        Exiting(q), ktgid'[r] = ktgid'[q], r # q, Live(r)'
                 PROVE  r \in DOMAIN table /\ table[r].state = "DONE"
    BY <1>1, <1>9 DEF Alone
  <2>2. q # c /\ ktgid'[q] = ktgid[q] /\ q # p
    BY <1>2, <1>5, <1>6, <2>1 DEF Exiting, Forks
  <2>3. CASE r # c
    BY <1>0, <1>2, <1>4, <1>8, <2>1, <2>2, <2>3 DEF Alone
  <2>4. CASE r = c
    <3>1. ktgid[p] = ktgid[q]
      BY <1>6, <1>7, <2>1, <2>2, <2>4
    <3>2. table[p].state = "DONE"
      BY <1>0, <1>4, <1>8, <2>1, <2>2, <3>1 DEF Alone
    <3> QED  BY <1>5, <3>2
  <2> QED  BY <2>3, <2>4
<1>18. Parents'
  BY SMT, <1>0, <1>1, <1>2, <1>3, <1>6 DEF Parents
<1>19. Signals'
  BY <1>0, <1>1, <1>3, <1>4, <1>6 DEF Signals
<1>20. Single'
  <2>1. "thread" \notin setting.ops => call[p].op # "thread"
    BY <1>0 DEF Calls
  <2>2. "thread" \notin setting.ops => \A q \in Pids : ktgid'[q] = q
    BY <1>0, <1>2, <1>7, <2>1 DEF Single
  <2>3. \A q \in DOMAIN table : kern[q] = "gone" => kern'[q] = "gone"
    BY <1>2, <1>3
  <2> QED  BY <1>0, <1>1, <2>2, <2>3 DEF Single
<1>21. Truth'
  <2>1. \A q, x : Reaped(q, x) => Reaped(q, x)'
    BY <1>1, <1>2 DEF Reaped
  <2>2. \A q \in Pids : kern'[q] = "user" => kern[q] = "user" /\ ret'[q] = ret[q]
    BY <1>2
  <2> QED  BY <1>0, <1>1, <2>1, <2>2 DEF Truth
<1>22. Ending'
  BY <1>0, <1>1, <1>2, <1>3, <1>4 DEF Ending
<1> QED
  BY <1>10, <1>11, <1>12, <1>13, <1>14, <1>15, <1>16, <1>17, <1>18, <1>19, <1>20, <1>21, <1>22 DEF Inv

---------------------------------------------------------------------------
(* The child c of the clone of p is entered into the table.                *)

Enlists(p, c) ==
  /\ p \in DOMAIN table /\ table[p].state = "KERNEL" /\ kern[p] = "exit"
  /\ call[p].real \in Forks /\ ret[p] = c /\ stopper = AnyPid
  /\ DOMAIN table' = DOMAIN table \cup {c}
  /\ \A q \in DOMAIN table \ {p, c} : table'[q] = table[q]
  /\ table'[p].state = "USER" /\ table'[p].ppid = table[p].ppid
  /\ table'[p].tgid = table[p].tgid /\ table'[p].interruptible = table[p].interruptible
  /\ table'[c].state = "USER" /\ table'[c].interruptible = table[p].interruptible
  /\ call[p].op = "thread" => table'[c].tgid = table[p].tgid
  /\ call[p].op # "thread" => table'[c].tgid = c /\ table'[c].ppid = p
  /\ nprocs' = nprocs + 1 /\ trace_this_pid' = AnyPid /\ events' = events \ {p}
  /\ kern'[p] = "user" /\ \A q \in Pids \ {p} : kern'[q] = kern[q] /\ ret'[q] = ret[q]
  /\ UNCHANGED <<root_exitstatus, looping, stopper, tostop, ktgid, forker, call, status,
                 ustatus, queued, owed, setting>>

LEMMA EnlistKeeps ==
  ASSUME FiniteSetLaws, Inv, NEW p \in Pids, NEW c \in Pids, Typed', Enlists(p, c)
  PROVE  Inv'
<1>0. /\ Typed /\ Created /\ Match /\ Outside /\ Forking /\ Calls /\ Narrow /\ Loop /\ Alone
      /\ Parents /\ Signals /\ Single /\ Truth /\ Waiting /\ Ending
      /\ CountsTheLiving /\ NoMissedChild
  BY DEF Inv
<1>1. /\ nprocs' = nprocs + 1 /\ trace_this_pid' = AnyPid /\ stopper = AnyPid
      /\ root_exitstatus' = root_exitstatus /\ looping' = looping /\ stopper' = stopper
      /\ tostop' = tostop /\ call' = call /\ status' = status /\ ktgid' = ktgid
      /\ ustatus' = ustatus /\ queued' = queued /\ owed' = owed /\ setting' = setting
      /\ events' = events \ {p} /\ forker' = forker
  BY DEF Enlists
<1>2. /\ kern[p] = "exit" /\ kern'[p] = "user" /\ ret[p] = c
      /\ \A q \in Pids \ {p} : kern'[q] = kern[q] /\ ret'[q] = ret[q]
  BY DEF Enlists
<1>3. DOMAIN table \subseteq Pids /\ trace_this_pid \in Pids \cup {AnyPid}
      /\ owed \subseteq Pids /\ AnyPid \notin Pids /\ Root \in Pids
      /\ ktgid \in [Pids -> Pids] /\ IsFiniteSet(DOMAIN table) /\ nprocs \in Int
  BY <1>0, TypedHas, ConstantsAssumption
<1>4. /\ Live(p) /\ \A q \in Pids : Live(q)' <=> Live(q)
  BY <1>2 DEF Live, Dead
<1>5. /\ call[p].real \in Forks /\ call[p].op = call[p].real /\ call[p].op \notin Waits
      /\ trace_this_pid = p /\ Begotten(p, c)
  BY <1>0, <1>2 DEF Enlists, Forking, Calls, Forks, Waits
<1>6. /\ c \notin DOMAIN table /\ c # p /\ kern[c] \in {"born", "zombie"}
      /\ c \in events /\ forker[c] = p
      /\ call[p].op = "thread" => ktgid[c] = ktgid[p] /\ ktgid[c] # c
      /\ call[p].op # "thread" => ktgid[c] = c
  BY <1>5 DEF Begotten
<1>7. tostop = {}
  BY <1>0, <1>1 DEF Loop
<1>8. /\ DOMAIN table' = DOMAIN table \cup {c} /\ p \in DOMAIN table
      /\ (\A q \in DOMAIN table \ {p} : table'[q] = table[q])
      /\ table[p].state = "KERNEL" /\ table'[p].state = "USER" /\ table'[p].ppid = table[p].ppid
      /\ table'[p].tgid = table[p].tgid /\ table'[p].interruptible = table[p].interruptible
      /\ table'[c].state = "USER" /\ table'[c].interruptible = table[p].interruptible
      /\ (call[p].op = "thread" => table'[c].tgid = table[p].tgid)
      /\ (call[p].op # "thread" => table'[c].tgid = c /\ table'[c].ppid = p)
  BY <1>6 DEF Enlists
<1>9. \A q \in Pids : Exiting(q)' <=> Exiting(q)
  <2>1. ~Exiting(p) /\ ~Exiting(p)' /\ ~Exiting(c) /\ ~Exiting(c)'
    BY <1>1, <1>5, <1>6, <1>8 DEF Exiting, Forks
  <2> QED  BY <1>1, <1>2, <1>8, <2>1 DEF Exiting
<1>10. Created'
  BY SMT, <1>0, <1>1, <1>2, <1>3, <1>6, <1>8 DEF Created
<1>11. Match'
  <2>1. ASSUME NEW q \in DOMAIN table \cup {c}
        PROVE  /\ kern'[q] = "gone" => table'[q].state = "DONE"
               /\ Live(q)' =>
                    /\ table'[q].state = "USER" =>
                         kern'[q] = "user" \/ (kern'[q] \in {"born", "entry"} /\ q \in events')
                    /\ table'[q].state = "KERNEL" =>
                         \/ kern'[q] = "incall" \/ (kern'[q] = "exit" /\ q \in events')
                         \/ q = stopper' /\ kern'[q] = "entry" /\ q \notin events'
                    /\ table'[q].state = "WAITPID" => kern'[q] = "entry" /\ q \notin events'
    <3>1. CASE q = c
      BY <1>1, <1>2, <1>6, <1>8, <3>1 DEF Live, Dead
    <3>2. CASE q = p
      BY <1>2, <1>8, <3>2
    <3>3. CASE q \in DOMAIN table \ {p}
      BY SMT, <1>0, <1>1, <1>2, <1>3, <1>4, <1>8, <3>3 DEF Match
    <3> QED  BY <3>1, <3>2, <3>3
  <2>2. \A q \in DOMAIN table \cup {c} : Live(q)' /\ table'[q].state = "DONE" =>
          \E r \in Pids : ktgid'[r] = ktgid'[q] /\ Exiting(r)'
    BY SMT, <1>0, <1>1, <1>3, <1>4, <1>8, <1>9 DEF Match
  <2> QED  BY <1>8, <2>1, <2>2 DEF Match
<1>12. Outside'
  <2>1. ASSUME NEW q \in Pids, q # c, Live(q)', q \notin DOMAIN table  PROVE FALSE
    <3>1. Newborn(q)
      BY <1>0, <1>4, <2>1 DEF Outside
    <3> QED  BY <1>2, <1>5, <2>1, <3>1 DEF Newborn, Dead
  <2> QED  BY <1>8, <2>1 DEF Outside
<1>13. Forking'
  <2>1. \A q \in Pids : ~(kern'[q] \in {"incall", "exit"} /\ call'[q].real \in Forks)
    BY <1>0, <1>1, <1>2, <1>5 DEF Forking
  <2> QED  BY <2>1 DEF Forking
<1>14. Calls' /\ Narrow' /\ Loop'
  BY <1>0, <1>1, <1>3, <1>7 DEF Calls, Narrow, Loop
<1>15. Waiting'
  BY <1>0, <1>1, <1>3, <1>8 DEF Waiting
<1>16. Alone'
  <2>1. SUFFICES ASSUME NEW q \in Pids, NEW r \in Pids,
                        Exiting(q), ktgid[r] = ktgid[q], r # q, Live(r)
                 PROVE  r \in DOMAIN table' /\ table'[r].state = "DONE"
    BY <1>1, <1>4, <1>9 DEF Alone
  <2>2. q # c /\ q # p /\ q \in DOMAIN table
    BY <1>5, <1>6, <2>1 DEF Exiting, Forks
  <2>3. ktgid[p] # ktgid[q]
    BY <1>0, <1>4, <1>7, <1>8, <2>1, <2>2 DEF Alone
  <2>4. r # c
    <3>1. SUFFICES ASSUME r = c PROVE FALSE
      OBVIOUS
    <3>2. ktgid[c] = c /\ kern[c] = "born"
      BY <1>6, <2>1, <2>3, <3>1 DEF Live, Dead
    <3>3. q = c
      BY <1>0, <2>1, <3>1, <3>2 DEF Created
    <3> QED  BY <2>2, <3>3
  <2> QED  BY <1>0, <1>7, <1>8, <2>1, <2>2, <2>3, <2>4 DEF Alone
<1>17. Parents'
  BY SMT, <1>0, <1>1, <1>3, <1>6, <1>8 DEF Parents
<1>18. Signals'
  BY <1>0, <1>1, <1>3, <1>4, <1>8 DEF Signals
<1>19. Single'
  <2>1. \A q \in DOMAIN table' : table'[q].state = "DONE" =>
          q \in DOMAIN table \ {p} /\ table'[q] = table[q]
    BY <1>8
  <2>2. \A q \in DOMAIN table \ {p} : kern'[q] = kern[q]
    BY <1>2, <1>3
  <2> QED  BY <1>0, <1>1, <2>1, <2>2 DEF Single
<1>20. Truth'
  <2>1. \A q, x : Reaped(q, x) => Reaped(q, x)'
    BY <1>1, <1>2 DEF Reaped
  <2>2. call[c].op \in Waits => kern[c] # "user" /\ kern'[c] = kern[c]
    BY <1>2, <1>6
  <2>3. ASSUME NEW q \in Pids, call'[q].op \in Waits
        PROVE  /\ kern'[q] = "user" => Reaped(q, ret[q])'
               /\ q \in DOMAIN table' =>
                    /\ table'[q].state = "WAITPID" => table'[q].syscall_dummy
                    /\ table'[q].state = "KERNEL" =>
                         table'[q].syscall_dummy /\ Reaped(q, table[q].syscall_result)'
    <3>1. q # p /\ call[q].op \in Waits
      BY <1>1, <1>5, <2>3
    <3>2. CASE q = c
      BY <1>6, <1>8, <2>2, <3>1, <3>2
    <3>3. CASE q # c
      <4>1. kern'[q] = "user" => Reaped(q, ret[q])'
        BY <1>0, <1>2, <2>1, <3>1 DEF Truth
      <4>2. ASSUME q \in DOMAIN table'
            PROVE  /\ table'[q].state = "WAITPID" => table'[q].syscall_dummy
                   /\ table'[q].state = "KERNEL" =>
                         table'[q].syscall_dummy /\ Reaped(q, table[q].syscall_result)'
        <5>1. table'[q] = table[q] /\ q \in DOMAIN table
          BY <1>8, <3>1, <3>3, <4>2
        <5> QED  BY <1>0, <2>1, <3>1, <5>1 DEF Truth
      <4> QED  BY <4>1, <4>2
    <3> QED  BY <3>2, <3>3
  <2> QED  BY <2>3 DEF Truth
<1>21. Ending'
  BY <1>0, <1>1, <1>2, <1>3, <1>4 DEF Ending
<1>22. CountsTheLiving'
  <2> DEFINE S == {q \in DOMAIN table : table[q].state # "DONE"}
  <2>1. {q \in DOMAIN table' : table'[q].state # "DONE"} = S \cup {c}
    BY <1>8
  <2>2. IsFiniteSet(S) /\ c \notin S
    BY <1>3, <1>6, FiniteSubset
  <2> HIDE DEF S
  <2>3. Cardinality(S \cup {c}) = Cardinality(S) + 1
    BY <2>2, OneMoreElement
  <2> QED  BY <1>0, <1>1, <2>1, <2>3 DEF CountsTheLiving, S
<1>23. NoMissedChild'
  BY <1>0, <1>8 DEF NoMissedChild
<1> QED
  BY <1>10, <1>11, <1>12, <1>13, <1>14, <1>15, <1>16, <1>17, <1>18, <1>19, <1>20, <1>21, <1>22,
     <1>23 DEF Inv

---------------------------------------------------------------------------
(* The death of c is collected, and nobody waits for it.                   *)

(* At most one process of the table is sent SIGCHLD.                       *)
Signalled ==
  \/ owed' = owed /\ queued' = queued
  \/ \E x \in DOMAIN table :
       /\ owed' = owed \cup {x}
       /\ queued' = queued \cup {x} \/ (queued' = queued /\ table[x].interruptible)

Collects(c) ==
  /\ kern[c] = "zombie" /\ trace_this_pid \in {AnyPid, c} /\ stopper = AnyPid
  /\ kern'[c] = "gone" /\ \A q \in Pids \ {c} : kern'[q] = kern[q]
  /\ events' = events \ {c}
  /\ DOMAIN table' = DOMAIN table
  /\ \A q \in DOMAIN table \ {c} : table'[q] = table[q]
  /\ c \in DOMAIN table =>
       /\ table'[c].state = "DONE"
       /\ table'[c].ppid = table[c].ppid /\ table'[c].tgid = table[c].tgid
       /\ table'[c].interruptible = table[c].interruptible
       /\ "thread" \notin setting.ops => table'[c].exit_status = status[c]
  /\ root_exitstatus' = (IF c = Root THEN status[c] ELSE root_exitstatus)
  /\ Signalled
  /\ UNCHANGED <<trace_this_pid, looping, stopper, tostop, ktgid, forker, call, ret, status,
                 ustatus, setting>>

LEMMA SignalledKeeps ==
  ASSUME Typed, Signals, Created, Signalled, DOMAIN table' \subseteq DOMAIN table,
         \A q \in DOMAIN table' : table'[q].interruptible = table[q].interruptible,
         \A q \in Pids : Live(q)' => Live(q) , setting' = setting
  PROVE  Signals'
<1>1. SUFFICES ASSUME "sigaction" \notin setting.ops
               PROVE  /\ \A p \in DOMAIN table' : ~table'[p].interruptible
                      /\ \A p \in owed' : p \in queued' \/ ~Live(p)'
  BY DEF Signals
<1>2. /\ \A p \in DOMAIN table : ~table[p].interruptible
      /\ \A p \in owed : p \in queued \/ ~Live(p)
  BY <1>1 DEF Signals
<1>3. owed \subseteq Pids
  BY TypedHas
<1>4. \A p \in owed' : p \in queued' \/ p \in owed
  BY <1>2 DEF Signalled
<1>5. queued \subseteq queued'
  BY DEF Signalled
<1> QED  BY <1>2, <1>3, <1>4, <1>5

LEMMA CollectKeeps ==
  ASSUME Inv, NEW c \in Pids, Typed', Collects(c), CountsTheLiving', NoMissedChild'
  PROVE  Inv'
<1>0. /\ Typed /\ Created /\ Match /\ Outside /\ Forking /\ Calls /\ Narrow /\ Loop /\ Alone
      /\ Parents /\ Signals /\ Single /\ Truth /\ Waiting /\ Ending
      /\ CountsTheLiving /\ NoMissedChild
  BY DEF Inv
<1>1. /\ trace_this_pid' = trace_this_pid /\ looping' = looping /\ stopper' = stopper
      /\ tostop' = tostop /\ call' = call /\ ret' = ret /\ status' = status /\ ktgid' = ktgid
      /\ ustatus' = ustatus /\ setting' = setting /\ forker' = forker
      /\ events' = events \ {c} /\ trace_this_pid \in {AnyPid, c} /\ stopper = AnyPid
      /\ root_exitstatus' = (IF c = Root THEN status[c] ELSE root_exitstatus)
  BY DEF Collects
<1>2. /\ kern[c] = "zombie" /\ kern'[c] = "gone" /\ \A q \in Pids \ {c} : kern'[q] = kern[q]
  BY DEF Collects
<1>3. DOMAIN table \subseteq Pids /\ AnyPid \notin Pids /\ Root \in Pids /\ owed \subseteq Pids
      /\ ktgid \in [Pids -> Pids]
  BY <1>0, TypedHas, ConstantsAssumption
<1>4. /\ DOMAIN table' = DOMAIN table
      /\ \A q \in DOMAIN table \ {c} : table'[q] = table[q]
      /\ c \in DOMAIN table =>
           /\ table'[c].state = "DONE"
           /\ table'[c].ppid = table[c].ppid /\ table'[c].tgid = table[c].tgid
           /\ table'[c].interruptible = table[c].interruptible
           /\ "thread" \notin setting.ops => table'[c].exit_status = status[c]
  BY DEF Collects
<1>5. \A q \in Pids : Live(q)' <=> Live(q)
  BY <1>2 DEF Live, Dead
<1>6. ~Live(c) /\ ~Live(c)'
  BY <1>2 DEF Live, Dead
<1>7. \A q \in Pids : Exiting(q)' <=> Exiting(q)
  <2>1. ~Exiting(c) /\ ~Exiting(c)'
    BY <1>2 DEF Exiting
  <2> QED  BY <1>1, <1>2, <1>4, <2>1 DEF Exiting
<1>8. Created'
  <2>1. \A q \in Pids : kern'[q] = "none" => q \notin owed'
    BY SMT, <1>0, <1>2, <1>3 DEF Collects, Signalled, Created
  <2> QED  BY SMT, <1>0, <1>1, <1>2, <1>3, <1>4, <2>1 DEF Created
<1>9. Match'
  <2>1. ASSUME NEW q \in DOMAIN table
        PROVE  /\ kern'[q] = "gone" => table'[q].state = "DONE"
               /\ Live(q)' =>
                    /\ table'[q].state = "USER" =>
                         kern'[q] = "user" \/ (kern'[q] \in {"born", "entry"} /\ q \in events')
                    /\ table'[q].state = "KERNEL" =>
                         \/ kern'[q] = "incall" \/ (kern'[q] = "exit" /\ q \in events')
                         \/ q = stopper' /\ kern'[q] = "entry" /\ q \notin events'
                    /\ table'[q].state = "WAITPID" => kern'[q] = "entry" /\ q \notin events'
    <3>1. CASE q = c
      BY <1>4, <1>6, <3>1
    <3>2. CASE q # c
      BY <1>0, <1>1, <1>2, <1>3, <1>4, <1>5, <3>2 DEF Match
    <3> QED  BY <3>1, <3>2
  <2>2. ASSUME NEW q \in DOMAIN table, Live(q)', table'[q].state = "DONE"
        PROVE  \E r \in Pids : ktgid'[r] = ktgid'[q] /\ Exiting(r)'
    <3>1. q \in Pids /\ q # c /\ Live(q)
      BY <1>3, <1>5, <1>6, <2>2
    <3>2. table[q].state = "DONE"
      BY <1>4, <2>2, <3>1
    <3> QED  BY <1>0, <1>1, <1>7, <3>1, <3>2 DEF Match
  <2> QED  BY <1>4, <2>1, <2>2 DEF Match
<1>10. Outside'
  BY SMT, <1>0, <1>1, <1>2, <1>4, <1>5 DEF Outside, Newborn, Dead, Live
<1>11. Forking'
  <2>1. SUFFICES ASSUME NEW q \in Pids, kern'[q] \in {"incall", "exit"}, call'[q].real \in Forks
                 PROVE  FALSE
    BY DEF Forking
  <2>2. q # c /\ kern[q] = kern'[q]
    BY <1>2, <2>1
  <2>3. trace_this_pid = q
    BY <1>0, <1>1, <2>1, <2>2 DEF Forking
  <2> QED  BY <1>1, <1>3, <2>2, <2>3
<1>12. Calls'
  BY <1>0, <1>1 DEF Calls
<1>13. Narrow'
  BY <1>0, <1>1, <1>2, <1>3 DEF Narrow, InFork
<1>14. Loop'
  BY <1>0, <1>1 DEF Loop
<1>15. Alone'
  BY <1>0, <1>1, <1>3, <1>4, <1>5, <1>6, <1>7 DEF Alone
<1>16. Parents'
  BY <1>0, <1>1, <1>3, <1>4 DEF Parents
<1>17. Signals'
  <2>1. Signalled /\ \A q \in DOMAIN table' : table'[q].interruptible = table[q].interruptible
    BY <1>4 DEF Collects
  <2> QED  BY <1>0, <1>1, <1>4, <1>5, <2>1, SignalledKeeps
<1>18. Single'
  <2>1. \A q \in DOMAIN table \ {c} : kern'[q] = kern[q]
    BY <1>2, <1>3
  <2>2. ASSUME "thread" \notin setting.ops
        PROVE  \A q \in DOMAIN table' :
                 table'[q].state = "DONE" => kern'[q] = "gone" /\ table'[q].exit_status = status'[q]
    <3>1. \A q \in DOMAIN table \ {c} :
            table'[q].state = "DONE" => kern'[q] = "gone" /\ table'[q].exit_status = status'[q]
      BY <1>0, <1>1, <1>4, <2>1, <2>2 DEF Single
    <3> QED  BY <1>1, <1>2, <1>4, <2>2, <3>1
  <2> QED  BY <1>0, <1>1, <2>2 DEF Single
<1>19. Truth'
  <2>1. \A q, x : Reaped(q, x) => Reaped(q, x)'
    BY <1>1, <1>2 DEF Reaped
  <2>2. \A q \in Pids : kern'[q] = "user" => kern[q] = "user"
    BY <1>2
  <2> QED  BY <1>0, <1>1, <1>4, <2>1, <2>2 DEF Truth
<1>20. Waiting'
  BY <1>0, <1>1, <1>3, <1>4 DEF Waiting
<1>21. Ending'
  BY <1>0, <1>1, <1>2, <1>3, <1>5 DEF Ending
<1> QED
  BY <1>8, <1>9, <1>10, <1>11, <1>12, <1>13, <1>14, <1>15, <1>16, <1>17, <1>18, <1>19,
     <1>20, <1>21 DEF Inv

---------------------------------------------------------------------------
(* The loop of exit_group stops the thread c.                              *)

Stops(c) ==
  /\ c \in tostop /\ tostop' = tostop \ {c}
  /\ DOMAIN table' = DOMAIN table
  /\ \A q \in DOMAIN table \ {c} : table'[q] = table[q]
  /\ table'[c].state = "DONE"
  /\ table'[c].ppid = table[c].ppid /\ table'[c].tgid = table[c].tgid
  /\ table'[c].interruptible = table[c].interruptible
  /\ Signalled
  /\ UNCHANGED <<trace_this_pid, root_exitstatus, looping, stopper, kern, events, ktgid, forker,
                 call, ret, status, ustatus, setting>>

LEMMA StopKeeps ==
  ASSUME Inv, NEW c \in Pids, Typed', Stops(c), CountsTheLiving', NoMissedChild'
  PROVE  Inv'
<1>0. /\ Typed /\ Created /\ Match /\ Outside /\ Forking /\ Calls /\ Narrow /\ Loop /\ Alone
      /\ Parents /\ Signals /\ Single /\ Truth /\ Waiting /\ Ending
      /\ CountsTheLiving /\ NoMissedChild
  BY DEF Inv
<1>1. /\ trace_this_pid' = trace_this_pid /\ looping' = looping /\ stopper' = stopper
      /\ call' = call /\ ret' = ret /\ status' = status /\ ktgid' = ktgid
      /\ ustatus' = ustatus /\ setting' = setting /\ forker' = forker
      /\ events' = events /\ kern' = kern /\ root_exitstatus' = root_exitstatus
      /\ tostop' = tostop \ {c}
  BY DEF Stops
<1>2. /\ DOMAIN table' = DOMAIN table
      /\ \A q \in DOMAIN table \ {c} : table'[q] = table[q]
      /\ table'[c].state = "DONE"
      /\ table'[c].ppid = table[c].ppid /\ table'[c].tgid = table[c].tgid
      /\ table'[c].interruptible = table[c].interruptible
  BY DEF Stops
<1>3. DOMAIN table \subseteq Pids /\ AnyPid \notin Pids /\ Root \in Pids /\ owed \subseteq Pids
      /\ ktgid \in [Pids -> Pids]
  BY <1>0, TypedHas, ConstantsAssumption
<1>4. /\ stopper # AnyPid /\ c \in tostop /\ c \in DOMAIN table /\ c # stopper
      /\ ktgid[c] = ktgid[stopper]
      /\ stopper \in DOMAIN table /\ table[stopper].state = "KERNEL"
      /\ call[stopper].real = "exit_group" /\ trace_this_pid \in {AnyPid, stopper}
      /\ kern[stopper] = "entry" \/ (kern[stopper] = "zombie" /\ ~Live(c))
  BY <1>0, <1>3 DEF Stops, Loop
<1>5. \A q \in Pids : Live(q)' <=> Live(q)
  BY <1>1 DEF Live
<1>6. Live(c) => Exiting(stopper)
  BY <1>4 DEF Exiting
<1>7. ~Exiting(c)
  <2>1. SUFFICES ASSUME Exiting(c)  PROVE FALSE
    OBVIOUS
  <2>2. Live(c)
    BY <1>4, <2>1 DEF Exiting, Live, Dead
  <2>3. Live(stopper) /\ stopper \notin tostop
    BY <1>0, <1>4, <2>2 DEF Live, Dead, Loop
  <2> QED  BY <1>0, <1>3, <1>4, <2>1, <2>3 DEF Alone
<1>8. \A q \in Pids : Exiting(q)' <=> Exiting(q)
  <2>1. ~Exiting(c)'
    BY <1>2 DEF Exiting
  <2> QED  BY <1>1, <1>2, <1>7, <2>1 DEF Exiting
<1>9. Created'
  <2>1. \A q \in Pids : kern[q] = "none" => q \notin owed'
    BY SMT, <1>0, <1>3 DEF Stops, Signalled, Created
  <2> QED  BY <1>0, <1>1, <1>2, <1>3, <2>1 DEF Created
<1>10. Match'
  <2>1. ASSUME NEW q \in DOMAIN table
        PROVE  /\ kern'[q] = "gone" => table'[q].state = "DONE"
               /\ Live(q)' =>
                    /\ table'[q].state = "USER" =>
                         kern'[q] = "user" \/ (kern'[q] \in {"born", "entry"} /\ q \in events')
                    /\ table'[q].state = "KERNEL" =>
                         \/ kern'[q] = "incall" \/ (kern'[q] = "exit" /\ q \in events')
                         \/ q = stopper' /\ kern'[q] = "entry" /\ q \notin events'
                    /\ table'[q].state = "WAITPID" => kern'[q] = "entry" /\ q \notin events'
    <3>1. CASE q = c
      BY <1>2, <3>1
    <3>2. CASE q # c
      BY <1>0, <1>1, <1>2, <1>3, <1>5, <3>2 DEF Match
    <3> QED  BY <3>1, <3>2
  <2>2. ASSUME NEW q \in DOMAIN table, Live(q)', table'[q].state = "DONE"
        PROVE  \E r \in Pids : ktgid'[r] = ktgid'[q] /\ Exiting(r)'
    <3>1. CASE q = c
      BY <1>1, <1>3, <1>4, <1>5, <1>6, <1>8, <2>2, <3>1
    <3>2. CASE q # c
      BY <1>0, <1>1, <1>2, <1>3, <1>5, <1>8, <2>2, <3>2 DEF Match
    <3> QED  BY <3>1, <3>2
  <2> QED  BY <1>2, <2>1, <2>2 DEF Match
<1>11. Outside'
  BY <1>0, <1>1, <1>2, <1>5 DEF Outside, Newborn
<1>12. Forking'
  <2>1. \A q \in Pids : kern[q] \in {"incall", "exit"} /\ call[q].real \in Forks => q # c
    BY <1>0, <1>3, <1>4 DEF Forking
  <2>2. \A q, x : Begotten(q, x)' <=> Begotten(q, x)
    BY <1>1, <1>2 DEF Begotten
  <2> QED  BY <1>0, <1>1, <1>2, <2>1, <2>2 DEF Forking
<1>13. Calls'
  BY <1>0, <1>1 DEF Calls
<1>14. Narrow'
  BY <1>0, <1>1, <1>2, <1>3, <1>4 DEF Narrow, InFork
<1>15. Loop'
  BY <1>0, <1>1, <1>2, <1>4, <1>5 DEF Loop
<1>16. Alone'
  BY <1>0, <1>1, <1>2, <1>3, <1>5, <1>8 DEF Alone
<1>17. Parents'
  BY <1>0, <1>1, <1>2, <1>3 DEF Parents
<1>18. Signals'
  <2>1. Signalled /\ \A q \in DOMAIN table' : table'[q].interruptible = table[q].interruptible
    BY <1>2 DEF Stops
  <2> QED  BY <1>0, <1>1, <1>2, <1>5, <2>1, SignalledKeeps
<1>19. Single'
  BY <1>0, <1>1, <1>4 DEF Single
<1>20. Truth'
  <2>1. \A q, x : Reaped(q, x) => Reaped(q, x)'
    BY <1>1 DEF Reaped
  <2> QED  BY <1>0, <1>1, <1>2, <2>1 DEF Truth
<1>21. Waiting'
  BY <1>0, <1>1, <1>2, <1>3 DEF Waiting
<1>22. Ending'
  BY <1>0, <1>1, <1>5 DEF Ending
<1> QED
  BY <1>9, <1>10, <1>11, <1>12, <1>13, <1>14, <1>15, <1>16, <1>17, <1>18, <1>19, <1>20,
     <1>21, <1>22 DEF Inv

---------------------------------------------------------------------------
(* The wait4 of p is answered with the death of its child c.               *)

Takes(p, c) ==
  /\ c \in DOMAIN table /\ p \in DOMAIN table \ {c} /\ c # Root
  /\ "thread" \notin setting.ops /\ stopper = AnyPid
  /\ kern[c] \in Dead /\ kern'[c] = "gone"
  /\ \/ kern[p] = "entry" /\ kern'[p] = "incall" /\ p \notin events'
     \/ kern[p] = "zombie" /\ kern'[p] = "zombie" /\ (p \in events => p \in events')
  /\ c \notin events'
  /\ \A q \in Pids \ {p, c} : kern'[q] = kern[q] /\ (q \in events' <=> q \in events)
  /\ call[p].op \in Waits /\ call'[p].op = call[p].op
  /\ call'[p].real \in {call[p].op, "getpid"}
  /\ DOMAIN table' = DOMAIN table \ {c}
  /\ \A q \in DOMAIN table \ {p, c} : table'[q] = table[q]
  /\ table'[p].state = "KERNEL" /\ table'[p].syscall_dummy /\ table'[p].syscall_result = c
  /\ table'[p].ppid = table[p].ppid /\ table'[p].tgid = table[p].tgid
  /\ table'[p].interruptible = table[p].interruptible
  /\ ustatus'[p] = status[c]
  /\ \A q \in Pids \ {p} : call'[q] = call[q] /\ ustatus'[q] = ustatus[q]
  /\ UNCHANGED <<trace_this_pid, root_exitstatus, looping, stopper, tostop, ktgid, forker, ret,
                 status, queued, owed, setting>>

LEMMA TakeKeeps ==
  ASSUME Inv, NEW p \in Pids, NEW c \in Pids, Typed', Takes(p, c), CountsTheLiving'
  PROVE  Inv'
<1>0. /\ Typed /\ Created /\ Match /\ Outside /\ Forking /\ Calls /\ Narrow /\ Loop /\ Alone
      /\ Parents /\ Signals /\ Single /\ Truth /\ Waiting /\ Ending
      /\ CountsTheLiving /\ NoMissedChild
  BY DEF Inv
<1>1. /\ trace_this_pid' = trace_this_pid /\ looping' = looping /\ stopper' = stopper
      /\ tostop' = tostop /\ ret' = ret /\ status' = status /\ ktgid' = ktgid
      /\ setting' = setting /\ forker' = forker /\ queued' = queued /\ owed' = owed
      /\ root_exitstatus' = root_exitstatus /\ stopper = AnyPid
      /\ "thread" \notin setting.ops
  BY DEF Takes
<1>2. /\ kern[c] \in Dead /\ kern'[c] = "gone" /\ c \notin events' /\ c # p
      /\ \/ kern[p] = "entry" /\ kern'[p] = "incall" /\ p \notin events'
         \/ kern[p] = "zombie" /\ kern'[p] = "zombie" /\ (p \in events => p \in events')
      /\ \A q \in Pids \ {p, c} : kern'[q] = kern[q] /\ (q \in events' <=> q \in events)
  BY DEF Takes
<1>3. DOMAIN table \subseteq Pids /\ AnyPid \notin Pids /\ Root \in Pids /\ owed \subseteq Pids
      /\ ktgid \in [Pids -> Pids]
  BY <1>0, TypedHas, ConstantsAssumption
<1>4. /\ DOMAIN table' = DOMAIN table \ {c} /\ p \in DOMAIN table' /\ c # Root
      /\ \A q \in DOMAIN table' \ {p} : table'[q] = table[q]
      /\ table'[p].state = "KERNEL" /\ table'[p].syscall_dummy /\ table'[p].syscall_result = c
      /\ table'[p].ppid = table[p].ppid /\ table'[p].tgid = table[p].tgid
      /\ table'[p].interruptible = table[p].interruptible
  BY DEF Takes
<1>5. /\ call[p].op \in Waits /\ call'[p].op = call[p].op
      /\ call'[p].real \in {call[p].op, "getpid"} /\ ustatus'[p] = status[c]
      /\ \A q \in Pids \ {p} : call'[q] = call[q] /\ ustatus'[q] = ustatus[q]
  BY DEF Takes
<1>6. \A q \in Pids : Live(q)' <=> Live(q)
  BY <1>2 DEF Live, Dead
<1>7. /\ call[p].real \notin Forks \cup {"exit_group"}
      /\ call'[p].real \notin Forks \cup {"exit_group"}
  BY <1>0, <1>5 DEF Calls, Waits, Forks
<1>8. Created'
  BY SMT, <1>0, <1>1, <1>2, <1>3, <1>4, <1>5 DEF Created, Dead
<1>9. Match'
  <2>1. ASSUME NEW q \in DOMAIN table'
        PROVE  /\ kern'[q] = "gone" => table'[q].state = "DONE"
               /\ Live(q)' =>
                    /\ table'[q].state = "USER" =>
                         kern'[q] = "user" \/ (kern'[q] \in {"born", "entry"} /\ q \in events')
                    /\ table'[q].state = "KERNEL" =>
                         \/ kern'[q] = "incall" \/ (kern'[q] = "exit" /\ q \in events')
                         \/ q = stopper' /\ kern'[q] = "entry" /\ q \notin events'
                    /\ table'[q].state = "WAITPID" => kern'[q] = "entry" /\ q \notin events'
    <3>1. CASE q = p
      BY <1>2, <1>4, <3>1 DEF Live, Dead
    <3>2. CASE q # p
      BY SMT, <1>0, <1>1, <1>2, <1>3, <1>4, <1>6, <3>2 DEF Match
    <3> QED  BY <3>1, <3>2
  <2>2. \A q \in DOMAIN table' : table'[q].state = "DONE" => ~Live(q)'
    BY <1>0, <1>1, <1>3, <1>4, <1>6 DEF Single, Live, Dead
  <2> QED  BY <2>1, <2>2 DEF Match
<1>10. Outside'
  <2>1. SUFFICES ASSUME NEW q \in Pids, Live(q)', q \notin DOMAIN table'
                 PROVE  Newborn(q)'
    BY DEF Outside
  <2>2. q # c /\ q # p /\ q \notin DOMAIN table /\ Live(q)
    BY <1>2, <1>4, <1>6, <2>1 DEF Live, Dead
  <2>3. Newborn(q)
    BY <1>0, <2>2 DEF Outside
  <2> QED  BY <1>1, <1>2, <1>5, <2>2, <2>3 DEF Newborn, Dead
<1>11. Forking'
  <2>1. SUFFICES ASSUME NEW q \in Pids, kern'[q] \in {"incall", "exit"}, call'[q].real \in Forks
                 PROVE  /\ trace_this_pid' = q /\ q \in DOMAIN table' /\ table'[q].state = "KERNEL"
                        /\ kern'[q] = "exit" /\ ret'[q] \in Pids => Begotten(q, ret[q])'
                        /\ kern'[q] = "exit" /\ ret'[q] \notin Pids => "clone_fails" \in setting'.faults
    BY DEF Forking
  <2>2. q # p /\ q # c
    BY <1>2, <1>7, <2>1
  <2>3. /\ trace_this_pid = q /\ q \in DOMAIN table /\ table[q].state = "KERNEL"
        /\ kern[q] = "exit" /\ ret[q] \in Pids => Begotten(q, ret[q])
        /\ kern[q] = "exit" /\ ret[q] \notin Pids => "clone_fails" \in setting.faults
    BY <1>0, <1>2, <1>5, <2>1, <2>2 DEF Forking
  <2>4. ASSUME kern'[q] = "exit", ret'[q] \in Pids  PROVE Begotten(q, ret[q])'
    <3>1. Begotten(q, ret[q]) /\ ret'[q] = ret[q]
      BY <1>1, <1>2, <2>2, <2>3, <2>4
    <3>2. ret[q] # c /\ ret[q] # p
      BY <3>1 DEF Begotten, Takes
    <3> QED  BY <1>1, <1>2, <1>4, <1>5, <2>2, <2>4, <3>1, <3>2 DEF Begotten
  <2> QED  BY <1>1, <1>2, <1>4, <2>2, <2>3, <2>4
<1>12. Calls'
  BY <1>0, <1>1, <1>5 DEF Calls
<1>13. Narrow'
  <2>1. SUFFICES ASSUME setting'.faults = {}, trace_this_pid' \in Pids
                 PROVE  InFork(trace_this_pid)'
    BY DEF Narrow
  <2>2. InFork(trace_this_pid)
    BY <1>0, <1>1, <2>1 DEF Narrow
  <2>3. trace_this_pid # c /\ trace_this_pid # p
    BY <1>2, <2>2 DEF InFork, Dead
  <2> QED  BY <1>1, <1>2, <1>4, <1>5, <2>1, <2>2, <2>3 DEF InFork
<1>14. Loop'
  BY <1>0, <1>1 DEF Loop
<1>15. Alone'
  <2>1. \A q \in Pids : Exiting(q)' => Exiting(q) /\ q # c
    BY <1>1, <1>2, <1>4, <1>5, <1>7 DEF Exiting
  <2>2. \A q, r \in Pids : ktgid[q] = ktgid[r] => q = r
    BY <1>0, <1>1 DEF Single
  <2> QED  BY <1>1, <2>1, <2>2 DEF Alone
<1>16. Parents'
  <2>1. \A q \in DOMAIN table' : /\ q \in DOMAIN table /\ table'[q].tgid = table[q].tgid
                                 /\ table'[q].ppid = table[q].ppid
    BY <1>4
  <2>2. Root \in DOMAIN table'
    BY <1>0, <1>4 DEF Parents
  <2> QED  BY <1>0, <1>1, <2>1, <2>2 DEF Parents
<1>17. Signals'
  BY <1>0, <1>1, <1>3, <1>4, <1>6 DEF Signals
<1>18. Single'
  BY SMT, <1>0, <1>1, <1>2, <1>3, <1>4 DEF Single
<1>19. Truth'
  <2>1. \A q \in Pids \ {p} : \A x : Reaped(q, x) => Reaped(q, x)'
    BY <1>1, <1>2, <1>5 DEF Reaped, Dead
  <2>2. Reaped(p, c)' /\ kern'[p] # "user"
    BY <1>1, <1>2, <1>5 DEF Reaped
  <2>3. \A q \in Pids \ {p} : kern'[q] = "user" => kern[q] = "user"
    BY <1>2
  <2>4. Reaped(p, table[p].syscall_result)'
    BY <1>4, <2>2
  <2>5. ASSUME NEW q \in Pids \ {p}, call'[q].op \in Waits
        PROVE  /\ kern'[q] = "user" => Reaped(q, ret[q])'
               /\ q \in DOMAIN table' =>
                    /\ table'[q].state = "WAITPID" => table'[q].syscall_dummy
                    /\ table'[q].state = "KERNEL" =>
                         table'[q].syscall_dummy /\ Reaped(q, table[q].syscall_result)'
    <3>1. call[q].op \in Waits /\ ret'[q] = ret[q]
      BY <1>1, <1>5, <2>5
    <3>2. q \in DOMAIN table' => q \in DOMAIN table /\ table'[q] = table[q]
      BY <1>4, <2>5
    <3> QED  BY <1>0, <2>1, <2>3, <2>5, <3>1, <3>2 DEF Truth
  <2> QED  BY <1>4, <2>2, <2>4, <2>5 DEF Truth
<1>20. Waiting'
  BY <1>0, <1>1, <1>3, <1>4, <1>5 DEF Waiting
<1>21. Ending'
  BY <1>0, <1>1, <1>2, <1>3, <1>4, <1>6 DEF Ending
<1>22. NoMissedChild'
  <2>1. \A q \in DOMAIN table' : q \in DOMAIN table /\ table'[q].ppid = table[q].ppid
                                /\ (q # p => table'[q] = table[q])
    BY <1>4
  <2> QED  BY SMT, <1>0, <1>4, <2>1 DEF NoMissedChild
<1> QED
  BY <1>8, <1>9, <1>10, <1>11, <1>12, <1>13, <1>14, <1>15, <1>16, <1>17, <1>18, <1>19,
     <1>20, <1>21, <1>22 DEF Inv

---------------------------------------------------------------------------
(* p enters exit_group, and its loop begins; the loop is over and p goes   *)
(* on; a signal is delivered; the main loop ends.                          *)

Leaves(p) ==
  /\ stopper = AnyPid /\ stopper' = p /\ trace_this_pid \in {AnyPid, p}
  /\ p \in DOMAIN table /\ table[p].state = "USER" /\ kern[p] = "entry"
  /\ call[p].op = "exit_group" /\ events' = events \ {p}
  /\ tostop' = {q \in DOMAIN table \ {p} : table[q].tgid = table[p].tgid}
  /\ DOMAIN table' = DOMAIN table
  /\ \A q \in DOMAIN table \ {p} : table'[q] = table[q]
  /\ table'[p].state = "KERNEL"
  /\ table'[p].ppid = table[p].ppid /\ table'[p].tgid = table[p].tgid
  /\ table'[p].interruptible = table[p].interruptible
  /\ UNCHANGED <<nprocs, trace_this_pid, root_exitstatus, looping, kern, ktgid, forker, call,
                 ret, status, ustatus, queued, owed, setting>>

LEMMA LeaveKeeps ==
  ASSUME Inv, NEW p \in Pids, Typed', Leaves(p)
  PROVE  Inv'
<1>0. /\ Typed /\ Created /\ Match /\ Outside /\ Forking /\ Calls /\ Narrow /\ Loop /\ Alone
      /\ Parents /\ Signals /\ Single /\ Truth /\ Waiting /\ Ending
      /\ CountsTheLiving /\ NoMissedChild
  BY DEF Inv
<1>1. /\ trace_this_pid' = trace_this_pid /\ looping' = looping /\ nprocs' = nprocs
      /\ call' = call /\ ret' = ret /\ status' = status /\ ktgid' = ktgid
      /\ ustatus' = ustatus /\ setting' = setting /\ forker' = forker
      /\ kern' = kern /\ root_exitstatus' = root_exitstatus
      /\ queued' = queued /\ owed' = owed
      /\ events' = events \ {p} /\ stopper' = p
      /\ tostop' = {q \in DOMAIN table \ {p} : table[q].tgid = table[p].tgid}
  BY DEF Leaves
<1>2. /\ stopper = AnyPid /\ trace_this_pid \in {AnyPid, p}
      /\ p \in DOMAIN table /\ table[p].state = "USER" /\ kern[p] = "entry"
      /\ call[p].op = "exit_group"
  BY DEF Leaves
<1>3. DOMAIN table \subseteq Pids /\ AnyPid \notin Pids /\ Root \in Pids /\ owed \subseteq Pids
      /\ ktgid \in [Pids -> Pids]
  BY <1>0, TypedHas, ConstantsAssumption
<1>4. /\ DOMAIN table' = DOMAIN table
      /\ \A q \in DOMAIN table \ {p} : table'[q] = table[q]
      /\ table'[p].state = "KERNEL"
      /\ table'[p].ppid = table[p].ppid /\ table'[p].tgid = table[p].tgid
      /\ table'[p].interruptible = table[p].interruptible
  BY DEF Leaves
<1>5. \A q \in Pids : Live(q)' <=> Live(q)
  BY <1>1 DEF Live
<1>6. tostop = {} /\ call[p].real = "exit_group"
  <2>1. tostop = {}
    BY <1>0, <1>2 DEF Loop
  <2>2. call[p].op \notin Waits
    BY <1>2 DEF Waits
  <2> QED  BY <1>0, <1>2, <2>1, <2>2 DEF Calls
<1>7. /\ \A q \in Pids : Exiting(q) => q # p /\ Exiting(q)'
      /\ \A q \in Pids \ {p} : Exiting(q)' => Exiting(q)
  BY <1>1, <1>2, <1>3, <1>4 DEF Exiting
<1>8. Created'
  BY <1>0, <1>1, <1>2, <1>3, <1>4 DEF Created
<1>9. Match'
  <2>1. ASSUME NEW q \in DOMAIN table
        PROVE  /\ kern'[q] = "gone" => table'[q].state = "DONE"
               /\ Live(q)' =>
                    /\ table'[q].state = "USER" =>
                         kern'[q] = "user" \/ (kern'[q] \in {"born", "entry"} /\ q \in events')
                    /\ table'[q].state = "KERNEL" =>
                         \/ kern'[q] = "incall" \/ (kern'[q] = "exit" /\ q \in events')
                         \/ q = stopper' /\ kern'[q] = "entry" /\ q \notin events'
                    /\ table'[q].state = "WAITPID" => kern'[q] = "entry" /\ q \notin events'
    <3>1. CASE q = p
      BY <1>1, <1>2, <1>4, <3>1
    <3>2. CASE q # p
      BY <1>0, <1>1, <1>2, <1>3, <1>4, <1>5, <3>2 DEF Match
    <3> QED  BY <3>1, <3>2
  <2>2. \A q \in DOMAIN table : Live(q)' /\ table'[q].state = "DONE" =>
          \E r \in Pids : ktgid'[r] = ktgid'[q] /\ Exiting(r)'
    BY <1>0, <1>1, <1>3, <1>4, <1>5, <1>7 DEF Match
  <2> QED  BY <1>4, <2>1, <2>2 DEF Match
<1>10. Outside'
  BY <1>0, <1>1, <1>2, <1>4, <1>5 DEF Outside, Newborn
<1>11. Forking'
  <2>1. \A q \in Pids : kern[q] \in {"incall", "exit"} /\ call[q].real \in Forks => FALSE
    BY <1>0, <1>2, <1>3 DEF Forking
  <2> QED  BY <1>1, <2>1 DEF Forking
<1>12. Calls'
  BY <1>0, <1>1 DEF Calls
<1>13. Narrow'
  BY <1>0, <1>1, <1>2, <1>3 DEF Narrow, InFork
<1>14. \A q \in Pids \ {p} : ktgid[q] = ktgid[p] /\ Live(q) => q \in DOMAIN table /\ q \in tostop'
  <2>1. SUFFICES ASSUME NEW q \in Pids \ {p}, ktgid[q] = ktgid[p], Live(q)
                 PROVE  q \in DOMAIN table /\ q \in tostop'
    OBVIOUS
  <2>2. q \in DOMAIN table
    BY SMT, <1>0, <1>2, <1>3, <2>1 DEF Outside, Newborn, Dead
  <2> QED  BY <1>0, <1>1, <1>2, <2>1, <2>2 DEF Parents
<1>15. Loop'
  <2>1. \A q \in tostop' : q \in DOMAIN table /\ q # p /\ ktgid[q] = ktgid[p]
    BY <1>0, <1>1, <1>2 DEF Parents
  <2> QED  BY <1>1, <1>2, <1>3, <1>4, <1>6, <2>1 DEF Loop
<1>16. Alone'
  <2>1. SUFFICES ASSUME NEW q \in Pids, NEW r \in Pids, Exiting(q)', ktgid[r] = ktgid[q],
                        r # q, Live(r)
                 PROVE  r \in DOMAIN table' /\ (table'[r].state = "DONE" \/ r \in tostop')
    BY <1>1, <1>5 DEF Alone
  <2>2. CASE q = p
    BY <1>4, <1>14, <2>1, <2>2
  <2>3. CASE q # p
    BY <1>0, <1>2, <1>4, <1>6, <1>7, <2>1, <2>3 DEF Alone
  <2> QED  BY <2>2, <2>3
<1>17. Parents'
  BY <1>0, <1>1, <1>3, <1>4 DEF Parents
<1>18. Signals'
  BY <1>0, <1>1, <1>3, <1>4, <1>5 DEF Signals
<1>19. Single'
  <2>1. ASSUME "thread" \notin setting.ops  PROVE tostop' = {}
    BY SMT, <1>0, <1>1, <1>2, <1>3, <2>1 DEF Single, Parents
  <2> QED  BY <1>0, <1>1, <1>3, <1>4, <2>1 DEF Single
<1>20. Truth'
  <2>1. \A q, x : Reaped(q, x) => Reaped(q, x)'
    BY <1>1 DEF Reaped
  <2>2. call[p].op \notin Waits
    BY <1>2 DEF Waits
  <2> QED  BY <1>0, <1>1, <1>4, <2>1, <2>2 DEF Truth
<1>21. Waiting'
  BY <1>0, <1>1, <1>3, <1>4 DEF Waiting
<1>22. Ending'
  BY <1>0, <1>1, <1>5 DEF Ending
<1>23. CountsTheLiving'
  <2>1. {q \in DOMAIN table' : table'[q].state # "DONE"} = {q \in DOMAIN table : table[q].state # "DONE"}
    BY <1>2, <1>4
  <2> QED  BY <1>0, <1>1, <2>1 DEF CountsTheLiving
<1>24. NoMissedChild'
  <2>1. \A q \in DOMAIN table : /\ table'[q].ppid = table[q].ppid
                                /\ table'[q].state = "DONE" => table[q].state = "DONE"
                                /\ table'[q].state = "WAITPID" => table'[q] = table[q]
    BY <1>4
  <2> QED  BY SMT, <1>0, <1>4, <2>1 DEF NoMissedChild
<1> QED
  BY <1>8, <1>9, <1>10, <1>11, <1>12, <1>13, <1>15, <1>16, <1>17, <1>18, <1>19,
     <1>20, <1>21, <1>22, <1>23, <1>24 DEF Inv

Finishes ==
  /\ stopper # AnyPid /\ tostop = {} /\ stopper' = AnyPid /\ tostop' = {}
  /\ \/ kern[stopper] = "entry" /\ kern'[stopper] = "incall"
     \/ kern[stopper] # "entry" /\ kern'[stopper] = kern[stopper]
  /\ \A q \in Pids \ {stopper} : kern'[q] = kern[q]
  /\ UNCHANGED <<table, nprocs, trace_this_pid, root_exitstatus, looping, ktgid, forker, events,
                 call, ret, status, ustatus, queued, owed, setting>>

LEMMA FinishKeeps ==
  ASSUME Inv, Typed', Finishes
  PROVE  Inv'
<1>0. /\ Typed /\ Created /\ Match /\ Outside /\ Forking /\ Calls /\ Narrow /\ Loop /\ Alone
      /\ Parents /\ Signals /\ Single /\ Truth /\ Waiting /\ Ending
      /\ CountsTheLiving /\ NoMissedChild
  BY DEF Inv
<1>1. /\ trace_this_pid' = trace_this_pid /\ looping' = looping /\ nprocs' = nprocs
      /\ call' = call /\ ret' = ret /\ status' = status /\ ktgid' = ktgid
      /\ ustatus' = ustatus /\ setting' = setting /\ forker' = forker
      /\ table' = table /\ root_exitstatus' = root_exitstatus
      /\ queued' = queued /\ owed' = owed /\ events' = events
      /\ stopper' = AnyPid /\ tostop = {} /\ tostop' = {}
  BY DEF Finishes
<1>2. DOMAIN table \subseteq Pids /\ AnyPid \notin Pids /\ Root \in Pids /\ owed \subseteq Pids
      /\ ktgid \in [Pids -> Pids]
  BY <1>0, TypedHas, ConstantsAssumption
<1>s. PICK s \in Pids : s = stopper
  BY <1>0, TypedHas DEF Finishes
<1>3. /\ s \in DOMAIN table /\ s \in Pids /\ table[s].state = "KERNEL"
      /\ call[s].real = "exit_group" /\ trace_this_pid \in {AnyPid, s}
      /\ kern[s] = "entry" \/ kern[s] = "zombie"
  BY <1>0, <1>2, <1>s DEF Loop, Finishes
<1>4. /\ \/ kern[s] = "entry" /\ kern'[s] = "incall"
         \/ kern[s] = "zombie" /\ kern'[s] = "zombie"
      /\ \A q \in Pids \ {s} : kern'[q] = kern[q]
  BY <1>3, <1>s DEF Finishes
<1>5. \A q \in Pids : Live(q)' <=> Live(q)
  BY <1>4 DEF Live, Dead
<1>6. kern[s] = "entry" => s \notin events
  BY <1>0, <1>3 DEF Match, Live, Dead
<1>7. \A q \in Pids : Exiting(q)' <=> Exiting(q)
  <2>1. Exiting(s)' <=> Exiting(s)
    BY <1>1, <1>2, <1>3, <1>4, <1>s DEF Exiting
  <2>2. \A q \in Pids \ {s} : Exiting(q)' <=> Exiting(q)
    BY <1>1, <1>2, <1>4, <1>s DEF Exiting
  <2> QED  BY <2>1, <2>2
<1>8. Created'
  BY <1>0, <1>1, <1>2, <1>3, <1>4, <1>6 DEF Created
<1>9. Match'
  <2>1. ASSUME NEW q \in DOMAIN table
        PROVE  /\ kern'[q] = "gone" => table'[q].state = "DONE"
               /\ Live(q)' =>
                    /\ table'[q].state = "USER" =>
                         kern'[q] = "user" \/ (kern'[q] \in {"born", "entry"} /\ q \in events')
                    /\ table'[q].state = "KERNEL" =>
                         \/ kern'[q] = "incall" \/ (kern'[q] = "exit" /\ q \in events')
                         \/ q = stopper' /\ kern'[q] = "entry" /\ q \notin events'
                    /\ table'[q].state = "WAITPID" => kern'[q] = "entry" /\ q \notin events'
    <3>1. CASE q = s
      BY <1>1, <1>3, <1>4, <3>1 DEF Live, Dead
    <3>2. CASE q # s
      BY <1>0, <1>1, <1>2, <1>4, <1>5, <1>s, <3>2 DEF Match
    <3> QED  BY <3>1, <3>2
  <2>2. \A q \in DOMAIN table : Live(q)' /\ table'[q].state = "DONE" =>
          \E r \in Pids : ktgid'[r] = ktgid'[q] /\ Exiting(r)'
    BY <1>0, <1>1, <1>2, <1>5, <1>7 DEF Match
  <2> QED  BY <1>1, <2>1, <2>2 DEF Match
<1>10. Outside'
  <2>1. SUFFICES ASSUME NEW q \in Pids, Live(q)', q \notin DOMAIN table'
                 PROVE  Newborn(q)'
    BY DEF Outside
  <2>2. Newborn(q) /\ q # s
    BY <1>0, <1>1, <1>3, <1>5, <2>1 DEF Outside
  <2> QED  BY <1>1, <1>2, <1>3, <1>4, <2>1, <2>2 DEF Newborn, Dead
<1>11. Forking'
  <2>1. \A q \in Pids : kern'[q] \in {"incall", "exit"} /\ call[q].real \in Forks =>
                          kern'[q] = kern[q] /\ trace_this_pid = q
    BY <1>0, <1>3, <1>4 DEF Forking, Forks
  <2>2. \A q \in Pids : kern'[q] \in {"incall", "exit"} /\ call[q].real \in Forks => FALSE
    BY <1>2, <1>3, <1>4, <2>1 DEF Forks
  <2> QED  BY <1>1, <2>2 DEF Forking
<1>12. Calls'
  BY <1>0, <1>1 DEF Calls
<1>13. Narrow'
  BY <1>0, <1>1, <1>2, <1>3 DEF Narrow, InFork
<1>14. Loop'
  BY <1>1 DEF Loop
<1>15. Alone'
  BY <1>0, <1>1, <1>5, <1>7 DEF Alone
<1>16. Parents'
  BY <1>0, <1>1 DEF Parents
<1>17. Signals'
  BY <1>0, <1>1, <1>2, <1>5 DEF Signals
<1>18. Single'
  BY <1>0, <1>1, <1>2, <1>3, <1>4 DEF Single
<1>19. Truth'
  <2>1. \A q, x : Reaped(q, x) => Reaped(q, x)'
    BY <1>1, <1>4 DEF Reaped
  <2>2. \A q \in Pids : kern'[q] = "user" => kern[q] = "user"
    BY <1>4
  <2> QED  BY <1>0, <1>1, <2>1, <2>2 DEF Truth
<1>20. Waiting'
  BY <1>0, <1>1 DEF Waiting
<1>21. Ending'
  BY <1>0, <1>1, <1>2, <1>3, <1>4, <1>5 DEF Ending
<1>22. CountsTheLiving' /\ NoMissedChild'
  BY <1>0, <1>1 DEF CountsTheLiving, NoMissedChild
<1> QED
  BY <1>8, <1>9, <1>10, <1>11, <1>12, <1>13, <1>14, <1>15, <1>16, <1>17, <1>18, <1>19,
     <1>20, <1>21, <1>22 DEF Inv

LEMMA EndKeeps ==
  ASSUME FiniteSetLaws, Inv, Typed', LoopEnds
  PROVE  Inv'
<1>0. /\ Typed /\ Created /\ Match /\ Outside /\ Forking /\ Calls /\ Narrow /\ Loop /\ Alone
      /\ Parents /\ Signals /\ Single /\ Truth /\ Waiting /\ Ending
      /\ CountsTheLiving /\ NoMissedChild
  BY DEF Inv
<1>1. /\ trace_this_pid' = trace_this_pid /\ nprocs' = nprocs /\ kern' = kern
      /\ call' = call /\ ret' = ret /\ status' = status /\ ktgid' = ktgid
      /\ ustatus' = ustatus /\ setting' = setting /\ forker' = forker
      /\ table' = table /\ root_exitstatus' = root_exitstatus
      /\ queued' = queued /\ owed' = owed /\ events' = events
      /\ stopper' = stopper /\ tostop' = tostop
  BY DEF LoopEnds, kernelVars
<1>2. /\ IsFiniteSet(DOMAIN table) /\ AnyPid \notin Pids /\ Root \in Pids
      /\ DOMAIN table \subseteq Pids /\ trace_this_pid \in Pids \cup {AnyPid}
      /\ kern \in KernType
  BY <1>0, TypedHas, ConstantsAssumption
<1>3. Root \in DOMAIN table /\ ktgid[Root] = Root /\ kern[Root] # "none" /\ kern[Root] # "loose"
  BY <1>0, <1>2 DEF Parents, Created
<1>4. ASSUME setting.faults = {}
      PROVE  kern[Root] = "gone" /\ \A p \in Pids : ~Live(p)
  <2>1. CASE NoChild
    <3>1. trace_this_pid = AnyPid
      BY <1>0, <1>2, <1>4, <2>1 DEF NoChild, Narrow, InFork
    <3>2. \A p \in Pids : kern[p] \in {"none", "gone"}
      BY <1>0, <2>1, <3>1 DEF NoChild, Created
    <3> QED  BY <1>2, <1>3, <3>2 DEF Live, Dead
  <2>2. CASE nprocs <= 0 /\ trace_this_pid = AnyPid /\ \A p \in Pids : ~Collectible(p)
    <3> DEFINE S == {p \in DOMAIN table : table[p].state # "DONE"}
    <3>1. S = {}
      <4>1. IsFiniteSet(S) /\ Cardinality(S) \in Nat
        BY <1>2, FiniteSubset, FiniteCount
      <4>2. Cardinality(S) = 0
        BY SMT, <1>0, <2>2, <4>1 DEF CountsTheLiving
      <4> QED  BY <4>1, <4>2, FiniteCount
    <3>2. \A p \in DOMAIN table : table[p].state = "DONE"
      BY <3>1
    <3>3. \A p \in Pids : ~Exiting(p)
      BY <3>2 DEF Exiting
    <3>4. \A p \in Pids : ~Live(p)
      BY <1>0, <1>2, <2>2, <3>2, <3>3 DEF Match, Outside, Newborn
    <3>5. \A p \in Pids : kern[p] \in {"zombie", "gone", "none"}
      BY <1>2, <3>4 DEF Live, Dead
    <3>6. ASSUME kern[Root] = "zombie"  PROVE FALSE
      <4>1. Root \in events
        BY <1>0, <1>2, <3>6 DEF Created
      <4>2. PICK q \in Group(Root) \ {Root} : kern[q] \notin {"none", "gone", "loose"}
        BY <1>2, <2>2, <4>1 DEF Collectible
      <4>3. q \in Pids /\ q # Root /\ ktgid[q] = Root
        BY <1>3, <4>2 DEF Group
      <4>4. kern[q] = "zombie" /\ q \in events
        BY <1>0, <3>5, <4>2, <4>3 DEF Created
      <4>5. Collectible(q)
        BY <2>2, <4>3, <4>4 DEF Collectible
      <4> QED  BY <2>2, <4>3, <4>5
    <3> QED  BY <1>2, <1>3, <3>4, <3>5, <3>6
  <2> QED  BY <2>1, <2>2 DEF LoopEnds
<1>5. \A q \in Pids : (Live(q)' <=> Live(q)) /\ (Exiting(q)' <=> Exiting(q))
  BY <1>1 DEF Live, Exiting
<1>6. Created' /\ Match'
  BY <1>0, <1>1, <1>2, <1>5 DEF Created, Match
<1>7. Outside' /\ Forking' /\ Calls'
  BY SMT, <1>0, <1>1, <1>5 DEF Outside, Newborn, Forking, Begotten, Calls
<1>8. Narrow' /\ Loop' /\ Parents'
  <2>1. \A r \in Pids : ~Live(r) => ~Live(r)'
    BY <1>5
  <2> QED  BY <1>0, <1>1, <2>1 DEF Narrow, InFork, Loop, Parents
<1>9. Alone' /\ Signals' /\ Single'
  <2>1. Signals'
    BY <1>0, <1>1 DEF Signals, Live
  <2> QED  BY <1>0, <1>1, <1>5, <2>1 DEF Alone, Single
<1>10. Truth' /\ Waiting' /\ CountsTheLiving' /\ NoMissedChild'
  BY <1>0, <1>1 DEF Truth, Reaped, Waiting, CountsTheLiving, NoMissedChild
<1>11. Ending'
  BY <1>0, <1>1, <1>4, <1>5 DEF Ending
<1> QED  BY <1>6, <1>7, <1>8, <1>9, <1>10, <1>11 DEF Inv

LEMMA SignalKeeps ==
  ASSUME Inv, Typed', NEW p \in Pids, DeliverSignal(p)
  PROVE  Inv'
<1>0. /\ Typed /\ Created /\ Match /\ Outside /\ Forking /\ Calls /\ Narrow /\ Loop /\ Alone
      /\ Parents /\ Signals /\ Single /\ Truth /\ Waiting /\ Ending
      /\ CountsTheLiving /\ NoMissedChild
  BY DEF Inv
<1>1. /\ trace_this_pid' = trace_this_pid /\ nprocs' = nprocs /\ kern' = kern
      /\ call' = call /\ ret' = ret /\ status' = status /\ ktgid' = ktgid
      /\ ustatus' = ustatus /\ setting' = setting /\ forker' = forker
      /\ table' = table /\ root_exitstatus' = root_exitstatus /\ looping' = looping
      /\ events' = events /\ stopper' = stopper /\ tostop' = tostop
      /\ queued' = queued \ {p} /\ owed' = owed \ {p}
  BY DEF DeliverSignal, murphyVars
<1>2. \A q \in Pids : (Live(q)' <=> Live(q)) /\ (Exiting(q)' <=> Exiting(q))
  BY <1>1 DEF Live, Exiting
<1>3. DOMAIN table \subseteq Pids /\ owed \subseteq Pids /\ Root \in Pids
  BY <1>0, TypedHas, ConstantsAssumption
<1>4. Created' /\ Match'
  BY <1>0, <1>1, <1>2, <1>3 DEF Created, Match
<1>5. Outside' /\ Forking' /\ Calls'
  BY SMT, <1>0, <1>1, <1>2 DEF Outside, Newborn, Forking, Begotten, Calls
<1>6. Narrow' /\ Loop' /\ Parents'
  BY <1>0, <1>1, <1>2 DEF Narrow, InFork, Loop, Parents
<1>7. Signals'
  BY <1>0, <1>1, <1>2, <1>3 DEF Signals
<1>8. Alone' /\ Single'
  BY <1>0, <1>1, <1>2 DEF Alone, Single
<1>9. Truth' /\ Waiting' /\ CountsTheLiving' /\ NoMissedChild'
  BY <1>0, <1>1 DEF Truth, Reaped, Waiting, CountsTheLiving, NoMissedChild
<1>10. Ending'
  BY <1>0, <1>1, <1>2 DEF Ending
<1> QED  BY <1>4, <1>5, <1>6, <1>7, <1>8, <1>9, <1>10 DEF Inv

---------------------------------------------------------------------------
(* The actions of the traced processes and the kernel.                     *)

LEMMA TypedNext ==
  ASSUME Typed, World' \in WorldType, root_exitstatus' \in Statuses, looping' \in BOOLEAN,
         ktgid' \in [Pids -> Pids], forker' \in [Pids -> Pids \cup {Murphy}],
         setting' = setting, ncalls' \in [Pids -> 0 .. setting.calls],
         IsFiniteSet(DOMAIN table')
  PROVE  Typed'
  BY DEF Typed

LEMMA TypedFrame ==
  ASSUME Typed, World' \in WorldType, root_exitstatus' = root_exitstatus, looping' \in BOOLEAN,
         ktgid' = ktgid, forker' = forker, setting' = setting, ncalls' = ncalls,
         IsFiniteSet(DOMAIN table')
  PROVE  Typed'
  BY DEF Typed

LEMMA WorldNext ==
  ASSUME table' \in Tables, nprocs' \in Int, trace_this_pid' \in Pids \cup {AnyPid},
         kern' \in KernType, events' \subseteq Pids, call' \in CallsType,
         ret' \in RetType, status' \in StatusType, ustatus' \in StatusType,
         queued' \subseteq Pids, owed' \subseteq Pids,
         stopper' \in Pids \cup {AnyPid}, tostop' \subseteq Pids
  PROVE  World' \in WorldType
  BY DEF World, WorldType

(* A process in user mode or in a call that runs is in the table.          *)
LEMMA RunningIsKnown ==
  ASSUME Inv, NEW p \in Pids, kern[p] \in {"user", "incall"}
  PROVE  /\ p \in DOMAIN table /\ Live(p) /\ p # stopper
         /\ kern[p] = "user" => table[p].state \in {"USER", "DONE"}
         /\ kern[p] = "incall" => table[p].state \in {"KERNEL", "DONE"}
<1>1. Typed /\ Match /\ Outside /\ Loop
  BY DEF Inv
<1>2. Live(p) /\ p \in DOMAIN table
  BY <1>1 DEF Outside, Newborn, Live, Dead
<1>3. p # stopper
  BY <1>1, <1>2, TypedHas, ConstantsAssumption DEF Loop
<1>4. table[p].state \in {"USER", "KERNEL", "WAITPID", "DONE"}
  BY <1>1, <1>2, TypedHas DEF ProcessType
<1> QED  BY <1>1, <1>2, <1>3, <1>4 DEF Match

LEMMA CallKeeps ==
  ASSUME Inv, NEW p \in Pids, MakesCall(p)
  PROVE  Inv'
<1>0. Typed /\ Created /\ Narrow
  BY DEF Inv
<1>1. /\ table \in Tables /\ DOMAIN table \subseteq Pids
      /\ nprocs \in Int /\ trace_this_pid \in Pids \cup {AnyPid}
      /\ kern \in KernType /\ events \subseteq Pids /\ call \in CallsType
      /\ ret \in RetType /\ status \in StatusType /\ ustatus \in StatusType
      /\ queued \subseteq Pids /\ owed \subseteq Pids
      /\ stopper \in Pids \cup {AnyPid} /\ tostop \subseteq Pids
      /\ setting \in Settings /\ IsFiniteSet(DOMAIN table)
  BY <1>0, TypedHas
<1>2. /\ table' = table /\ nprocs' = nprocs /\ trace_this_pid' = trace_this_pid
      /\ root_exitstatus' = root_exitstatus /\ looping' = looping /\ stopper' = stopper
      /\ tostop' = tostop /\ ktgid' = ktgid /\ forker' = forker /\ ret' = ret
      /\ status' = status /\ ustatus' = ustatus /\ queued' = queued /\ owed' = owed
      /\ setting' = setting /\ events' = events \cup {p}
      /\ kern' = [kern EXCEPT ![p] = "entry"] /\ kern[p] = "user"
      /\ ncalls' = [ncalls EXCEPT ![p] = IF @ < setting.calls THEN @ + 1 ELSE @]
  BY DEF MakesCall, murphyVars
<1>3. PICK op \in setting.ops \cup {"exit_group"}, arg \in Pids \cup {AnyPid} :
        call' = [call EXCEPT ![p] = [op |-> op, arg |-> arg, real |-> op]]
  BY DEF MakesCall
<1>4. op \in AllOps /\ setting.calls \in Nat
  BY <1>1, ConstantsAssumption DEF AllOps
<1>5. kern' \in KernType
  BY <1>1, <1>2 DEF KernType, Places, Stopped
<1>6. call' \in CallsType
  BY <1>1, <1>3, <1>4 DEF CallsType, CallType
<1>7. ncalls' \in [Pids -> 0 .. setting.calls]
  <2>1. ncalls \in [Pids -> 0 .. setting.calls]
    BY <1>0 DEF Typed
  <2> QED  BY SMT, <1>2, <1>4, <2>1
<1>8. Typed'
  <2>1. World' \in WorldType
    BY <1>1, <1>2, <1>5, <1>6, WorldNext
  <2>2. /\ root_exitstatus \in Statuses /\ looping \in BOOLEAN
        /\ ktgid \in [Pids -> Pids] /\ forker \in [Pids -> Pids \cup {Murphy}]
    BY <1>0 DEF Typed
  <2> QED  BY <1>0, <1>1, <1>2, <1>7, <2>1, <2>2, TypedNext
<1>9. /\ kern'[p] = "entry" /\ \A q \in Pids \ {p} : kern'[q] = kern[q]
  BY <1>1, <1>2 DEF KernType
<1>10. /\ call'[p] = [op |-> op, arg |-> arg, real |-> op]
       /\ \A q \in Pids \ {p} : call'[q] = call[q]
  BY <1>1, <1>3 DEF CallsType
<1>11. p \in DOMAIN table /\ Live(p) /\ p # stopper /\ table[p].state \in {"USER", "DONE"}
  BY <1>2, RunningIsKnown
<1>12. Beside(p)
  BY <1>2, <1>9, <1>10 DEF Beside
<1>13. Moves(p)
  BY <1>2, <1>9, <1>11 DEF Moves, Exiting
<1>14. setting.faults = {} => trace_this_pid # p
  BY <1>0, <1>2 DEF Narrow, InFork
<1>15. InOrder(p)
  BY SMT, <1>2, <1>9, <1>10, <1>11, <1>14 DEF InOrder
<1> QED  BY <1>8, <1>12, <1>13, <1>15, TurnKeeps

LEMMA RunFrame ==
  ASSUME Typed, NEW p \in Pids, KernelRuns(p)
  PROVE  /\ table' = table /\ nprocs' = nprocs /\ trace_this_pid' = trace_this_pid
         /\ root_exitstatus' = root_exitstatus /\ looping' = looping /\ stopper' = stopper
         /\ tostop' = tostop /\ call' = call /\ ustatus' = ustatus /\ queued' = queued
         /\ owed' = owed /\ setting' = setting /\ ncalls' = ncalls /\ kern[p] = "incall"
  BY DEF KernelRuns, murphyVars

(* What such a step has to show of the types.                              *)
LEMMA RunTyped ==
  ASSUME Typed, NEW p \in Pids, KernelRuns(p), kern' \in KernType, events' \subseteq Pids,
         ret' \in RetType, status' \in StatusType,
         ktgid' \in [Pids -> Pids], forker' \in [Pids -> Pids \cup {Murphy}]
  PROVE  Typed'
<1>1. /\ table' = table /\ nprocs' = nprocs /\ trace_this_pid' = trace_this_pid
      /\ root_exitstatus' = root_exitstatus /\ looping' = looping /\ stopper' = stopper
      /\ tostop' = tostop /\ call' = call /\ ustatus' = ustatus /\ queued' = queued
      /\ owed' = owed /\ setting' = setting /\ ncalls' = ncalls
  BY RunFrame
<1>2. /\ table \in Tables /\ nprocs \in Int /\ trace_this_pid \in Pids \cup {AnyPid}
      /\ call \in CallsType /\ ustatus \in StatusType
      /\ queued \subseteq Pids /\ owed \subseteq Pids
      /\ stopper \in Pids \cup {AnyPid} /\ tostop \subseteq Pids
      /\ IsFiniteSet(DOMAIN table)
  BY TypedHas
<1>3. World' \in WorldType
  BY <1>1, <1>2, WorldNext
<1>4. /\ root_exitstatus \in Statuses /\ looping \in BOOLEAN
      /\ ncalls \in [Pids -> 0 .. setting.calls]
  BY DEF Typed
<1> QED  BY <1>1, <1>2, <1>3, <1>4, TypedNext

(* The call of p returns with result r.                                    *)
LEMMA ReturnKeeps ==
  ASSUME Inv, NEW p \in Pids, KernelRuns(p), NEW r \in Pids \cup Numbers, Returns(p, r),
         UNCHANGED <<ktgid, forker, status>>,
         \/ call[p].real \in {"getpid", "sigaction"}
         \/ call[p].real \in Forks /\ "clone_fails" \in setting.faults /\ r \notin Pids
  PROVE  Inv'
<1>0. Typed /\ Forking /\ Calls /\ Narrow /\ Truth
  BY DEF Inv
<1>1. /\ table' = table /\ nprocs' = nprocs /\ trace_this_pid' = trace_this_pid
      /\ root_exitstatus' = root_exitstatus /\ looping' = looping /\ stopper' = stopper
      /\ tostop' = tostop /\ call' = call /\ ustatus' = ustatus /\ queued' = queued
      /\ owed' = owed /\ setting' = setting /\ ncalls' = ncalls /\ kern[p] = "incall"
      /\ ktgid' = ktgid /\ forker' = forker /\ status' = status
  BY <1>0, RunFrame
<1>2. /\ kern \in KernType /\ events \subseteq Pids /\ ret \in RetType /\ status \in StatusType
      /\ ktgid \in [Pids -> Pids] /\ forker \in [Pids -> Pids \cup {Murphy}]
      /\ trace_this_pid \in Pids \cup {AnyPid}
  BY <1>0, TypedHas
<1>3. kern' = [kern EXCEPT ![p] = "exit"] /\ events' = events \cup {p} /\ ret' = [ret EXCEPT ![p] = r]
  BY DEF Returns
<1>4. kern' \in KernType /\ kern'[p] = "exit" /\ \A q \in Pids \ {p} : kern'[q] = kern[q]
  BY <1>2, <1>3 DEF KernType, Places, Stopped
<1>5. ret' \in RetType /\ ret'[p] = r /\ \A q \in Pids \ {p} : ret'[q] = ret[q]
  BY <1>2, <1>3 DEF RetType
<1>6. Typed'
  BY <1>0, <1>1, <1>2, <1>3, <1>4, <1>5, RunTyped
<1>7. p \in DOMAIN table /\ Live(p) /\ p # stopper /\ table[p].state \in {"KERNEL", "DONE"}
  BY <1>1, RunningIsKnown
<1>8. Beside(p)
  BY <1>1, <1>3, <1>4, <1>5 DEF Beside
<1>9. call[p].real # "exit_group"
  BY DEF Forks
<1>10. Moves(p)
  BY <1>1, <1>4, <1>7, <1>9 DEF Moves, Exiting
<1>11. call[p].real \in Forks =>
         trace_this_pid = p /\ table[p].state = "KERNEL" /\ r \notin Pids
         /\ "clone_fails" \in setting.faults
  BY <1>0, <1>1 DEF Forking, Forks
<1>12. setting.faults = {} /\ trace_this_pid = p =>
         table[p].state = "KERNEL" /\ call[p].real \in Forks
  BY <1>0, <1>2 DEF Narrow, InFork
<1>13. call[p].op \in Waits /\ table[p].state = "KERNEL" =>
         table[p].syscall_dummy /\ Reaped(p, table[p].syscall_result)
  BY <1>0, <1>7 DEF Truth
<1>14. InOrder(p)
  BY <1>0, <1>1, <1>3, <1>4, <1>5, <1>7, <1>11, <1>12, <1>13 DEF InOrder, Calls
<1> QED  BY <1>6, <1>8, <1>10, <1>14, TurnKeeps

LEMMA RunKeeps ==
  ASSUME Inv, NEW p \in Pids, KernelRuns(p)
  PROVE  Inv'
<1>0. Typed
  BY DEF Inv
<1>1. /\ table' = table /\ nprocs' = nprocs /\ trace_this_pid' = trace_this_pid
      /\ root_exitstatus' = root_exitstatus /\ looping' = looping /\ stopper' = stopper
      /\ tostop' = tostop /\ call' = call /\ ustatus' = ustatus /\ queued' = queued
      /\ owed' = owed /\ setting' = setting /\ ncalls' = ncalls /\ kern[p] = "incall"
  BY <1>0, RunFrame
<1>2. /\ kern \in KernType /\ events \subseteq Pids /\ ret \in RetType /\ status \in StatusType
      /\ ktgid \in [Pids -> Pids] /\ forker \in [Pids -> Pids \cup {Murphy}]
  BY <1>0, TypedHas
<1>3. CASE RunsGetpid(p)
  <2> DEFINE r == IF call[p].real = "getpid" THEN ktgid[p] ELSE "0"
  <2>1. r \in Pids \cup Numbers
    BY <1>2 DEF Numbers
  <2>2. Returns(p, r) /\ call[p].real \in {"getpid", "sigaction"}
        /\ UNCHANGED <<ktgid, forker, status>>
    BY <1>3 DEF RunsGetpid
  <2> HIDE DEF r
  <2> QED  BY <2>1, <2>2, ReturnKeeps
<1>4. CASE RefusesClone(p)
  <2>1. /\ "EAGAIN" \in Pids \cup Numbers /\ "EAGAIN" \notin Pids
    BY ConstantsAssumption DEF Numbers
  <2> QED  BY <1>4, <2>1, ReturnKeeps DEF RefusesClone
<1>5. CASE RunsClone(p)
  <2>1. PICK c \in Pids :
          /\ kern[c] = "none"
          /\ kern' = [kern EXCEPT ![p] = "exit", ![c] = "born"]
          /\ events' = events \cup {p, c}
          /\ ret' = [ret EXCEPT ![p] = c]
          /\ forker' = [forker EXCEPT ![c] = p]
          /\ ktgid' = [ktgid EXCEPT ![c] = IF call[p].real = "thread" THEN ktgid[p] ELSE c]
    BY <1>5 DEF RunsClone
  <2>2. call[p].real \in Forks /\ status' = status /\ c # p
    BY <1>1, <1>5, <2>1 DEF RunsClone
  <2>3. /\ kern' \in KernType /\ kern'[p] = "exit" /\ kern'[c] = "born"
        /\ \A q \in Pids \ {p, c} : kern'[q] = kern[q]
    BY <1>2, <2>1, <2>2 DEF KernType, Places, Stopped
  <2>4. ret' \in RetType /\ ret'[p] = c /\ \A q \in Pids \ {p} : ret'[q] = ret[q]
    BY <1>2, <2>1 DEF RetType
  <2>5. /\ forker' \in [Pids -> Pids \cup {Murphy}] /\ forker'[c] = p
        /\ \A q \in Pids \ {c} : forker'[q] = forker[q]
    BY <1>2, <2>1
  <2>6. /\ ktgid' \in [Pids -> Pids]
        /\ ktgid'[c] = (IF call[p].real = "thread" THEN ktgid[p] ELSE c)
        /\ \A q \in Pids \ {c} : ktgid'[q] = ktgid[q]
    BY <1>2, <2>1
  <2>7. Typed'
    <3>1. events' \subseteq Pids
      BY <1>2, <2>1
    <3> QED  BY <1>0, <1>2, <2>2, <2>3, <2>4, <2>5, <2>6, <3>1, RunTyped
  <2>8. Clones(p, c)
    BY <1>1, <2>1, <2>2, <2>3, <2>4, <2>5, <2>6 DEF Clones
  <2> QED  BY <2>7, <2>8, CloneKeeps
<1>6. CASE RunsExit(p)
  <2> DEFINE dies == IF call[p].real = "exit" THEN {p} ELSE {q \in Group(p) : Live(q)}
  <2>1. /\ call[p].real \in {"exit", "exit_group"}
        /\ kern' = [q \in Pids |-> IF q \in dies THEN "zombie" ELSE kern[q]]
        /\ status' = [q \in Pids |-> IF q \in dies THEN "exit1" ELSE status[q]]
        /\ events' = events \cup dies /\ ktgid' = ktgid /\ forker' = forker /\ ret' = ret
    BY <1>6 DEF RunsExit
  <2>2. Live(p)
    BY <1>1 DEF Live, Dead
  <2>3. /\ dies \in SUBSET Pids /\ p \in dies /\ \A q \in dies : Live(q)
        /\ \/ dies = {p} /\ call[p].real = "exit"
           \/ /\ \A q \in Pids : q \in dies <=> ktgid[q] = ktgid[p] /\ Live(q)
              /\ call[p].real = "exit_group"
    BY <2>1, <2>2 DEF Group
  <2> HIDE DEF dies
  <2>4. kern' \in KernType /\ status' \in StatusType /\ events' \subseteq Pids
    BY <1>2, <2>1, <2>3 DEF KernType, StatusType, Places, Dead, Statuses
  <2>5. Typed'
    BY <1>0, <1>2, <2>1, <2>4, RunTyped
  <2>6. /\ \A q \in dies : kern'[q] = "zombie"
        /\ \A q \in Pids \ dies : kern'[q] = kern[q] /\ status'[q] = status[q]
    BY <2>1, <2>3
  <2>7. Dies(p, dies)
    BY <1>1, <2>1, <2>3, <2>6 DEF Dies
  <2> QED  BY <2>3, <2>5, <2>7, DeathKeeps
<1> QED  BY <1>3, <1>4, <1>5, <1>6 DEF KernelRuns

LEMMA KillKeeps ==
  ASSUME Inv, NEW p \in Pids, Killed(p)
  PROVE  Inv'
<1> DEFINE dies == {q \in Group(p) : kern[q] \notin Dead \cup {"none"}}
<1>0. Typed
  BY DEF Inv
<1>1. /\ table' = table /\ nprocs' = nprocs /\ trace_this_pid' = trace_this_pid
      /\ stopper' = stopper /\ tostop' = tostop /\ call' = call /\ ret' = ret
      /\ ustatus' = ustatus /\ queued' = queued /\ owed' = owed
      /\ kern' = [q \in Pids |-> IF q \in dies THEN "zombie" ELSE kern[q]]
      /\ status' = [q \in Pids |-> IF q \in dies THEN "killed" ELSE status[q]]
      /\ events' = events \cup dies
  BY DEF Killed, Install, kill9, World
<1>2. /\ root_exitstatus' = root_exitstatus /\ looping' = looping /\ setting' = setting
      /\ ncalls' = ncalls /\ ktgid' = ktgid /\ forker' = forker
      /\ "sigkill" \in setting.faults /\ Live(p)
  BY DEF Killed
<1>3. /\ dies \in SUBSET Pids /\ p \in dies /\ \A q \in dies : Live(q)
      /\ \A q \in Pids : q \in dies <=> ktgid[q] = ktgid[p] /\ Live(q)
  BY <1>2 DEF Group, Live
<1> HIDE DEF dies
<1>4. /\ table \in Tables /\ nprocs \in Int /\ trace_this_pid \in Pids \cup {AnyPid}
      /\ kern \in KernType /\ events \subseteq Pids /\ call \in CallsType
      /\ ret \in RetType /\ status \in StatusType /\ ustatus \in StatusType
      /\ queued \subseteq Pids /\ owed \subseteq Pids
      /\ stopper \in Pids \cup {AnyPid} /\ tostop \subseteq Pids
      /\ IsFiniteSet(DOMAIN table)
  BY <1>0, TypedHas
<1>5. kern' \in KernType /\ status' \in StatusType /\ events' \subseteq Pids
  BY <1>1, <1>3, <1>4 DEF KernType, StatusType, Places, Dead, Statuses
<1>6. Typed'
  <2>1. World' \in WorldType
    BY <1>1, <1>4, <1>5, WorldNext
  <2>2. looping \in BOOLEAN
    BY <1>0 DEF Typed
  <2> QED  BY <1>0, <1>1, <1>2, <1>4, <2>1, <2>2, TypedFrame
<1>7. /\ \A q \in dies : kern'[q] = "zombie"
      /\ \A q \in Pids \ dies : kern'[q] = kern[q] /\ status'[q] = status[q]
  BY <1>1, <1>3
<1>8. Dies(p, dies)
  BY <1>1, <1>2, <1>3, <1>7 DEF Dies
<1> QED  BY <1>3, <1>6, <1>8, DeathKeeps

LEMMA QuietKeeps ==
  ASSUME FiniteSetLaws, Inv, NEW p \in Pids, LoopEnds \/ DeliverSignal(p)
  PROVE  Inv'
<1>0. Typed
  BY DEF Inv
<1>1. /\ table \in Tables /\ nprocs \in Int /\ trace_this_pid \in Pids \cup {AnyPid}
      /\ kern \in KernType /\ events \subseteq Pids /\ call \in CallsType
      /\ ret \in RetType /\ status \in StatusType /\ ustatus \in StatusType
      /\ queued \subseteq Pids /\ owed \subseteq Pids
      /\ stopper \in Pids \cup {AnyPid} /\ tostop \subseteq Pids
      /\ IsFiniteSet(DOMAIN table)
  BY <1>0, TypedHas
<1>2. /\ trace_this_pid' = trace_this_pid /\ nprocs' = nprocs /\ kern' = kern
      /\ call' = call /\ ret' = ret /\ status' = status /\ ktgid' = ktgid
      /\ ustatus' = ustatus /\ setting' = setting /\ forker' = forker
      /\ table' = table /\ root_exitstatus' = root_exitstatus
      /\ events' = events /\ stopper' = stopper /\ tostop' = tostop
      /\ ncalls' = ncalls /\ queued' \subseteq queued /\ owed' \subseteq owed
      /\ looping' = looping \/ looping' = FALSE
  BY DEF DeliverSignal, LoopEnds, murphyVars, kernelVars
<1>3. Typed'
  <2>1. World' \in WorldType
    BY <1>1, <1>2, WorldNext
  <2>2. looping' \in BOOLEAN
    BY <1>0, <1>2 DEF Typed
  <2> QED  BY <1>0, <1>1, <1>2, <2>1, <2>2, TypedFrame
<1> QED  BY <1>3, EndKeeps, SignalKeeps

LEMMA Stutters ==
  ASSUME Inv, UNCHANGED vars
  PROVE  Inv'
<1>1. UNCHANGED <<table, nprocs, trace_this_pid, root_exitstatus, looping, stopper, tostop,
                  kern, ktgid, forker, events, call, ret, status, ustatus, queued, owed,
                  ncalls, setting>>
  BY DEF vars
<1>2. Typed'
  BY <1>1 DEF Inv, Typed, World
<1>3. Created' /\ Match'
  <2>1. Created'
    BY <1>1 DEF Inv, Created
  <2> QED  BY SMT, <1>1, <2>1 DEF Inv, Match, Live, Exiting
<1>4. Outside' /\ Forking' /\ Calls'
  BY <1>1 DEF Inv, Outside, Forking, Calls, Live, Newborn, Begotten
<1>5. Narrow' /\ Loop' /\ Alone'
  BY <1>1 DEF Inv, Narrow, Loop, Alone, InFork, Live, Exiting
<1>6. Parents' /\ Signals' /\ Single'
  BY <1>1 DEF Inv, Parents, Signals, Single, Live
<1>7. Truth' /\ Waiting' /\ Ending' /\ CountsTheLiving' /\ NoMissedChild'
  BY <1>1 DEF Inv, Truth, Waiting, Ending, CountsTheLiving, NoMissedChild, Reaped, Live
<1> QED  BY <1>2, <1>3, <1>4, <1>5, <1>6, <1>7 DEF Inv

---------------------------------------------------------------------------
(* What the invariant says of the properties.                              *)

LEMMA StoppedIsKnown ==
  ASSUME Outside, NEW p \in Pids, kern[p] \in Stopped, trace_this_pid \in {AnyPid, p}
  PROVE  p \in DOMAIN table
<1>1. SUFFICES ASSUME p \notin DOMAIN table  PROVE FALSE
  OBVIOUS
<1>2. Live(p)
  BY DEF Live, Dead, Stopped
<1>3. forker[p] \in Pids /\ trace_this_pid = forker[p] /\ forker[p] # p
  BY <1>1, <1>2 DEF Outside, Newborn
<1> QED  BY <1>3, ConstantsAssumption

(* Facts about the process whose stop is handled.                          *)
LEMMA InvTyped ==
  ASSUME FiniteSetLaws, Inv
  PROVE  TypeOK
<1>0. Typed /\ CountsTheLiving
  BY DEF Inv
<1>1. nprocs \in Nat
  <2>1. IsFiniteSet({p \in DOMAIN table : table[p].state # "DONE"})
    BY <1>0, TypedHas, FiniteSubset
  <2> QED  BY <1>0, <2>1, FiniteCount DEF CountsTheLiving
<1>2. /\ DOMAIN table \subseteq Pids /\ (\A p \in DOMAIN table : table[p] \in ProcessType)
      /\ trace_this_pid \in Pids \cup {AnyPid} /\ events \subseteq Pids
      /\ queued \subseteq Pids /\ owed \subseteq Pids
      /\ stopper \in Pids \cup {AnyPid} /\ tostop \subseteq Pids
      /\ ktgid \in [Pids -> Pids] /\ forker \in [Pids -> Pids \cup {Murphy}]
  BY <1>0, TypedHas
<1>3. /\ kern \in [Pids -> {"none", "loose"} \cup {"user", "incall"} \cup Stopped \cup Dead]
      /\ call \in [Pids -> [op : AllOps, arg : Pids \cup {AnyPid}, real : AllOps \cup {"getpid"}]]
      /\ ret \in [Pids -> Pids \cup Numbers]
      /\ status \in [Pids -> Statuses] /\ ustatus \in [Pids -> Statuses]
  BY <1>0, TypedHas DEF KernType, Places, CallsType, CallType, RetType, StatusType
<1>4. /\ root_exitstatus \in Statuses /\ looping \in BOOLEAN
      /\ ncalls \in [Pids -> 0 .. setting.calls]
  BY <1>0 DEF Typed
<1> QED  BY <1>1, <1>2, <1>3, <1>4 DEF TypeOK

LEMMA InvMatches ==
  ASSUME Inv
  PROVE  StateMatchesKernel
<1>0. Typed /\ Created /\ Match
  BY DEF Inv
<1>1. SUFFICES ASSUME NEW p \in DOMAIN table, Live(p)
      PROVE  CASE table[p].state = "USER" ->
                    <<kern[p], p \in events>> \in {<<"user", FALSE>>, <<"born", TRUE>>, <<"entry", TRUE>>}
               [] table[p].state = "KERNEL" ->
                    \/ <<kern[p], p \in events>> \in {<<"incall", FALSE>>, <<"exit", TRUE>>}
                    \/ p = stopper /\ <<kern[p], p \in events>> = <<"entry", FALSE>>
               [] table[p].state = "WAITPID" -> <<kern[p], p \in events>> = <<"entry", FALSE>>
               [] table[p].state = "DONE" -> Leaving(p)
  BY DEF StateMatchesKernel
<1>2. p \in Pids /\ table[p].state \in {"USER", "KERNEL", "WAITPID", "DONE"}
  BY <1>0, TypedHas DEF ProcessType
<1>3. kern[p] \in {"user", "incall"} => p \notin events
  BY <1>0, <1>2 DEF Created
<1>4. CASE table[p].state = "USER"
  <2>1. \/ kern[p] = "user" /\ (p \in events) = FALSE
        \/ kern[p] = "born" /\ (p \in events) = TRUE
        \/ kern[p] = "entry" /\ (p \in events) = TRUE
    BY SMT, <1>0, <1>1, <1>3, <1>4 DEF Match
  <2> QED  BY <1>4, <2>1
<1>5. CASE table[p].state = "KERNEL"
  <2>1. \/ kern[p] = "incall" /\ (p \in events) = FALSE
        \/ kern[p] = "exit" /\ (p \in events) = TRUE
        \/ p = stopper /\ kern[p] = "entry" /\ (p \in events) = FALSE
    BY SMT, <1>0, <1>1, <1>3, <1>5 DEF Match
  <2> QED  BY <1>5, <2>1
<1>6. CASE table[p].state = "WAITPID"
  <2>1. kern[p] = "entry" /\ (p \in events) = FALSE
    BY SMT, <1>0, <1>1, <1>6 DEF Match
  <2> QED  BY <1>6, <2>1
<1>7. CASE table[p].state = "DONE"
  <2>1. PICK q \in Pids : ktgid[q] = ktgid[p] /\ Exiting(q)
    BY <1>0, <1>1, <1>7 DEF Match
  <2>2. q \in Group(p)
    BY <2>1 DEF Group
  <2>3. Leaving(p)
    BY <2>1, <2>2 DEF Leaving, Exiting
  <2> QED  BY <1>7, <2>3
<1> QED  BY <1>2, <1>4, <1>5, <1>6, <1>7

LEMMA InvTree ==
  ASSUME FiniteSetLaws, Inv
  PROVE  TreeSound
<1>0. Outside /\ Parents /\ Narrow /\ Calls /\ CountsTheLiving /\ Typed
  BY DEF Inv
<1>1. NoStranger
  BY <1>0, StoppedIsKnown DEF NoStranger, Collectible
<1>2. ParentIsForker
  BY <1>0 DEF Parents, ParentIsForker
<1>3. NarrowOnlyInGoodFork
  <2>1. SUFFICES ASSUME NEW p \in Pids, p = trace_this_pid, setting.faults = {}
                 PROVE  call[p].op \in Forks /\ kern[p] \in {"incall", "exit", "zombie"}
    BY DEF NarrowOnlyInGoodFork, NarrowOnlyInFork
  <2>2. kern[p] \in {"incall", "exit"} /\ call[p].real \in Forks
    BY <1>0, <2>1 DEF Narrow, InFork
  <2>3. call[p].real = call[p].op
    BY <1>0, <2>2 DEF Calls, Forks
  <2> QED  BY <2>2, <2>3
<1> QED  BY <1>0, <1>1, <1>2, <1>3, InvTyped, InvMatches DEF TreeSound

LEMMA InvRest ==
  ASSUME Inv
  PROVE  NothingMissed /\ WaitTellsTheTruth /\ EndsLast
<1>0. Typed /\ NoMissedChild /\ Signals /\ Truth /\ Ending
  BY DEF Inv
<1>1. NothingMissed
  BY <1>0 DEF NothingMissed, NoSignalLost, Signals
<1>2. WaitTellsTheTruth
  <2>1. SUFFICES ASSUME NEW p \in Pids, kern[p] = "user", call[p].op \in Waits,
                        NEW c \in Pids, c = ret[p]
                 PROVE  Leaving(c) /\ ustatus[p] = status[c]
    BY DEF WaitTellsTheTruth
  <2>2. kern[c] = "gone" /\ ustatus[p] = status[c]
    BY <1>0, <2>1 DEF Truth, Reaped
  <2>3. c \in Group(c)
    BY <1>0, TypedHas DEF Group
  <2> QED  BY <2>2, <2>3 DEF Leaving, Dead
<1>3. EndsLast
  BY <1>0 DEF Ending, EndsLast
<1> QED  BY <1>1, <1>2, <1>3
============================================================================
