------------------------- MODULE ProcessTreeSteps -------------------------
(***************************************************************************)
(* What the handlers of ProcessTree do to a world, and that the end of a   *)
(* process, on its own or with its group, keeps the invariant.             *)
(***************************************************************************)
EXTENDS ProcessTreeInvariant

USE Zenon

---------------------------------------------------------------------------
(* Worlds, and what the parts of the handlers do to them.                  *)

LEMMA TableSet ==
  ASSUME NEW t \in Tables, NEW p \in DOMAIN t, NEW e \in ProcessType, NEW u,
         u = [t EXCEPT ![p] = e]
  PROVE  /\ u \in Tables
         /\ DOMAIN u = DOMAIN t /\ u[p] = e
         /\ \A q \in DOMAIN t \ {p} : u[q] = t[q]
<1>1. DOMAIN t \subseteq Pids /\ t \in [DOMAIN t -> ProcessType]
  BY TableHas
<1>2. u \in [DOMAIN t -> ProcessType]
  BY <1>1
<1> HIDE DEF ProcessType
<1>3. u \in Tables
  BY <1>1, <1>2, TableIs
<1> QED  BY <1>1, <1>2, <1>3

LEMMA TableRemove ==
  ASSUME NEW t \in Tables, NEW c, NEW u, u = [x \in DOMAIN t \ {c} |-> t[x]]
  PROVE  /\ u \in Tables
         /\ DOMAIN u = DOMAIN t \ {c}
         /\ \A q \in DOMAIN t \ {c} : u[q] = t[q]
<1>1. DOMAIN t \subseteq Pids /\ t \in [DOMAIN t -> ProcessType]
  BY TableHas
<1>2. u \in [DOMAIN t \ {c} -> ProcessType]
  BY <1>1
<1>3. u \in Tables
  BY <1>1, <1>2, TableIs
<1> QED  BY <1>1, <1>3

(* The fields of a world have their types.                                 *)

(* A new entry for p; Rest says what is neither of p nor of the loop.      *)
Rest(w, v) ==
  /\ v.nprocs = w.nprocs /\ v.events = w.events /\ v.status = w.status
  /\ v.ustatus = w.ustatus /\ v.queued = w.queued /\ v.owed = w.owed
  /\ v.tostop = w.tostop

PutEntry(w, p, e) == [w EXCEPT !.table = [w.table EXCEPT ![p] = e]]

LEMMA PutEffect ==
  ASSUME NEW w \in WorldType, NEW p \in DOMAIN w.table, NEW e \in ProcessType, NEW v,
         v = PutEntry(w, p, e)
  PROVE  /\ v \in WorldType /\ Rest(w, v) /\ v.table = [w.table EXCEPT ![p] = e]
         /\ v.kern = w.kern /\ v.call = w.call /\ v.ret = w.ret /\ v.trace = w.trace
         /\ v.stopper = w.stopper
         /\ DOMAIN v.table = DOMAIN w.table /\ v.table[p] = e
         /\ \A q \in DOMAIN w.table \ {p} : v.table[q] = w.table[q]
<1>1. w.table \in Tables
  BY WorldHas
<1>2. [w.table EXCEPT ![p] = e] \in Tables
  BY <1>1, TableSet
<1>3. v.table = [w.table EXCEPT ![p] = e]
  BY DEF PutEntry, WorldType
<1>4. v \in WorldType /\ Rest(w, v)
  BY <1>2 DEF PutEntry, WorldType, Rest
<1>5. /\ v.kern = w.kern /\ v.call = w.call /\ v.ret = w.ret /\ v.trace = w.trace
      /\ v.stopper = w.stopper
  BY DEF PutEntry, WorldType
<1> QED  BY <1>1, <1>3, <1>4, <1>5, TableSet

LEMMA EntryHas ==
  ASSUME NEW w \in WorldType, NEW p \in DOMAIN w.table
  PROVE  w.table[p] \in ProcessType /\ p \in Pids
<1>1. w.table \in Tables
  BY WorldHas
<1> QED  BY <1>1, TableHas

(* The handlers that set fields of an entry.                               *)
LEMMA Entered ==
  ASSUME NEW w \in WorldType, NEW p \in DOMAIN w.table
  PROVE  [w EXCEPT !.table[p].state = "KERNEL", !.table[p].syscall_dummy = FALSE]
           = PutEntry(w, p, [w.table[p] EXCEPT !.state = "KERNEL", !.syscall_dummy = FALSE])
<1>1. w.table \in Tables
  BY WorldHas
<1>2. w.table \in [DOMAIN w.table -> ProcessType]
  BY <1>1, TableHas
<1> QED  BY <1>2 DEF PutEntry, WorldType

(* p turns: entry e, place k, call c, result r, and t is traced.           *)
Turn(w, v, p, e, k, c, r, t) ==
  /\ Rest(w, v)
  /\ v.table = [w.table EXCEPT ![p] = e]
  /\ v.kern = [w.kern EXCEPT ![p] = k]
  /\ v.call = [w.call EXCEPT ![p] = c]
  /\ v.ret = [w.ret EXCEPT ![p] = r]
  /\ v.trace = t

LEMMA ResumedPlace ==
  ASSUME NEW k \in Places
  PROVE  Resumed(k) \in Places
  BY DEF Resumed, Places, Stopped, Dead

LEMMA ContinueEffect ==
  ASSUME NEW w \in WorldType, NEW p \in Pids, NEW v, v = tracer_continue(w, p)
  PROVE  /\ v \in WorldType /\ Rest(w, v) /\ v.table = w.table
         /\ v.kern = [w.kern EXCEPT ![p] = Resumed(w.kern[p])]
         /\ v.call = w.call /\ v.ret = w.ret /\ v.trace = w.trace
         /\ v.stopper = w.stopper
<1> DEFINE k == [w.kern EXCEPT ![p] = Resumed(w.kern[p])]
<1>1. w.kern \in KernType
  BY WorldHas
<1>2. k \in KernType
  BY <1>1, ResumedPlace DEF KernType
<1>3. v = [w EXCEPT !.kern = k]
  BY DEF tracer_continue, WorldType
<1> HIDE DEF k
<1>4. v \in WorldType
  BY <1>2, <1>3 DEF WorldType
<1>5. v.kern = k
  BY <1>3 DEF WorldType
<1>6. /\ Rest(w, v) /\ v.table = w.table /\ v.call = w.call /\ v.ret = w.ret
      /\ v.trace = w.trace /\ v.stopper = w.stopper
  BY <1>3 DEF WorldType, Rest
<1> QED  BY <1>4, <1>5, <1>6 DEF k

(* Nothing is lost when what is there already is put there.                *)
LEMMA PutSame ==
  ASSUME NEW w \in WorldType, NEW p \in Pids
  PROVE  /\ [w.kern EXCEPT ![p] = w.kern[p]] = w.kern
         /\ [w.call EXCEPT ![p] = w.call[p]] = w.call
         /\ [w.ret EXCEPT ![p] = w.ret[p]] = w.ret
<1>1. w.kern \in KernType /\ w.call \in CallsType /\ w.ret \in RetType
  BY WorldHas
<1>2. [w.kern EXCEPT ![p] = w.kern[p]] = w.kern
  BY <1>1 DEF KernType
<1>3. [w.call EXCEPT ![p] = w.call[p]] = w.call
  BY <1>1 DEF CallsType
<1>4. [w.ret EXCEPT ![p] = w.ret[p]] = w.ret
  BY <1>1 DEF RetType
<1> QED  BY <1>2, <1>3, <1>4

InKernel(e) == [e EXCEPT !.state = "KERNEL", !.syscall_dummy = FALSE]

LEMMA InKernelType ==
  ASSUME NEW e \in ProcessType, NEW d, d = InKernel(e)
  PROVE  /\ d \in ProcessType /\ d.state = "KERNEL" /\ ~d.syscall_dummy
         /\ d.ppid = e.ppid /\ d.tgid = e.tgid /\ d.interruptible = e.interruptible
         /\ d.exit_status = e.exit_status
  BY DEF InKernel, ProcessType

(* Put an entry, then proceed.                                             *)
LEMMA PutAndGo ==
  ASSUME NEW w \in WorldType, NEW p \in DOMAIN w.table, NEW e \in ProcessType, NEW u, NEW v,
         u = PutEntry(w, p, e), v = Proceed(u, p), w.stopper = AnyPid,
         e.state \in {"KERNEL", "USER"}
  PROVE  /\ v \in WorldType /\ v.stopper = AnyPid
         /\ Turn(w, v, p, e, Resumed(w.kern[p]), w.call[p], w.ret[p], w.trace)
<1>1. p \in Pids
  BY EntryHas
<1>2. /\ u \in WorldType /\ Rest(w, u) /\ u.table = [w.table EXCEPT ![p] = e]
      /\ u.kern = w.kern /\ u.call = w.call /\ u.ret = w.ret /\ u.trace = w.trace
      /\ u.stopper = w.stopper /\ u.table[p] = e
  BY SMT, PutEffect
<1>3. v = tracer_continue(u, p)
  BY <1>2 DEF Proceed
<1>4. /\ v \in WorldType /\ Rest(u, v) /\ v.table = u.table
      /\ v.kern = [u.kern EXCEPT ![p] = Resumed(u.kern[p])]
      /\ v.call = u.call /\ v.ret = u.ret /\ v.trace = u.trace
      /\ v.stopper = u.stopper
  BY SMT, <1>1, <1>2, <1>3, ContinueEffect
<1> QED  BY <1>1, <1>2, <1>4, PutSame DEF Turn, Rest

LEMMA PutTwice ==
  ASSUME NEW w \in WorldType, NEW p \in DOMAIN w.table, NEW d \in ProcessType,
         NEW e \in ProcessType
  PROVE  PutEntry(PutEntry(w, p, d), p, e) = PutEntry(w, p, e)
<1>1. w.table \in Tables
  BY WorldHas
<1>2. w.table \in [DOMAIN w.table -> ProcessType]
  BY <1>1, TableHas
<1> QED  BY <1>2 DEF PutEntry, WorldType

LEMMA TraceEffect ==
  ASSUME NEW w \in WorldType, NEW t \in Pids \cup {AnyPid}, NEW v, v = [w EXCEPT !.trace = t]
  PROVE  /\ v \in WorldType /\ Rest(w, v) /\ v.table = w.table /\ v.kern = w.kern
         /\ v.call = w.call /\ v.ret = w.ret /\ v.trace = t /\ v.stopper = w.stopper
  BY DEF WorldType, Rest

(* A call's entry finds the process in user mode.                          *)
AtEntry(w, p) ==
  /\ w \in WorldType /\ p \in DOMAIN w.table /\ w.stopper = AnyPid
  /\ w.table[p].state = "USER"

LEMMA DispatchFork ==
  ASSUME NEW w, NEW p, AtEntry(w, p), w.call[p].op \in Forks,
         "eagain" \notin setting.faults, NEW v \in pfs_dispatch(w, p)
  PROVE  /\ v \in WorldType /\ v.stopper = AnyPid
         /\ Turn(w, v, p, InKernel(w.table[p]), Resumed(w.kern[p]), w.call[p], w.ret[p], p)
<1> DEFINE e == InKernel(w.table[p])
           u == PutEntry(w, p, e)
           t == [u EXCEPT !.trace = p]
<1>0. w \in WorldType /\ p \in DOMAIN w.table /\ w.stopper = AnyPid /\ w.table[p].state = "USER"
  BY DEF AtEntry
<1>1. p \in Pids /\ e \in ProcessType /\ e.state = "KERNEL"
  BY <1>0, EntryHas, InKernelType
<1>2. EnterSyscall(w, p) = {t}
  BY <1>0, Entered DEF EnterSyscall, EnterFork, InKernel, Forks, Waits
<1>3. v = Proceed(t, p)
  BY <1>0, <1>2 DEF pfs_dispatch
<1> HIDE DEF e
<1>4. /\ u \in WorldType /\ Rest(w, u) /\ u.table = [w.table EXCEPT ![p] = e]
      /\ u.kern = w.kern /\ u.call = w.call /\ u.ret = w.ret
      /\ u.stopper = AnyPid /\ u.table[p] = e
  BY SMT, <1>0, <1>1, PutEffect
<1> HIDE DEF u
<1>5. /\ t \in WorldType /\ Rest(u, t) /\ t.table = u.table /\ t.kern = u.kern
      /\ t.call = u.call /\ t.ret = u.ret /\ t.trace = p /\ t.stopper = AnyPid
  BY SMT, <1>1, <1>4, TraceEffect
<1> HIDE DEF t
<1>6. v = tracer_continue(t, p)
  BY <1>1, <1>3, <1>4, <1>5 DEF Proceed
<1>7. /\ v \in WorldType /\ Rest(t, v) /\ v.table = t.table
      /\ v.kern = [t.kern EXCEPT ![p] = Resumed(t.kern[p])]
      /\ v.call = t.call /\ v.ret = t.ret /\ v.trace = t.trace /\ v.stopper = AnyPid
  BY SMT, <1>1, <1>5, <1>6, ContinueEffect
<1>8. Rest(w, v)
  BY <1>4, <1>5, <1>7 DEF Rest
<1>9. [w.call EXCEPT ![p] = w.call[p]] = w.call /\ [w.ret EXCEPT ![p] = w.ret[p]] = w.ret
  BY <1>0, <1>1, PutSame
<1>10. Turn(w, v, p, e, Resumed(w.kern[p]), w.call[p], w.ret[p], p)
  BY <1>4, <1>5, <1>7, <1>8, <1>9 DEF Turn
<1> QED  BY <1>7, <1>10 DEF e

LEMMA DispatchExit ==
  ASSUME NEW w, NEW p, AtEntry(w, p), w.call[p].op = "exit",
         NEW v \in pfs_dispatch(w, p)
  PROVE  /\ v \in WorldType /\ v.stopper = AnyPid
         /\ Turn(w, v, p, InKernel(w.table[p]), Resumed(w.kern[p]), w.call[p], w.ret[p], w.trace)
<1> DEFINE e == InKernel(w.table[p])
<1>0. w \in WorldType /\ p \in DOMAIN w.table /\ w.stopper = AnyPid /\ w.table[p].state = "USER"
  BY DEF AtEntry
<1>1. e \in ProcessType /\ e.state = "KERNEL"
  BY <1>0, EntryHas, InKernelType
<1>2. EnterSyscall(w, p) = {PutEntry(w, p, e)}
  BY <1>0, Entered DEF EnterSyscall, InKernel, Forks, Waits
<1>3. v = Proceed(PutEntry(w, p, e), p)
  BY <1>0, <1>2 DEF pfs_dispatch
<1> HIDE DEF e
<1> QED  BY <1>0, <1>1, <1>3, PutAndGo DEF e

LEMMA DispatchSigaction ==
  ASSUME NEW w, NEW p, AtEntry(w, p), w.call[p].op = "sigaction",
         NEW v \in pfs_dispatch(w, p)
  PROVE  /\ v \in WorldType /\ v.stopper = AnyPid
         /\ Turn(w, v, p, [InKernel(w.table[p]) EXCEPT !.interruptible = TRUE],
                 Resumed(w.kern[p]), w.call[p], w.ret[p], w.trace)
<1> DEFINE d == InKernel(w.table[p])
           u == PutEntry(w, p, d)
           e == [d EXCEPT !.interruptible = TRUE]
<1>0. w \in WorldType /\ p \in DOMAIN w.table /\ w.stopper = AnyPid /\ w.table[p].state = "USER"
  BY DEF AtEntry
<1>1. d \in ProcessType /\ d.state = "KERNEL"
  BY <1>0, EntryHas, InKernelType
<1> HIDE DEF d
<1>2. e \in ProcessType /\ e.state = "KERNEL"
  BY <1>1 DEF ProcessType
<1>3. u \in WorldType /\ p \in DOMAIN u.table /\ u.table[p] = d
  <2>1. u = PutEntry(w, p, d)
    OBVIOUS
  <2> HIDE DEF u, e
  <2>2. /\ u \in WorldType /\ DOMAIN u.table = DOMAIN w.table /\ u.table[p] = d
        /\ u.table = [w.table EXCEPT ![p] = d]
    BY SMT, <1>0, <1>1, <2>1, PutEffect
  <2> QED  BY <1>0, <2>2
<1>4. EnterSyscall(w, p) = {[u EXCEPT !.table[p].interruptible = TRUE]}
  BY <1>0, Entered DEF EnterSyscall, InKernel, Forks, Waits, d
<1> HIDE DEF u
<1>5. [u EXCEPT !.table[p].interruptible = TRUE] = PutEntry(u, p, e)
  <2>1. u.table \in [DOMAIN u.table -> ProcessType]
    BY <1>3, WorldHas, TableHas
  <2> QED  BY <1>3, <2>1 DEF PutEntry, WorldType
<1>6. PutEntry(u, p, e) = PutEntry(w, p, e)
  BY <1>0, <1>1, <1>2, PutTwice DEF u
<1>7. v = Proceed(PutEntry(w, p, e), p)
  BY <1>0, <1>4, <1>5, <1>6 DEF pfs_dispatch
<1> HIDE DEF e
<1> QED  BY <1>0, <1>2, <1>7, PutAndGo DEF d, e

LEMMA DispatchExitGroup ==
  ASSUME NEW w, NEW p, AtEntry(w, p), w.call[p].op = "exit_group",
         NEW v \in pfs_dispatch(w, p), AnyPid \notin Pids
  PROVE  /\ v \in WorldType /\ v.stopper = p
         /\ v.tostop = {q \in DOMAIN w.table \ {p} : w.table[q].tgid = w.table[p].tgid}
         /\ v.table = [w.table EXCEPT ![p] = InKernel(w.table[p])]
         /\ v.kern = w.kern /\ v.call = w.call /\ v.ret = w.ret /\ v.trace = w.trace
         /\ v.nprocs = w.nprocs /\ v.events = w.events /\ v.status = w.status
         /\ v.ustatus = w.ustatus /\ v.queued = w.queued /\ v.owed = w.owed
<1> DEFINE e == InKernel(w.table[p])
           u == PutEntry(w, p, e)
           threads == {q \in DOMAIN u.table \ {p} : u.table[q].tgid = u.table[p].tgid}
           x == [u EXCEPT !.stopper = p, !.tostop = threads]
<1>0. w \in WorldType /\ p \in DOMAIN w.table /\ w.stopper = AnyPid /\ w.table[p].state = "USER"
  BY DEF AtEntry
<1>1. p \in Pids /\ e \in ProcessType /\ e.tgid = w.table[p].tgid
  BY <1>0, EntryHas, InKernelType
<1>2. EnterSyscall(w, p) = {x}
  BY <1>0, Entered DEF EnterSyscall, pfs_process_exit_group, InKernel, Forks, Waits
<1>3. v = Proceed(x, p)
  BY <1>0, <1>2 DEF pfs_dispatch
<1> HIDE DEF e
<1>4. u = PutEntry(w, p, e)
  OBVIOUS
<1> HIDE DEF u
<1>5. /\ u \in WorldType /\ Rest(w, u) /\ u.table = [w.table EXCEPT ![p] = e]
      /\ u.kern = w.kern /\ u.call = w.call /\ u.ret = w.ret /\ u.trace = w.trace
      /\ DOMAIN u.table = DOMAIN w.table /\ u.table[p] = e
      /\ \A q \in DOMAIN w.table \ {p} : u.table[q] = w.table[q]
  BY SMT, <1>0, <1>1, <1>4, PutEffect
<1>6. threads = {q \in DOMAIN w.table \ {p} : w.table[q].tgid = w.table[p].tgid}
  BY <1>0, <1>1, <1>5
<1>7. threads \subseteq Pids
  BY <1>0, <1>6, EntryHas
<1> HIDE DEF threads
<1>8. /\ x \in WorldType /\ x.stopper = p /\ x.tostop = threads
      /\ x.table = u.table /\ x.kern = u.kern /\ x.call = u.call /\ x.ret = u.ret
      /\ x.trace = u.trace
  BY <1>1, <1>5, <1>7 DEF WorldType
<1>9. /\ x.nprocs = u.nprocs /\ x.events = u.events /\ x.status = u.status
      /\ x.ustatus = u.ustatus /\ x.queued = u.queued /\ x.owed = u.owed
  BY <1>5 DEF WorldType
<1> HIDE DEF x
<1>10. v = x
  BY <1>1, <1>3, <1>8 DEF Proceed
<1> QED  BY <1>5, <1>6, <1>8, <1>9, <1>10 DEF e, Rest

LEMMA DispatchOther ==
  ASSUME NEW w, NEW p, w.table[p].state \notin {"USER", "KERNEL"}, NEW v \in pfs_dispatch(w, p)
  PROVE  v = w
  BY DEF pfs_dispatch, Proceed

(* A call's exit, other than of a clone with a child.                      *)
Released(e) == [e EXCEPT !.state = "USER", !.syscall_dummy = FALSE]
Answer(w, p) == IF w.table[p].syscall_dummy THEN w.table[p].syscall_result ELSE w.ret[p]

LEMMA ReleasedType ==
  ASSUME NEW e \in ProcessType, NEW d, d = Released(e)
  PROVE  /\ d \in ProcessType /\ d.state = "USER" /\ ~d.syscall_dummy
         /\ d.ppid = e.ppid /\ d.tgid = e.tgid /\ d.interruptible = e.interruptible
         /\ d.exit_status = e.exit_status
  BY DEF Released, ProcessType

LEMMA EpilogueEffect ==
  ASSUME NEW w \in WorldType, NEW p \in DOMAIN w.table, w.table[p].state = "KERNEL",
         NEW me \in ProcessType, NEW v, v = Epilogue(w, p, me)
  PROVE  /\ v \in WorldType /\ Rest(w, v) /\ v.kern = w.kern /\ v.call = w.call
         /\ v.trace = w.trace /\ v.stopper = w.stopper
         /\ v.table = [w.table EXCEPT ![p] = Released(w.table[p])]
         /\ v.ret = [w.ret EXCEPT ![p] = IF me.syscall_dummy THEN me.syscall_result ELSE @]
<1> DEFINE r == [w.ret EXCEPT ![p] = IF me.syscall_dummy THEN me.syscall_result ELSE @]
           u == PutEntry(w, p, Released(w.table[p]))
<1>1. p \in Pids /\ w.table[p] \in ProcessType
  BY EntryHas
<1>2. w.ret \in RetType /\ w.table \in Tables
  BY WorldHas
<1>3. r \in RetType
  BY <1>1, <1>2 DEF RetType, ProcessType
<1>4. v = [u EXCEPT !.ret = r]
  <2>1. w.table \in [DOMAIN w.table -> ProcessType]
    BY <1>2, TableHas
  <2> QED  BY <2>1 DEF Epilogue, PutEntry, WorldType, Released
<1>5. u = PutEntry(w, p, Released(w.table[p])) /\ Released(w.table[p]) \in ProcessType
  BY <1>1, ReleasedType
<1> HIDE DEF u, r
<1>6. /\ u \in WorldType /\ Rest(w, u) /\ u.table = [w.table EXCEPT ![p] = Released(w.table[p])]
      /\ u.kern = w.kern /\ u.call = w.call /\ u.trace = w.trace
      /\ u.stopper = w.stopper
  BY SMT, <1>5, PutEffect
<1>7. /\ v \in WorldType /\ Rest(u, v) /\ v.table = u.table /\ v.kern = u.kern
      /\ v.call = u.call /\ v.trace = u.trace /\ v.stopper = u.stopper /\ v.ret = r
  BY <1>3, <1>4, <1>6 DEF WorldType, Rest
<1> QED  BY <1>6, <1>7 DEF Rest, r

LEMMA ReleaseAndGo ==
  ASSUME NEW w \in WorldType, NEW p \in DOMAIN w.table, w.stopper = AnyPid,
         w.table[p].state = "KERNEL", NEW v, v = Proceed(Epilogue(w, p, w.table[p]), p)
  PROVE  /\ v \in WorldType /\ v.stopper = AnyPid
         /\ Turn(w, v, p, Released(w.table[p]), Resumed(w.kern[p]), w.call[p], Answer(w, p), w.trace)
<1> DEFINE me == w.table[p]
           u == Epilogue(w, p, me)
<1>1. p \in Pids /\ me \in ProcessType
  BY EntryHas
<1>4. u = Epilogue(w, p, me)
  OBVIOUS
<1> HIDE DEF u
<1>5. /\ u \in WorldType /\ Rest(w, u) /\ u.kern = w.kern /\ u.call = w.call
      /\ u.trace = w.trace /\ u.stopper = AnyPid
      /\ u.table = [w.table EXCEPT ![p] = Released(w.table[p])]
      /\ u.ret = [w.ret EXCEPT ![p] = IF me.syscall_dummy THEN me.syscall_result ELSE @]
  BY SMT, <1>1, <1>4, EpilogueEffect
<1>6. u.ret = [w.ret EXCEPT ![p] = Answer(w, p)]
  BY <1>1, <1>5, WorldHas DEF Answer, RetType
<1>7. u.table[p] = Released(w.table[p]) /\ u.table[p].state = "USER"
  <2>1. w.table \in Tables
    BY WorldHas
  <2> QED  BY <1>1, <1>5, <2>1, TableSet, ReleasedType
<1>8. v = tracer_continue(u, p)
  BY <1>4, <1>5, <1>7 DEF Proceed
<1>9. /\ v \in WorldType /\ Rest(u, v) /\ v.table = u.table
      /\ v.kern = [u.kern EXCEPT ![p] = Resumed(u.kern[p])]
      /\ v.call = u.call /\ v.ret = u.ret /\ v.trace = u.trace /\ v.stopper = u.stopper
  BY SMT, <1>1, <1>5, <1>8, ContinueEffect
<1>10. Rest(w, v) /\ [w.call EXCEPT ![p] = w.call[p]] = w.call
  BY <1>1, <1>5, <1>9, PutSame DEF Rest
<1> QED  BY <1>5, <1>6, <1>9, <1>10 DEF Turn

LEMMA DispatchReturn ==
  ASSUME NEW w \in WorldType, NEW p \in DOMAIN w.table, w.stopper = AnyPid,
         w.table[p].state = "KERNEL", w.call[p].op \notin Forks \/ w.ret[p] \notin Pids,
         NEW v \in pfs_dispatch(w, p)
  PROVE  /\ v \in WorldType /\ v.stopper = AnyPid
         /\ Turn(w, v, p, Released(w.table[p]), Resumed(w.kern[p]), w.call[p], Answer(w, p), w.trace)
<1>1. ExitSyscall(w, p) = Epilogue(w, p, w.table[p])
  BY DEF ExitSyscall, ExitFork
<1>2. v = Proceed(Epilogue(w, p, w.table[p]), p)
  BY <1>1 DEF pfs_dispatch
<1> QED  BY <1>2, ReleaseAndGo

(* A clone's exit with a child: the entry of the child.                    *)
Child(w, p) ==
  LET me == w.table[p]
      thread == w.call[p].op = "thread"
  IN  NewProcess(IF thread /\ me.ppid \in DOMAIN w.table THEN me.ppid ELSE p,
                 IF thread THEN me.tgid ELSE w.ret[p], ~thread, me.interruptible)

LEMMA ChildType ==
  ASSUME NEW w \in WorldType, NEW p \in DOMAIN w.table, w.ret[p] \in Pids,
         AnyPid \notin Pids
  PROVE  Child(w, p) \in ProcessType
<1>1. w.table[p] \in ProcessType /\ p \in Pids
  BY EntryHas
<1> QED  BY <1>1 DEF Child, NewProcess, ProcessType, Numbers, Statuses

(* The child is entered and the trace widened.                             *)
Enlist(w, c, e) ==
  [w EXCEPT !.nprocs = w.nprocs + 1, !.trace = AnyPid,
            !.table = [x \in DOMAIN w.table \cup {c} |-> IF x = c THEN e ELSE w.table[x]]]

LEMMA EnlistEffect ==
  ASSUME NEW w \in WorldType, NEW c \in Pids, NEW e \in ProcessType, NEW n,
         n = Enlist(w, c, e)
  PROVE  /\ n \in WorldType /\ DOMAIN n.table = DOMAIN w.table \cup {c} /\ n.table[c] = e
         /\ \A q \in DOMAIN w.table \ {c} : n.table[q] = w.table[q]
         /\ n.nprocs = w.nprocs + 1 /\ n.trace = AnyPid /\ n.kern = w.kern
         /\ n.call = w.call /\ n.ret = w.ret /\ n.stopper = w.stopper
         /\ n.events = w.events /\ n.status = w.status /\ n.ustatus = w.ustatus
         /\ n.queued = w.queued /\ n.owed = w.owed /\ n.tostop = w.tostop
<1> DEFINE t == [x \in DOMAIN w.table \cup {c} |-> IF x = c THEN e ELSE w.table[x]]
<1>1. w.table \in Tables /\ w.nprocs + 1 \in Int
  BY SMT, WorldHas
<1>2. /\ t \in Tables /\ DOMAIN t = DOMAIN w.table \cup {c} /\ t[c] = e
      /\ \A q \in DOMAIN w.table \ {c} : t[q] = w.table[q]
  <2>1. DOMAIN w.table \subseteq Pids /\ w.table \in [DOMAIN w.table -> ProcessType]
    BY <1>1, TableHas
  <2>2. t \in [DOMAIN w.table \cup {c} -> ProcessType]
    BY <2>1
  <2>3. t \in Tables
    BY <2>1, <2>2, TableIs
  <2> QED  BY <2>1, <2>3
<1>3. n = [w EXCEPT !.nprocs = w.nprocs + 1, !.trace = AnyPid, !.table = t]
  BY DEF Enlist
<1> HIDE DEF t
<1>4. /\ n \in WorldType /\ n.table = t /\ n.nprocs = w.nprocs + 1 /\ n.trace = AnyPid
      /\ n.kern = w.kern /\ n.call = w.call /\ n.ret = w.ret /\ n.stopper = w.stopper
  BY <1>1, <1>2, <1>3 DEF WorldType
<1>5. /\ n.events = w.events /\ n.status = w.status /\ n.ustatus = w.ustatus
      /\ n.queued = w.queued /\ n.owed = w.owed /\ n.tostop = w.tostop
  BY <1>3 DEF WorldType
<1> QED  BY <1>2, <1>4, <1>5

(* The child of a fork by p is in the table, and p has gone on.            *)
ChildEntered(w, v, p) ==
  /\ v \in WorldType /\ v.stopper = AnyPid /\ v.trace = AnyPid
  /\ DOMAIN v.table = DOMAIN w.table \cup {w.ret[p]}
  /\ v.table[w.ret[p]] = Child(w, p) /\ v.table[p] = Released(w.table[p])
  /\ \A q \in DOMAIN w.table \ {p, w.ret[p]} : v.table[q] = w.table[q]
  /\ v.nprocs = w.nprocs + 1 /\ v.kern = [w.kern EXCEPT ![p] = Resumed(w.kern[p])]
  /\ v.ret = [w.ret EXCEPT ![p] = Answer(w, p)]
  /\ v.events = w.events /\ v.call = w.call /\ v.status = w.status
  /\ v.ustatus = w.ustatus /\ v.queued = w.queued /\ v.owed = w.owed
  /\ v.tostop = w.tostop

LEMMA DispatchChild ==
  ASSUME NEW w \in WorldType, NEW p \in DOMAIN w.table, w.stopper = AnyPid,
         w.table[p].state = "KERNEL", w.call[p].op \in {"fork", "thread"},
         w.ret[p] \in Pids, w.ret[p] # p, AnyPid \notin Pids, NEW v \in pfs_dispatch(w, p)
  PROVE  ChildEntered(w, v, p)
<1> DEFINE n == Enlist(w, w.ret[p], Child(w, p))
<1>1. p \in Pids /\ w.table[p] \in ProcessType /\ Child(w, p) \in ProcessType
  BY EntryHas, ChildType
<1>2. ExitFork(w, p) = n
  BY DEF ExitFork, Enlist, pfs_process_create, pfs_process_lookup, Child, WorldType
<1>3. v = Proceed(Epilogue(n, p, w.table[p]), p)
  BY <1>2 DEF pfs_dispatch, ExitSyscall, Forks
<1>4. n = Enlist(w, w.ret[p], Child(w, p))
  OBVIOUS
<1> HIDE DEF n
<1>5. /\ n \in WorldType /\ DOMAIN n.table = DOMAIN w.table \cup {w.ret[p]}
      /\ n.table[w.ret[p]] = Child(w, p)
      /\ \A q \in DOMAIN w.table \ {w.ret[p]} : n.table[q] = w.table[q]
      /\ n.nprocs = w.nprocs + 1 /\ n.trace = AnyPid /\ n.kern = w.kern
      /\ n.call = w.call /\ n.ret = w.ret /\ n.stopper = w.stopper
      /\ n.events = w.events /\ n.status = w.status /\ n.ustatus = w.ustatus
      /\ n.queued = w.queued /\ n.owed = w.owed /\ n.tostop = w.tostop
  BY SMT, <1>1, <1>4, EnlistEffect
<1>6. p \in DOMAIN n.table /\ n.table[p] = w.table[p]
  BY <1>5
<1>7. /\ v \in WorldType /\ v.stopper = AnyPid
      /\ Turn(n, v, p, Released(n.table[p]), Resumed(n.kern[p]), n.call[p], Answer(n, p), n.trace)
  BY <1>3, <1>5, <1>6, ReleaseAndGo
<1>8. Answer(n, p) = Answer(w, p)
  BY <1>5, <1>6 DEF Answer
<1>9. /\ v.trace = AnyPid /\ v.kern = [w.kern EXCEPT ![p] = Resumed(w.kern[p])]
      /\ v.ret = [w.ret EXCEPT ![p] = Answer(w, p)] /\ v.call = w.call
      /\ v.table = [n.table EXCEPT ![p] = Released(w.table[p])] /\ Rest(n, v)
  <2>1. /\ Rest(n, v) /\ v.table = [n.table EXCEPT ![p] = Released(n.table[p])]
        /\ v.kern = [n.kern EXCEPT ![p] = Resumed(n.kern[p])]
        /\ v.call = [n.call EXCEPT ![p] = n.call[p]]
        /\ v.ret = [n.ret EXCEPT ![p] = Answer(n, p)] /\ v.trace = n.trace
    BY <1>7 DEF Turn
  <2>2. v.call = w.call
    BY <1>1, <1>5, <2>1, PutSame
  <2> QED  BY <1>5, <1>6, <1>8, <2>1, <2>2
<1>10. /\ DOMAIN v.table = DOMAIN n.table /\ v.table[p] = Released(w.table[p])
       /\ \A q \in DOMAIN n.table \ {p} : v.table[q] = n.table[q]
  <2>1. n.table \in Tables /\ Released(w.table[p]) \in ProcessType
    BY <1>1, <1>5, WorldHas, ReleasedType
  <2> QED  BY <1>6, <1>9, <2>1, TableSet
<1> QED  BY <1>5, <1>7, <1>9, <1>10 DEF Rest, ChildEntered

(* A dead child c is handed to its parent p, which is waiting.             *)
Wakened(e, c) == [e EXCEPT !.state = "KERNEL", !.syscall_result = c]

LEMMA WakenedType ==
  ASSUME NEW e \in ProcessType, NEW c \in Pids, NEW d, d = Wakened(e, c)
  PROVE  /\ d \in ProcessType /\ d.state = "KERNEL" /\ d.syscall_result = c
         /\ d.syscall_dummy = e.syscall_dummy
         /\ d.ppid = e.ppid /\ d.tgid = e.tgid /\ d.interruptible = e.interruptible
  BY DEF Wakened, ProcessType

Reaps(w, v, p, c, e) ==
  /\ DOMAIN v.table = DOMAIN w.table \ {c}
  /\ v.table[p] = e
  /\ \A q \in DOMAIN w.table \ {c, p} : v.table[q] = w.table[q]
  /\ v.events = w.events /\ v.ret = w.ret /\ v.status = w.status
  /\ v.queued = w.queued /\ v.owed = w.owed /\ v.trace = w.trace
  /\ v.stopper = w.stopper /\ v.tostop = w.tostop

LEMMA WakeEffect ==
  ASSUME NEW w \in WorldType, NEW p \in DOMAIN w.table, NEW c \in DOMAIN w.table, c # p,
         w.table[c].state = "DONE", w.kern[c] \notin Stopped,
         NEW v, v = pfs_process_do_wake(w, p, c)
  PROVE  /\ v \in WorldType /\ Reaps(w, v, p, c, Wakened(w.table[p], c))
         /\ v.ustatus = [w.ustatus EXCEPT ![p] = w.table[c].exit_status]
         /\ v.kern = w.kern /\ v.call = w.call /\ v.nprocs = w.nprocs
<1> DEFINE e == Wakened(w.table[p], c)
           us == [w.ustatus EXCEPT ![p] = w.table[c].exit_status]
           u == PutEntry(w, p, e)
           woken == [u EXCEPT !.ustatus = us]
           t == [x \in DOMAIN u.table \ {c} |-> u.table[x]]
<1>1. /\ w.table \in Tables /\ w.ustatus \in StatusType /\ c \in Pids /\ p \in Pids
      /\ w.table[p] \in ProcessType /\ w.table[c] \in ProcessType
  BY WorldHas, EntryHas
<1>2. e \in ProcessType
  BY <1>1, WakenedType
<1>3. us \in StatusType
  BY <1>1 DEF StatusType, ProcessType
<1>4. u = PutEntry(w, p, e)
  OBVIOUS
<1>5. [w EXCEPT !.table[p].state = "KERNEL", !.table[p].syscall_result = c,
                !.ustatus[p] = w.table[c].exit_status] = woken
  <2>1. w.table \in [DOMAIN w.table -> ProcessType]
    BY <1>1, TableHas
  <2> QED  BY <2>1 DEF PutEntry, WorldType, Wakened
<1> HIDE DEF u, e, us
<1>6. /\ u \in WorldType /\ Rest(w, u) /\ u.table = [w.table EXCEPT ![p] = e]
      /\ u.kern = w.kern /\ u.call = w.call /\ u.ret = w.ret /\ u.trace = w.trace
      /\ u.stopper = w.stopper
      /\ DOMAIN u.table = DOMAIN w.table /\ u.table[p] = e
      /\ \A q \in DOMAIN w.table \ {p} : u.table[q] = w.table[q]
  BY SMT, <1>2, <1>4, PutEffect
<1>7. /\ woken.table = u.table /\ woken.kern = u.kern /\ woken.ustatus = us
  BY <1>6 DEF WorldType
<1>8. v = pfs_process_delete(woken, c)
  BY <1>5 DEF pfs_process_do_wake
<1>9. v = [u EXCEPT !.ustatus = us, !.table = t]
  <2>1. [woken EXCEPT !.table = [x \in DOMAIN @ \ {c} |-> @[x]]]
           = [u EXCEPT !.ustatus = us, !.table = t]
    BY <1>6 DEF WorldType
  <2>2. [u EXCEPT !.ustatus = us, !.table = t].kern = w.kern
    BY <1>6 DEF WorldType
  <2> QED  BY <1>8, <2>1, <2>2 DEF pfs_process_delete, tracer_detach
<1>10. /\ t \in Tables /\ DOMAIN t = DOMAIN u.table \ {c}
       /\ \A q \in DOMAIN u.table \ {c} : t[q] = u.table[q]
  <2>1. u.table \in Tables
    BY <1>6, WorldHas
  <2> QED  BY <2>1, TableRemove
<1> HIDE DEF t
<1>11. /\ v \in WorldType /\ v.table = t /\ v.ustatus = us /\ v.kern = u.kern
       /\ v.call = u.call /\ v.ret = u.ret /\ v.trace = u.trace /\ v.stopper = u.stopper
  BY <1>3, <1>6, <1>9, <1>10 DEF WorldType
<1>12. /\ v.nprocs = u.nprocs /\ v.events = u.events /\ v.status = u.status
       /\ v.queued = u.queued /\ v.owed = u.owed /\ v.tostop = u.tostop
  BY <1>6, <1>9 DEF WorldType
<1>13. /\ DOMAIN v.table = DOMAIN w.table \ {c} /\ v.table[p] = e
       /\ \A q \in DOMAIN w.table \ {c, p} : v.table[q] = w.table[q]
  BY <1>6, <1>10, <1>11
<1>14. /\ v.ustatus = us /\ v.kern = w.kern /\ v.call = w.call /\ v.nprocs = w.nprocs
       /\ v.events = w.events /\ v.ret = w.ret /\ v.status = w.status
       /\ v.queued = w.queued /\ v.owed = w.owed /\ v.trace = w.trace
       /\ v.stopper = w.stopper /\ v.tostop = w.tostop
  BY <1>6, <1>11, <1>12 DEF Rest
<1> QED  BY <1>11, <1>13, <1>14 DEF Reaps, e, us

(* The entries a wait4 leaves when there is no child to report.            *)
Blocked(e, arg, op) ==
  [e EXCEPT !.state = "WAITPID", !.wait_pid = arg,
            !.wait_untraced = (op = "wait_untraced"), !.syscall_result = "EINTR"]
Back(e, result) == [e EXCEPT !.state = "KERNEL", !.syscall_result = result]
Dummy(e) == [e EXCEPT !.syscall_dummy = TRUE]

LEMMA BlockedType ==
  ASSUME NEW e \in ProcessType, NEW arg \in Pids \cup {AnyPid}, NEW op, NEW d,
         d = Blocked(e, arg, op)
  PROVE  /\ d \in ProcessType /\ d.state = "WAITPID" /\ d.wait_pid = arg
         /\ d.wait_untraced = (op = "wait_untraced") /\ d.syscall_result = "EINTR"
         /\ d.ppid = e.ppid /\ d.tgid = e.tgid /\ d.interruptible = e.interruptible
  BY DEF Blocked, ProcessType, Numbers

LEMMA BackType ==
  ASSUME NEW e \in ProcessType, NEW r \in {"ECHILD", "0"}, NEW d, d = Back(e, r)
  PROVE  /\ d \in ProcessType /\ d.state = "KERNEL" /\ d.syscall_result = r
         /\ d.ppid = e.ppid /\ d.tgid = e.tgid /\ d.interruptible = e.interruptible
  BY DEF Back, ProcessType, Numbers

LEMMA DummyType ==
  ASSUME NEW e \in ProcessType, NEW d, d = Dummy(e)
  PROVE  /\ d \in ProcessType /\ d.syscall_dummy
         /\ d.state = e.state /\ d.syscall_result = e.syscall_result
         /\ d.wait_pid = e.wait_pid
         /\ d.ppid = e.ppid /\ d.tgid = e.tgid /\ d.interruptible = e.interruptible
  BY DEF Dummy, ProcessType

(* The worlds in which p waits, and in which it has an answer.             *)
WaitingWorld(w, p, arg, op) ==
  [w EXCEPT !.table[p].state = "WAITPID", !.table[p].wait_pid = arg,
            !.table[p].wait_untraced = (op = "wait_untraced"),
            !.table[p].syscall_result = "EINTR"]
AnsweredWorld(w, p, r) ==
  [w EXCEPT !.table[p].state = "KERNEL", !.table[p].syscall_result = r]

LEMMA BlockedWorld ==
  ASSUME NEW w \in WorldType, NEW p \in DOMAIN w.table, NEW arg, NEW op
  PROVE  WaitingWorld(w, p, arg, op) = PutEntry(w, p, Blocked(w.table[p], arg, op))
<1>1. w.table \in [DOMAIN w.table -> ProcessType]
  BY WorldHas, TableHas
<1> DEFINE u == op = "wait_untraced"
           t == [w.table EXCEPT ![p].state = "WAITPID", ![p].wait_pid = arg,
                                ![p].wait_untraced = u, ![p].syscall_result = "EINTR"]
<1>2. WaitingWorld(w, p, arg, op) = [w EXCEPT !.table = t]
  BY DEF WorldType, WaitingWorld
<1>3. t = [w.table EXCEPT ![p] = [w.table[p] EXCEPT !.state = "WAITPID", !.wait_pid = arg,
                                           !.wait_untraced = u, !.syscall_result = "EINTR"]]
  <2> HIDE DEF u
  <2> QED  BY <1>1
<1> HIDE DEF t
<1> QED  BY <1>2, <1>3 DEF PutEntry, Blocked

LEMMA BackWorld ==
  ASSUME NEW w \in WorldType, NEW p \in DOMAIN w.table, NEW r
  PROVE  AnsweredWorld(w, p, r) = PutEntry(w, p, Back(w.table[p], r))
<1>1. w.table \in [DOMAIN w.table -> ProcessType]
  BY WorldHas, TableHas
<1> QED  BY <1>1 DEF PutEntry, WorldType, Back, AnsweredWorld

(* The choice of pfs_process_waitpid, from the world x in which p waits.   *)
Choice(w, x, p, op) ==
  LET children == {c \in DOMAIN w.table : w.table[c].ppid = p}
      ready == {c \in children : MayWake(x, p, c)}
  IN  IF ready # {}
      THEN {pfs_process_do_wake(x, p, c) : c \in ready}
      ELSE {CASE children = {} -> AnsweredWorld(x, p, "ECHILD")
              [] children # {} /\ op = "wait_nohang" -> AnsweredWorld(x, p, "0")
              [] OTHER -> x}

LEMMA ChoiceEffect ==
  ASSUME NEW w, NEW u, NEW p, NEW op, NEW v \in Choice(w, u, p, op)
  PROVE  \/ v = u /\ \A c \in DOMAIN w.table : w.table[c].ppid = p => ~MayWake(u, p, c)
         \/ \E r \in {"ECHILD", "0"} : v = AnsweredWorld(u, p, r)
         \/ \E c \in DOMAIN w.table : /\ w.table[c].ppid = p /\ MayWake(u, p, c)
                                      /\ v = pfs_process_do_wake(u, p, c)
  BY DEF Choice

LEMMA WaitpidEffect ==
  ASSUME NEW w \in WorldType, NEW p \in DOMAIN w.table, NEW arg \in Pids \cup {AnyPid}, NEW op,
         NEW b, b = Blocked(w.table[p], arg, op), NEW u, u = PutEntry(w, p, b),
         NEW v \in pfs_process_waitpid(w, p, arg, op)
  PROVE  \/ /\ v = u
            /\ \A c \in DOMAIN w.table : w.table[c].ppid = p => ~MayWake(u, p, c)
         \/ \E r \in {"ECHILD", "0"} : v = PutEntry(w, p, Back(b, r))
         \/ \E c \in DOMAIN w.table :
              /\ w.table[c].ppid = p /\ MayWake(u, p, c)
              /\ v = pfs_process_do_wake(u, p, c)
<1>1. b \in ProcessType
  BY SMT, EntryHas, BlockedType
<1>2. pfs_process_waitpid(w, p, arg, op) = Choice(w, WaitingWorld(w, p, arg, op), p, op)
  BY DEF pfs_process_waitpid, Choice, WaitingWorld, AnsweredWorld
<1>3. WaitingWorld(w, p, arg, op) = u
  BY BlockedWorld
<1>4. v \in Choice(w, u, p, op)
  BY <1>2, <1>3
<1>5. \/ v = u /\ \A c \in DOMAIN w.table : w.table[c].ppid = p => ~MayWake(u, p, c)
      \/ \E r \in {"ECHILD", "0"} : v = AnsweredWorld(u, p, r)
      \/ \E c \in DOMAIN w.table : /\ w.table[c].ppid = p /\ MayWake(u, p, c)
                                   /\ v = pfs_process_do_wake(u, p, c)
  BY SMT, <1>4, ChoiceEffect
<1>6. ASSUME NEW r \in {"ECHILD", "0"}
      PROVE  AnsweredWorld(u, p, r) = PutEntry(w, p, Back(b, r))
  <2>1. /\ u \in WorldType /\ Rest(w, u) /\ u.table = [w.table EXCEPT ![p] = b]
        /\ u.kern = w.kern /\ u.call = w.call /\ u.ret = w.ret /\ u.trace = w.trace
        /\ u.stopper = w.stopper
        /\ DOMAIN u.table = DOMAIN w.table /\ u.table[p] = b
        /\ \A q \in DOMAIN w.table \ {p} : u.table[q] = w.table[q]
    BY SMT, <1>1, PutEffect
  <2>2. p \in DOMAIN u.table
    BY <2>1
  <2>3. AnsweredWorld(u, p, r) = PutEntry(u, p, Back(u.table[p], r))
    BY SMT, <2>1, <2>2, BackWorld
  <2>4. Back(b, r) \in ProcessType
    BY <1>1, BackType
  <2>5. PutEntry(PutEntry(w, p, b), p, Back(b, r)) = PutEntry(w, p, Back(b, r))
    BY <1>1, <2>4, PutTwice
  <2> QED  BY <2>1, <2>3, <2>5
<1> QED  BY <1>5, <1>6

LEMMA DivertEffect ==
  ASSUME NEW w \in WorldType, NEW p \in DOMAIN w.table, NEW v,
         v = divert_to_dummy(w, p, w.table[p].syscall_result)
  PROVE  /\ v \in WorldType /\ Rest(w, v) /\ v.kern = w.kern /\ v.ret = w.ret
         /\ v.trace = w.trace /\ v.stopper = w.stopper
         /\ v.table = [w.table EXCEPT ![p] = Dummy(w.table[p])]
         /\ v.call = [w.call EXCEPT ![p] = [w.call[p] EXCEPT !.real = "getpid"]]
<1> DEFINE u == PutEntry(w, p, Dummy(w.table[p]))
           c == [w.call EXCEPT ![p] = [w.call[p] EXCEPT !.real = "getpid"]]
<1>1. p \in Pids /\ w.table[p] \in ProcessType
  BY EntryHas
<1>2. w.call \in CallsType /\ w.table \in [DOMAIN w.table -> ProcessType]
  BY WorldHas, TableHas
<1>3. c \in CallsType
  BY <1>1, <1>2 DEF CallsType, CallType
<1>4. v = [u EXCEPT !.call = c]
  <2>1. [w.table EXCEPT ![p].syscall_dummy = TRUE, ![p].syscall_result = w.table[p].syscall_result]
           = [w.table EXCEPT ![p] = Dummy(w.table[p])]
    BY <1>1, <1>2 DEF ProcessType, Dummy
  <2>2. [w.call EXCEPT ![p].real = "getpid"] = c
    BY <1>1, <1>2 DEF CallsType
  <2>3. v = [w EXCEPT !.table = [w.table EXCEPT ![p].syscall_dummy = TRUE,
                                                ![p].syscall_result = w.table[p].syscall_result],
                      !.call = [w.call EXCEPT ![p].real = "getpid"]]
    BY DEF divert_to_dummy, WorldType
  <2> QED  BY <2>1, <2>2, <2>3 DEF PutEntry, WorldType
<1>5. u = PutEntry(w, p, Dummy(w.table[p])) /\ Dummy(w.table[p]) \in ProcessType
  BY <1>1, DummyType
<1> HIDE DEF u, c
<1>6. /\ u \in WorldType /\ Rest(w, u) /\ u.table = [w.table EXCEPT ![p] = Dummy(w.table[p])]
      /\ u.kern = w.kern /\ u.ret = w.ret /\ u.trace = w.trace /\ u.stopper = w.stopper
  BY SMT, <1>5, PutEffect
<1>7. /\ v \in WorldType /\ Rest(u, v) /\ v.table = u.table /\ v.kern = u.kern
      /\ v.call = c /\ v.trace = u.trace /\ v.stopper = u.stopper /\ v.ret = u.ret
  BY <1>3, <1>4, <1>6 DEF WorldType, Rest
<1> QED  BY <1>6, <1>7 DEF Rest, c

(* A process whose call was answered by Murphy goes on, unless it blocks.  *)
Diverted(w, v, p) ==
  /\ v \in WorldType /\ Rest(w, v) /\ v.ret = w.ret
  /\ v.trace = w.trace /\ v.stopper = AnyPid
  /\ v.table = [w.table EXCEPT ![p] = Dummy(w.table[p])]
  /\ v.call = [w.call EXCEPT ![p] = [w.call[p] EXCEPT !.real = "getpid"]]
  /\ v.kern = [w.kern EXCEPT ![p] = IF w.table[p].state \in {"KERNEL", "USER"}
                                    THEN Resumed(w.kern[p]) ELSE w.kern[p]]

LEMMA DivertAndGo ==
  ASSUME NEW w \in WorldType, NEW p \in DOMAIN w.table, w.stopper = AnyPid, NEW v,
         v = Proceed(divert_to_dummy(w, p, w.table[p].syscall_result), p)
  PROVE  Diverted(w, v, p)
<1> DEFINE u == divert_to_dummy(w, p, w.table[p].syscall_result)
<1>1. p \in Pids /\ w.table[p] \in ProcessType /\ w.table \in Tables
  BY EntryHas, WorldHas
<1>2. u = divert_to_dummy(w, p, w.table[p].syscall_result)
  OBVIOUS
<1> HIDE DEF u
<1>3. /\ u \in WorldType /\ Rest(w, u) /\ u.kern = w.kern /\ u.ret = w.ret
      /\ u.trace = w.trace /\ u.stopper = w.stopper
      /\ u.table = [w.table EXCEPT ![p] = Dummy(w.table[p])]
      /\ u.call = [w.call EXCEPT ![p] = [w.call[p] EXCEPT !.real = "getpid"]]
  BY SMT, <1>2, DivertEffect
<1>4. u.table[p] = Dummy(w.table[p]) /\ u.table[p].state = w.table[p].state
  BY <1>1, <1>3, TableSet, DummyType
<1>5. v = Proceed(u, p)
  BY <1>2
<1>6. CASE w.table[p].state \in {"KERNEL", "USER"}
  <2>1. v = tracer_continue(u, p)
    BY <1>3, <1>4, <1>5, <1>6 DEF Proceed
  <2>2. /\ v \in WorldType /\ Rest(u, v) /\ v.table = u.table
        /\ v.kern = [u.kern EXCEPT ![p] = Resumed(u.kern[p])]
        /\ v.call = u.call /\ v.ret = u.ret /\ v.trace = u.trace /\ v.stopper = u.stopper
    BY SMT, <1>1, <1>3, <2>1, ContinueEffect
  <2> QED  BY <1>3, <1>6, <2>2 DEF Rest, Diverted
<1>7. CASE w.table[p].state \notin {"KERNEL", "USER"}
  <2>1. v = u
    BY <1>4, <1>5, <1>7 DEF Proceed
  <2> QED  BY <1>1, <1>3, <1>7, <2>1, PutSame DEF Diverted
<1> QED  BY <1>6, <1>7

(* What a wait4 leaves: no answer from a child, or the death of c.         *)
Unanswered(w, v, p, e) ==
  /\ Turn(w, v, p, e, IF e.state = "WAITPID" THEN w.kern[p] ELSE Resumed(w.kern[p]),
          [w.call[p] EXCEPT !.real = "getpid"], w.ret[p], w.trace)
  /\ e.state \in {"WAITPID", "KERNEL"} /\ e.syscall_dummy /\ e.syscall_result \in Numbers
  /\ e.ppid = w.table[p].ppid /\ e.tgid = w.table[p].tgid
  /\ e.interruptible = w.table[p].interruptible
  /\ e.state = "WAITPID" => \A c \in DOMAIN w.table \ {p} :
       w.table[c].ppid = p /\ e.wait_pid \in {AnyPid, c} => w.table[c].state # "DONE"

Answered(w, v, p, c, e) ==
  /\ Reaps(w, v, p, c, e) /\ v.nprocs = w.nprocs
  /\ v.kern = [w.kern EXCEPT ![p] = Resumed(w.kern[p])]
  /\ v.call = [w.call EXCEPT ![p] = [w.call[p] EXCEPT !.real = "getpid"]]
  /\ v.ustatus = [w.ustatus EXCEPT ![p] = w.table[c].exit_status]
  /\ w.table[c].ppid = p /\ w.table[c].state = "DONE"
  /\ e.state = "KERNEL" /\ e.syscall_dummy /\ e.syscall_result = c
  /\ e.ppid = w.table[p].ppid /\ e.tgid = w.table[p].tgid
  /\ e.interruptible = w.table[p].interruptible

LEMMA UnansweredEffect ==
  ASSUME NEW w \in WorldType, NEW p \in DOMAIN w.table, w.stopper = AnyPid,
         NEW d \in ProcessType, d.state \in {"WAITPID", "KERNEL"}, d.syscall_result \in Numbers,
         d.ppid = w.table[p].ppid, d.tgid = w.table[p].tgid,
         d.interruptible = w.table[p].interruptible,
         d.state = "WAITPID" => \A c \in DOMAIN w.table \ {p} :
           w.table[c].ppid = p /\ d.wait_pid \in {AnyPid, c} => w.table[c].state # "DONE",
         NEW x, x = PutEntry(w, p, d),
         NEW v, v = Proceed(divert_to_dummy(x, p, x.table[p].syscall_result), p)
  PROVE  /\ v \in WorldType /\ v.stopper = AnyPid
         /\ \E e \in ProcessType : Unanswered(w, v, p, e)
<1>1. /\ x \in WorldType /\ Rest(w, x) /\ x.table = [w.table EXCEPT ![p] = d]
      /\ x.kern = w.kern /\ x.call = w.call /\ x.ret = w.ret /\ x.trace = w.trace
      /\ x.stopper = w.stopper
      /\ DOMAIN x.table = DOMAIN w.table /\ x.table[p] = d
      /\ \A q \in DOMAIN w.table \ {p} : x.table[q] = w.table[q]
  BY SMT, PutEffect
<1>2. p \in DOMAIN x.table /\ x.stopper = AnyPid
  BY <1>1
<1>3. /\ v \in WorldType /\ Rest(x, v) /\ v.ret = x.ret
      /\ v.trace = x.trace /\ v.stopper = AnyPid
      /\ v.table = [x.table EXCEPT ![p] = Dummy(x.table[p])]
      /\ v.call = [x.call EXCEPT ![p] = [x.call[p] EXCEPT !.real = "getpid"]]
      /\ v.kern = [x.kern EXCEPT ![p] = IF x.table[p].state \in {"KERNEL", "USER"}
                                        THEN Resumed(x.kern[p]) ELSE x.kern[p]]
  <2>1. Diverted(x, v, p)
    BY <1>1, <1>2, DivertAndGo
  <2> QED  BY <2>1 DEF Diverted
<1> DEFINE e == Dummy(d)
<1>4. /\ e \in ProcessType /\ e.syscall_dummy
      /\ e.state = d.state /\ e.syscall_result = d.syscall_result
      /\ e.wait_pid = d.wait_pid
      /\ e.ppid = d.ppid /\ e.tgid = d.tgid /\ e.interruptible = d.interruptible
  BY DummyType
<1>5. p \in Pids /\ w.table \in [DOMAIN w.table -> ProcessType]
  BY EntryHas, WorldHas, TableHas
<1> HIDE DEF e
<1>6. v.table = [w.table EXCEPT ![p] = e]
  BY <1>1, <1>3, <1>5 DEF e
<1>7. v.ret = [w.ret EXCEPT ![p] = w.ret[p]]
  BY <1>1, <1>3, <1>5, PutSame
<1>8. v.kern = [w.kern EXCEPT ![p] = IF e.state = "WAITPID" THEN w.kern[p] ELSE Resumed(w.kern[p])]
  <2>1. x.table[p].state \in {"KERNEL", "USER"} <=> e.state # "WAITPID"
    BY <1>1, <1>4
  <2>2. v.kern = [w.kern EXCEPT ![p] = IF x.table[p].state \in {"KERNEL", "USER"}
                                       THEN Resumed(w.kern[p]) ELSE w.kern[p]]
    BY <1>1, <1>3
  <2> QED  BY <2>1, <2>2
<1>9. Turn(w, v, p, e, IF e.state = "WAITPID" THEN w.kern[p] ELSE Resumed(w.kern[p]),
          [w.call[p] EXCEPT !.real = "getpid"], w.ret[p], w.trace)
  BY <1>1, <1>3, <1>6, <1>7, <1>8 DEF Turn, Rest
<1> QED  BY SMT, <1>3, <1>4, <1>9 DEF Unanswered

LEMMA AnsweredEffect ==
  ASSUME NEW w \in WorldType, NEW p \in DOMAIN w.table, w.stopper = AnyPid,
         NEW c \in DOMAIN w.table, c # p, w.table[c].state = "DONE", w.table[c].ppid = p,
         w.kern[c] \notin Stopped,
         NEW b \in ProcessType, b.ppid = w.table[p].ppid, b.tgid = w.table[p].tgid,
         b.interruptible = w.table[p].interruptible,
         NEW u, u = PutEntry(w, p, b), NEW x, x = pfs_process_do_wake(u, p, c),
         NEW v, v = Proceed(divert_to_dummy(x, p, x.table[p].syscall_result), p)
  PROVE  /\ v \in WorldType /\ v.stopper = AnyPid
         /\ \E e \in ProcessType : Answered(w, v, p, c, e)
<1>1. /\ u \in WorldType /\ Rest(w, u) /\ u.table = [w.table EXCEPT ![p] = b]
      /\ u.kern = w.kern /\ u.call = w.call /\ u.ret = w.ret /\ u.trace = w.trace
      /\ u.stopper = w.stopper
      /\ DOMAIN u.table = DOMAIN w.table /\ u.table[p] = b
      /\ \A q \in DOMAIN w.table \ {p} : u.table[q] = w.table[q]
  BY SMT, PutEffect
<1>2. /\ p \in DOMAIN u.table /\ c \in DOMAIN u.table /\ u.table[c] = w.table[c]
      /\ u.table[c].state = "DONE" /\ u.kern[c] \notin Stopped
  BY <1>1
<1>3. /\ x \in WorldType /\ Reaps(u, x, p, c, Wakened(u.table[p], c))
      /\ x.ustatus = [u.ustatus EXCEPT ![p] = u.table[c].exit_status]
      /\ x.kern = u.kern /\ x.call = u.call /\ x.nprocs = u.nprocs
  BY SMT, <1>1, <1>2, WakeEffect
<1> DEFINE d == Wakened(b, c)
           e == Dummy(d)
<1>4. /\ c \in Pids /\ p \in Pids
  BY EntryHas
<1>5. /\ d \in ProcessType /\ d.state = "KERNEL" /\ d.syscall_result = c
      /\ d.ppid = b.ppid /\ d.tgid = b.tgid /\ d.interruptible = b.interruptible
  BY SMT, <1>4, WakenedType
<1>6. x.table[p] = d /\ DOMAIN x.table = DOMAIN w.table \ {c} /\ p \in DOMAIN x.table
      /\ \A q \in DOMAIN w.table \ {c, p} : x.table[q] = w.table[q]
  BY SMT, <1>1, <1>3 DEF Reaps
<1> HIDE DEF d
<1>7. /\ e \in ProcessType /\ e.syscall_dummy
      /\ e.state = d.state /\ e.syscall_result = d.syscall_result
      /\ e.ppid = d.ppid /\ e.tgid = d.tgid /\ e.interruptible = d.interruptible
  BY <1>5, DummyType
<1> HIDE DEF e
<1>8. x.stopper = AnyPid
  BY <1>1, <1>3 DEF Reaps
<1>9. /\ v \in WorldType /\ Rest(x, v) /\ v.ret = x.ret
      /\ v.trace = x.trace /\ v.stopper = AnyPid
      /\ v.table = [x.table EXCEPT ![p] = Dummy(x.table[p])]
      /\ v.call = [x.call EXCEPT ![p] = [x.call[p] EXCEPT !.real = "getpid"]]
      /\ v.kern = [x.kern EXCEPT ![p] = IF x.table[p].state \in {"KERNEL", "USER"}
                                        THEN Resumed(x.kern[p]) ELSE x.kern[p]]
  <2>1. x \in WorldType /\ p \in DOMAIN x.table
    BY <1>3, <1>6
  <2>2. Diverted(x, v, p)
    BY <1>8, <2>1, DivertAndGo
  <2> QED  BY <2>2 DEF Diverted
<1>10. /\ DOMAIN v.table = DOMAIN w.table \ {c} /\ v.table[p] = e
       /\ \A q \in DOMAIN w.table \ {c, p} : v.table[q] = w.table[q]
  <2>1. x.table \in Tables /\ v.table = [x.table EXCEPT ![p] = e]
    BY <1>3, <1>6, <1>9, WorldHas DEF e
  <2> QED  BY SMT, <1>6, <1>7, <2>1, TableSet
<1>11. Reaps(w, v, p, c, e)
  BY SMT, <1>1, <1>3, <1>9, <1>10 DEF Reaps, Rest
<1>12. /\ v.nprocs = w.nprocs /\ v.kern = [w.kern EXCEPT ![p] = Resumed(w.kern[p])]
       /\ v.call = [w.call EXCEPT ![p] = [w.call[p] EXCEPT !.real = "getpid"]]
       /\ v.ustatus = [w.ustatus EXCEPT ![p] = w.table[c].exit_status]
  BY SMT, <1>1, <1>2, <1>3, <1>5, <1>6, <1>9 DEF Rest
<1>13. Answered(w, v, p, c, e)
  <2>1. /\ e.state = "KERNEL" /\ e.syscall_dummy /\ e.syscall_result = c
        /\ e.ppid = w.table[p].ppid /\ e.tgid = w.table[p].tgid
        /\ e.interruptible = w.table[p].interruptible
    BY <1>5, <1>7
  <2> QED  BY <1>11, <1>12, <2>1 DEF Answered
<1> QED  BY <1>7, <1>9, <1>13

LEMMA DispatchWait ==
  ASSUME NEW w, NEW p, AtEntry(w, p), w.call[p].op \in {"wait", "wait_nohang"},
         \A c \in DOMAIN w.table : w.table[c].state = "DONE" => w.kern[c] \notin Stopped,
         NEW v \in pfs_dispatch(w, p)
  PROVE  /\ v \in WorldType /\ v.stopper = AnyPid
         /\ \/ \E e \in ProcessType : Unanswered(w, v, p, e)
            \/ \E c \in DOMAIN w.table \ {p} : \E e \in ProcessType : Answered(w, v, p, c, e)
<1> DEFINE arg == w.call[p].arg
           op == w.call[p].op
           k == InKernel(w.table[p])
           in == PutEntry(w, p, k)
           b == Blocked(k, arg, op)
<1>0. w \in WorldType /\ p \in DOMAIN w.table /\ w.stopper = AnyPid /\ w.table[p].state = "USER"
  BY DEF AtEntry
<1>1. p \in Pids /\ w.table[p] \in ProcessType
  BY <1>0, EntryHas
<1>2. EnterSyscall(w, p) = EnterWait(in, p)
  BY <1>0, Entered DEF EnterSyscall, InKernel, Forks, Waits
<1>3. /\ k \in ProcessType
      /\ k.ppid = w.table[p].ppid /\ k.tgid = w.table[p].tgid
      /\ k.interruptible = w.table[p].interruptible
  BY <1>1, InKernelType
<1>4. PICK y \in EnterSyscall(w, p) : v = Proceed(y, p)
  BY <1>0 DEF pfs_dispatch
<1> HIDE DEF k
<1>5. in = PutEntry(w, p, k)
  OBVIOUS
<1> HIDE DEF in
<1>6. /\ in \in WorldType /\ Rest(w, in) /\ in.table = [w.table EXCEPT ![p] = k]
      /\ in.kern = w.kern /\ in.call = w.call /\ in.ret = w.ret /\ in.trace = w.trace
      /\ in.stopper = w.stopper
      /\ DOMAIN in.table = DOMAIN w.table /\ in.table[p] = k
      /\ \A q \in DOMAIN w.table \ {p} : in.table[q] = w.table[q]
  BY SMT, <1>0, <1>3, <1>5, PutEffect
<1>7. PICK x \in pfs_process_waitpid(in, p, arg, op) :
        y = divert_to_dummy(x, p, x.table[p].syscall_result)
  BY <1>2, <1>4, <1>6 DEF EnterWait
<1>8. v = Proceed(divert_to_dummy(x, p, x.table[p].syscall_result), p)
  BY <1>4, <1>7
<1>9. arg \in Pids \cup {AnyPid} /\ op # "wait_untraced"
  BY <1>0, <1>1, WorldHas DEF CallsType, CallType
<1>10. b = Blocked(in.table[p], arg, op)
  BY <1>6
<1>11. /\ b \in ProcessType /\ b.state = "WAITPID" /\ b.wait_pid = arg
       /\ b.wait_untraced = (op = "wait_untraced") /\ b.syscall_result = "EINTR"
       /\ b.ppid = k.ppid /\ b.tgid = k.tgid /\ b.interruptible = k.interruptible
  BY SMT, <1>3, <1>9, BlockedType
<1>12. p \in DOMAIN in.table
  BY <1>0, <1>6
<1> HIDE DEF arg, op, b
<1> DEFINE u == PutEntry(in, p, b)
<1>13. \/ /\ x = u
          /\ \A c \in DOMAIN in.table : in.table[c].ppid = p => ~MayWake(u, p, c)
       \/ \E r \in {"ECHILD", "0"} : x = PutEntry(in, p, Back(b, r))
       \/ \E c \in DOMAIN in.table :
            /\ in.table[c].ppid = p /\ MayWake(u, p, c)
            /\ x = pfs_process_do_wake(u, p, c)
  BY SMT, <1>6, <1>7, <1>9, <1>10, <1>12, WaitpidEffect
<1>14. \A e \in ProcessType : PutEntry(in, p, e) = PutEntry(w, p, e)
  BY <1>0, <1>3, <1>5, PutTwice
<1>15. u = PutEntry(w, p, b)
  BY <1>11, <1>14
<1> HIDE DEF u
<1>16. /\ DOMAIN u.table = DOMAIN w.table /\ u.table[p] = b
       /\ \A q \in DOMAIN w.table \ {p} : u.table[q] = w.table[q]
  <2>1. /\ u \in WorldType /\ Rest(w, u) /\ u.table = [w.table EXCEPT ![p] = b]
        /\ u.kern = w.kern /\ u.call = w.call /\ u.ret = w.ret /\ u.trace = w.trace
        /\ u.stopper = w.stopper
        /\ DOMAIN u.table = DOMAIN w.table /\ u.table[p] = b
        /\ \A q \in DOMAIN w.table \ {p} : u.table[q] = w.table[q]
    BY SMT, <1>0, <1>11, <1>15, PutEffect
  <2> QED  BY <2>1
<1>17. \A c \in DOMAIN w.table :
         MayWake(u, p, c) <=> /\ c # p /\ w.table[c].ppid = p /\ w.table[c].state = "DONE"
                              /\ b.wait_pid \in {AnyPid, c}
  BY <1>9, <1>11, <1>16 DEF MayWake
<1>18. CASE x = u /\ \A c \in DOMAIN in.table : in.table[c].ppid = p => ~MayWake(u, p, c)
  <2>1. \A c \in DOMAIN w.table \ {p} :
          w.table[c].ppid = p /\ b.wait_pid \in {AnyPid, c} => w.table[c].state # "DONE"
    BY <1>6, <1>17, <1>18
  <2>2. b.syscall_result \in Numbers
    BY <1>11 DEF Numbers
  <2>3. x = PutEntry(w, p, b) /\ b.state \in {"WAITPID", "KERNEL"} /\ b \in ProcessType
        /\ b.ppid = w.table[p].ppid /\ b.tgid = w.table[p].tgid
        /\ b.interruptible = w.table[p].interruptible
    BY <1>3, <1>11, <1>15, <1>18
  <2> QED  BY <1>0, <1>8, <2>1, <2>2, <2>3, UnansweredEffect
<1>19. CASE \E r \in {"ECHILD", "0"} : x = PutEntry(in, p, Back(b, r))
  <2>1. PICK r \in {"ECHILD", "0"} : x = PutEntry(in, p, Back(b, r))
    BY <1>19
  <2> DEFINE d == Back(b, r)
  <2>2. /\ d \in ProcessType /\ d.state = "KERNEL" /\ d.syscall_result = r
        /\ d.ppid = b.ppid /\ d.tgid = b.tgid /\ d.interruptible = b.interruptible
    BY SMT, <1>11, BackType
  <2>3. x = PutEntry(w, p, d)
    BY <1>14, <2>1, <2>2
  <2> HIDE DEF d
  <2>4. d.syscall_result \in Numbers
    BY <2>2 DEF Numbers
  <2>5. /\ d.state \in {"WAITPID", "KERNEL"} /\ d.state # "WAITPID"
        /\ d.ppid = w.table[p].ppid /\ d.tgid = w.table[p].tgid
        /\ d.interruptible = w.table[p].interruptible
    BY <1>3, <1>11, <2>2
  <2> QED  BY <1>0, <1>8, <2>2, <2>3, <2>4, <2>5, UnansweredEffect
<1>20. CASE \E c \in DOMAIN in.table :
              /\ in.table[c].ppid = p /\ MayWake(u, p, c)
              /\ x = pfs_process_do_wake(u, p, c)
  <2>1. PICK c \in DOMAIN w.table : MayWake(u, p, c) /\ x = pfs_process_do_wake(u, p, c)
    BY <1>6, <1>20
  <2>2. c # p /\ w.table[c].ppid = p /\ w.table[c].state = "DONE" /\ w.kern[c] \notin Stopped
    BY <1>17, <2>1
  <2>3. /\ b.ppid = w.table[p].ppid /\ b.tgid = w.table[p].tgid
        /\ b.interruptible = w.table[p].interruptible /\ b \in ProcessType
    BY <1>3, <1>11
  <2>4. /\ v \in WorldType /\ v.stopper = AnyPid
        /\ \E e \in ProcessType : Answered(w, v, p, c, e)
    BY SMT, <1>0, <1>8, <1>15, <2>1, <2>2, <2>3, AnsweredEffect
  <2> QED  BY <2>2, <2>4
<1> QED  BY <1>13, <1>18, <1>19, <1>20

---------------------------------------------------------------------------
(* The end of a process.                                                   *)

Ended(e, how) == [e EXCEPT !.state = "DONE", !.exit_status = how]

LEMMA EndedType ==
  ASSUME NEW e \in ProcessType, NEW how \in Statuses, NEW d, d = Ended(e, how)
  PROVE  /\ d \in ProcessType /\ d.state = "DONE" /\ d.exit_status = how
         /\ d.ppid = e.ppid /\ d.tgid = e.tgid /\ d.interruptible = e.interruptible
         /\ d.exit_signal = e.exit_signal
  BY DEF Ended, ProcessType

(* Entry e for c and one process less; nothing else but the signals.       *)
Drops(w, v, c, e) ==
  /\ v.table = [w.table EXCEPT ![c] = e] /\ v.nprocs = w.nprocs - 1
  /\ v.kern = w.kern /\ v.events = w.events /\ v.call = w.call /\ v.ret = w.ret
  /\ v.status = w.status /\ v.ustatus = w.ustatus /\ v.trace = w.trace
  /\ v.stopper = w.stopper /\ v.tostop = w.tostop

LEMMA CompleteEffect ==
  ASSUME NEW w \in WorldType, NEW c \in DOMAIN w.table, NEW how \in Statuses, NEW v,
         v = Complete(w, c, how)
  PROVE  /\ v \in WorldType /\ Drops(w, v, c, Ended(w.table[c], how))
         /\ v.queued = w.queued /\ v.owed = w.owed
         /\ DOMAIN v.table = DOMAIN w.table /\ v.table[c] = Ended(w.table[c], how)
         /\ \A q \in DOMAIN w.table \ {c} : v.table[q] = w.table[q]
<1> DEFINE e == Ended(w.table[c], how)
           t == [w.table EXCEPT ![c] = e]
<1>1. c \in Pids /\ w.table[c] \in ProcessType /\ w.table \in Tables
      /\ w.table \in [DOMAIN w.table -> ProcessType] /\ w.nprocs - 1 \in Int
  BY SMT, EntryHas, WorldHas, TableHas
<1>2. e \in ProcessType
  BY <1>1, EndedType
<1>3. [w.table EXCEPT ![c].state = "DONE", ![c].exit_status = how] = t
  BY <1>1 DEF Ended
<1>4. v = [w EXCEPT !.table = t, !.nprocs = w.nprocs - 1]
  <2>1. v = [w EXCEPT !.table = [w.table EXCEPT ![c].state = "DONE", ![c].exit_status = how],
                      !.nprocs = w.nprocs - 1]
    BY DEF Complete, WorldType
  <2> QED  BY <1>3, <2>1
<1>5. t = [w.table EXCEPT ![c] = e]
  OBVIOUS
<1> HIDE DEF t, e
<1>6. /\ t \in Tables /\ DOMAIN t = DOMAIN w.table /\ t[c] = e
      /\ \A q \in DOMAIN w.table \ {c} : t[q] = w.table[q]
  BY <1>1, <1>2, <1>5, TableSet
<1>7. v \in WorldType /\ v.table = t /\ v.nprocs = w.nprocs - 1
      /\ v.queued = w.queued /\ v.owed = w.owed
  BY <1>1, <1>4, <1>6 DEF WorldType
<1>8. /\ v.kern = w.kern /\ v.events = w.events /\ v.call = w.call /\ v.ret = w.ret
      /\ v.status = w.status /\ v.ustatus = w.ustatus /\ v.trace = w.trace
      /\ v.stopper = w.stopper /\ v.tostop = w.tostop
  BY <1>4 DEF WorldType
<1> QED  BY <1>5, <1>6, <1>7, <1>8 DEF Drops, e

(* Nobody waits for the end of c: at most its parent p is sent SIGCHLD.    *)
Sent(w, v, p) ==
  /\ v.owed = w.owed \cup {p}
  /\ \/ v.queued = w.queued \cup {p}
     \/ v.queued = w.queued /\ w.table[p].interruptible

Silent(w, v, c, how) ==
  /\ Drops(w, v, c, Ended(w.table[c], how))
  /\ LET p == w.table[c].ppid
     IN  /\ \/ v.owed = w.owed /\ v.queued = w.queued
            \/ p \in DOMAIN w.table /\ Sent(w, v, p)
         /\ p \in DOMAIN w.table \ {c} =>
              ~(w.table[p].state = "WAITPID" /\ w.table[p].wait_pid \in {AnyPid, c})

(* The parent p of c waits for it and is told.                             *)
Woken(w, v, p, c, how) ==
  /\ Reaps(w, v, p, c, Wakened(w.table[p], c)) /\ v.nprocs = w.nprocs - 1
  /\ v.kern = [w.kern EXCEPT ![p] = Resumed(w.kern[p])]
  /\ v.ustatus = [w.ustatus EXCEPT ![p] = how] /\ v.call = w.call
  /\ w.table[c].ppid = p /\ w.table[p].state = "WAITPID"

LEMMA RaiseEffect ==
  ASSUME NEW w \in WorldType, NEW p \in DOMAIN w.table, NEW v, v = pfs_process_raise(w, p)
  PROVE  /\ v \in WorldType /\ Sent(w, v, p)
         /\ v.table = w.table /\ v.nprocs = w.nprocs
         /\ v.kern = w.kern /\ v.events = w.events /\ v.call = w.call /\ v.ret = w.ret
         /\ v.status = w.status /\ v.ustatus = w.ustatus /\ v.trace = w.trace
         /\ v.stopper = w.stopper /\ v.tostop = w.tostop
<1> DEFINE o == w.owed \cup {p}
           n == w.queued \cup {p}
<1>1. o \subseteq Pids /\ n \subseteq Pids
  BY EntryHas, WorldHas
<1>2. \/ v = [w EXCEPT !.owed = o] /\ w.table[p].interruptible
      \/ v = [w EXCEPT !.owed = o, !.queued = n]
  BY DEF pfs_process_raise, WorldType
<1>3. o = w.owed \cup {p} /\ n = w.queued \cup {p}
  OBVIOUS
<1> HIDE DEF o, n
<1>4. /\ v \in WorldType /\ v.owed = o
      /\ v.queued = n \/ (v.queued = w.queued /\ w.table[p].interruptible)
  BY <1>1, <1>2 DEF WorldType
<1>5. /\ v.table = w.table /\ v.nprocs = w.nprocs
      /\ v.kern = w.kern /\ v.events = w.events /\ v.call = w.call /\ v.ret = w.ret
      /\ v.status = w.status /\ v.ustatus = w.ustatus /\ v.trace = w.trace
      /\ v.stopper = w.stopper /\ v.tostop = w.tostop
  BY <1>2 DEF WorldType
<1> QED  BY <1>3, <1>4, <1>5 DEF Sent

LEMMA StopEffect ==
  ASSUME NEW w \in WorldType, NEW c \in DOMAIN w.table, w.table[c].state # "DONE",
         NEW how \in Statuses, NEW p, p = w.table[c].ppid,
         w.kern[c] \notin Stopped \/ \A q \in DOMAIN w.table : w.table[q].state # "WAITPID",
         NEW v, v = pfs_process_stop(w, c, how)
  PROVE  /\ v \in WorldType
         /\ Silent(w, v, c, how) \/ (p \in DOMAIN w.table \ {c} /\ Woken(w, v, p, c, how))
<1> DEFINE u == Complete(w, c, how)
           e == Ended(w.table[c], how)
<1>1. c \in Pids /\ w.table[c] \in ProcessType
  BY EntryHas
<1>2. /\ e \in ProcessType /\ e.state = "DONE" /\ e.exit_status = how
      /\ e.ppid = w.table[c].ppid /\ e.interruptible = w.table[c].interruptible
      /\ e.exit_signal = w.table[c].exit_signal
  BY SMT, <1>1, EndedType
<1>3. u = Complete(w, c, how)
  OBVIOUS
<1> HIDE DEF u
<1>4. /\ u \in WorldType /\ Drops(w, u, c, Ended(w.table[c], how))
      /\ u.queued = w.queued /\ u.owed = w.owed
      /\ DOMAIN u.table = DOMAIN w.table /\ u.table[c] = Ended(w.table[c], how)
      /\ \A q \in DOMAIN w.table \ {c} : u.table[q] = w.table[q]
  BY SMT, <1>3, CompleteEffect
<1>5. u.table[c] = e /\ u.table[c].ppid = p
  BY <1>2, <1>4
<1> HIDE DEF e
<1>6. v = TellParent(u, c)
  BY <1>3 DEF pfs_process_stop
<1>7. p \in DOMAIN w.table => (MayWake(u, p, c) <=> /\ p # c /\ w.table[p].state = "WAITPID"
                                                    /\ w.table[p].wait_pid \in {AnyPid, c})
  BY <1>2, <1>4, <1>5 DEF MayWake
<1>8. CASE p \notin DOMAIN w.table
  <2>1. v = u
    BY <1>4, <1>5, <1>6, <1>8 DEF TellParent, pfs_process_lookup
  <2> QED  BY <1>4, <1>8, <2>1 DEF Silent
<1>9. CASE p \in DOMAIN w.table /\ ~MayWake(u, p, c)
  <2>1. v = (IF u.table[c].exit_signal THEN pfs_process_raise(u, p) ELSE u)
    BY <1>4, <1>5, <1>6, <1>9 DEF TellParent, pfs_process_lookup
  <2>2. CASE v = u
    BY <1>4, <1>7, <1>9, <2>2 DEF Silent
  <2>3. CASE v = pfs_process_raise(u, p)
    <3>1. p \in DOMAIN u.table
      BY <1>4, <1>9
    <3>2. /\ v \in WorldType /\ Sent(u, v, p)
          /\ v.table = u.table /\ v.nprocs = u.nprocs
          /\ v.kern = u.kern /\ v.events = u.events /\ v.call = u.call /\ v.ret = u.ret
          /\ v.status = u.status /\ v.ustatus = u.ustatus /\ v.trace = u.trace
          /\ v.stopper = u.stopper /\ v.tostop = u.tostop
      BY SMT, <1>4, <2>3, <3>1, RaiseEffect
    <3>3. u.table[p].interruptible = w.table[p].interruptible
      BY <1>2, <1>4, <1>5, <1>9
    <3>4. Sent(w, v, p)
      BY <1>4, <3>2, <3>3 DEF Sent
    <3>5. Drops(w, v, c, Ended(w.table[c], how))
      BY <1>4, <3>2 DEF Drops
    <3> QED  BY <1>7, <1>9, <3>2, <3>4, <3>5 DEF Silent
  <2> QED  BY <2>1, <2>2, <2>3
<1>10. CASE p \in DOMAIN w.table /\ MayWake(u, p, c)
  <2> DEFINE x == pfs_process_do_wake(u, p, c)
  <2>1. v = tracer_continue(x, p)
    BY <1>4, <1>5, <1>6, <1>10 DEF TellParent, pfs_process_lookup
  <2>2. /\ p # c /\ w.table[p].state = "WAITPID" /\ p \in DOMAIN u.table /\ c \in DOMAIN u.table
        /\ u.table[c].state = "DONE" /\ u.kern[c] \notin Stopped
        /\ u.table[p] = w.table[p] /\ u.table[c].exit_status = how
    BY <1>2, <1>4, <1>5, <1>7, <1>10 DEF Drops
  <2>3. x = pfs_process_do_wake(u, p, c)
    OBVIOUS
  <2> HIDE DEF x
  <2>4. /\ x \in WorldType /\ Reaps(u, x, p, c, Wakened(u.table[p], c))
        /\ x.ustatus = [u.ustatus EXCEPT ![p] = u.table[c].exit_status]
        /\ x.kern = u.kern /\ x.call = u.call /\ x.nprocs = u.nprocs
    BY SMT, <1>4, <2>2, <2>3, WakeEffect
  <2>5. p \in Pids /\ x \in WorldType
    BY <1>10, <2>4, EntryHas
  <2>6. /\ v \in WorldType /\ Rest(x, v) /\ v.table = x.table
        /\ v.kern = [x.kern EXCEPT ![p] = Resumed(x.kern[p])]
        /\ v.call = x.call /\ v.ret = x.ret /\ v.trace = x.trace
        /\ v.stopper = x.stopper
    BY SMT, <2>1, <2>5, ContinueEffect
  <2>7. Reaps(w, v, p, c, Wakened(w.table[p], c))
    BY SMT, <1>4, <2>2, <2>4, <2>6 DEF Reaps, Drops, Rest
  <2>8. /\ v.nprocs = w.nprocs - 1 /\ v.kern = [w.kern EXCEPT ![p] = Resumed(w.kern[p])]
        /\ v.ustatus = [w.ustatus EXCEPT ![p] = how] /\ v.call = w.call
    BY SMT, <1>4, <2>2, <2>4, <2>6 DEF Drops, Rest
  <2>9. Woken(w, v, p, c, how)
    BY <2>2, <2>7, <2>8 DEF Woken
  <2> QED  BY <1>10, <2>2, <2>6, <2>9
<1> QED  BY <1>8, <1>9, <1>10

---------------------------------------------------------------------------
(* The main loop: what the worlds it installs have to do with the state.   *)

LEMMA WorldIs ==
  /\ World.table = table /\ World.nprocs = nprocs /\ World.trace = trace_this_pid
  /\ World.kern = kern /\ World.events = events /\ World.call = call /\ World.ret = ret
  /\ World.status = status /\ World.ustatus = ustatus /\ World.queued = queued
  /\ World.owed = owed /\ World.stopper = stopper /\ World.tostop = tostop
  BY DEF World

LEMMA Installed ==
  ASSUME Typed, NEW v \in WorldType, Install(v), looping' = looping,
         root_exitstatus' \in Statuses, IsFiniteSet(DOMAIN v.table),
         UNCHANGED <<ktgid, forker, ncalls, setting>>
  PROVE  Typed'
<1>1. /\ v.table \in Tables /\ v.nprocs \in Int /\ v.trace \in Pids \cup {AnyPid}
      /\ v.kern \in KernType /\ v.events \subseteq Pids /\ v.call \in CallsType
      /\ v.ret \in RetType /\ v.status \in StatusType /\ v.ustatus \in StatusType
      /\ v.queued \subseteq Pids /\ v.owed \subseteq Pids
      /\ v.stopper \in Pids \cup {AnyPid} /\ v.tostop \subseteq Pids
  BY WorldHas
<1>2. World' \in WorldType
  BY <1>1, WorldNext DEF Install
<1>3. /\ looping \in BOOLEAN /\ ktgid \in [Pids -> Pids]
      /\ forker \in [Pids -> Pids \cup {Murphy}] /\ ncalls \in [Pids -> 0 .. setting.calls]
  BY DEF Typed
<1>4. IsFiniteSet(DOMAIN table')
  BY DEF Install
<1> QED  BY <1>2, <1>3, <1>4, TypedNext

(* An event of p is taken.                                                 *)
Taken(p) == [World EXCEPT !.events = @ \ {p}]

LEMMA TakenHas ==
  ASSUME Typed, NEW p \in Pids, NEW w, w = Taken(p)
  PROVE  /\ w \in WorldType
         /\ w.table = table /\ w.nprocs = nprocs /\ w.trace = trace_this_pid
         /\ w.kern = kern /\ w.events = events \ {p} /\ w.call = call /\ w.ret = ret
         /\ w.status = status /\ w.ustatus = ustatus /\ w.queued = queued
         /\ w.owed = owed /\ w.stopper = stopper /\ w.tostop = tostop
<1> DEFINE E == events \ {p}
<1>1. World \in WorldType /\ E \subseteq Pids
  BY TypedHas DEF Typed
<1>2. w = [World EXCEPT !.events = E]
  BY DEF Taken, World
<1>3. E = events \ {p}
  OBVIOUS
<1> HIDE DEF E
<1>4. w \in WorldType
  BY <1>1, <1>2 DEF WorldType
<1>5. /\ w.table = World.table /\ w.nprocs = World.nprocs /\ w.trace = World.trace
      /\ w.kern = World.kern /\ w.events = E /\ w.call = World.call /\ w.ret = World.ret
  BY <1>1, <1>2 DEF WorldType
<1>6. /\ w.status = World.status /\ w.ustatus = World.ustatus /\ w.queued = World.queued
      /\ w.owed = World.owed /\ w.stopper = World.stopper /\ w.tostop = World.tostop
  BY <1>1, <1>2 DEF WorldType
<1> QED  BY <1>3, <1>4, <1>5, <1>6, WorldIs

(* The frame of handle_event.                                              *)
Handling(p) ==
  /\ p \in DOMAIN table /\ stopper = AnyPid /\ p \in events /\ kern[p] \in Stopped
  /\ trace_this_pid \in {AnyPid, p}
  /\ UNCHANGED <<root_exitstatus, looping, ktgid, forker, ncalls, setting>>

LEMMA TurnInstalled ==
  ASSUME Typed, NEW p \in Pids, Handling(p), NEW w, w = Taken(p),
         NEW e, NEW k, NEW c, NEW r, NEW t, NEW v \in WorldType, Install(v),
         Turn(w, v, p, e, k, c, r, t), v.stopper = AnyPid
  PROVE  /\ Typed' /\ Beside(p) /\ table'[p] = e /\ kern'[p] = k /\ call'[p] = c
         /\ ret'[p] = r /\ trace_this_pid' = t /\ events' = events \ {p}
         /\ setting' = setting
<1>1. /\ w \in WorldType
      /\ w.table = table /\ w.nprocs = nprocs /\ w.trace = trace_this_pid
      /\ w.kern = kern /\ w.events = events \ {p} /\ w.call = call /\ w.ret = ret
      /\ w.status = status /\ w.ustatus = ustatus /\ w.queued = queued
      /\ w.owed = owed /\ w.stopper = stopper /\ w.tostop = tostop
  BY TakenHas
<1>2. /\ root_exitstatus' = root_exitstatus /\ looping' = looping /\ ktgid' = ktgid
      /\ forker' = forker /\ ncalls' = ncalls /\ setting' = setting /\ p \in DOMAIN table
      /\ stopper = AnyPid
  BY DEF Handling
<1>3. /\ table \in Tables /\ kern \in KernType /\ call \in CallsType /\ ret \in RetType
      /\ IsFiniteSet(DOMAIN table)
  BY TypedHas
<1>4. table' = [table EXCEPT ![p] = e] /\ kern' = [kern EXCEPT ![p] = k]
      /\ call' = [call EXCEPT ![p] = c] /\ ret' = [ret EXCEPT ![p] = r]
      /\ trace_this_pid' = t
  BY <1>1 DEF Turn, Install
<1>5. /\ nprocs' = nprocs /\ events' = events \ {p} /\ status' = status
      /\ ustatus' = ustatus /\ queued' = queued /\ owed' = owed
      /\ tostop' = tostop /\ stopper' = stopper
  BY <1>1, <1>2 DEF Turn, Rest, Install
<1>6. /\ DOMAIN table' = DOMAIN table /\ table'[p] = e
      /\ \A q \in DOMAIN table \ {p} : table'[q] = table[q]
  BY <1>2, <1>4
<1>7. /\ kern'[p] = k /\ call'[p] = c /\ ret'[p] = r
      /\ \A q \in Pids \ {p} : kern'[q] = kern[q] /\ call'[q] = call[q] /\ ret'[q] = ret[q]
  BY <1>3, <1>4 DEF KernType, CallsType, RetType
<1>8. Typed'
  <2>1. IsFiniteSet(DOMAIN v.table) /\ root_exitstatus' \in Statuses
    BY <1>2, <1>3, <1>6 DEF Typed, Install
  <2> QED  BY <1>2, <2>1, Installed
<1>9. Beside(p)
  BY <1>2, <1>5, <1>6, <1>7 DEF Beside
<1> QED  BY <1>2, <1>4, <1>5, <1>6, <1>7, <1>8, <1>9

(* One living process less.                                                *)
LEMMA OneLess ==
  ASSUME FiniteSetLaws, IsFiniteSet(DOMAIN table), CountsTheLiving,
         NEW c \in DOMAIN table, table[c].state # "DONE", nprocs' = nprocs - 1,
         {q \in DOMAIN table' : table'[q].state # "DONE"}
           = {q \in DOMAIN table : table[q].state # "DONE"} \ {c}
  PROVE  CountsTheLiving'
<1> DEFINE S == {q \in DOMAIN table : table[q].state # "DONE"}
<1>1. IsFiniteSet(S) /\ c \in S
  BY FiniteSubset
<1>2. Cardinality(S \ {c}) = Cardinality(S) - 1
  <2> HIDE DEF S
  <2> QED  BY <1>1, OneElementLess
<1> QED  BY <1>2 DEF CountsTheLiving

---------------------------------------------------------------------------
(* The exit_group loop.                                                    *)

LEMMA SilentFields ==
  ASSUME NEW w \in WorldType, NEW c \in DOMAIN w.table, NEW how \in Statuses, NEW v,
         Silent(w, v, c, how)
  PROVE  /\ DOMAIN v.table = DOMAIN w.table
         /\ \A q \in DOMAIN w.table \ {c} : v.table[q] = w.table[q]
         /\ v.table[c].state = "DONE" /\ v.table[c].exit_status = how
         /\ v.table[c].ppid = w.table[c].ppid /\ v.table[c].tgid = w.table[c].tgid
         /\ v.table[c].interruptible = w.table[c].interruptible
         /\ v.nprocs = w.nprocs - 1
         /\ v.kern = w.kern /\ v.events = w.events /\ v.call = w.call /\ v.ret = w.ret
         /\ v.status = w.status /\ v.ustatus = w.ustatus /\ v.trace = w.trace
         /\ v.stopper = w.stopper /\ v.tostop = w.tostop
         /\ \/ v.owed = w.owed /\ v.queued = w.queued
            \/ \E x \in DOMAIN w.table :
                 /\ v.owed = w.owed \cup {x}
                 /\ v.queued = w.queued \cup {x} \/ (v.queued = w.queued /\ w.table[x].interruptible)
<1> DEFINE e == Ended(w.table[c], how)
<1>1. w.table[c] \in ProcessType
  BY EntryHas
<1>2. /\ e.state = "DONE" /\ e.exit_status = how
      /\ e.ppid = w.table[c].ppid /\ e.tgid = w.table[c].tgid
      /\ e.interruptible = w.table[c].interruptible
  BY SMT, <1>1, EndedType
<1>3. Drops(w, v, c, e)
  BY DEF Silent
<1> HIDE DEF e
<1>4. /\ v.table = [w.table EXCEPT ![c] = e] /\ v.nprocs = w.nprocs - 1
      /\ v.kern = w.kern /\ v.events = w.events /\ v.call = w.call /\ v.ret = w.ret
      /\ v.status = w.status /\ v.ustatus = w.ustatus /\ v.trace = w.trace
      /\ v.stopper = w.stopper /\ v.tostop = w.tostop
  BY <1>3 DEF Drops
<1>5. /\ DOMAIN v.table = DOMAIN w.table /\ v.table[c] = e
      /\ \A q \in DOMAIN w.table \ {c} : v.table[q] = w.table[q]
  BY <1>4
<1>6. \/ v.owed = w.owed /\ v.queued = w.queued
      \/ \E x \in DOMAIN w.table :
           /\ v.owed = w.owed \cup {x}
           /\ v.queued = w.queued \cup {x} \/ (v.queued = w.queued /\ w.table[x].interruptible)
  BY DEF Silent, Sent
<1> QED  BY <1>2, <1>4, <1>5, <1>6

(* With threads nobody waits.                                              *)
LEMMA NoWaiters ==
  ASSUME Calls, Waiting, Typed, Usual(setting), "thread" \in setting.ops
  PROVE  \A p \in DOMAIN table : table[p].state # "WAITPID"
<1>1. SUFFICES ASSUME NEW p \in DOMAIN table, table[p].state = "WAITPID"  PROVE FALSE
  OBVIOUS
<1>2. p \in Pids /\ call[p].op \in Waits /\ call[p].op \in setting.ops \cup {"exit", "exit_group"}
  BY <1>1, TypedHas DEF Calls, Waiting
<1> QED  BY <1>2 DEF Usual, Waits

LEMMA LoopStopKeeps ==
  ASSUME FiniteSetLaws, Inv, Usual(setting), NEW c \in tostop, NEW u, NEW v,
         u = pfs_process_stop(World, c, "exit0"),
         v = [u EXCEPT !.tostop = tostop \ {c}], Install(v),
         UNCHANGED <<looping, root_exitstatus, ktgid, forker, ncalls, setting>>
  PROVE  Inv'
<1>0. Typed /\ Calls /\ Waiting /\ Single /\ Loop /\ CountsTheLiving /\ NoMissedChild
  BY DEF Inv
<1>1. c \in DOMAIN table /\ c \in Pids /\ tostop \ {c} \subseteq Pids /\ IsFiniteSet(DOMAIN table)
      /\ root_exitstatus \in Statuses /\ World \in WorldType
  BY <1>0, TypedHas DEF Loop, Typed
<1>2. \A p \in DOMAIN table : table[p].state # "WAITPID"
  BY <1>0, NoWaiters DEF Single
<1> DEFINE T == tostop \ {c}
<1>3. T = tostop \ {c}
  OBVIOUS
<1> HIDE DEF T
<1>4. ASSUME u \in WorldType
      PROVE  /\ v \in WorldType /\ table' = u.table /\ nprocs' = u.nprocs
             /\ trace_this_pid' = u.trace /\ kern' = u.kern /\ events' = u.events
             /\ call' = u.call /\ ret' = u.ret /\ status' = u.status /\ ustatus' = u.ustatus
             /\ queued' = u.queued /\ owed' = u.owed /\ stopper' = u.stopper
             /\ tostop' = tostop \ {c}
  <2>1. v = [u EXCEPT !.tostop = T]
    BY <1>3
  <2>2. v \in WorldType /\ v.tostop = T
    BY <1>1, <1>3, <1>4, <2>1 DEF WorldType
  <2>3. /\ v.table = u.table /\ v.nprocs = u.nprocs /\ v.trace = u.trace /\ v.kern = u.kern
        /\ v.events = u.events /\ v.call = u.call /\ v.ret = u.ret
    BY <1>4, <2>1 DEF WorldType
  <2>4. /\ v.status = u.status /\ v.ustatus = u.ustatus /\ v.queued = u.queued
        /\ v.owed = u.owed /\ v.stopper = u.stopper
    BY <1>4, <2>1 DEF WorldType
  <2> QED  BY <1>3, <2>2, <2>3, <2>4 DEF Install
<1>5. CASE table[c].state = "DONE"
  <2>1. u = World
    BY <1>5, WorldIs DEF pfs_process_stop
  <2>2. /\ v \in WorldType /\ table' = table /\ nprocs' = nprocs
        /\ trace_this_pid' = trace_this_pid /\ kern' = kern /\ events' = events
        /\ call' = call /\ ret' = ret /\ status' = status /\ ustatus' = ustatus
        /\ queued' = queued /\ owed' = owed /\ stopper' = stopper
        /\ tostop' = tostop \ {c}
    BY <1>1, <1>4, <2>1, WorldIs
  <2>3. Typed'
    BY <1>0, <1>1, <2>2, Installed DEF Install
  <2>4. Stops(c)
    BY <1>5, <2>2 DEF Stops, Signalled
  <2>5. CountsTheLiving' /\ NoMissedChild'
    BY <1>0, <2>2 DEF CountsTheLiving, NoMissedChild
  <2> QED  BY <1>1, <2>3, <2>4, <2>5, StopKeeps
<1>6. CASE table[c].state # "DONE"
  <2> DEFINE w == World
  <2>1. /\ w \in WorldType /\ c \in DOMAIN w.table /\ w.table[c].state # "DONE"
        /\ "exit0" \in Statuses /\ \A q \in DOMAIN w.table : w.table[q].state # "WAITPID"
        /\ u = pfs_process_stop(w, c, "exit0")
    BY <1>1, <1>2, <1>6, WorldIs DEF Statuses
  <2>2. /\ w.table = table /\ w.nprocs = nprocs /\ w.trace = trace_this_pid
        /\ w.kern = kern /\ w.events = events /\ w.call = call /\ w.ret = ret
        /\ w.status = status /\ w.ustatus = ustatus /\ w.queued = queued
        /\ w.owed = owed /\ w.stopper = stopper /\ w.tostop = tostop
    BY WorldIs
  <2> HIDE DEF w
  <2>3. /\ u \in WorldType
        /\ Silent(w, u, c, "exit0")
             \/ (w.table[c].ppid \in DOMAIN w.table \ {c} /\ Woken(w, u, w.table[c].ppid, c, "exit0"))
    BY <2>1, StopEffect
  <2>4. Silent(w, u, c, "exit0")
    BY <2>1, <2>3 DEF Woken
  <2>5. /\ DOMAIN u.table = DOMAIN w.table
        /\ \A q \in DOMAIN w.table \ {c} : u.table[q] = w.table[q]
        /\ u.table[c].state = "DONE" /\ u.table[c].exit_status = "exit0"
        /\ u.table[c].ppid = w.table[c].ppid /\ u.table[c].tgid = w.table[c].tgid
        /\ u.table[c].interruptible = w.table[c].interruptible
        /\ u.nprocs = w.nprocs - 1
        /\ u.kern = w.kern /\ u.events = w.events /\ u.call = w.call /\ u.ret = w.ret
        /\ u.status = w.status /\ u.ustatus = w.ustatus /\ u.trace = w.trace
        /\ u.stopper = w.stopper /\ u.tostop = w.tostop
        /\ \/ u.owed = w.owed /\ u.queued = w.queued
           \/ \E x \in DOMAIN w.table :
                /\ u.owed = w.owed \cup {x}
                /\ u.queued = w.queued \cup {x} \/ (u.queued = w.queued /\ w.table[x].interruptible)
    BY SMT, <2>1, <2>4, SilentFields
  <2>6. /\ v \in WorldType /\ table' = u.table /\ nprocs' = u.nprocs
        /\ trace_this_pid' = u.trace /\ kern' = u.kern /\ events' = u.events
        /\ call' = u.call /\ ret' = u.ret /\ status' = u.status /\ ustatus' = u.ustatus
        /\ queued' = u.queued /\ owed' = u.owed /\ stopper' = u.stopper
        /\ tostop' = tostop \ {c}
    BY <1>4, <2>3
  <2>7. Typed'
    <3>1. IsFiniteSet(DOMAIN v.table)
      BY SMT, <1>1, <2>2, <2>5, <2>6 DEF Install
    <3> QED  BY <1>0, <1>1, <2>6, <3>1, Installed
  <2>8. Signalled
    BY <2>2, <2>5, <2>6 DEF Signalled
  <2>9. Stops(c)
    BY <2>2, <2>5, <2>6, <2>8 DEF Stops
  <2>10. /\ DOMAIN table' = DOMAIN table /\ table'[c].state = "DONE"
         /\ \A q \in DOMAIN table \ {c} : table'[q] = table[q]
    BY <2>9 DEF Stops
  <2>11. CountsTheLiving'
    <3>1. {q \in DOMAIN table' : table'[q].state # "DONE"}
            = {q \in DOMAIN table : table[q].state # "DONE"} \ {c}
      BY <2>10
    <3>2. nprocs' = nprocs - 1
      BY <2>2, <2>5, <2>6
    <3> QED  BY <1>0, <1>1, <1>6, <3>1, <3>2, OneLess
  <2>12. NoMissedChild'
    BY <1>2, <2>10 DEF NoMissedChild
  <2> QED  BY <1>1, <2>7, <2>9, <2>11, <2>12, StopKeeps
<1> QED  BY <1>5, <1>6

LEMMA LoopDoneKeeps ==
  ASSUME Inv, stopper # AnyPid, tostop = {},
         NEW v, v = Proceed([World EXCEPT !.stopper = AnyPid], stopper), Install(v),
         UNCHANGED <<looping, root_exitstatus, ktgid, forker, ncalls, setting>>
  PROVE  Inv'
<1> DEFINE w == [World EXCEPT !.stopper = AnyPid]
           s == stopper
<1>0. Typed /\ Loop
  BY DEF Inv
<1>1. /\ World \in WorldType /\ s \in Pids /\ s \in DOMAIN table /\ table[s].state = "KERNEL"
      /\ kern \in KernType /\ IsFiniteSet(DOMAIN table) /\ root_exitstatus \in Statuses
  BY <1>0, TypedHas DEF Loop, Typed
<1>2. w \in WorldType /\ w.stopper = AnyPid
  BY <1>1 DEF WorldType
<1>3. /\ w.table = table /\ w.nprocs = nprocs /\ w.trace = trace_this_pid
      /\ w.kern = kern /\ w.events = events /\ w.call = call /\ w.ret = ret
      /\ w.status = status /\ w.ustatus = ustatus /\ w.queued = queued
      /\ w.owed = owed /\ w.tostop = tostop
  BY DEF World
<1>4. v = Proceed(w, s)
  OBVIOUS
<1> HIDE DEF w, s
<1>5. v = tracer_continue(w, s)
  BY <1>1, <1>2, <1>3, <1>4 DEF Proceed
<1>6. /\ v \in WorldType /\ Rest(w, v) /\ v.table = w.table
      /\ v.kern = [w.kern EXCEPT ![s] = Resumed(w.kern[s])]
      /\ v.call = w.call /\ v.ret = w.ret /\ v.trace = w.trace
      /\ v.stopper = w.stopper
  BY SMT, <1>1, <1>2, <1>5, ContinueEffect
<1>7. Typed'
  <2>1. IsFiniteSet(DOMAIN v.table)
    BY <1>1, <1>3, <1>6
  <2> QED  BY <1>0, <1>1, <1>6, <2>1, Installed
<1>8. kern' = [kern EXCEPT ![s] = Resumed(kern[s])]
  BY <1>3, <1>6 DEF Install
<1>9. /\ table' = table /\ nprocs' = nprocs /\ trace_this_pid' = trace_this_pid
      /\ events' = events /\ call' = call /\ ret' = ret /\ status' = status
      /\ ustatus' = ustatus /\ queued' = queued /\ owed' = owed /\ tostop' = {}
      /\ stopper' = AnyPid
  BY <1>2, <1>3, <1>6 DEF Install, Rest
<1>10. kern[s] = "entry" \/ kern[s] = "zombie"
  BY <1>0 DEF Loop, s
<1>11. /\ \/ kern[s] = "entry" /\ kern'[s] = "incall"
          \/ kern[s] # "entry" /\ kern'[s] = kern[s]
       /\ \A q \in Pids \ {s} : kern'[q] = kern[q]
  BY <1>1, <1>8, <1>10 DEF KernType, Resumed
<1>12. Finishes
  BY <1>9, <1>11 DEF Finishes, s
<1> QED  BY <1>7, <1>12, FinishKeeps

LEMMA ExitGroupKeeps ==
  ASSUME FiniteSetLaws, Inv, Usual(setting), exit_group_loop
  PROVE  Inv'
<1>1. UNCHANGED <<looping, root_exitstatus, ktgid, forker, ncalls, setting>>
  BY DEF exit_group_loop
<1>2. CASE \E q \in tostop :
             Install([pfs_process_stop(World, q, "exit0") EXCEPT !.tostop = tostop \ {q}])
  BY <1>1, <1>2, LoopStopKeeps
<1>3. CASE tostop = {} /\ Install(Proceed([World EXCEPT !.stopper = AnyPid], stopper))
  BY <1>1, <1>3, LoopDoneKeeps DEF exit_group_loop
<1> QED  BY <1>2, <1>3 DEF exit_group_loop

---------------------------------------------------------------------------
(* The death of a process is collected.                                    *)

Gone(c) == [World EXCEPT !.kern[c] = "gone", !.events = @ \ {c}]

LEMMA GoneHas ==
  ASSUME Typed, NEW c \in Pids, NEW w, w = Gone(c)
  PROVE  /\ w \in WorldType
         /\ w.table = table /\ w.nprocs = nprocs /\ w.trace = trace_this_pid
         /\ w.kern = [kern EXCEPT ![c] = "gone"] /\ w.events = events \ {c}
         /\ w.call = call /\ w.ret = ret
         /\ w.status = status /\ w.ustatus = ustatus /\ w.queued = queued
         /\ w.owed = owed /\ w.stopper = stopper /\ w.tostop = tostop
<1> DEFINE k == [kern EXCEPT ![c] = "gone"]
           E == events \ {c}
<1>1. World \in WorldType /\ kern \in KernType /\ events \subseteq Pids
  BY TypedHas DEF Typed
<1>2. k \in KernType
  BY <1>1 DEF KernType, Places, Dead
<1>3. E \in SUBSET Pids
  BY <1>1
<1>4. w = [World EXCEPT !.kern = k, !.events = E]
  BY DEF Gone, World
<1> HIDE DEF k, E
<1>5. w \in WorldType /\ w.kern = k /\ w.events = E
  BY <1>1, <1>2, <1>3, <1>4 DEF WorldType
<1>6. /\ w.table = World.table /\ w.nprocs = World.nprocs /\ w.trace = World.trace
      /\ w.call = World.call /\ w.ret = World.ret
  BY <1>1, <1>4 DEF WorldType
<1>7. /\ w.status = World.status /\ w.ustatus = World.ustatus /\ w.queued = World.queued
      /\ w.owed = World.owed /\ w.stopper = World.stopper /\ w.tostop = World.tostop
  BY <1>1, <1>4 DEF WorldType
<1> QED  BY <1>5, <1>6, <1>7, WorldIs DEF k, E

(* What is common to the ways a death is collected.                        *)
Burying(c) ==
  /\ kern[c] = "zombie" /\ trace_this_pid \in {AnyPid, c} /\ stopper = AnyPid
  /\ root_exitstatus' = (IF c = Root THEN status[c] ELSE root_exitstatus)
  /\ UNCHANGED <<looping, ktgid, forker, ncalls, setting>>

LEMMA BuryTyped ==
  ASSUME FiniteSetLaws, Typed, NEW c \in Pids, Burying(c), NEW v \in WorldType, Install(v),
         DOMAIN v.table \subseteq DOMAIN table
  PROVE  Typed'
<1>1. IsFiniteSet(DOMAIN v.table)
  BY TypedHas, FiniteSubset
<1>2. root_exitstatus \in Statuses /\ status \in StatusType
  BY TypedHas DEF Typed
<1>3. root_exitstatus' \in Statuses
  BY <1>2 DEF Burying, StatusType
<1> QED  BY <1>1, <1>3, Installed DEF Burying

(* The process was unknown, or stopped by the exit_group of its group.     *)
LEMMA BuryKnownKeeps ==
  ASSUME FiniteSetLaws, Inv, NEW c \in Pids, Burying(c), NEW v, v = Gone(c), Install(v),
         c \in DOMAIN table => table[c].state = "DONE"
  PROVE  Inv'
<1>0. Typed /\ Single /\ CountsTheLiving /\ NoMissedChild
  BY DEF Inv
<1>1. /\ v \in WorldType
      /\ v.table = table /\ v.nprocs = nprocs /\ v.trace = trace_this_pid
      /\ v.kern = [kern EXCEPT ![c] = "gone"] /\ v.events = events \ {c}
      /\ v.call = call /\ v.ret = ret
      /\ v.status = status /\ v.ustatus = ustatus /\ v.queued = queued
      /\ v.owed = owed /\ v.stopper = stopper /\ v.tostop = tostop
  BY <1>0, GoneHas
<1>2. Typed'
  BY <1>0, <1>1, BuryTyped
<1>3. /\ kern' = [kern EXCEPT ![c] = "gone"] /\ events' = events \ {c}
      /\ table' = table /\ nprocs' = nprocs /\ trace_this_pid' = trace_this_pid
      /\ call' = call /\ ret' = ret /\ status' = status /\ ustatus' = ustatus
      /\ queued' = queued /\ owed' = owed /\ stopper' = stopper /\ tostop' = tostop
  BY <1>1 DEF Install
<1>4. kern'[c] = "gone" /\ \A q \in Pids \ {c} : kern'[q] = kern[q]
  BY <1>0, <1>3, TypedHas DEF KernType
<1>5. c \in DOMAIN table /\ "thread" \notin setting.ops => table'[c].exit_status = status[c]
  BY <1>0 DEF Single, Burying
<1>6. Signalled
  BY <1>3 DEF Signalled
<1>7. Collects(c)
  BY <1>3, <1>4, <1>5, <1>6 DEF Collects, Burying
<1>8. CountsTheLiving' /\ NoMissedChild'
  BY <1>0, <1>3 DEF CountsTheLiving, NoMissedChild
<1> QED  BY <1>2, <1>7, <1>8, CollectKeeps

(* The parent did not wait for it.                                         *)
LEMMA BurySilentKeeps ==
  ASSUME FiniteSetLaws, Inv, NEW c \in Pids, Burying(c), NEW w, w = Gone(c), NEW v \in WorldType, Install(v),
         c \in DOMAIN table, table[c].state # "DONE", Silent(w, v, c, status[c])
  PROVE  Inv'
<1>0. Typed /\ CountsTheLiving /\ NoMissedChild
  BY DEF Inv
<1>1. /\ w \in WorldType
      /\ w.table = table /\ w.nprocs = nprocs /\ w.trace = trace_this_pid
      /\ w.kern = [kern EXCEPT ![c] = "gone"] /\ w.events = events \ {c}
      /\ w.call = call /\ w.ret = ret
      /\ w.status = status /\ w.ustatus = ustatus /\ w.queued = queued
      /\ w.owed = owed /\ w.stopper = stopper /\ w.tostop = tostop
  BY <1>0, GoneHas
<1>2. status[c] \in Statuses
  BY <1>0, TypedHas DEF StatusType
<1> DEFINE how == status[c]
<1>3. how \in Statuses /\ Silent(w, v, c, how) /\ how = status[c]
  BY <1>2
<1> HIDE DEF how
<1>4. /\ DOMAIN v.table = DOMAIN w.table
      /\ \A q \in DOMAIN w.table \ {c} : v.table[q] = w.table[q]
      /\ v.table[c].state = "DONE" /\ v.table[c].exit_status = how
      /\ v.table[c].ppid = w.table[c].ppid /\ v.table[c].tgid = w.table[c].tgid
      /\ v.table[c].interruptible = w.table[c].interruptible
      /\ v.nprocs = w.nprocs - 1
      /\ v.kern = w.kern /\ v.events = w.events /\ v.call = w.call /\ v.ret = w.ret
      /\ v.status = w.status /\ v.ustatus = w.ustatus /\ v.trace = w.trace
      /\ v.stopper = w.stopper /\ v.tostop = w.tostop
      /\ \/ v.owed = w.owed /\ v.queued = w.queued
         \/ \E x \in DOMAIN w.table :
              /\ v.owed = w.owed \cup {x}
              /\ v.queued = w.queued \cup {x} \/ (v.queued = w.queued /\ w.table[x].interruptible)
  BY SMT, <1>1, <1>3, SilentFields
<1>5. Typed'
  BY <1>0, <1>1, <1>4, BuryTyped
<1>6. /\ kern' = [kern EXCEPT ![c] = "gone"] /\ events' = events \ {c}
      /\ nprocs' = nprocs - 1 /\ trace_this_pid' = trace_this_pid
      /\ call' = call /\ ret' = ret /\ status' = status /\ ustatus' = ustatus
      /\ stopper' = stopper /\ tostop' = tostop
  BY <1>1, <1>4 DEF Install
<1>7. /\ DOMAIN table' = DOMAIN table
      /\ \A q \in DOMAIN table \ {c} : table'[q] = table[q]
      /\ table'[c].state = "DONE" /\ table'[c].exit_status = status[c]
      /\ table'[c].ppid = table[c].ppid /\ table'[c].tgid = table[c].tgid
      /\ table'[c].interruptible = table[c].interruptible
  BY <1>1, <1>3, <1>4 DEF Install
<1>8. Signalled
  BY <1>1, <1>4 DEF Install, Signalled
<1>9. kern'[c] = "gone" /\ \A q \in Pids \ {c} : kern'[q] = kern[q]
  BY <1>0, <1>6, TypedHas DEF KernType
<1>10. Collects(c)
  BY <1>6, <1>7, <1>8, <1>9 DEF Collects, Burying
<1>11. CountsTheLiving'
  <2>1. {q \in DOMAIN table' : table'[q].state # "DONE"}
          = {q \in DOMAIN table : table[q].state # "DONE"} \ {c}
    BY <1>7
  <2> QED  BY <1>0, <1>6, <2>1, TypedHas, OneLess
<1>12. \A p \in DOMAIN table \ {c} :
         table[c].ppid = p => ~(table[p].state = "WAITPID" /\ table[p].wait_pid \in {AnyPid, c})
  BY <1>1, <1>3 DEF Silent
<1>13. NoMissedChild'
  <2>1. SUFFICES ASSUME NEW p \in DOMAIN table, NEW d \in DOMAIN table,
                        table'[p].state = "WAITPID", table'[p].wait_pid \in {AnyPid, d},
                        table'[d].ppid = p, table'[d].state = "DONE"
                 PROVE  FALSE
    BY <1>7 DEF NoMissedChild
  <2>2. p # c /\ table[p].state = "WAITPID" /\ table[p].wait_pid \in {AnyPid, d}
    BY <1>7, <2>1
  <2>3. CASE d = c
    BY <1>7, <1>12, <2>1, <2>2, <2>3
  <2>4. CASE d # c
    BY <1>0, <1>7, <2>1, <2>2, <2>4 DEF NoMissedChild
  <2> QED  BY <2>3, <2>4
<1> QED  BY <1>5, <1>10, <1>11, <1>13, CollectKeeps

(* The parent was blocked in wait4 for it.                                 *)
LEMMA BuryWokenKeeps ==
  ASSUME FiniteSetLaws, Inv, Usual(setting), NEW c \in Pids, Burying(c), NEW w, w = Gone(c),
         NEW v \in WorldType, Install(v), c \in DOMAIN table, table[c].state # "DONE",
         NEW p \in DOMAIN table \ {c}, Woken(w, v, p, c, status[c])
  PROVE  Inv'
<1>0. /\ Typed /\ CountsTheLiving /\ Parents /\ Calls /\ Waiting /\ Match /\ Created /\ Truth
  BY DEF Inv
<1>1. /\ w \in WorldType
      /\ w.table = table /\ w.nprocs = nprocs /\ w.trace = trace_this_pid
      /\ w.kern = [kern EXCEPT ![c] = "gone"] /\ w.events = events \ {c}
      /\ w.call = call /\ w.ret = ret
      /\ w.status = status /\ w.ustatus = ustatus /\ w.queued = queued
      /\ w.owed = owed /\ w.stopper = stopper /\ w.tostop = tostop
  BY <1>0, GoneHas
<1>2. /\ p \in Pids /\ table[p] \in ProcessType /\ kern \in KernType /\ status \in StatusType
      /\ ustatus \in StatusType /\ IsFiniteSet(DOMAIN table)
  BY <1>0, TypedHas
<1> DEFINE e == Wakened(table[p], c)
<1>3. /\ e.state = "KERNEL" /\ e.syscall_result = c
      /\ e.syscall_dummy = table[p].syscall_dummy
      /\ e.ppid = table[p].ppid /\ e.tgid = table[p].tgid
      /\ e.interruptible = table[p].interruptible
  BY SMT, <1>2, WakenedType
<1>4. /\ Reaps(w, v, p, c, e) /\ v.nprocs = nprocs - 1
      /\ v.kern = [w.kern EXCEPT ![p] = Resumed(w.kern[p])]
      /\ v.ustatus = [ustatus EXCEPT ![p] = status[c]] /\ v.call = call
      /\ table[c].ppid = p /\ table[p].state = "WAITPID"
  BY <1>1 DEF Woken
<1> HIDE DEF e
<1>5. /\ DOMAIN v.table = DOMAIN table \ {c} /\ v.table[p] = e
      /\ \A q \in DOMAIN table \ {c, p} : v.table[q] = table[q]
      /\ v.events = events \ {c} /\ v.ret = ret /\ v.status = status
      /\ v.queued = queued /\ v.owed = owed /\ v.trace = trace_this_pid
      /\ v.stopper = stopper /\ v.tostop = tostop
  BY <1>1, <1>4 DEF Reaps
<1>6. Typed'
  BY <1>0, <1>5, BuryTyped
<1>7. /\ DOMAIN table' = DOMAIN table \ {c} /\ table'[p] = e
      /\ \A q \in DOMAIN table \ {p, c} : table'[q] = table[q]
      /\ events' = events \ {c} /\ ret' = ret /\ status' = status
      /\ queued' = queued /\ owed' = owed /\ trace_this_pid' = trace_this_pid
      /\ stopper' = stopper /\ tostop' = tostop /\ nprocs' = nprocs - 1 /\ call' = call
  BY <1>4, <1>5 DEF Install
<1>8. /\ kern'[c] = "gone" /\ kern'[p] = Resumed(kern[p])
      /\ \A q \in Pids \ {p, c} : kern'[q] = kern[q]
  <2>1. kern' = [[kern EXCEPT ![c] = "gone"] EXCEPT ![p] = Resumed(w.kern[p])]
    BY <1>1, <1>4 DEF Install
  <2>2. w.kern[p] = kern[p]
    BY <1>1, <1>2 DEF KernType
  <2> QED  BY <1>2, <2>1, <2>2 DEF KernType
<1>9. ustatus'[p] = status[c] /\ \A q \in Pids \ {p} : ustatus'[q] = ustatus[q]
  BY <1>2, <1>4 DEF Install, StatusType
<1>10. c # Root
  <2>1. SUFFICES ASSUME c = Root  PROVE FALSE
    OBVIOUS
  <2>2. p = Murphy
    BY <1>0, <1>4, <2>1 DEF Parents
  <2> QED  BY <1>2, <2>2, ConstantsAssumption
<1>11. "thread" \notin setting.ops
  BY <1>0, <1>4, NoWaiters
<1>12. /\ call[p].op \in Waits /\ table[p].syscall_dummy
       /\ call[p].real = call[p].op \/ call[p].real = "getpid"
  BY <1>0, <1>2, <1>4 DEF Waiting, Truth, Calls
<1>13. \/ kern[p] = "entry" /\ p \notin events
       \/ kern[p] = "zombie"
  <2>1. kern[p] # "none" /\ kern[p] # "gone"
    BY <1>0, <1>2, <1>4 DEF Created, Match
  <2>2. CASE Live(p)
    BY <1>0, <1>4, <2>2 DEF Match
  <2>3. CASE ~Live(p)
    BY <2>1, <2>3 DEF Live, Dead
  <2> QED  BY <2>2, <2>3
<1>14. \/ kern[p] = "entry" /\ kern'[p] = "incall" /\ p \notin events'
       \/ kern[p] = "zombie" /\ kern'[p] = "zombie" /\ (p \in events => p \in events')
  BY <1>7, <1>8, <1>13 DEF Resumed
<1>15. /\ c \notin events'
       /\ \A q \in Pids \ {p, c} : kern'[q] = kern[q] /\ (q \in events' <=> q \in events)
  BY <1>7, <1>8
<1>16. /\ table'[p].state = "KERNEL" /\ table'[p].syscall_dummy /\ table'[p].syscall_result = c
       /\ table'[p].ppid = table[p].ppid /\ table'[p].tgid = table[p].tgid
       /\ table'[p].interruptible = table[p].interruptible
  BY <1>3, <1>7, <1>12
<1>17. /\ root_exitstatus' = root_exitstatus /\ looping' = looping /\ ktgid' = ktgid
       /\ forker' = forker /\ setting' = setting /\ kern[c] \in Dead /\ stopper = AnyPid
  BY <1>10 DEF Burying, Dead
<1>18. Takes(p, c)
  BY <1>7, <1>8, <1>9, <1>10, <1>11, <1>12, <1>14, <1>15, <1>16, <1>17 DEF Takes
<1>19. CountsTheLiving'
  <2>1. {q \in DOMAIN table' : table'[q].state # "DONE"}
          = {q \in DOMAIN table : table[q].state # "DONE"} \ {c}
    BY SMT, <1>4, <1>7, <1>16
  <2> QED  BY <1>0, <1>2, <1>7, <2>1, OneLess
<1> QED  BY <1>2, <1>6, <1>18, <1>19, TakeKeeps

LEMMA ExitedKeeps ==
  ASSUME FiniteSetLaws, Inv, Usual(setting), NEW c \in Pids, looping, stopper = AnyPid, Collectible(c),
         HandleExited(c), UNCHANGED <<looping, ktgid, forker, ncalls, setting>>
  PROVE  Inv'
<1> DEFINE w == Gone(c)
<1>0. Typed /\ Parents
  BY DEF Inv
<1>1. w \in WorldType /\ w.table = table /\ w.kern = [kern EXCEPT ![c] = "gone"]
  BY <1>0, GoneHas
<1>2. w = Gone(c)
  OBVIOUS
<1>3. /\ kern[c] = "zombie" /\ trace_this_pid \in {AnyPid, c}
      /\ Install(IF c \in DOMAIN w.table THEN pfs_process_stop(w, c, status[c]) ELSE w)
      /\ root_exitstatus' = (IF c \in DOMAIN w.table /\ c = Root THEN status[c] ELSE root_exitstatus)
  BY DEF HandleExited, Gone, pfs_process_lookup, Collectible
<1> HIDE DEF w
<1>4. Burying(c)
  BY <1>0, <1>1, <1>3 DEF Burying, Parents
<1>5. CASE c \in DOMAIN table => table[c].state = "DONE"
  <2>1. Install(w)
    BY <1>1, <1>3, <1>5 DEF pfs_process_stop
  <2> QED  BY <1>2, <1>4, <1>5, <2>1, BuryKnownKeeps
<1>6. CASE c \in DOMAIN table /\ table[c].state # "DONE"
  <2> DEFINE how == status[c]
             p == table[c].ppid
             v == pfs_process_stop(w, c, how)
  <2>1. how \in Statuses
    BY <1>0, TypedHas DEF StatusType
  <2>2. w.kern[c] \notin Stopped
    BY <1>0, <1>1, TypedHas DEF KernType, Stopped
  <2>3. Install(v) /\ how = status[c] /\ p = w.table[c].ppid /\ v = pfs_process_stop(w, c, how)
    BY <1>1, <1>3, <1>6
  <2> HIDE DEF how, p, v
  <2>4. /\ v \in WorldType
        /\ Silent(w, v, c, how) \/ (p \in DOMAIN w.table \ {c} /\ Woken(w, v, p, c, how))
    BY <1>1, <1>6, <2>1, <2>2, <2>3, StopEffect
  <2>5. CASE Silent(w, v, c, how)
    BY <1>2, <1>4, <1>6, <2>3, <2>4, <2>5, BurySilentKeeps
  <2>6. CASE p \in DOMAIN w.table \ {c} /\ Woken(w, v, p, c, how)
    <3>1. p \in DOMAIN table \ {c} /\ Woken(w, v, p, c, status[c])
      BY <1>1, <2>3, <2>6
    <3> QED  BY <1>2, <1>4, <1>6, <2>3, <2>4, <3>1, BuryWokenKeeps
  <2> QED  BY <2>4, <2>5, <2>6
<1> QED  BY <1>5, <1>6

---------------------------------------------------------------------------
(* The stop of a process is handled.                                       *)

LEMMA HandlingHas ==
  ASSUME Inv, NEW p \in Pids, Handling(p)
  PROVE  /\ Live(p) /\ p # stopper /\ kern[p] # "none"
         /\ table[p].state = "USER" => kern[p] \in {"born", "entry"}
         /\ table[p].state = "KERNEL" => kern[p] = "exit"
         /\ table[p].state # "WAITPID"
         /\ setting.faults = {} /\ trace_this_pid = p =>
              table[p].state = "KERNEL" /\ kern[p] = "exit" /\ call[p].real \in Forks
         /\ table[p] \in ProcessType
<1>0. Typed /\ Match /\ Narrow
  BY DEF Inv
<1>1. /\ p \in DOMAIN table /\ stopper = AnyPid /\ p \in events /\ kern[p] \in Stopped
      /\ table[p] \in ProcessType
  BY <1>0, TypedHas DEF Handling
<1>2. Live(p) /\ p # stopper /\ kern[p] # "none"
  BY <1>1, ConstantsAssumption DEF Live, Dead, Stopped
<1>3. table[p].state = "USER" => kern[p] \in {"born", "entry"}
  BY <1>0, <1>1, <1>2 DEF Match, Stopped
<1>4. table[p].state = "KERNEL" => kern[p] = "exit"
  BY <1>0, <1>1, <1>2 DEF Match, Stopped
<1>5. table[p].state # "WAITPID"
  BY <1>0, <1>1, <1>2 DEF Match
<1>6. setting.faults = {} /\ trace_this_pid = p =>
        table[p].state = "KERNEL" /\ kern[p] = "exit" /\ call[p].real \in Forks
  BY <1>0, <1>4 DEF Narrow, InFork
<1> QED  BY <1>1, <1>2, <1>3, <1>4, <1>5, <1>6

(* A new process takes its first step.                                     *)
LEMMA BornKeeps ==
  ASSUME Inv, NEW p \in Pids, Handling(p), kern[p] = "born",
         NEW w, w = Taken(p), NEW v, v = tracer_continue(w, p), Install(v)
  PROVE  Inv'
<1>0. Typed /\ Created /\ Calls
  BY DEF Inv
<1>1. /\ w \in WorldType
      /\ w.table = table /\ w.nprocs = nprocs /\ w.trace = trace_this_pid
      /\ w.kern = kern /\ w.events = events \ {p} /\ w.call = call /\ w.ret = ret
      /\ w.status = status /\ w.ustatus = ustatus /\ w.queued = queued
      /\ w.owed = owed /\ w.stopper = stopper /\ w.tostop = tostop
  BY <1>0, TakenHas
<1>2. /\ v \in WorldType /\ Rest(w, v) /\ v.table = w.table
      /\ v.kern = [w.kern EXCEPT ![p] = Resumed(w.kern[p])]
      /\ v.call = w.call /\ v.ret = w.ret /\ v.trace = w.trace
      /\ v.stopper = w.stopper
  BY SMT, <1>1, ContinueEffect
<1>3. /\ [w.call EXCEPT ![p] = w.call[p]] = w.call
      /\ [w.ret EXCEPT ![p] = w.ret[p]] = w.ret
  BY <1>1, PutSame
<1>4. [w.table EXCEPT ![p] = w.table[p]] = w.table
  <2>1. w.table \in [DOMAIN w.table -> ProcessType]
    BY <1>1, WorldHas, TableHas
  <2> QED  BY <2>1
<1>5. Turn(w, v, p, w.table[p], Resumed(w.kern[p]), w.call[p], w.ret[p], w.trace)
      /\ v.stopper = AnyPid
  BY <1>1, <1>2, <1>3, <1>4 DEF Turn, Handling
<1> DEFINE e == w.table[p]
           k == Resumed(w.kern[p])
           c == w.call[p]
           r == w.ret[p]
           t == w.trace
<1>6. /\ Turn(w, v, p, e, k, c, r, t) /\ e = table[p] /\ k = "user" /\ c = call[p]
      /\ r = ret[p] /\ t = trace_this_pid
  BY <1>1, <1>5 DEF Resumed
<1> HIDE DEF e, k, c, r, t
<1>7. /\ Typed' /\ Beside(p) /\ table'[p] = e /\ kern'[p] = k /\ call'[p] = c
      /\ ret'[p] = r /\ trace_this_pid' = t /\ events' = events \ {p}
      /\ setting' = setting
  BY SMT, <1>0, <1>2, <1>5, <1>6, TurnInstalled
<1>8. /\ Live(p) /\ p # stopper /\ table[p].state # "KERNEL" /\ table[p].state # "WAITPID"
      /\ ~(setting.faults = {} /\ trace_this_pid = p) /\ p \in DOMAIN table
  BY HandlingHas DEF Handling
<1>9. Moves(p)
  BY <1>6, <1>7, <1>8 DEF Moves, Exiting
<1>10. call[p].op \notin Waits
  BY <1>0 DEF Created
<1>11. /\ call[p].op \in setting.ops \cup {"exit", "exit_group"}
       /\ call[p].real = call[p].op \/ (call[p].op \in Waits /\ call[p].real = "getpid")
  BY <1>0 DEF Calls
<1>12. InOrder(p)
  BY <1>6, <1>7, <1>8, <1>10, <1>11 DEF InOrder
<1> QED  BY <1>7, <1>9, <1>12, TurnKeeps

(* A process stopped although it is DONE is left where it is.              *)
LEMMA DoneKeeps ==
  ASSUME Inv, NEW p \in Pids, Handling(p), kern[p] # "born", table[p].state = "DONE",
         NEW w, w = Taken(p), NEW v \in pfs_dispatch(w, p), Install(v)
  PROVE  Inv'
<1>0. Typed /\ Truth /\ Calls /\ Forking
  BY DEF Inv
<1>1. /\ w \in WorldType
      /\ w.table = table /\ w.nprocs = nprocs /\ w.trace = trace_this_pid
      /\ w.kern = kern /\ w.events = events \ {p} /\ w.call = call /\ w.ret = ret
      /\ w.status = status /\ w.ustatus = ustatus /\ w.queued = queued
      /\ w.owed = owed /\ w.stopper = stopper /\ w.tostop = tostop
  BY <1>0, TakenHas
<1>2. v = w
  BY <1>1, DispatchOther
<1>3. /\ table' = table /\ nprocs' = nprocs /\ trace_this_pid' = trace_this_pid
      /\ kern' = kern /\ events' = events \ {p} /\ call' = call /\ ret' = ret
      /\ status' = status /\ ustatus' = ustatus /\ queued' = queued
      /\ owed' = owed /\ stopper' = stopper /\ tostop' = tostop
  BY <1>1, <1>2 DEF Install
<1>4. Typed'
  BY <1>0, <1>1, <1>2, TypedHas, Installed DEF Handling, Typed
<1>5. Beside(p)
  BY <1>3 DEF Beside, Handling
<1>6. /\ Live(p) /\ p # stopper /\ ~(setting.faults = {} /\ trace_this_pid = p)
      /\ p \in DOMAIN table /\ kern[p] \in {"entry", "exit"}
  BY HandlingHas DEF Handling, Stopped
<1>7. ~(kern[p] \in {"incall", "exit"} /\ call[p].real \in Forks)
  BY <1>0 DEF Forking
<1>8. Moves(p)
  BY <1>3, <1>6, <1>7 DEF Moves, Exiting, Handling
<1>9. /\ call[p].op \in setting.ops \cup {"exit", "exit_group"}
      /\ call[p].real = call[p].op \/ (call[p].op \in Waits /\ call[p].real = "getpid")
  BY <1>0 DEF Calls
<1>10. InOrder(p)
  BY <1>3, <1>6, <1>7, <1>9 DEF InOrder
<1> QED  BY <1>4, <1>5, <1>8, <1>10, TurnKeeps

(* A call that is let go on.                                               *)
LEMMA EntryKeeps ==
  ASSUME Inv, NEW p \in Pids, Handling(p), table[p].state = "USER", kern[p] # "born",
         NEW w, w = Taken(p), NEW v \in WorldType, Install(v), v.stopper = AnyPid,
         NEW e, NEW t, Turn(w, v, p, e, Resumed(w.kern[p]), w.call[p], w.ret[p], t),
         e.state = "KERNEL", e.ppid = table[p].ppid, e.tgid = table[p].tgid,
         e.interruptible = table[p].interruptible \/ call[p].op = "sigaction",
         \/ call[p].op \in Forks /\ t = p
         \/ call[p].op \in {"exit", "sigaction"} /\ t = trace_this_pid
  PROVE  Inv'
<1>0. Typed /\ Calls
  BY DEF Inv
<1>1. w.kern = kern /\ w.call = call /\ w.ret = ret
  BY <1>0, TakenHas
<1> DEFINE k == Resumed(w.kern[p])
           c == w.call[p]
           r == w.ret[p]
<1>2. /\ Live(p) /\ p # stopper /\ kern[p] = "entry" /\ p \in DOMAIN table
      /\ ~(setting.faults = {} /\ trace_this_pid = p)
      /\ trace_this_pid \in {AnyPid, p} /\ stopper = AnyPid
  BY HandlingHas DEF Handling
<1>3. /\ Turn(w, v, p, e, k, c, r, t) /\ k = "incall" /\ c = call[p] /\ r = ret[p]
  BY <1>1, <1>2 DEF Resumed
<1> HIDE DEF k, c, r
<1>4. /\ Typed' /\ Beside(p) /\ table'[p] = e /\ kern'[p] = k /\ call'[p] = c
      /\ ret'[p] = r /\ trace_this_pid' = t /\ events' = events \ {p}
      /\ setting' = setting
  BY SMT, <1>0, <1>3, TurnInstalled
<1>5. /\ call[p].op \in setting.ops \cup {"exit", "exit_group"}
      /\ call[p].real = call[p].op /\ call[p].op \notin Waits
  BY <1>0 DEF Calls, Forks, Waits
<1>6. call[p].real # "exit_group"
  BY <1>5 DEF Forks
<1>7. "sigaction" \notin setting.ops => e.interruptible = table[p].interruptible
  BY <1>5
<1>8. Moves(p)
  BY <1>2, <1>3, <1>4, <1>6, <1>7 DEF Moves, Exiting
<1>9. call[p].real \in Forks => t = p
  BY <1>5 DEF Forks
<1>10. setting.faults = {} /\ t = p => call[p].real \in Forks
  BY <1>2, <1>5
<1>11. InOrder(p)
  BY <1>3, <1>4, <1>5, <1>9, <1>10 DEF InOrder
<1> QED  BY <1>4, <1>8, <1>11, TurnKeeps

(* exit_group begins.                                                      *)
LEMMA ExitGroupBeginKeeps ==
  ASSUME Inv, NEW p \in Pids, Handling(p), table[p].state = "USER", kern[p] # "born",
         call[p].op = "exit_group",
         NEW w, w = Taken(p), NEW v \in pfs_dispatch(w, p), Install(v)
  PROVE  Inv'
<1>0. Typed
  BY DEF Inv
<1>1. /\ w \in WorldType
      /\ w.table = table /\ w.nprocs = nprocs /\ w.trace = trace_this_pid
      /\ w.kern = kern /\ w.events = events \ {p} /\ w.call = call /\ w.ret = ret
      /\ w.status = status /\ w.ustatus = ustatus /\ w.queued = queued
      /\ w.owed = owed /\ w.stopper = stopper /\ w.tostop = tostop
  BY <1>0, TakenHas
<1>2. /\ Live(p) /\ p # stopper /\ kern[p] = "entry" /\ p \in DOMAIN table
      /\ trace_this_pid \in {AnyPid, p} /\ stopper = AnyPid /\ table[p] \in ProcessType
      /\ table \in [DOMAIN table -> ProcessType]
  BY <1>0, TypedHas, TableHas, HandlingHas DEF Handling
<1>3. AtEntry(w, p)
  BY <1>1, <1>2 DEF AtEntry
<1>4. /\ v \in WorldType /\ v.stopper = p
      /\ v.tostop = {q \in DOMAIN w.table \ {p} : w.table[q].tgid = w.table[p].tgid}
      /\ v.table = [w.table EXCEPT ![p] = InKernel(w.table[p])]
      /\ v.kern = w.kern /\ v.call = w.call /\ v.ret = w.ret /\ v.trace = w.trace
      /\ v.nprocs = w.nprocs /\ v.events = w.events /\ v.status = w.status
      /\ v.ustatus = w.ustatus /\ v.queued = w.queued /\ v.owed = w.owed
  BY SMT, <1>1, <1>3, ConstantsAssumption, DispatchExitGroup
<1> DEFINE d == InKernel(table[p])
<1>5. /\ d \in ProcessType /\ d.state = "KERNEL"
      /\ d.ppid = table[p].ppid /\ d.tgid = table[p].tgid
      /\ d.interruptible = table[p].interruptible
  BY <1>2, InKernelType
<1>6. v.table = [table EXCEPT ![p] = d]
  BY <1>1, <1>4
<1> HIDE DEF d
<1>7. /\ DOMAIN v.table = DOMAIN table /\ v.table[p] = d
      /\ \A q \in DOMAIN table \ {p} : v.table[q] = table[q]
  BY <1>2, <1>6
<1>8. Typed'
  BY <1>0, <1>4, <1>7, TypedHas, Installed DEF Handling, Typed
<1>9. /\ stopper' = p /\ events' = events \ {p}
      /\ tostop' = {q \in DOMAIN table \ {p} : table[q].tgid = table[p].tgid}
      /\ kern' = kern /\ call' = call /\ ret' = ret /\ trace_this_pid' = trace_this_pid
      /\ nprocs' = nprocs /\ status' = status /\ ustatus' = ustatus /\ queued' = queued
      /\ owed' = owed
  BY <1>1, <1>4 DEF Install
<1>10. /\ DOMAIN table' = DOMAIN table /\ table'[p] = d
       /\ \A q \in DOMAIN table \ {p} : table'[q] = table[q]
  BY <1>7 DEF Install
<1>11. Leaves(p)
  BY <1>2, <1>5, <1>9, <1>10 DEF Leaves, Handling
<1> QED  BY <1>8, <1>11, LeaveKeeps

(* A call other than a successful fork has returned.                       *)
LEMMA ReturnedKeeps ==
  ASSUME Inv, NEW p \in Pids, Handling(p), table[p].state = "KERNEL", kern[p] # "born",
         call[p].op \notin Forks \/ ret[p] \notin Pids,
         NEW w, w = Taken(p), NEW v \in pfs_dispatch(w, p), Install(v)
  PROVE  Inv'
<1>0. Typed /\ Calls /\ Truth /\ Forking
  BY DEF Inv
<1>1. /\ w \in WorldType /\ w.table = table /\ w.trace = trace_this_pid
      /\ w.kern = kern /\ w.call = call /\ w.ret = ret /\ w.stopper = stopper
  BY <1>0, TakenHas
<1>2. /\ Live(p) /\ p # stopper /\ kern[p] = "exit" /\ p \in DOMAIN table
      /\ setting.faults = {} /\ trace_this_pid = p => call[p].real \in Forks
      /\ trace_this_pid \in {AnyPid, p} /\ stopper = AnyPid /\ table[p] \in ProcessType
  BY HandlingHas DEF Handling
<1> DEFINE e == Released(w.table[p])
           k == Resumed(w.kern[p])
           c == w.call[p]
           r == Answer(w, p)
           t == w.trace
<1>3. /\ v \in WorldType /\ v.stopper = AnyPid /\ Turn(w, v, p, e, k, c, r, t)
  BY <1>1, <1>2, DispatchReturn
<1>4. /\ e.state = "USER"
      /\ e.ppid = table[p].ppid /\ e.tgid = table[p].tgid
      /\ e.interruptible = table[p].interruptible
  BY SMT, <1>1, <1>2, ReleasedType
<1>5. k = "user" /\ c = call[p] /\ t = trace_this_pid
  BY <1>1, <1>2 DEF Resumed
<1>6. table[p].syscall_dummy => r = table[p].syscall_result
  BY <1>1 DEF Answer
<1> HIDE DEF e, k, c, r, t
<1>7. /\ Typed' /\ Beside(p) /\ table'[p] = e /\ kern'[p] = k /\ call'[p] = c
      /\ ret'[p] = r /\ trace_this_pid' = t /\ events' = events \ {p}
      /\ setting' = setting
  BY <1>0, <1>3, TurnInstalled
<1>8. /\ call[p].op \in setting.ops \cup {"exit", "exit_group"}
      /\ call[p].real = call[p].op \/ (call[p].op \in Waits /\ call[p].real = "getpid")
  BY <1>0 DEF Calls
<1>9. call[p].real \in Forks => ret[p] \notin Pids
  BY <1>8 DEF Forks
<1>10. ~(setting.faults = {} /\ trace_this_pid = p)
  <2>1. SUFFICES ASSUME setting.faults = {}, trace_this_pid = p  PROVE FALSE
    OBVIOUS
  <2>2. "clone_fails" \in setting.faults
    BY <1>0, <1>2, <1>9, <2>1 DEF Forking
  <2> QED  BY <2>1, <2>2
<1>11. call[p].op \in Waits => Reaped(p, r)
  BY <1>0, <1>2, <1>6 DEF Truth
<1>12. Moves(p)
  BY <1>2, <1>4, <1>5, <1>7, <1>9 DEF Moves, Exiting
<1>13. InOrder(p)
  BY <1>4, <1>5, <1>7, <1>8, <1>10, <1>11 DEF InOrder
<1> QED  BY <1>7, <1>12, <1>13, TurnKeeps
============================================================================
