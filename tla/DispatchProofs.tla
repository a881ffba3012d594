--------------------------- MODULE DispatchProofs ---------------------------
(***************************************************************************)
(* The reads and writes of Dispatch are sound for any number of processes, *)
(* pages and bytes.                                                        *)
(***************************************************************************)
EXTENDS Dispatch, FiniteSetTheorems, WellFoundedInduction, TLAPS

USE Zenon

---------------------------------------------------------------------------
(* Worlds, and what the parts of the handlers do to them.                  *)

Lengths == 0 .. MaxBytes
Remainders == [read : -1 .. MaxBytes, write : -1 .. MaxBytes]
ProcType ==
  [state : {"USER", "KERNEL", "WAITREAD", "WAITWRITE"},
   io_channel_offset : Pages, diverted_length : Lengths, length : Lengths,
   remainder : Remainders, syscall_dummy : BOOLEAN, syscall_result : Results,
   interrupted : BOOLEAN]
ProcsType == [Procs -> ProcType]
PollsType == [Procs -> [{"r", "w"} -> Nat]]
PlacesType == [Procs -> {"user", "entry", "incall", "exit"}]
RealType == [Procs -> {"getpid", "channel"}]
RetType == [Procs -> Results]
MovedType == [Procs -> Lengths]
PromiseType == [Procs -> Results \cup {None}]
WorldType ==
  [proc : ProcsType, inuse : SUBSET Pages, polls : PollsType, avail : Lengths,
   room : Lengths, at : PlacesType, real : RealType, ret : RetType, moved : MovedType,
   promise : PromiseType]

(* Only what concerns p differs.                                           *)
Only(w, v, p) ==
  \A q \in Procs \ {p} :
    /\ v.proc[q] = w.proc[q] /\ v.polls[q] = w.polls[q] /\ v.at[q] = w.at[q]
    /\ v.real[q] = w.real[q] /\ v.ret[q] = w.ret[q] /\ v.moved[q] = w.moved[q]
    /\ v.promise[q] = w.promise[q]

LEMMA OnlyChain ==
  ASSUME NEW u, NEW w, NEW v, NEW p, Only(u, w, p), Only(w, v, p)
  PROVE  Only(u, v, p)
  BY SMT DEF Only

LEMMA OnlySame == ASSUME NEW w, NEW p PROVE Only(w, w, p)
  BY DEF Only

(* The fields of a world and of a process have their types.                *)
LEMMA WorldHas ==
  ASSUME NEW w \in WorldType, NEW p \in Procs
  PROVE  /\ w.proc \in ProcsType /\ w.inuse \subseteq Pages /\ w.polls \in PollsType
         /\ w.avail \in Lengths /\ w.room \in Lengths /\ w.at \in PlacesType
         /\ w.real \in RealType /\ w.ret \in RetType /\ w.moved \in MovedType
         /\ w.promise \in PromiseType
         /\ w.proc[p] \in ProcType /\ w.polls[p] \in [{"r", "w"} -> Nat]
         /\ w.at[p] \in {"user", "entry", "incall", "exit"}
         /\ w.real[p] \in {"getpid", "channel"} /\ w.ret[p] \in Results
         /\ w.moved[p] \in Lengths /\ w.promise[p] \in Results \cup {None}
<1>1. /\ w.proc \in ProcsType /\ w.inuse \subseteq Pages /\ w.polls \in PollsType
      /\ w.avail \in Lengths /\ w.room \in Lengths /\ w.at \in PlacesType
      /\ w.real \in RealType /\ w.ret \in RetType /\ w.moved \in MovedType
      /\ w.promise \in PromiseType
  BY DEF WorldType
<1> QED
  BY <1>1 DEF ProcsType, PollsType, PlacesType, RealType, RetType, MovedType, PromiseType

(* A new record for p.                                                     *)
ReplaceProc(w, p, pr) == [w EXCEPT !.proc = [w.proc EXCEPT ![p] = pr]]

ProcSet(w, v, p, pr) ==
  /\ v.proc[p] = pr
  /\ v.polls = w.polls /\ v.at = w.at /\ v.real = w.real /\ v.ret = w.ret
  /\ v.moved = w.moved /\ v.promise = w.promise
  /\ v.inuse = w.inuse /\ v.avail = w.avail /\ v.room = w.room

LEMMA SetProc ==
  ASSUME NEW w \in WorldType, NEW p \in Procs, NEW pr \in ProcType, NEW v,
         v = ReplaceProc(w, p, pr)
  PROVE  v \in WorldType /\ Only(w, v, p) /\ ProcSet(w, v, p, pr)
<1>1. w.proc \in ProcsType
  BY WorldHas
<1>2. [w.proc EXCEPT ![p] = pr] \in ProcsType
  BY <1>1 DEF ProcsType
<1>3. v \in WorldType
  BY <1>2 DEF WorldType, ReplaceProc
<1>4. /\ v.proc = [w.proc EXCEPT ![p] = pr]
      /\ v.polls = w.polls /\ v.at = w.at /\ v.real = w.real /\ v.ret = w.ret
      /\ v.moved = w.moved /\ v.promise = w.promise
      /\ v.inuse = w.inuse /\ v.avail = w.avail /\ v.room = w.room
  BY DEF WorldType, ReplaceProc
<1>5. v.proc[p] = pr /\ \A q \in Procs \ {p} : v.proc[q] = w.proc[q]
  BY <1>1, <1>4 DEF ProcsType
<1> QED
  BY <1>3, <1>4, <1>5 DEF Only, ProcSet

Dummies(w, v, p, r) ==
  /\ v.proc[p] = [w.proc[p] EXCEPT !.syscall_dummy = TRUE, !.syscall_result = r]
  /\ v.real[p] = "getpid"
  /\ v.polls = w.polls /\ v.at = w.at /\ v.promise = w.promise /\ v.ret = w.ret
  /\ v.moved = w.moved /\ v.inuse = w.inuse /\ v.avail = w.avail /\ v.room = w.room

LEMMA DummyEffect ==
  ASSUME NEW w \in WorldType, NEW p \in Procs, NEW r \in Results, NEW v,
         v = divert_to_dummy(w, p, r)
  PROVE  v \in WorldType /\ Only(w, v, p) /\ Dummies(w, v, p, r)
<1> DEFINE pr == [w.proc[p] EXCEPT !.syscall_dummy = TRUE, !.syscall_result = r]
           a == [w.proc EXCEPT ![p] = pr]
           b == [w.real EXCEPT ![p] = "getpid"]
<1>1. w.proc \in ProcsType /\ w.real \in RealType /\ w.proc[p] \in ProcType
  BY WorldHas
<1>2. pr \in ProcType
  BY <1>1 DEF ProcType
<1>3. a \in ProcsType /\ b \in RealType
  BY <1>1, <1>2 DEF ProcsType, RealType
<1>4. v = [w EXCEPT !.proc = a, !.real = b]
  BY DEF divert_to_dummy
<1>5. v \in WorldType
  BY <1>3, <1>4 DEF WorldType
<1>6. /\ v.proc = a /\ v.real = b
      /\ v.polls = w.polls /\ v.at = w.at /\ v.promise = w.promise /\ v.ret = w.ret
      /\ v.moved = w.moved /\ v.inuse = w.inuse /\ v.avail = w.avail /\ v.room = w.room
  BY <1>4 DEF WorldType
<1>7. /\ a[p] = pr /\ \A q \in Procs \ {p} : a[q] = w.proc[q]
      /\ b[p] = "getpid" /\ \A q \in Procs \ {p} : b[q] = w.real[q]
  BY <1>1 DEF ProcsType, RealType
<1> QED
  BY SMT, <1>5, <1>6, <1>7 DEF Only, Dummies

LEMMA ZeroLength == 0 \in Lengths /\ MaxBytes \in Nat
  BY SMT, ConstantsAssumption DEF Lengths

Refused(w, v, p, r) ==
  /\ v.proc[p] = [w.proc[p] EXCEPT !.syscall_dummy = TRUE, !.syscall_result = r]
  /\ v.real[p] = "getpid"
  /\ v.promise[p] = r
  /\ v.polls = w.polls /\ v.at = w.at /\ v.ret = w.ret /\ v.moved = w.moved
  /\ v.inuse = w.inuse /\ v.avail = w.avail /\ v.room = w.room

LEMMA RefuseEffect ==
  ASSUME NEW w \in WorldType, NEW p \in Procs, NEW r \in Results, NEW v,
         v = Refuse(w, p, r)
  PROVE  v \in WorldType /\ Only(w, v, p) /\ Refused(w, v, p, r)
<1> DEFINE pr == [w.proc[p] EXCEPT !.syscall_dummy = TRUE, !.syscall_result = r]
           a == [w.proc EXCEPT ![p] = pr]
           d == [w.real EXCEPT ![p] = "getpid"]
           g == [w.promise EXCEPT ![p] = r]
<1>1. w.proc \in ProcsType /\ w.real \in RealType /\ w.promise \in PromiseType /\ w.proc[p] \in ProcType
  BY WorldHas
<1>2. pr \in ProcType
  BY <1>1 DEF ProcType
<1>3. a \in ProcsType /\ d \in RealType /\ g \in PromiseType
  BY <1>1, <1>2 DEF ProcsType, RealType, PromiseType
<1>4. v = [w EXCEPT !.proc = a, !.real = d, !.promise = g]
  <2>1. divert_to_dummy(w, p, r) = [w EXCEPT !.proc = a, !.real = d]
    BY DEF divert_to_dummy
  <2>2. v = [[w EXCEPT !.proc = a, !.real = d] EXCEPT !.promise[p] = r]
    BY <2>1 DEF Refuse
  <2>3. [w EXCEPT !.proc = a, !.real = d].promise = w.promise
    BY DEF WorldType
  <2> QED
    BY <2>2, <2>3 DEF WorldType
<1>5. v \in WorldType
  BY <1>3, <1>4 DEF WorldType
<1>6. /\ v.proc = a /\ v.real = d /\ v.promise = g
      /\ v.polls = w.polls /\ v.at = w.at /\ v.ret = w.ret /\ v.moved = w.moved
      /\ v.inuse = w.inuse /\ v.avail = w.avail /\ v.room = w.room
  BY <1>4 DEF WorldType
<1>7. /\ a[p] = pr /\ \A q \in Procs \ {p} : a[q] = w.proc[q]
      /\ d[p] = "getpid" /\ \A q \in Procs \ {p} : d[q] = w.real[q]
      /\ g[p] = r /\ \A q \in Procs \ {p} : g[q] = w.promise[q]
  BY <1>1 DEF ProcsType, RealType, PromiseType
<1> QED
  BY SMT, <1>5, <1>6, <1>7 DEF Only, Refused

ToChannel(w, v, p, n) ==
  /\ v.proc[p] = [w.proc[p] EXCEPT !.diverted_length = n]
  /\ v.real[p] = "channel"
  /\ v.polls = w.polls /\ v.at = w.at /\ v.ret = w.ret /\ v.moved = w.moved
  /\ v.promise = w.promise /\ v.inuse = w.inuse /\ v.avail = w.avail
  /\ v.room = w.room

LEMMA ChannelEffect ==
  ASSUME NEW w \in WorldType, NEW p \in Procs, NEW n \in Lengths, NEW v,
         v = divert_to_channel(w, p, n)
  PROVE  v \in WorldType /\ Only(w, v, p) /\ ToChannel(w, v, p, n)
<1> DEFINE pr == [w.proc[p] EXCEPT !.diverted_length = n]
           a == [w.proc EXCEPT ![p] = pr]
           d == [w.real EXCEPT ![p] = "channel"]
<1>1. w.proc \in ProcsType /\ w.real \in RealType /\ w.proc[p] \in ProcType
  BY WorldHas
<1>2. pr \in ProcType
  BY <1>1 DEF ProcType
<1>3. a \in ProcsType /\ d \in RealType
  BY <1>1, <1>2 DEF ProcsType, RealType
<1>4. v = [w EXCEPT !.proc = a, !.real = d]
  BY <1>1 DEF WorldType, divert_to_channel
<1>5. v \in WorldType
  BY <1>3, <1>4 DEF WorldType
<1>6. /\ v.proc = a /\ v.real = d
      /\ v.polls = w.polls /\ v.at = w.at /\ v.ret = w.ret /\ v.moved = w.moved
      /\ v.promise = w.promise /\ v.inuse = w.inuse /\ v.avail = w.avail
      /\ v.room = w.room
  BY <1>4 DEF WorldType
<1>7. /\ a[p] = pr /\ \A q \in Procs \ {p} : a[q] = w.proc[q]
      /\ d[p] = "channel" /\ \A q \in Procs \ {p} : d[q] = w.real[q]
  BY <1>1 DEF ProcsType, RealType
<1> QED
  BY SMT, <1>5, <1>6, <1>7 DEF Only, ToChannel

Polled(w, v, p, flag) ==
  /\ v.polls[p] = [w.polls[p] EXCEPT ![flag] = w.polls[p][flag] + 1]
  /\ v.proc = w.proc /\ v.at = w.at /\ v.real = w.real /\ v.ret = w.ret
  /\ v.moved = w.moved /\ v.promise = w.promise /\ v.inuse = w.inuse
  /\ v.avail = w.avail /\ v.room = w.room

LEMMA WakeonEffect ==
  ASSUME NEW w \in WorldType, NEW p \in Procs, NEW flag \in {"r", "w"}, NEW v,
         v = pfs_poll_wakeon(w, p, flag)
  PROVE  v \in WorldType /\ Only(w, v, p) /\ Polled(w, v, p, flag)
<1> DEFINE b == [w.polls EXCEPT ![p] = [w.polls[p] EXCEPT ![flag] = w.polls[p][flag] + 1]]
<1>1. w.polls \in PollsType
  BY WorldHas
<1>3. b \in PollsType
  BY SMT, <1>1 DEF PollsType
<1>4. v = [w EXCEPT !.polls = b]
  BY <1>1 DEF WorldType, pfs_poll_wakeon, PollsType
<1>5. v \in WorldType
  BY <1>3, <1>4 DEF WorldType
<1>6. /\ v.polls = b
      /\ v.proc = w.proc /\ v.at = w.at /\ v.real = w.real /\ v.ret = w.ret
      /\ v.moved = w.moved /\ v.promise = w.promise /\ v.inuse = w.inuse
      /\ v.avail = w.avail /\ v.room = w.room
  BY <1>4 DEF WorldType
<1>7. /\ b[p] = [w.polls[p] EXCEPT ![flag] = w.polls[p][flag] + 1] /\ \A q \in Procs \ {p} : b[q] = w.polls[q]
  BY <1>1 DEF PollsType
<1> QED
  BY <1>5, <1>6, <1>7 DEF Only, Polled

Cleared(w, v, p) ==
  /\ v.polls[p] = [flag \in {"r", "w"} |-> 0]
  /\ v.proc = w.proc /\ v.at = w.at /\ v.real = w.real /\ v.ret = w.ret
  /\ v.moved = w.moved /\ v.promise = w.promise /\ v.inuse = w.inuse
  /\ v.avail = w.avail /\ v.room = w.room

LEMMA ClearEffect ==
  ASSUME NEW w \in WorldType, NEW p \in Procs, NEW v,
         v = pfs_poll_clear(w, p)
  PROVE  v \in WorldType /\ Only(w, v, p) /\ Cleared(w, v, p)
<1> DEFINE b == [w.polls EXCEPT ![p] = [flag \in {"r", "w"} |-> 0]]
<1>1. w.polls \in PollsType
  BY WorldHas
<1>3. b \in PollsType
  BY <1>1 DEF PollsType
<1>4. v = [w EXCEPT !.polls = b]
  BY <1>1 DEF WorldType, pfs_poll_clear, PollsType
<1>5. v \in WorldType
  BY <1>3, <1>4 DEF WorldType
<1>6. /\ v.polls = b
      /\ v.proc = w.proc /\ v.at = w.at /\ v.real = w.real /\ v.ret = w.ret
      /\ v.moved = w.moved /\ v.promise = w.promise /\ v.inuse = w.inuse
      /\ v.avail = w.avail /\ v.room = w.room
  BY <1>4 DEF WorldType
<1>7. /\ b[p] = [flag \in {"r", "w"} |-> 0] /\ \A q \in Procs \ {p} : b[q] = w.polls[q]
  BY <1>1 DEF PollsType
<1> QED
  BY <1>5, <1>6, <1>7 DEF Only, Cleared

Freed(w, v, p, page) ==
  /\ v.inuse = w.inuse \ {page}
  /\ v.proc = w.proc /\ v.polls = w.polls /\ v.at = w.at /\ v.real = w.real
  /\ v.ret = w.ret /\ v.moved = w.moved /\ v.promise = w.promise
  /\ v.avail = w.avail /\ v.room = w.room

LEMMA FreeEffect ==
  ASSUME NEW w \in WorldType, NEW p \in Procs, NEW page, NEW v,
         v = pfs_channel_free(w, page)
  PROVE  v \in WorldType /\ Only(w, v, p) /\ Freed(w, v, p, page)
<1> DEFINE h == w.inuse \ {page}
<1>1. TRUE
  OBVIOUS
<1>3. h \in SUBSET Pages
  BY <1>1, WorldHas
<1>4. v = [w EXCEPT !.inuse = h]
  BY <1>1 DEF WorldType, pfs_channel_free
<1>5. v \in WorldType
  BY <1>3, <1>4 DEF WorldType
<1>6. /\ v.inuse = h
      /\ v.proc = w.proc /\ v.polls = w.polls /\ v.at = w.at /\ v.real = w.real
      /\ v.ret = w.ret /\ v.moved = w.moved /\ v.promise = w.promise
      /\ v.avail = w.avail /\ v.room = w.room
  BY <1>4 DEF WorldType
<1> QED
  BY <1>5, <1>6 DEF Only, Freed

(* The updates that the handlers write out.                                *)
Asks(w, p, op, k, r) ==
  [w EXCEPT !.proc[p] = [w.proc[p] EXCEPT !.length = k, !.remainder[op] = r]]
Enters(w, p) ==
  [w EXCEPT !.proc[p] = [w.proc[p] EXCEPT !.state = "KERNEL", !.syscall_dummy = FALSE],
            !.promise[p] = None]
TakesPage(w, p, page) ==
  [w EXCEPT !.inuse = w.inuse \cup {page}, !.proc[p].io_channel_offset = page]
TakesReadPage(w, p, page) ==
  [w EXCEPT !.inuse = w.inuse \cup {page}, !.proc[p].io_channel_offset = page,
            !.proc[p].diverted_length = 0]
Got(w, p, n) == [w EXCEPT !.avail = w.avail - n, !.moved[p] = n]
Gave(w, p, n) ==
  [w EXCEPT !.proc[p].state = "KERNEL", !.room = w.room - n, !.moved[p] = w.moved[p] + n]
Returns(w, p, n) == [w EXCEPT !.proc[p].syscall_result = n, !.ret[p] = n]

SameButLength(old, new, k) ==
  /\ new.length = k
  /\ new.state = old.state /\ new.io_channel_offset = old.io_channel_offset
  /\ new.diverted_length = old.diverted_length
  /\ new.syscall_dummy = old.syscall_dummy /\ new.syscall_result = old.syscall_result
  /\ new.interrupted = old.interrupted

Asked(w, v, p, k) ==
  /\ SameButLength(w.proc[p], v.proc[p], k)
  /\ v.polls = w.polls /\ v.at = w.at /\ v.real = w.real /\ v.ret = w.ret
  /\ v.moved = w.moved /\ v.promise = w.promise /\ v.inuse = w.inuse
  /\ v.avail = w.avail /\ v.room = w.room

LEMMA AsksEffect ==
  ASSUME NEW w \in WorldType, NEW p \in Procs, NEW k \in Lengths, NEW r \in -1 .. MaxBytes,
         NEW op \in {"read", "write"}, NEW v,
         v = Asks(w, p, op, k, r)
  PROVE  v \in WorldType /\ Only(w, v, p) /\ Asked(w, v, p, k)
<1> DEFINE pr == [w.proc[p] EXCEPT !.length = k, !.remainder = [w.proc[p].remainder EXCEPT ![op] = r]]
           a == [w.proc EXCEPT ![p] = pr]
<1>1. w.proc \in ProcsType /\ w.proc[p] \in ProcType
  BY WorldHas
<1>2. pr \in ProcType
  BY <1>1 DEF ProcType, Remainders
<1>3. a \in ProcsType
  BY <1>1, <1>2 DEF ProcsType
<1>4. v = [w EXCEPT !.proc = a]
  BY <1>1 DEF WorldType, Asks
<1>5. v \in WorldType
  BY <1>3, <1>4 DEF WorldType
<1>6. /\ v.proc = a
      /\ v.polls = w.polls /\ v.at = w.at /\ v.real = w.real /\ v.ret = w.ret
      /\ v.moved = w.moved /\ v.promise = w.promise /\ v.inuse = w.inuse
      /\ v.avail = w.avail /\ v.room = w.room
  BY <1>4 DEF WorldType
<1>7. /\ a[p] = pr /\ \A q \in Procs \ {p} : a[q] = w.proc[q]
  BY <1>1 DEF ProcsType
<1>8. SameButLength(w.proc[p], pr, k)
  BY <1>1 DEF ProcType, SameButLength
<1> QED
  BY <1>5, <1>6, <1>7, <1>8 DEF Only, Asked

InCall(w, v, p) ==
  /\ v.proc[p] = [w.proc[p] EXCEPT !.state = "KERNEL", !.syscall_dummy = FALSE]
  /\ v.promise[p] = None
  /\ v.polls = w.polls /\ v.at = w.at /\ v.real = w.real /\ v.ret = w.ret
  /\ v.moved = w.moved /\ v.inuse = w.inuse /\ v.avail = w.avail
  /\ v.room = w.room

LEMMA EnterEffect ==
  ASSUME NEW w \in WorldType, NEW p \in Procs, NEW v,
         v = Enters(w, p)
  PROVE  v \in WorldType /\ Only(w, v, p) /\ InCall(w, v, p)
<1> DEFINE pr == [w.proc[p] EXCEPT !.state = "KERNEL", !.syscall_dummy = FALSE]
           a == [w.proc EXCEPT ![p] = pr]
           g == [w.promise EXCEPT ![p] = None]
<1>1. w.proc \in ProcsType /\ w.promise \in PromiseType /\ w.proc[p] \in ProcType
  BY WorldHas
<1>2. pr \in ProcType
  BY <1>1 DEF ProcType
<1>3. a \in ProcsType /\ g \in PromiseType
  BY <1>1, <1>2 DEF ProcsType, PromiseType
<1>4. v = [w EXCEPT !.proc = a, !.promise = g]
  BY DEF Enters
<1>5. v \in WorldType
  BY <1>3, <1>4 DEF WorldType
<1>6. /\ v.proc = a /\ v.promise = g
      /\ v.polls = w.polls /\ v.at = w.at /\ v.real = w.real /\ v.ret = w.ret
      /\ v.moved = w.moved /\ v.inuse = w.inuse /\ v.avail = w.avail /\ v.room = w.room
  BY <1>4 DEF WorldType
<1>7. /\ a[p] = pr /\ \A q \in Procs \ {p} : a[q] = w.proc[q]
      /\ g[p] = None /\ \A q \in Procs \ {p} : g[q] = w.promise[q]
  BY <1>1 DEF ProcsType, PromiseType
<1> QED
  BY SMT, <1>5, <1>6, <1>7 DEF Only, InCall

PageTaken(w, v, p, page) ==
  /\ v.proc[p] = [w.proc[p] EXCEPT !.io_channel_offset = page]
  /\ v.inuse = w.inuse \cup {page}
  /\ v.polls = w.polls /\ v.at = w.at /\ v.real = w.real /\ v.ret = w.ret
  /\ v.moved = w.moved /\ v.promise = w.promise /\ v.avail = w.avail
  /\ v.room = w.room

LEMMA PageEffect ==
  ASSUME NEW w \in WorldType, NEW p \in Procs, NEW page \in Pages, NEW v,
         v = TakesPage(w, p, page)
  PROVE  v \in WorldType /\ Only(w, v, p) /\ PageTaken(w, v, p, page)
<1> DEFINE pr == [w.proc[p] EXCEPT !.io_channel_offset = page]
           a == [w.proc EXCEPT ![p] = pr]
           h == w.inuse \cup {page}
<1>1. w.proc \in ProcsType /\ w.proc[p] \in ProcType
  BY WorldHas
<1>2. pr \in ProcType
  BY <1>1 DEF ProcType
<1>3. a \in ProcsType /\ h \in SUBSET Pages
  BY <1>1, <1>2, WorldHas DEF ProcsType
<1>4. v = [w EXCEPT !.proc = a, !.inuse = h]
  BY <1>1 DEF WorldType, TakesPage
<1>5. v \in WorldType
  BY <1>3, <1>4 DEF WorldType
<1>6. /\ v.proc = a /\ v.inuse = h
      /\ v.polls = w.polls /\ v.at = w.at /\ v.real = w.real /\ v.ret = w.ret
      /\ v.moved = w.moved /\ v.promise = w.promise /\ v.avail = w.avail
      /\ v.room = w.room
  BY <1>4 DEF WorldType
<1>7. /\ a[p] = pr /\ \A q \in Procs \ {p} : a[q] = w.proc[q]
  BY <1>1 DEF ProcsType
<1> QED
  BY <1>5, <1>6, <1>7 DEF Only, PageTaken

ReadPageTaken(w, v, p, page) ==
  /\ v.proc[p] = [w.proc[p] EXCEPT !.io_channel_offset = page, !.diverted_length = 0]
  /\ v.inuse = w.inuse \cup {page}
  /\ v.polls = w.polls /\ v.at = w.at /\ v.real = w.real /\ v.ret = w.ret
  /\ v.moved = w.moved /\ v.promise = w.promise /\ v.avail = w.avail
  /\ v.room = w.room

LEMMA ReadPageEffect ==
  ASSUME NEW w \in WorldType, NEW p \in Procs, NEW page \in Pages, NEW v,
         v = TakesReadPage(w, p, page)
  PROVE  v \in WorldType /\ Only(w, v, p) /\ ReadPageTaken(w, v, p, page)
<1> DEFINE pr == [w.proc[p] EXCEPT !.io_channel_offset = page, !.diverted_length = 0]
           a == [w.proc EXCEPT ![p] = pr]
           h == w.inuse \cup {page}
<1>1. w.proc \in ProcsType /\ w.proc[p] \in ProcType
  BY WorldHas
<1>2. pr \in ProcType
  BY <1>1, ZeroLength DEF ProcType
<1>3. a \in ProcsType /\ h \in SUBSET Pages
  BY <1>1, <1>2, WorldHas DEF ProcsType
<1>4. v = [w EXCEPT !.proc = a, !.inuse = h]
  BY <1>1 DEF WorldType, TakesReadPage
<1>5. v \in WorldType
  BY <1>3, <1>4 DEF WorldType
<1>6. /\ v.proc = a /\ v.inuse = h
      /\ v.polls = w.polls /\ v.at = w.at /\ v.real = w.real /\ v.ret = w.ret
      /\ v.moved = w.moved /\ v.promise = w.promise /\ v.avail = w.avail
      /\ v.room = w.room
  BY <1>4 DEF WorldType
<1>7. /\ a[p] = pr /\ \A q \in Procs \ {p} : a[q] = w.proc[q]
  BY <1>1 DEF ProcsType
<1> QED
  BY <1>5, <1>6, <1>7 DEF Only, ReadPageTaken

HasGot(w, v, p, n) ==
  /\ v.moved[p] = n
  /\ v.avail = w.avail - n
  /\ v.proc = w.proc /\ v.polls = w.polls /\ v.at = w.at /\ v.real = w.real
  /\ v.ret = w.ret /\ v.promise = w.promise /\ v.inuse = w.inuse
  /\ v.room = w.room

LEMMA GotEffect ==
  ASSUME NEW w \in WorldType, NEW p \in Procs, NEW n \in 1 .. w.avail, NEW v,
         v = Got(w, p, n)
  PROVE  v \in WorldType /\ Only(w, v, p) /\ HasGot(w, v, p, n)
<1> DEFINE f == [w.moved EXCEPT ![p] = n]
           i == w.avail - n
<1>1. w.moved \in MovedType
  BY WorldHas
<1>3. f \in MovedType /\ i \in Lengths
  BY SMT, <1>1, WorldHas, ConstantsAssumption DEF MovedType, Lengths
<1>4. v = [w EXCEPT !.moved = f, !.avail = i]
  BY <1>1 DEF WorldType, Got
<1>5. v \in WorldType
  BY <1>3, <1>4 DEF WorldType
<1>6. /\ v.moved = f /\ v.avail = i
      /\ v.proc = w.proc /\ v.polls = w.polls /\ v.at = w.at /\ v.real = w.real
      /\ v.ret = w.ret /\ v.promise = w.promise /\ v.inuse = w.inuse /\ v.room = w.room
  BY <1>4 DEF WorldType
<1>7. /\ f[p] = n /\ \A q \in Procs \ {p} : f[q] = w.moved[q]
  BY <1>1 DEF MovedType
<1> QED
  BY <1>5, <1>6, <1>7 DEF Only, HasGot

Returned(w, v, p, n) ==
  /\ v.proc[p] = [w.proc[p] EXCEPT !.syscall_result = n]
  /\ v.ret[p] = n
  /\ v.polls = w.polls /\ v.at = w.at /\ v.real = w.real /\ v.moved = w.moved
  /\ v.promise = w.promise /\ v.inuse = w.inuse /\ v.avail = w.avail
  /\ v.room = w.room

LEMMA ResultEffect ==
  ASSUME NEW w \in WorldType, NEW p \in Procs, NEW n \in Results, NEW v,
         v = Returns(w, p, n)
  PROVE  v \in WorldType /\ Only(w, v, p) /\ Returned(w, v, p, n)
<1> DEFINE pr == [w.proc[p] EXCEPT !.syscall_result = n]
           a == [w.proc EXCEPT ![p] = pr]
           e == [w.ret EXCEPT ![p] = n]
<1>1. w.proc \in ProcsType /\ w.ret \in RetType /\ w.proc[p] \in ProcType
  BY WorldHas
<1>2. pr \in ProcType
  BY <1>1 DEF ProcType
<1>3. a \in ProcsType /\ e \in RetType
  BY <1>1, <1>2 DEF ProcsType, RetType
<1>4. v = [w EXCEPT !.proc = a, !.ret = e]
  BY <1>1 DEF WorldType, Returns
<1>5. v \in WorldType
  BY <1>3, <1>4 DEF WorldType
<1>6. /\ v.proc = a /\ v.ret = e
      /\ v.polls = w.polls /\ v.at = w.at /\ v.real = w.real /\ v.moved = w.moved
      /\ v.promise = w.promise /\ v.inuse = w.inuse /\ v.avail = w.avail
      /\ v.room = w.room
  BY <1>4 DEF WorldType
<1>7. /\ a[p] = pr /\ \A q \in Procs \ {p} : a[q] = w.proc[q]
      /\ e[p] = n /\ \A q \in Procs \ {p} : e[q] = w.ret[q]
  BY <1>1 DEF ProcsType, RetType
<1> QED
  BY SMT, <1>5, <1>6, <1>7 DEF Only, Returned

HasGiven(w, v, p, n) ==
  /\ v.proc[p] = [w.proc[p] EXCEPT !.state = "KERNEL"]
  /\ v.moved[p] = w.moved[p] + n
  /\ v.room = w.room - n
  /\ v.polls = w.polls /\ v.at = w.at /\ v.real = w.real /\ v.ret = w.ret
  /\ v.promise = w.promise /\ v.inuse = w.inuse /\ v.avail = w.avail

LEMMA GaveEffect ==
  ASSUME NEW w \in WorldType, NEW p \in Procs, NEW n \in 0 .. w.room, w.moved[p] + n \in Lengths, NEW v,
         v = Gave(w, p, n)
  PROVE  v \in WorldType /\ Only(w, v, p) /\ HasGiven(w, v, p, n)
<1> DEFINE pr == [w.proc[p] EXCEPT !.state = "KERNEL"]
           a == [w.proc EXCEPT ![p] = pr]
           f == [w.moved EXCEPT ![p] = w.moved[p] + n]
           j == w.room - n
<1>1. w.proc \in ProcsType /\ w.moved \in MovedType /\ w.proc[p] \in ProcType
  BY WorldHas
<1>2. pr \in ProcType
  BY <1>1 DEF ProcType
<1>3. a \in ProcsType /\ f \in MovedType /\ j \in Lengths
  BY SMT, <1>1, <1>2, WorldHas, ConstantsAssumption DEF ProcsType, MovedType, Lengths
<1>4. v = [w EXCEPT !.proc = a, !.moved = f, !.room = j]
  BY <1>1 DEF WorldType, Gave
<1>5. v \in WorldType
  BY <1>3, <1>4 DEF WorldType
<1>6. /\ v.proc = a /\ v.moved = f /\ v.room = j
      /\ v.polls = w.polls /\ v.at = w.at /\ v.real = w.real /\ v.ret = w.ret
      /\ v.promise = w.promise /\ v.inuse = w.inuse /\ v.avail = w.avail
  BY <1>4 DEF WorldType
<1>7. /\ a[p] = pr /\ \A q \in Procs \ {p} : a[q] = w.proc[q]
      /\ f[p] = w.moved[p] + n /\ \A q \in Procs \ {p} : f[q] = w.moved[q]
  BY <1>1 DEF ProcsType, MovedType
<1> QED
  BY SMT, <1>5, <1>6, <1>7 DEF Only, HasGiven

Continued(w, v, p) ==
  /\ v.at[p] = (CASE w.at[p] = "entry" -> "incall" [] w.at[p] = "exit" -> "user" [] OTHER -> w.at[p])
  /\ v.proc = w.proc /\ v.polls = w.polls /\ v.real = w.real /\ v.ret = w.ret
  /\ v.moved = w.moved /\ v.promise = w.promise /\ v.inuse = w.inuse
  /\ v.avail = w.avail /\ v.room = w.room

LEMMA ContinueEffect ==
  ASSUME NEW w \in WorldType, NEW p \in Procs, NEW v,
         v = tracer_continue(w, p)
  PROVE  v \in WorldType /\ Only(w, v, p) /\ Continued(w, v, p)
<1> DEFINE c == [w.at EXCEPT ![p] = (CASE w.at[p] = "entry" -> "incall" [] w.at[p] = "exit" -> "user" [] OTHER -> w.at[p])]
<1>1. w.at \in PlacesType
  BY WorldHas
<1>3. c \in PlacesType
  BY <1>1 DEF PlacesType
<1>4. v = [w EXCEPT !.at = c]
  BY <1>1 DEF WorldType, tracer_continue
<1>5. v \in WorldType
  BY <1>3, <1>4 DEF WorldType
<1>6. /\ v.at = c
      /\ v.proc = w.proc /\ v.polls = w.polls /\ v.real = w.real /\ v.ret = w.ret
      /\ v.moved = w.moved /\ v.promise = w.promise /\ v.inuse = w.inuse
      /\ v.avail = w.avail /\ v.room = w.room
  BY <1>4 DEF WorldType
<1>7. /\ c[p] = (CASE w.at[p] = "entry" -> "incall" [] w.at[p] = "exit" -> "user" [] OTHER -> w.at[p]) /\ \A q \in Procs \ {p} : c[q] = w.at[q]
  BY <1>1 DEF PlacesType
<1> QED
  BY <1>5, <1>6, <1>7 DEF Only, Continued

CallOver(w, v, p) ==
  /\ v.proc[p] = [w.proc[p] EXCEPT !.state = "USER", !.syscall_dummy = FALSE]
  /\ v.ret[p] = (IF w.proc[p].syscall_dummy THEN w.proc[p].syscall_result ELSE w.ret[p])
  /\ v.polls = w.polls /\ v.at = w.at /\ v.real = w.real /\ v.moved = w.moved
  /\ v.promise = w.promise /\ v.inuse = w.inuse /\ v.avail = w.avail
  /\ v.room = w.room

LEMMA EpilogueEffect ==
  ASSUME NEW w \in WorldType, NEW p \in Procs, w.proc[p].state = "KERNEL", NEW v,
         v = Epilogue(w, p)
  PROVE  v \in WorldType /\ Only(w, v, p) /\ CallOver(w, v, p)
<1> DEFINE pr == [w.proc[p] EXCEPT !.state = "USER", !.syscall_dummy = FALSE]
           a == [w.proc EXCEPT ![p] = pr]
           e == [w.ret EXCEPT ![p] = (IF w.proc[p].syscall_dummy THEN w.proc[p].syscall_result ELSE w.ret[p])]
<1>1. w.proc \in ProcsType /\ w.ret \in RetType /\ w.proc[p] \in ProcType
  BY WorldHas
<1>2. pr \in ProcType
  BY <1>1 DEF ProcType
<1>3. a \in ProcsType /\ e \in RetType
  BY <1>1, <1>2 DEF ProcsType, RetType, ProcType
<1>4. v = [w EXCEPT !.proc = a, !.ret = e]
  BY DEF Epilogue
<1>5. v \in WorldType
  BY <1>3, <1>4 DEF WorldType
<1>6. /\ v.proc = a /\ v.ret = e
      /\ v.polls = w.polls /\ v.at = w.at /\ v.real = w.real /\ v.moved = w.moved
      /\ v.promise = w.promise /\ v.inuse = w.inuse /\ v.avail = w.avail
      /\ v.room = w.room
  BY <1>4 DEF WorldType
<1>7. /\ a[p] = pr /\ \A q \in Procs \ {p} : a[q] = w.proc[q]
      /\ e[p] = (IF w.proc[p].syscall_dummy THEN w.proc[p].syscall_result ELSE w.ret[p]) /\ \A q \in Procs \ {p} : e[q] = w.ret[q]
  BY <1>1 DEF ProcsType, RetType
<1> QED
  BY SMT, <1>5, <1>6, <1>7 DEF Only, CallOver

---------------------------------------------------------------------------
(* The inductive invariant: where a process can be in a call.              *)

EnoughPages == IsFiniteSet(Procs) /\ Cardinality(Procs) <= NumPages

(* A write that waited may fail, and its process then waits for ever.      *)
Sticks(s) == "write" \in s.ops /\ "eio" \in s.faults

(* The pages in use need not be those of the calls in progress.            *)
Untidy(s) ==
  \/ s.gremlins \cap Refusing # {} \/ "full" \in s.faults \/ ~EnoughPages
  \/ Sticks(s)

(* At the entry of its call.                                               *)
Begun(w, s, c, p) ==
  /\ w.at[p] = "entry"
  /\ w.moved[p] = 0
  /\ c[p].length \in s.lengths
  /\ c[p].op = "write" => "write" \in s.ops

(* Sent to the channel, where a read finds its data and a write puts it.   *)
Channelled(w, s, c, p) ==
  /\ w.real[p] = "channel"
  /\ ~w.proc[p].syscall_dummy
  /\ w.promise[p] = None
  /\ CanCut(s, c[p].length) => w.proc[p].diverted_length <= c[p].length
  /\ c[p].op = "read" =>
       /\ w.moved[p] = w.proc[p].diverted_length
       /\ w.proc[p].syscall_result # EINTR
  /\ c[p].op = "write" => w.moved[p] = 0 /\ "write" \in s.ops
  /\ w.at[p] = "exit" => w.ret[p] = w.proc[p].diverted_length

(* Sent to getpid: the result is known and no byte has moved.              *)
Dummied(w, s, c, p) ==
  /\ w.real[p] = "getpid"
  /\ c[p].op = "read"
  /\ w.proc[p].syscall_dummy
  /\ w.moved[p] = 0
  /\ w.promise[p] = None
  /\ w.proc[p].syscall_result <= 0
  /\ w.proc[p].syscall_result = EINTR => w.proc[p].diverted_length = 0

(* Sent to getpid because it is refused.                                   *)
Spurned(w, s, c, p) ==
  /\ w.real[p] = "getpid"
  /\ w.proc[p].syscall_dummy
  /\ w.moved[p] = 0
  /\ w.promise[p] # None
  /\ c[p].op = "read" => w.proc[p].syscall_result = w.promise[p]
  /\ c[p].op = "write" => "write" \in s.ops
  /\ Untidy(s)

Diverted(w, s, c, p) ==
  Channelled(w, s, c, p) \/ Dummied(w, s, c, p) \/ Spurned(w, s, c, p)

(* What ResultIsTrue and RefusedReadHolds say of p when its result is r.   *)
Tells(w, s, c, p, r) ==
  /\ w.promise[p] = None =>
       /\ r >= 0 => r = w.moved[p] /\ (CanCut(s, c[p].length) => r <= c[p].length)
       /\ r < 0 => w.moved[p] = 0
  /\ w.promise[p] # None /\ c[p].op = "read" =>
       w.moved[p] = 0 /\ (w.promise[p] # EINTR => r = w.promise[p])

(* Back in the program.                                                    *)
Finished(w, s, c, p) == w.at[p] = "user" /\ Tells(w, s, c, p, w.ret[p])

(* Parked until a file descriptor is ready, or, after a failed write, for  *)
(* ever.                                                                   *)
Waiting(w, s, c, p) ==
  \/ w.proc[p].state = "WAITREAD" /\ c[p].op = "read" /\ Begun(w, s, c, p)
  \/ /\ w.proc[p].state = "WAITWRITE" /\ c[p].op = "write" /\ w.at[p] = "exit"
     /\ \/ /\ ~c[p].nonblocking /\ w.ret[p] > 0
           /\ Channelled(w, s, c, p) \/ Spurned(w, s, c, p)
        \/ Sticks(s) /\ ~(w.ret[p] > 0)

(* Stopped, with the event still to be collected.                          *)
Stopped(w, s, c, p) ==
  \/ w.proc[p].state = "USER" /\ Begun(w, s, c, p)
  \/ w.proc[p].state = "KERNEL" /\ w.at[p] = "exit" /\ Diverted(w, s, c, p)

(* Neither.                                                                *)
Running(w, s, c, p) ==
  \/ w.proc[p].state = "USER" /\ Finished(w, s, c, p)
  \/ w.proc[p].state = "KERNEL" /\ w.at[p] = "incall" /\ Diverted(w, s, c, p)

(* HasPage for a world.                                                    *)
Holds(w, p) ==
  \/ w.proc[p].state = "WAITWRITE"
  \/ w.proc[p].state = "KERNEL" /\ w.promise[p] = None

WaitsFor(w, p, flag) ==
  w.proc[p].state = IF flag = "r" THEN "WAITREAD" ELSE "WAITWRITE"

(* What a dispatch of p does to the channel ...                            *)
PageStep(w, v, p) ==
  \/ /\ ~Holds(w, p) /\ Holds(v, p)
     /\ v.proc[p].io_channel_offset \notin w.inuse
     /\ v.inuse = w.inuse \cup {v.proc[p].io_channel_offset}
  \/ /\ Holds(w, p) /\ ~Holds(v, p)
     /\ v.inuse = w.inuse \ {w.proc[p].io_channel_offset}
  \/ /\ Holds(w, p) /\ Holds(v, p)
     /\ v.proc[p].io_channel_offset = w.proc[p].io_channel_offset
     /\ v.inuse = w.inuse
  \/ /\ ~Holds(w, p) /\ ~Holds(v, p)
     /\ v.inuse = w.inuse

(* ... and to the poll table.                                              *)
PollStep(w, v, s, p) ==
  \A flag \in {"r", "w"} :
    \/ WaitsFor(v, p, flag) /\ v.polls[p][flag] = w.polls[p][flag] + 1
    \/ (WaitsFor(v, p, flag) => Sticks(s)) /\ v.polls[p][flag] = w.polls[p][flag]

---------------------------------------------------------------------------
(* The handlers.                                                           *)

CallsType == [Procs -> [op : {"read", "write"}, length : Lengths, nonblocking : BOOLEAN]]

HasCut(w, v, p, n) ==
  /\ CanCut(setting, n) => v.proc[p].length <= n
  /\ SameButLength(w.proc[p], v.proc[p], v.proc[p].length)
  /\ v.polls = w.polls /\ v.at = w.at /\ v.real = w.real /\ v.ret = w.ret
  /\ v.moved = w.moved /\ v.promise = w.promise
  /\ v.inuse = w.inuse /\ v.avail = w.avail /\ v.room = w.room

(* A request is cut to at most what was asked for, unless that is nothing, *)
(* and only the length and the remainder of the process change.            *)
LEMMA CutEffect ==
  ASSUME NEW w \in WorldType, NEW p \in Procs, NEW n \in Lengths,
         NEW op \in {"read", "write"},
         NEW v \in Cut(w, p, n, op)
  PROVE  v \in WorldType /\ Only(w, v, p) /\ HasCut(w, v, p, n)
<1> DEFINE rem == w.proc[p].remainder[op]
           asks(k, r) == [w EXCEPT !.proc[p] = [w.proc[p] EXCEPT !.length = k, !.remainder[op] = r]]
<1>1. w.proc[p] \in ProcType
  BY WorldHas
<1>2. rem \in -1 .. MaxBytes
  BY <1>1 DEF ProcType, Remainders
<1>3. n \in Nat /\ MaxBytes \in Nat /\ n <= MaxBytes
  BY SMT, ConstantsAssumption DEF Lengths
<1>4. \E k \in Lengths : \E r \in -1 .. MaxBytes :
        v = asks(k, r) /\ (CanCut(setting, n) => k <= n)
  <2>1. v \in ({asks(n, rem)}
          \cup (IF Less[op] \in setting.gremlins THEN {asks(IF n > 1 THEN n \div 2 ELSE n, rem)} ELSE {})
          \cup (IF OneS[op] \in setting.gremlins
                THEN {IF rem = n THEN asks(n, 0) ELSE asks(1, n - 1)}
                ELSE {})
          \cup (IF One[op] \in setting.gremlins THEN {asks(1, rem)} ELSE {}))
    BY DEF Cut
  <2>2. n = 0 /\ CanCut(setting, n) =>
          OneS[op] \notin setting.gremlins /\ One[op] \notin setting.gremlins
    BY SMT DEF OneS, One, CanCut
  <2> DEFINE half == IF n > 1 THEN n \div 2 ELSE n
  <2>3. /\ half \in Lengths /\ half <= n /\ 1 \in Lengths /\ n <= n /\ (n # 0 => 1 <= n)
        /\ 0 \in -1 .. MaxBytes /\ n - 1 \in -1 .. MaxBytes
    BY SMT, <1>3, ConstantsAssumption DEF Lengths
  <2> HIDE DEF asks, rem, half
  <2>4. \/ v = asks(n, rem) \/ v = asks(half, rem) \/ v = asks(n, 0)
        \/ (CanCut(setting, n) => n # 0) /\ (v = asks(1, n - 1) \/ v = asks(1, rem))
    BY <2>1, <2>2 DEF half
  <2> QED
    BY <1>2, <2>3, <2>4
<1>5. PICK k \in Lengths, r \in -1 .. MaxBytes :
        v = asks(k, r) /\ (CanCut(setting, n) => k <= n)
  BY <1>4
<1>7. v \in WorldType /\ Only(w, v, p) /\ Asked(w, v, p, k)
  <2>1. v = Asks(w, p, op, k, r)
    BY <1>5 DEF Asks
  <2> QED
    BY <2>1, AsksEffect
<1> QED
  BY <1>5, <1>7 DEF SameButLength, Asked, HasCut

(* A nonempty set of naturals has a least element, and Min is one.         *)
LEMMA MinIsLeast ==
  ASSUME NEW S \in SUBSET Nat, S # {}
  PROVE  Min(S) \in S /\ \A y \in S : Min(S) <= y
<1>1. PICK x \in S : \A y \in SetLessThan(x, OpToRel(<, Nat), Nat) : y \notin S
  <2>1. IsWellFoundedOn(OpToRel(<, Nat), Nat)
    BY NatLessThanWellFounded
  <2>2. \E x \in S : \A y \in S : ~(<<y, x>> \in OpToRel(<, Nat))
    BY <2>1, WFMin
  <2> QED
    BY <2>2 DEF SetLessThan
<1>2. \A y \in S : x <= y
  <2> TAKE y \in S
  <2>1. CASE y < x
    <3>1. y \in SetLessThan(x, OpToRel(<, Nat), Nat)
      BY <2>1 DEF SetLessThan, OpToRel
    <3> QED
      BY <1>1, <3>1
  <2>2. CASE ~(y < x)
    BY SMT, <2>2
  <2> QED
    BY <2>1, <2>2
<1> QED
  BY <1>2 DEF Min

(* What pfs_read moves is what the file has and what was asked for.        *)
LEMMA ReadResultsRange ==
  ASSUME NEW w \in WorldType, NEW k \in Lengths, NEW n \in ReadResults(w, k)
  PROVE  \/ n \in 1 .. w.avail /\ n <= k
         \/ n \in {0, EAGAIN, EIO}
<1>1. w.avail \in Nat /\ k \in Nat
  BY SMT, ConstantsAssumption DEF WorldType, Lengths
<1>2. CASE k # 0 /\ w.avail # 0 /\ n = Min({k, w.avail})
  <2>1. n \in {k, w.avail} /\ n <= k /\ n <= w.avail
    BY <1>1, <1>2, MinIsLeast
  <2> QED
    BY SMT, <1>1, <1>2, <2>1
<1> QED
  BY <1>2 DEF ReadResults

(* What pfs_write takes is what there is room for and what it was given.   *)
LEMMA WriteResultsRange ==
  ASSUME NEW w \in WorldType, NEW k \in Nat, NEW n \in WriteResults(w, k)
  PROVE  \/ n \in 0 .. w.room /\ n <= k
         \/ n = EAGAIN \/ n = EPIPE \/ (n = EIO /\ "eio" \in setting.faults)
<1>1. w.room \in Nat
  BY SMT, ConstantsAssumption DEF WorldType, Lengths
<1>2. CASE w.room # 0 /\ n = Min({k, w.room})
  <2>1. n \in {k, w.room} /\ n <= k /\ n <= w.room
    BY <1>1, <1>2, MinIsLeast
  <2> QED
    BY SMT, <1>1, <1>2, <2>1
<1> QED
  BY <1>2 DEF WriteResults

(* A call that decode_syscall has begun and not yet acted on.              *)
Fresh(w, p) ==
  /\ w.proc[p].state = "KERNEL"
  /\ ~w.proc[p].syscall_dummy
  /\ w.promise[p] = None
  /\ w.at[p] = "entry"
  /\ w.moved[p] = 0

(* How the entry of a call ends: diverted, with or without a page of its   *)
(* own, or parked without one.                                             *)
Entered(w, v, s, c, p) ==
  /\ v.at[p] = "entry"
  /\ \/ /\ v.proc[p].state = "KERNEL" /\ Diverted(v, s, c, p)
        /\ v.polls[p] = w.polls[p]
        /\ v.promise[p] = None => /\ v.proc[p].io_channel_offset \notin w.inuse
                                  /\ v.inuse = w.inuse \cup {v.proc[p].io_channel_offset}
     \/ /\ v.proc[p].state = "WAITREAD" /\ c[p].op = "read" /\ v.moved[p] = 0
        /\ v.polls[p] = [w.polls[p] EXCEPT !["r"] = w.polls[p]["r"] + 1]
        /\ v.inuse = w.inuse

(* The read that found nothing has given up or waits.                      *)
Blocked(w, v, p) ==
  /\ v.at = w.at /\ v.ret = w.ret /\ v.moved = w.moved /\ v.promise = w.promise
  /\ v.avail = w.avail /\ v.room = w.room
  /\ v.proc[p].diverted_length = w.proc[p].diverted_length
  /\ v.proc[p].io_channel_offset = w.proc[p].io_channel_offset
  /\ \/ /\ v.proc[p].state = w.proc[p].state
        /\ v.proc[p].syscall_dummy /\ v.proc[p].syscall_result \in {EINTR, EAGAIN}
        /\ v.real[p] = "getpid" /\ v.polls = w.polls /\ v.inuse = w.inuse
     \/ /\ v.proc[p].state = "WAITREAD"
        /\ v.polls[p] = [w.polls[p] EXCEPT !["r"] = w.polls[p]["r"] + 1]
        /\ v.inuse = w.inuse \ {w.proc[p].io_channel_offset}

LEMMA ReadBlocksEffect ==
  ASSUME NEW w \in WorldType, NEW p \in Procs, NEW v, v = ReadBlocks(w, p)
  PROVE  v \in WorldType /\ Only(w, v, p) /\ Blocked(w, v, p)
<1>1. w.proc[p] \in ProcType /\ w.polls[p] \in [{"r", "w"} -> Nat]
  BY WorldHas
<1>2. CASE w.proc[p].interrupted
  <2> DEFINE pr == [w.proc[p] EXCEPT !.interrupted = FALSE]
             u == [w EXCEPT !.proc[p].interrupted = FALSE]
  <2>1. pr \in ProcType
    BY <1>1 DEF ProcType
  <2>2. u = ReplaceProc(w, p, pr)
    BY DEF WorldType, ReplaceProc
  <2>3. v = divert_to_dummy(u, p, EINTR)
    BY <1>2 DEF ReadBlocks
  <2> HIDE DEF u, pr
  <2>4. u \in WorldType /\ Only(w, u, p) /\ ProcSet(w, u, p, pr)
    BY <2>1, <2>2, SetProc
  <2>5. EINTR \in Results
    BY DEF Results
  <2>6. v \in WorldType /\ Only(u, v, p) /\ Dummies(u, v, p, EINTR)
    BY <2>3, <2>4, <2>5, DummyEffect
  <2>7. Only(w, v, p)
    BY <2>4, <2>6, OnlyChain
  <2>8. Blocked(w, v, p)
    BY SMT, <1>1, <2>4, <2>6 DEF ProcType, ProcSet, Dummies, Blocked, pr
  <2> QED
    BY <2>6, <2>7, <2>8
<1>3. CASE ~w.proc[p].interrupted /\ call[p].nonblocking
  <2>1. v = divert_to_dummy(w, p, EAGAIN)
    BY <1>3 DEF ReadBlocks
  <2>2. EAGAIN \in Results
    BY DEF Results
  <2>3. v \in WorldType /\ Only(w, v, p) /\ Dummies(w, v, p, EAGAIN)
    BY <2>1, <2>2, DummyEffect
  <2>4. Blocked(w, v, p)
    BY <1>1, <2>3 DEF ProcType, Dummies, Blocked
  <2> QED
    BY <2>3, <2>4
<1>4. CASE ~w.proc[p].interrupted /\ ~call[p].nonblocking
  <2> DEFINE pr == [w.proc[p] EXCEPT !.state = "WAITREAD"]
             u == [w EXCEPT !.proc[p].state = "WAITREAD"]
             page == w.proc[p].io_channel_offset
             x == pfs_channel_free(u, page)
  <2>1. pr \in ProcType
    BY <1>1 DEF ProcType
  <2>2. u = ReplaceProc(w, p, pr)
    BY DEF WorldType, ReplaceProc
  <2>3. v = pfs_poll_wakeon(x, p, "r")
    BY <1>4 DEF ReadBlocks
  <2> HIDE DEF u, pr, page
  <2>4. u \in WorldType /\ Only(w, u, p) /\ ProcSet(w, u, p, pr)
    BY <2>1, <2>2, SetProc
  <2>5. x \in WorldType /\ Only(u, x, p) /\ Freed(u, x, p, page)
    BY <2>4, FreeEffect
  <2> HIDE DEF x
  <2>6. v \in WorldType /\ Only(x, v, p) /\ Polled(x, v, p, "r")
    BY <2>3, <2>5, WakeonEffect
  <2>7. Only(w, v, p)
    BY <2>4, <2>5, <2>6, OnlyChain
  <2>8. Blocked(w, v, p)
    BY SMT, <1>1, <2>4, <2>5, <2>6 DEF ProcType, ProcSet, Freed, Polled, Blocked, pr, page
  <2> QED
    BY <2>6, <2>7, <2>8
<1> QED
  BY <1>2, <1>3, <1>4

LEMMA CallHas ==
  ASSUME call \in CallsType, NEW p \in Procs
  PROVE  call[p].length \in Lengths /\ call[p].op \in {"read", "write"}
  BY DEF CallsType

(* The read itself, once the request is cut and has a page.                *)
LEMMA ReadIntoEffect ==
  ASSUME NEW w \in WorldType, NEW p \in Procs, NEW page \in Pages, page \notin w.inuse,
         call \in CallsType, call[p].op = "read",
         Fresh(w, p), CanCut(setting, call[p].length) => w.proc[p].length <= call[p].length,
         NEW v \in ReadInto(w, p, page)
  PROVE  v \in WorldType /\ Only(w, v, p) /\ Entered(w, v, setting, call, p)
<1> DEFINE in == TakesReadPage(w, p, page)
           done(n) == [in EXCEPT !.proc[p].syscall_result = IF n < 0 THEN -1 ELSE n]
<1>1. w.proc[p] \in ProcType /\ w.polls[p] \in [{"r", "w"} -> Nat] /\ w.avail \in Lengths
  BY WorldHas
<1>2. PICK n \in ReadResults(w, w.proc[p].length) :
        v = CASE n > 0 -> divert_to_channel(Got(done(n), p, n), p, n)
              [] n = EAGAIN -> ReadBlocks(done(n), p)
              [] OTHER -> divert_to_dummy(done(n), p, n)
  BY DEF ReadInto, TakesReadPage, Got
<1>3. (n \in 1 .. w.avail /\ n <= w.proc[p].length) \/ n \in {0, EAGAIN, EIO}
  BY <1>1, <1>2, ReadResultsRange DEF ProcType
<1>4. in \in WorldType /\ Only(w, in, p) /\ ReadPageTaken(w, in, p, page)
  BY ReadPageEffect
<1> HIDE DEF in
<1>5. in.proc[p] \in ProcType
  BY <1>4, WorldHas
<1> DEFINE r == IF n < 0 THEN -1 ELSE n
           pr == [in.proc[p] EXCEPT !.syscall_result = r]
           u == done(n)
<1>6. n \in Results /\ r \in Results /\ n \in Int
  BY SMT, <1>1, <1>3, ZeroLength DEF Results, Lengths, EIO, EAGAIN
<1>7. pr \in ProcType
  BY <1>5, <1>6 DEF ProcType
<1>8. u = ReplaceProc(in, p, pr)
  <2> HIDE DEF r
  <2>1. u = [in EXCEPT !.proc[p].syscall_result = r]
    BY DEF r
  <2> HIDE DEF u
  <2> QED
    BY <1>4, <2>1 DEF WorldType, ReplaceProc
<1>9. /\ n > 0 => v = divert_to_channel(Got(u, p, n), p, n)
      /\ n = EAGAIN => v = ReadBlocks(u, p)
      /\ ~(n > 0) /\ n # EAGAIN => v = divert_to_dummy(u, p, n)
  <2> HIDE DEF done
  <2> QED
    BY SMT, <1>2, <1>6 DEF EAGAIN
<1> HIDE DEF u, pr
<1>10. u \in WorldType /\ Only(in, u, p) /\ ProcSet(in, u, p, pr)
  BY <1>4, <1>7, <1>8, SetProc
<1>11. Only(w, u, p)
  BY <1>4, <1>10, OnlyChain
<1>12. /\ u.inuse = w.inuse \cup {page}
       /\ u.avail = w.avail /\ u.polls = w.polls /\ u.at = w.at /\ u.promise = w.promise
       /\ u.moved = w.moved
       /\ u.proc[p].io_channel_offset = page /\ u.proc[p].diverted_length = 0
       /\ u.proc[p].syscall_result = r /\ u.proc[p].syscall_dummy = w.proc[p].syscall_dummy
       /\ u.proc[p].state = w.proc[p].state
  BY SMT, <1>1, <1>4, <1>5, <1>10 DEF ReadPageTaken, ProcSet, pr, ProcType
<1>13. u.proc[p] \in ProcType
  BY <1>10, WorldHas
<1>14. CASE n > 0
  <2>1. n \in 1 .. u.avail /\ n \in Lengths
    BY SMT, <1>1, <1>3, <1>12, <1>14, ZeroLength DEF Lengths, EIO, EAGAIN
  <2> DEFINE x == Got(u, p, n)
  <2>2. x \in WorldType /\ Only(u, x, p) /\ HasGot(u, x, p, n)
    BY <1>10, <2>1, GotEffect
  <2> HIDE DEF x
  <2>3. v = divert_to_channel(x, p, n)
    BY <1>9, <1>14 DEF x
  <2>4. v \in WorldType /\ Only(x, v, p) /\ ToChannel(x, v, p, n)
    BY <2>1, <2>2, <2>3, ChannelEffect
  <2>5. Only(w, v, p)
    BY <1>11, <2>2, <2>4, OnlyChain
  <2>6. /\ v.inuse = w.inuse \cup {page} /\ v.polls = w.polls /\ v.at = w.at
        /\ v.promise = w.promise /\ v.moved[p] = n /\ v.real[p] = "channel"
        /\ v.proc[p].io_channel_offset = page /\ v.proc[p].diverted_length = n
        /\ v.proc[p].syscall_result = n /\ v.proc[p].syscall_dummy = w.proc[p].syscall_dummy
        /\ v.proc[p].state = w.proc[p].state
    BY SMT, <1>6, <1>12, <1>13, <1>14, <2>2, <2>4 DEF HasGot, ToChannel, ProcType
  <2>7. Channelled(v, setting, call, p)
    <3>1. n # EINTR
      BY SMT, <1>14 DEF EINTR
    <3>2. CanCut(setting, call[p].length) => n <= call[p].length
      <4>1. n <= w.proc[p].length
        BY SMT, <1>3, <1>14 DEF EIO, EAGAIN
      <4>2. w.proc[p].length \in Int /\ call[p].length \in Int
        BY SMT, <1>1, CallHas, ZeroLength DEF ProcType, Lengths
      <4> QED
        BY SMT, <1>6, <4>1, <4>2
    <3> QED
      BY <2>6, <3>1, <3>2 DEF Channelled, Fresh
  <2>8. Entered(w, v, setting, call, p)
    BY <2>6, <2>7 DEF Entered, Diverted, Fresh
  <2> QED
    BY <2>4, <2>5, <2>8
<1>15. CASE n = EAGAIN
  <2>1. v \in WorldType /\ Only(u, v, p) /\ Blocked(u, v, p)
    BY <1>9, <1>10, <1>15, ReadBlocksEffect
  <2>2. Only(w, v, p)
    BY <1>11, <2>1, OnlyChain
  <2>3. CASE v.proc[p].state = "WAITREAD"
    <3>1. Entered(w, v, setting, call, p)
      BY <1>12, <2>1, <2>3 DEF Blocked, Entered, Fresh
    <3> QED
      BY <2>1, <2>2, <3>1
  <2>4. CASE v.proc[p].state # "WAITREAD"
    <3>1. /\ v.inuse = w.inuse \cup {page} /\ v.polls = w.polls /\ v.at = w.at
          /\ v.promise = w.promise /\ v.moved = w.moved /\ v.real[p] = "getpid"
          /\ v.proc[p].io_channel_offset = page /\ v.proc[p].diverted_length = 0
          /\ v.proc[p].syscall_result \in {EINTR, EAGAIN} /\ v.proc[p].syscall_dummy
          /\ v.proc[p].state = w.proc[p].state
      BY <1>12, <2>1, <2>4 DEF Blocked
    <3>2. Dummied(v, setting, call, p)
      BY SMT, <3>1 DEF Dummied, Fresh, EINTR, EAGAIN
    <3>3. /\ v.at[p] = "entry" /\ v.proc[p].state = "KERNEL" /\ v.polls[p] = w.polls[p]
          /\ v.proc[p].io_channel_offset \notin w.inuse
          /\ v.inuse = w.inuse \cup {v.proc[p].io_channel_offset}
      BY <3>1 DEF Fresh
    <3> QED
      BY <2>1, <2>2, <3>2, <3>3 DEF Entered, Diverted
  <2> QED
    BY <2>1, <2>2, <2>3, <2>4
<1>16. CASE ~(n > 0) /\ n # EAGAIN
  <2>1. v \in WorldType /\ Only(u, v, p) /\ Dummies(u, v, p, n)
    BY <1>6, <1>9, <1>10, <1>16, DummyEffect
  <2>2. Only(w, v, p)
    BY <1>11, <2>1, OnlyChain
  <2>3. /\ v.inuse = w.inuse \cup {page} /\ v.polls = w.polls /\ v.at = w.at
        /\ v.promise = w.promise /\ v.moved = w.moved /\ v.real[p] = "getpid"
        /\ v.proc[p].io_channel_offset = page /\ v.proc[p].diverted_length = 0
        /\ v.proc[p].syscall_result = n /\ v.proc[p].syscall_dummy
        /\ v.proc[p].state = w.proc[p].state
    BY <1>12, <1>13, <2>1 DEF Dummies, ProcType
  <2>4. Dummied(v, setting, call, p)
    BY SMT, <1>6, <1>16, <2>3 DEF Dummied, Fresh
  <2>5. Entered(w, v, setting, call, p)
    BY <2>3, <2>4 DEF Entered, Diverted, Fresh
  <2> QED
    BY <2>1, <2>2, <2>5
<1> QED
  BY <1>14, <1>15, <1>16

(* A refused call.                                                         *)
LEMMA RefusedCall ==
  ASSUME NEW w \in WorldType, NEW p \in Procs,
         NEW r \in {0, EINTR, EAGAIN, ENOMEM, ENOSPC},
         call[p].op = "write" => "write" \in setting.ops,
         Fresh(w, p), Untidy(setting), NEW v, v = Refuse(w, p, r)
  PROVE  v \in WorldType /\ Only(w, v, p) /\ Entered(w, v, setting, call, p)
<1>1. r \in Results
  BY SMT, ZeroLength DEF Results, Lengths
<1>2. v \in WorldType /\ Only(w, v, p) /\ Refused(w, v, p, r)
  BY <1>1, RefuseEffect
<1>3. w.proc[p] \in ProcType
  BY WorldHas
<1>4. /\ v.at[p] = "entry" /\ v.polls[p] = w.polls[p] /\ v.promise[p] = r
      /\ v.moved[p] = 0 /\ v.real[p] = "getpid"
      /\ v.proc[p].state = "KERNEL" /\ v.proc[p].syscall_dummy /\ v.proc[p].syscall_result = r
  BY <1>2, <1>3 DEF Refused, Fresh, ProcType
<1>5. r # None
  BY SMT DEF EINTR, EAGAIN, ENOMEM, ENOSPC, None
<1>6. Spurned(v, setting, call, p)
  BY <1>4, <1>5 DEF Spurned
<1>7. Entered(w, v, setting, call, p)
  BY <1>4, <1>5, <1>6 DEF Entered, Diverted
<1> QED
  BY <1>2, <1>7

(* A request that was cut is as fresh as before, and what then becomes of  *)
(* it became of the request.                                               *)
LEMMA CutIsFresh ==
  ASSUME NEW w \in WorldType, NEW p \in Procs, call \in CallsType,
         Fresh(w, p), NEW u \in Cut(w, p, call[p].length, call[p].op)
  PROVE  /\ u \in WorldType /\ Only(w, u, p) /\ Fresh(u, p)
         /\ CanCut(setting, call[p].length) => u.proc[p].length <= call[p].length
         /\ u.inuse = w.inuse /\ u.polls = w.polls
<1>2. call[p].length \in Lengths /\ call[p].op \in {"read", "write"}
  BY CallHas
<1>3. u \in WorldType /\ Only(w, u, p) /\ HasCut(w, u, p, call[p].length)
  BY <1>2, CutEffect
<1> QED
  BY <1>3 DEF Fresh, SameButLength, HasCut

LEMMA EnteredChain ==
  ASSUME NEW w, NEW u, NEW v, NEW s, NEW c, NEW p,
         Only(w, u, p), Only(u, v, p), u.inuse = w.inuse, u.polls = w.polls,
         Entered(u, v, s, c, p)
  PROVE  Only(w, v, p) /\ Entered(w, v, s, c, p)
<1>1. Only(w, v, p)
  BY OnlyChain
<1>2. Entered(w, v, s, c, p)
  BY DEF Entered
<1> QED
  BY <1>1, <1>2

(* An allocation fails, or finds a page that no one has.                   *)
LEMMA AllocEffect ==
  ASSUME NEW w, ~Untidy(setting) => Pages \ w.inuse # {},
         NEW page \in pfs_channel_alloc(w)
  PROVE  \/ page = Full /\ Untidy(setting)
         \/ page # Full /\ page \in Pages /\ page \notin w.inuse
<1> DEFINE free == Pages \ w.inuse
<1>1. \/ page = Full /\ (free = {} \/ "full" \in setting.faults)
      \/ free # {} /\ page = Min(free)
  BY DEF pfs_channel_alloc
<1>2. CASE free # {} /\ page = Min(free)
  <2>1. page \in free
    BY SMT, <1>2, MinIsLeast, ConstantsAssumption DEF Pages
  <2>2. page # Full
    BY SMT, <2>1, ConstantsAssumption DEF Pages, Full
  <2> QED
    BY <2>1, <2>2
<1> QED
  BY <1>1, <1>2 DEF Untidy

LEMMA EnterReadEffect ==
  ASSUME NEW w \in WorldType, NEW p \in Procs, call \in CallsType, call[p].op = "read",
         ~Untidy(setting) => Pages \ w.inuse # {},
         Fresh(w, p), NEW v \in EnterRead(w, p)
  PROVE  v \in WorldType /\ Only(w, v, p) /\ Entered(w, v, setting, call, p)
<1>1. PICK u \in Cut(w, p, call[p].length, "read"), page \in pfs_channel_alloc(w) :
        v \in IF page = Full THEN {Refuse(u, p, ENOMEM)} ELSE ReadInto(u, p, page)
  BY SMT DEF EnterRead
<1>2. /\ u \in WorldType /\ Only(w, u, p) /\ Fresh(u, p)
      /\ CanCut(setting, call[p].length) => u.proc[p].length <= call[p].length
      /\ u.inuse = w.inuse /\ u.polls = w.polls
  BY <1>1, CutIsFresh
<1>3. CASE page = Full /\ Untidy(setting)
  <2>1. v = Refuse(u, p, ENOMEM)
    BY <1>1, <1>3
  <2>2. v \in WorldType /\ Only(u, v, p) /\ Entered(u, v, setting, call, p)
    BY <1>2, <1>3, <2>1, RefusedCall
  <2> QED
    BY <1>2, <2>2, EnteredChain
<1>4. CASE page # Full /\ page \in Pages /\ page \notin w.inuse
  <2>1. v \in ReadInto(u, p, page)
    BY <1>1, <1>4
  <2>2. v \in WorldType /\ Only(u, v, p) /\ Entered(u, v, setting, call, p)
    BY <1>2, <1>4, <2>1, ReadIntoEffect
  <2> QED
    BY <1>2, <2>2, EnteredChain
<1> QED
  BY <1>1, <1>3, <1>4, AllocEffect

(* The write itself, once the request is cut and has a page.               *)
LEMMA WriteFromEffect ==
  ASSUME NEW w \in WorldType, NEW u \in WorldType, NEW p \in Procs, call[p].op = "write",
         "write" \in setting.ops, Only(w, u, p), Fresh(u, p), u.inuse = w.inuse, u.polls = w.polls,
         CanCut(setting, call[p].length) => u.proc[p].length <= call[p].length,
         NEW page \in Pages, page \notin w.inuse,
         NEW v, v = WriteFrom(u, p, page)
  PROVE  v \in WorldType /\ Only(w, v, p) /\ Entered(w, v, setting, call, p)
<1> DEFINE x == TakesPage(u, p, page)
           n == u.proc[p].length
<1>5. x \in WorldType /\ Only(u, x, p) /\ PageTaken(u, x, p, page)
  BY PageEffect
<1>6. u.proc[p] \in ProcType /\ x.proc[p] \in ProcType
  BY <1>5, WorldHas
<1>7. n \in Lengths
  BY <1>6 DEF ProcType
<1>8. v = divert_to_channel(x, p, n)
  BY DEF WriteFrom, TakesPage
<1> HIDE DEF x
<1>9. v \in WorldType /\ Only(x, v, p) /\ ToChannel(x, v, p, n)
  BY <1>5, <1>7, <1>8, ChannelEffect
<1>10. Only(u, v, p)
  BY <1>5, <1>9, OnlyChain
<1>11. /\ v.at[p] = "entry" /\ v.polls[p] = u.polls[p] /\ v.promise[p] = None
       /\ v.moved[p] = 0 /\ v.real[p] = "channel"
       /\ v.proc[p].state = "KERNEL" /\ ~v.proc[p].syscall_dummy
       /\ v.proc[p].diverted_length = n /\ v.proc[p].io_channel_offset = page
       /\ v.inuse = u.inuse \cup {page}
  BY SMT, <1>5, <1>6, <1>9 DEF PageTaken, ToChannel, Fresh, ProcType
<1>12. Channelled(v, setting, call, p)
  BY <1>11 DEF Channelled
<1>13. Entered(u, v, setting, call, p)
  BY <1>11, <1>12 DEF Entered, Diverted
<1> QED
  BY <1>9, <1>10, <1>13, EnteredChain

LEMMA EnterWriteEffect ==
  ASSUME NEW w \in WorldType, NEW p \in Procs, call \in CallsType, call[p].op = "write",
         "write" \in setting.ops, ~Untidy(setting) => Pages \ w.inuse # {},
         Fresh(w, p), NEW v \in EnterWrite(w, p)
  PROVE  v \in WorldType /\ Only(w, v, p) /\ Entered(w, v, setting, call, p)
<1>1. CASE "writezero" \in setting.gremlins /\ v = Refuse(w, p, 0)
  <2>1. Untidy(setting)
    BY <1>1 DEF Untidy, Refusing
  <2> QED
    BY <1>1, <2>1, RefusedCall
<1>2. ASSUME NEW u \in Cut(w, p, call[p].length, "write"), NEW page \in pfs_channel_alloc(w),
             v = IF page = Full THEN Refuse(u, p, ENOMEM) ELSE WriteFrom(u, p, page)
      PROVE  v \in WorldType /\ Only(w, v, p) /\ Entered(w, v, setting, call, p)
  <2>1. /\ u \in WorldType /\ Only(w, u, p) /\ Fresh(u, p)
        /\ CanCut(setting, call[p].length) => u.proc[p].length <= call[p].length
        /\ u.inuse = w.inuse /\ u.polls = w.polls
    BY CutIsFresh
  <2>2. CASE page = Full /\ Untidy(setting)
    <3>1. v = Refuse(u, p, ENOMEM)
      BY <1>2, <2>2
    <3>2. v \in WorldType /\ Only(u, v, p) /\ Entered(u, v, setting, call, p)
      BY <2>1, <2>2, <3>1, RefusedCall
    <3> QED
      BY <2>1, <3>2, EnteredChain
  <2>3. CASE page # Full /\ page \in Pages /\ page \notin w.inuse
    <3>1. v = WriteFrom(u, p, page)
      BY <1>2, <2>3
    <3> QED
      BY <2>1, <2>3, <3>1, WriteFromEffect
  <2> QED
    BY <2>2, <2>3, AllocEffect
<1>3. \/ "writezero" \in setting.gremlins /\ v = Refuse(w, p, 0)
      \/ \E u \in Cut(w, p, call[p].length, "write"), page \in pfs_channel_alloc(w) :
           v = IF page = Full THEN Refuse(u, p, ENOMEM) ELSE WriteFrom(u, p, page)
  BY SMT DEF EnterWrite
<1> QED
  BY <1>1, <1>2, <1>3

(* The entry of a call ends in one of the ways Entered lists.              *)
LEMMA EnterSyscallEffect ==
  ASSUME NEW w \in WorldType, NEW p \in Procs, call \in CallsType,
         Begun(w, setting, call, p),
         ~Untidy(setting) => Pages \ w.inuse # {},
         NEW v \in EnterSyscall(w, p)
  PROVE  v \in WorldType /\ Only(w, v, p) /\ Entered(w, v, setting, call, p)
<1> DEFINE in == Enters(w, p)
<1>1. in \in WorldType /\ Only(w, in, p) /\ InCall(w, in, p)
  BY EnterEffect
<1>2. w.proc[p] \in ProcType
  BY WorldHas
<1>3. Fresh(in, p) /\ in.inuse = w.inuse /\ in.polls = w.polls
  BY <1>1, <1>2 DEF InCall, Fresh, Begun, ProcType
<1>4. v \in {Refuse(in, p, result) : result \in Refusals(call[p].op)}
            \cup (IF call[p].op = "read" THEN EnterRead(in, p) ELSE EnterWrite(in, p))
  BY DEF EnterSyscall, Enters
<1> HIDE DEF in
<1>5. CASE v \in {Refuse(in, p, result) : result \in Refusals(call[p].op)}
  <2>1. PICK r \in Refusals(call[p].op) : v = Refuse(in, p, r)
    BY <1>5
  <2>2. /\ r \in {0, EINTR, EAGAIN, ENOMEM, ENOSPC}
        /\ call[p].op = "write" => "write" \in setting.ops
    BY <2>1 DEF Refusals, enospc, eintr, eagain, Begun
  <2>3. Untidy(setting)
    BY <2>1 DEF Refusals, enospc, eintr, eagain, Untidy, Refusing
  <2>4. v \in WorldType /\ Only(in, v, p) /\ Entered(in, v, setting, call, p)
    BY <1>1, <1>3, <2>1, <2>2, <2>3, RefusedCall
  <2> QED
    BY <1>1, <1>3, <2>4, EnteredChain
<1>6. CASE call[p].op = "read" /\ v \in EnterRead(in, p)
  <2>2. v \in WorldType /\ Only(in, v, p) /\ Entered(in, v, setting, call, p)
    BY <1>1, <1>3, <1>6, EnterReadEffect
  <2> QED
    BY <1>1, <1>3, <2>2, EnteredChain
<1>7. CASE call[p].op = "write" /\ v \in EnterWrite(in, p)
  <2>1. "write" \in setting.ops
    BY <1>7 DEF Begun
  <2>3. v \in WorldType /\ Only(in, v, p) /\ Entered(in, v, setting, call, p)
    BY <1>1, <1>3, <1>7, <2>1, EnterWriteEffect
  <2> QED
    BY <1>1, <1>3, <2>3, EnteredChain
<1> QED
  BY <1>4, <1>5, <1>6, <1>7, CallHas

(* At the exit, before the epilogue: the page is gone and the result known. *)
Leaving(w, v, s, c, p) ==
  /\ v.proc[p].state = "KERNEL" /\ v.at[p] = "exit"
  /\ v.polls = w.polls
  /\ v.inuse = w.inuse \ {w.proc[p].io_channel_offset}
  /\ Tells(v, s, c, p, IF v.proc[p].syscall_dummy THEN v.proc[p].syscall_result ELSE v.ret[p])

(* Or the write has to wait ...                                            *)
Parked(w, v, s, c, p) ==
  /\ v.proc[p].state = "WAITWRITE" /\ c[p].op = "write" /\ ~c[p].nonblocking
  /\ v.at[p] = "exit" /\ v.ret[p] > 0
  /\ Channelled(v, s, c, p) \/ Spurned(v, s, c, p)
  /\ v.polls[p] = [w.polls[p] EXCEPT !["w"] = w.polls[p]["w"] + 1]
  /\ v.proc[p].io_channel_offset = w.proc[p].io_channel_offset
  /\ v.inuse = w.inuse

(* ... or has waited and failed.                                           *)
Jammed(w, v, s, c, p) ==
  /\ v.proc[p].state = "WAITWRITE" /\ c[p].op = "write" /\ v.at[p] = "exit"
  /\ Sticks(s) /\ ~(v.ret[p] > 0)
  /\ v.polls = w.polls

(* How the exit of a call ends.                                            *)
Exited(w, v, s, c, p) ==
  \/ /\ v.proc[p].state = "USER" /\ v.at[p] = "exit" /\ Tells(v, s, c, p, v.ret[p])
     /\ v.polls[p] = w.polls[p]
     /\ v.inuse = w.inuse \ {w.proc[p].io_channel_offset}
  \/ Parked(w, v, s, c, p)
  \/ Jammed(w, v, s, c, p)

(* What a refused read tells: nothing moved, and its error.                *)
LEMMA SpurnedTells ==
  ASSUME NEW v, NEW s, NEW c, NEW p, NEW r, v.promise[p] # None,
         c[p].op = "read" => v.moved[p] = 0 /\ (v.promise[p] # EINTR => r = v.promise[p])
  PROVE  Tells(v, s, c, p, r)
  BY DEF Tells

(* A call that failed and moved nothing.                                   *)
LEMMA FailedTells ==
  ASSUME NEW v, NEW s, NEW c, NEW p, NEW r \in Int, v.promise[p] = None, r < 0, v.moved[p] = 0
  PROVE  Tells(v, s, c, p, r)
<1>1. ~(r >= 0)
  BY SMT
<1> QED
  BY <1>1 DEF Tells

LEMMA ResultsAreInts == Results \subseteq Int
  BY SMT, ZeroLength DEF Results, Lengths, EINTR, EIO, EAGAIN, ENOMEM, ENOSPC, EPIPE, Pid

LEMMA ExitReadEffect ==
  ASSUME NEW w \in WorldType, NEW p \in Procs, call \in CallsType, call[p].op = "read",
         w.proc[p].state = "KERNEL", w.at[p] = "exit", Diverted(w, setting, call, p),
         NEW v \in ExitRead(w, p)
  PROVE  v \in WorldType /\ Only(w, v, p) /\ Leaving(w, v, setting, call, p)
<1> DEFINE page == w.proc[p].io_channel_offset
           n == w.proc[p].diverted_length
           late == w.proc[p].syscall_result = EINTR /\ n > 0
           out == Returns(w, p, n)
<1>1. w.proc[p] \in ProcType /\ w.ret[p] \in Results /\ w.moved[p] \in Lengths
  BY WorldHas
<1>2. v = pfs_channel_free(IF late THEN out ELSE w, page)
  BY DEF ExitRead, Returns
<1>3. n \in Lengths /\ n \in Nat /\ n \in Results
  BY SMT, <1>1, ZeroLength DEF ProcType, Results, Lengths
<1> HIDE DEF page, out
<1>4. CASE late
  <2>1. Spurned(w, setting, call, p)
    BY SMT, <1>3, <1>4 DEF Diverted, Channelled, Dummied
  <2>2. out \in WorldType /\ Only(w, out, p) /\ Returned(w, out, p, n)
    BY <1>3, ResultEffect DEF out
  <2>3. v \in WorldType /\ Only(out, v, p) /\ Freed(out, v, p, page)
    BY <1>2, <1>4, <2>2, FreeEffect
  <2>4. Only(w, v, p)
    BY <2>2, <2>3, OnlyChain
  <2>5. v.promise[p] = EINTR /\ EINTR # None /\ v.moved[p] = 0
    BY SMT, <1>4, <2>1, <2>2, <2>3 DEF Spurned, Returned, Freed, EINTR, None
  <2>6. /\ v.proc[p].state = "KERNEL" /\ v.at[p] = "exit" /\ v.polls = w.polls
        /\ v.inuse = w.inuse \ {page}
    BY SMT, <1>1, <2>2, <2>3 DEF Returned, Freed, ProcType
  <2>7. Leaving(w, v, setting, call, p)
    BY <2>5, <2>6, SpurnedTells DEF Leaving, page
  <2> QED
    BY <2>3, <2>4, <2>7
<1>5. CASE ~late
  <2>1. v \in WorldType /\ Only(w, v, p) /\ Freed(w, v, p, page)
    BY <1>2, <1>5, FreeEffect
  <2>2. /\ v.proc = w.proc /\ v.at = w.at /\ v.ret = w.ret /\ v.moved = w.moved
        /\ v.promise = w.promise /\ v.polls = w.polls /\ v.inuse = w.inuse \ {page}
    BY <2>1 DEF Freed
  <2> DEFINE r == IF v.proc[p].syscall_dummy THEN v.proc[p].syscall_result ELSE v.ret[p]
  <2>3. Tells(v, setting, call, p, r)
    <3>1. CASE Channelled(w, setting, call, p)
      <4>1. r = n /\ v.moved[p] = n /\ v.promise[p] = None
        BY <2>2, <3>1 DEF Channelled
      <4>2. ~(n < 0)
        BY SMT, <1>3
      <4> QED
        BY <3>1, <4>1, <4>2 DEF Tells, Channelled
    <3>2. CASE Dummied(w, setting, call, p)
      <4>1. /\ r = w.proc[p].syscall_result /\ r <= 0 /\ v.moved[p] = 0 /\ v.promise[p] = None
        BY <2>2, <3>2 DEF Dummied
      <4>2. r \in Int /\ call[p].length \in Nat
        <5>1. w.proc[p].syscall_result \in Int
          BY <1>1, ResultsAreInts DEF ProcType
        <5>2. call[p].length \in Nat
          BY SMT, CallHas, ZeroLength DEF Lengths
        <5> QED
          BY <4>1, <5>1, <5>2
      <4> HIDE DEF r
      <4>3. CASE r = 0
        BY SMT, <4>1, <4>2, <4>3 DEF Tells
      <4>4. CASE r # 0
        <5>1. r < 0
          BY SMT, <4>1, <4>2, <4>4
        <5> QED
          BY <4>1, <4>2, <5>1, FailedTells
      <4> QED
        BY <4>3, <4>4
    <3>3. CASE Spurned(w, setting, call, p)
      BY <2>2, <3>3, SpurnedTells DEF Spurned
    <3> QED
      BY <3>1, <3>2, <3>3 DEF Diverted
  <2>4. Leaving(w, v, setting, call, p)
    BY <2>2, <2>3 DEF Leaving, page
  <2> QED
    BY <2>1, <2>4
<1> QED
  BY <1>4, <1>5

LEMMA WriteOutEffect ==
  ASSUME NEW w \in WorldType, NEW p \in Procs, call \in CallsType, call[p].op = "write",
         w.proc[p].state \in {"KERNEL", "WAITWRITE"}, w.at[p] = "exit",
         w.proc[p].state = "WAITWRITE" => ~call[p].nonblocking,
         Channelled(w, setting, call, p) \/ Spurned(w, setting, call, p),
         w.ret[p] > 0, NEW n \in WriteResults(w, w.ret[p]), NEW v, v = WriteOut(w, p, n)
  PROVE  /\ v \in WorldType /\ Only(w, v, p)
         /\ \/ Leaving(w, v, setting, call, p) \/ Parked(w, v, setting, call, p)
            \/ Jammed(w, v, setting, call, p)
<1> DEFINE page == w.proc[p].io_channel_offset
           result == Returns(w, p, n)
           freed == pfs_channel_free(result, page)
           parked == [w EXCEPT !.proc[p].state = "WAITWRITE", !.proc[p].syscall_result = -1]
           broken == [freed EXCEPT !.proc[p].state = "KERNEL"]
<1>1. w.proc[p] \in ProcType /\ w.polls[p] \in [{"r", "w"} -> Nat] /\ w.room \in Lengths
  BY WorldHas
<1>2. /\ w.moved[p] = 0 /\ "write" \in setting.ops
      /\ w.promise[p] = None => /\ ~w.proc[p].syscall_dummy
                                /\ CanCut(setting, call[p].length) => w.ret[p] <= call[p].length
  BY DEF Channelled, Spurned
<1>15. w.ret[p] \in Nat
  <2>1. w.ret[p] \in Int
    BY WorldHas, ResultsAreInts
  <2> QED
    BY SMT, <2>1
<1>3. \/ n \in 0 .. w.room /\ n <= w.ret[p]
      \/ n = EAGAIN \/ n = EPIPE \/ (n = EIO /\ Sticks(setting))
  BY <1>2, <1>15, WriteResultsRange DEF Sticks
<1>4. n \in Results /\ n \in Int
  BY SMT, <1>1, <1>3, ZeroLength DEF Results, Lengths, EAGAIN, EPIPE, EIO
<1>5. /\ n >= 0 => v = Gave(freed, p, n)
      /\ n = EAGAIN /\ ~call[p].nonblocking => v = pfs_poll_wakeon(parked, p, "w")
      /\ n = EAGAIN /\ call[p].nonblocking => v = freed
      /\ n = EPIPE => v = broken
      /\ n = EIO => v = freed
  <2>1. v = CASE n >= 0 -> Gave(freed, p, n)
              [] n = EAGAIN /\ ~call[p].nonblocking -> pfs_poll_wakeon(parked, p, "w")
              [] n = EPIPE -> broken
              [] OTHER -> freed
    BY DEF WriteOut, Returns, Gave
  <2> HIDE DEF parked, broken, freed
  <2> QED
    BY SMT, <1>4, <2>1 DEF EAGAIN, EPIPE, EIO
<1> HIDE DEF page
<1>6. result \in WorldType /\ Only(w, result, p) /\ Returned(w, result, p, n)
  BY <1>4, ResultEffect
<1> HIDE DEF result
<1>7. freed \in WorldType /\ Only(result, freed, p) /\ Freed(result, freed, p, page)
  BY <1>6, FreeEffect
<1> HIDE DEF freed
<1>8. Only(w, freed, p)
  BY <1>6, <1>7, OnlyChain
<1>9. /\ freed.proc[p].state = w.proc[p].state /\ freed.proc[p].syscall_dummy = w.proc[p].syscall_dummy
      /\ freed.proc[p].syscall_result = n
      /\ freed.ret[p] = n /\ freed.moved = w.moved /\ freed.promise = w.promise
      /\ freed.room = w.room /\ freed.polls = w.polls /\ freed.at = w.at
      /\ freed.inuse = w.inuse \ {page}
  BY SMT, <1>1, <1>6, <1>7 DEF Returned, Freed, ProcType
<1>10. freed.proc[p] \in ProcType
  BY <1>7, WorldHas
<1>16. ASSUME NEW u, n < 0, u.moved[p] = 0, u.promise[p] = w.promise[p], NEW r,
              u.promise[p] = None => r = n
       PROVE  Tells(u, setting, call, p, r)
  BY <1>4, <1>16, FailedTells, SpurnedTells
<1>11. CASE n >= 0
  <2>1. n \in 0 .. freed.room /\ freed.moved[p] + n \in Lengths
    BY SMT, <1>1, <1>2, <1>3, <1>9, <1>11, ZeroLength DEF Lengths, EAGAIN, EPIPE, EIO
  <2>2. v \in WorldType /\ Only(freed, v, p) /\ HasGiven(freed, v, p, n)
    BY <1>5, <1>7, <1>11, <2>1, GaveEffect
  <2>3. Only(w, v, p)
    BY <1>8, <2>2, OnlyChain
  <2>4. /\ v.proc[p].state = "KERNEL" /\ v.at[p] = "exit" /\ v.polls = w.polls
        /\ v.inuse = w.inuse \ {page} /\ v.ret[p] = n /\ v.moved[p] = n
        /\ v.proc[p].syscall_dummy = w.proc[p].syscall_dummy /\ v.promise[p] = w.promise[p]
    BY SMT, <1>2, <1>4, <1>9, <1>10, <2>2 DEF HasGiven, ProcType
  <2>5. w.promise[p] = None /\ CanCut(setting, call[p].length) => n <= call[p].length
    <3>1. n <= w.ret[p]
      BY SMT, <1>3, <1>11 DEF EAGAIN, EPIPE, EIO
    <3>2. call[p].length \in Int
      BY SMT, CallHas, ZeroLength DEF Lengths
    <3> QED
      BY SMT, <1>2, <1>4, <1>15, <3>1, <3>2
  <2> DEFINE r == IF v.proc[p].syscall_dummy THEN v.proc[p].syscall_result ELSE v.ret[p]
  <2>7. Tells(v, setting, call, p, r)
    <3>1. CASE w.promise[p] = None
      <4>1. r = n /\ ~(n < 0)
        BY SMT, <1>2, <1>4, <1>11, <2>4, <3>1
      <4> QED
        BY <2>4, <2>5, <3>1, <4>1 DEF Tells
    <3>2. CASE w.promise[p] # None
      BY <2>4, <3>2, SpurnedTells
    <3> QED
      BY <3>1, <3>2
  <2>6. Leaving(w, v, setting, call, p)
    BY <2>4, <2>7 DEF Leaving, page
  <2> QED
    BY <2>2, <2>3, <2>6
<1>12. CASE n = EAGAIN /\ ~call[p].nonblocking
  <2> DEFINE pr == [w.proc[p] EXCEPT !.state = "WAITWRITE", !.syscall_result = -1]
             u == [w EXCEPT !.proc[p].state = "WAITWRITE", !.proc[p].syscall_result = -1]
  <2>1. pr \in ProcType
    BY <1>1 DEF ProcType, Results
  <2>2. u = ReplaceProc(w, p, pr)
    BY <1>1 DEF WorldType, ReplaceProc
  <2>3. v = pfs_poll_wakeon(u, p, "w")
    BY <1>5, <1>12
  <2> HIDE DEF u, pr
  <2>4. u \in WorldType /\ Only(w, u, p) /\ ProcSet(w, u, p, pr)
    BY <2>1, <2>2, SetProc
  <2>5. v \in WorldType /\ Only(u, v, p) /\ Polled(u, v, p, "w")
    BY <2>3, <2>4, WakeonEffect
  <2>6. Only(w, v, p)
    BY <2>4, <2>5, OnlyChain
  <2>11. /\ v.proc[p] = pr
         /\ v.at = w.at /\ v.ret = w.ret /\ v.real = w.real
         /\ v.moved = w.moved /\ v.promise = w.promise /\ v.inuse = w.inuse
    BY <2>4, <2>5 DEF ProcSet, Polled
  <2>7. /\ v.proc[p].state = "WAITWRITE"
        /\ v.proc[p].syscall_dummy = w.proc[p].syscall_dummy
        /\ v.proc[p].diverted_length = w.proc[p].diverted_length
        /\ v.proc[p].io_channel_offset = w.proc[p].io_channel_offset
    BY <1>1, <2>11 DEF pr, ProcType
  <2>10. v.polls[p] = [w.polls[p] EXCEPT !["w"] = w.polls[p]["w"] + 1]
    BY <2>4, <2>5 DEF ProcSet, Polled
  <2>8. Channelled(v, setting, call, p) \/ Spurned(v, setting, call, p)
    BY <2>7, <2>11 DEF Channelled, Spurned
  <2>9. Parked(w, v, setting, call, p)
    BY <1>12, <2>7, <2>8, <2>10, <2>11 DEF Parked
  <2> QED
    BY <2>5, <2>6, <2>9
<1>13. CASE n = EAGAIN /\ call[p].nonblocking
  <2>1. v = freed /\ w.proc[p].state = "KERNEL"
    BY <1>5, <1>13
  <2>2. n < 0
    BY SMT, <1>13 DEF EAGAIN
  <2> DEFINE r == IF v.proc[p].syscall_dummy THEN v.proc[p].syscall_result ELSE v.ret[p]
  <2>4. Tells(v, setting, call, p, r)
    BY <1>2, <1>9, <1>16, <2>1, <2>2
  <2>3. Leaving(w, v, setting, call, p)
    BY <1>9, <2>1, <2>4 DEF Leaving, page
  <2> QED
    BY <1>7, <1>8, <2>1, <2>3
<1>14. CASE n = EPIPE
  <2> DEFINE pr == [freed.proc[p] EXCEPT !.state = "KERNEL"]
  <2>1. pr \in ProcType
    BY <1>10 DEF ProcType
  <2>2. v = ReplaceProc(freed, p, pr)
    BY <1>5, <1>7, <1>14 DEF WorldType, ReplaceProc
  <2> HIDE DEF pr
  <2>3. v \in WorldType /\ Only(freed, v, p) /\ ProcSet(freed, v, p, pr)
    BY <1>7, <2>1, <2>2, SetProc
  <2>4. Only(w, v, p)
    BY <1>8, <2>3, OnlyChain
  <2>5. /\ v.proc[p].state = "KERNEL" /\ v.at[p] = "exit" /\ v.polls = w.polls
        /\ v.inuse = w.inuse \ {page} /\ v.ret[p] = n /\ v.moved[p] = 0
        /\ v.proc[p].syscall_dummy = w.proc[p].syscall_dummy /\ v.promise[p] = w.promise[p]
    BY SMT, <1>2, <1>9, <1>10, <2>3 DEF ProcSet, pr, ProcType
  <2>6. n < 0
    BY SMT, <1>14 DEF EPIPE
  <2> DEFINE r == IF v.proc[p].syscall_dummy THEN v.proc[p].syscall_result ELSE v.ret[p]
  <2>8. Tells(v, setting, call, p, r)
    BY <1>2, <1>16, <2>5, <2>6
  <2>7. Leaving(w, v, setting, call, p)
    BY <2>5, <2>8 DEF Leaving, page
  <2> QED
    BY <2>3, <2>4, <2>7
<1>17. CASE n = EIO /\ Sticks(setting)
  <2>1. v = freed
    BY <1>5, <1>17
  <2>2. n < 0 /\ ~(n > 0)
    BY SMT, <1>17 DEF EIO
  <2>3. CASE w.proc[p].state = "KERNEL"
    <3> DEFINE r == IF v.proc[p].syscall_dummy THEN v.proc[p].syscall_result ELSE v.ret[p]
    <3>1. Tells(v, setting, call, p, r)
      BY <1>2, <1>9, <1>16, <2>1, <2>2
    <3>2. Leaving(w, v, setting, call, p)
      BY <1>9, <2>1, <2>3, <3>1 DEF Leaving, page
    <3> QED
      BY <1>7, <1>8, <2>1, <3>2
  <2>4. CASE w.proc[p].state = "WAITWRITE"
    <3>1. Jammed(w, v, setting, call, p)
      BY <1>9, <1>17, <2>1, <2>2, <2>4 DEF Jammed
    <3> QED
      BY <1>7, <1>8, <2>1, <3>1
  <2> QED
    BY <2>3, <2>4
<1> QED
  BY SMT, <1>3, <1>4, <1>11, <1>12, <1>13, <1>14, <1>17

LEMMA ExitWriteEffect ==
  ASSUME NEW w \in WorldType, NEW p \in Procs, call \in CallsType, call[p].op = "write",
         w.proc[p].state \in {"KERNEL", "WAITWRITE"}, w.at[p] = "exit",
         w.proc[p].state = "KERNEL" => Channelled(w, setting, call, p) \/ Spurned(w, setting, call, p),
         w.proc[p].state = "WAITWRITE" => Waiting(w, setting, call, p),
         NEW v \in ExitWrite(w, p)
  PROVE  /\ v \in WorldType /\ Only(w, v, p)
         /\ \/ Leaving(w, v, setting, call, p) \/ Parked(w, v, setting, call, p)
            \/ Jammed(w, v, setting, call, p)
<1>1. CASE w.ret[p] > 0
  <2>1. PICK n \in WriteResults(w, w.ret[p]) : v = WriteOut(w, p, n)
    BY <1>1 DEF ExitWrite
  <2>2. /\ Channelled(w, setting, call, p) \/ Spurned(w, setting, call, p)
        /\ w.proc[p].state = "WAITWRITE" => ~call[p].nonblocking
    BY <1>1 DEF Waiting
  <2> QED
    BY <1>1, <2>1, <2>2, WriteOutEffect
<1>2. CASE ~(w.ret[p] > 0)
  <2> DEFINE page == w.proc[p].io_channel_offset
  <2>1. v = pfs_channel_free(w, page)
    BY <1>2 DEF ExitWrite
  <2> HIDE DEF page
  <2>2. v \in WorldType /\ Only(w, v, p) /\ Freed(w, v, p, page)
    BY <2>1, FreeEffect
  <2>3. w.proc[p] \in ProcType
    BY WorldHas
  <2>4. CASE w.proc[p].state = "KERNEL"
    <3> DEFINE r == IF v.proc[p].syscall_dummy THEN v.proc[p].syscall_result ELSE v.ret[p]
    <3>1. CASE Channelled(w, setting, call, p)
      <4>1. w.ret[p] = 0 /\ w.moved[p] = 0
        BY SMT, <1>2, <2>3, <3>1, ZeroLength DEF Channelled, ProcType, Lengths
      <4>2. call[p].length >= 0
        BY SMT, CallHas, ZeroLength DEF Lengths
      <4>3. r = 0 /\ v.moved[p] = 0
        BY <2>2, <3>1, <4>1 DEF Freed, Channelled
      <4>4. Tells(v, setting, call, p, r)
        BY <2>2, <3>1, <4>2, <4>3 DEF Tells, Freed, Channelled
      <4> QED
        BY <2>2, <2>4, <4>4 DEF Leaving, Freed, page
    <3>2. CASE Spurned(w, setting, call, p)
      <4>1. Tells(v, setting, call, p, r)
        BY <2>2, <3>2, SpurnedTells DEF Freed, Spurned
      <4> QED
        BY <2>2, <2>4, <4>1 DEF Leaving, Freed, page
    <3> QED
      BY <2>4, <3>1, <3>2
  <2>5. CASE w.proc[p].state = "WAITWRITE"
    <3>1. Jammed(w, v, setting, call, p)
      BY <1>2, <2>2, <2>5 DEF Waiting, Freed, Jammed
    <3> QED
      BY <2>2, <3>1
  <2> QED
    BY <2>4, <2>5
<1> QED
  BY <1>1, <1>2

(* The end of decode_syscall turns what is leaving into a finished call.   *)
LEMMA EpilogueExits ==
  ASSUME NEW w \in WorldType, NEW u \in WorldType, NEW p \in Procs, Only(w, u, p),
         Leaving(w, u, setting, call, p), NEW v, v = Epilogue(u, p)
  PROVE  v \in WorldType /\ Only(w, v, p) /\ Exited(w, v, setting, call, p)
<1>1. u.proc[p].state = "KERNEL"
  BY DEF Leaving
<1>2. v \in WorldType /\ Only(u, v, p) /\ CallOver(u, v, p)
  BY <1>1, EpilogueEffect
<1>3. Only(w, v, p)
  BY <1>2, OnlyChain
<1>4. u.proc[p] \in ProcType
  BY WorldHas
<1>5. v.proc[p].state = "USER"
  BY <1>2, <1>4 DEF CallOver, ProcType
<1>6. /\ v.at[p] = "exit" /\ v.polls[p] = w.polls[p]
      /\ v.inuse = w.inuse \ {w.proc[p].io_channel_offset}
  BY <1>2 DEF CallOver, Leaving
<1>7. Tells(v, setting, call, p, v.ret[p])
  BY <1>2 DEF CallOver, Leaving, Tells
<1> QED
  BY <1>2, <1>3, <1>5, <1>6, <1>7 DEF Exited

(* The exit of a call ends in one of the ways Exited lists.                *)
LEMMA ExitSyscallEffect ==
  ASSUME NEW w \in WorldType, NEW p \in Procs, call \in CallsType, w.at[p] = "exit",
         \/ w.proc[p].state = "KERNEL" /\ Diverted(w, setting, call, p)
         \/ w.proc[p].state = "WAITWRITE" /\ Waiting(w, setting, call, p),
         NEW v \in ExitSyscall(w, p)
  PROVE  v \in WorldType /\ Only(w, v, p) /\ Exited(w, v, setting, call, p)
<1>1. PICK u \in IF call[p].op = "read" THEN ExitRead(w, p) ELSE ExitWrite(w, p) :
        v = Epilogue(u, p)
  BY DEF ExitSyscall
<1>2. CASE call[p].op = "read"
  <2>1. w.proc[p].state = "KERNEL" /\ Diverted(w, setting, call, p)
    BY <1>2 DEF Waiting
  <2>2. u \in ExitRead(w, p)
    BY <1>1, <1>2
  <2>3. u \in WorldType /\ Only(w, u, p) /\ Leaving(w, u, setting, call, p)
    BY <1>2, <2>1, <2>2, ExitReadEffect
  <2> QED
    BY <1>1, <2>3, EpilogueExits
<1>3. CASE call[p].op = "write"
  <2>1. u \in ExitWrite(w, p)
    BY <1>1, <1>3
  <2>2. /\ w.proc[p].state = "KERNEL" => Channelled(w, setting, call, p) \/ Spurned(w, setting, call, p)
        /\ w.proc[p].state = "WAITWRITE" => Waiting(w, setting, call, p)
    BY <1>3 DEF Diverted, Dummied
  <2>3. w.proc[p].state \in {"KERNEL", "WAITWRITE"}
    OBVIOUS
  <2>4. /\ u \in WorldType /\ Only(w, u, p)
        /\ \/ Leaving(w, u, setting, call, p) \/ Parked(w, u, setting, call, p)
           \/ Jammed(w, u, setting, call, p)
    BY <1>3, <2>1, <2>2, <2>3, ExitWriteEffect
  <2>5. CASE Leaving(w, u, setting, call, p)
    BY <1>1, <2>4, <2>5, EpilogueExits
  <2>6. CASE Parked(w, u, setting, call, p) \/ Jammed(w, u, setting, call, p)
    <3>1. v = u
      BY <1>1, <2>6 DEF Epilogue, Parked, Jammed
    <3> QED
      BY <2>4, <2>6, <3>1 DEF Exited
  <2> QED
    BY <2>4, <2>5, <2>6
<1> QED
  BY <1>2, <1>3, CallHas

(* Where a dispatch leaves its process.                                    *)
Dispatched(w, v, s, c, p) ==
  /\ Running(v, s, c, p) \/ Waiting(v, s, c, p)
  /\ ~Untidy(s) => PageStep(w, v, p)
  /\ PollStep(w, v, s, p)

LEMMA PollStepSame ==
  ASSUME NEW w \in WorldType, NEW v, NEW s, NEW p \in Procs, v.polls[p] = w.polls[p],
         v.proc[p].state \in {"WAITREAD", "WAITWRITE"} => Sticks(s)
  PROVE  PollStep(w, v, s, p)
  BY DEF PollStep, WaitsFor

LEMMA PollStepMore ==
  ASSUME NEW w \in WorldType, NEW v, NEW s, NEW p \in Procs, NEW flag \in {"r", "w"},
         v.polls[p] = [w.polls[p] EXCEPT ![flag] = w.polls[p][flag] + 1],
         v.proc[p].state = IF flag = "r" THEN "WAITREAD" ELSE "WAITWRITE"
  PROVE  PollStep(w, v, s, p)
<1>1. w.polls[p] \in [{"r", "w"} -> Nat]
  BY WorldHas
<1> QED
  BY <1>1 DEF PollStep, WaitsFor

(* The call was entered, and the process goes on unless it waits.          *)
LEMMA ContinueEntered ==
  ASSUME NEW w \in WorldType, NEW u \in WorldType, NEW p \in Procs, Only(w, u, p),
         w.proc[p].state \in {"USER", "WAITREAD"}, Begun(w, setting, call, p),
         Entered(w, u, setting, call, p),
         NEW v, v = IF u.proc[p].state \in {"KERNEL", "USER"} THEN tracer_continue(u, p) ELSE u
  PROVE  v \in WorldType /\ Only(w, v, p) /\ Dispatched(w, v, setting, call, p)
<1>1. CASE u.proc[p].state = "KERNEL"
  <2>1. v = tracer_continue(u, p)
    BY <1>1
  <2>2. v \in WorldType /\ Only(u, v, p) /\ Continued(u, v, p)
    BY <2>1, ContinueEffect
  <2>3. Only(w, v, p)
    BY <2>2, OnlyChain
  <2>4. /\ u.at[p] = "entry" /\ Diverted(u, setting, call, p) /\ u.polls[p] = w.polls[p]
        /\ u.promise[p] = None => /\ u.proc[p].io_channel_offset \notin w.inuse
                                  /\ u.inuse = w.inuse \cup {u.proc[p].io_channel_offset}
    BY <1>1 DEF Entered
  <2>5. /\ v.at[p] = "incall" /\ v.proc = u.proc /\ v.polls = u.polls /\ v.real = u.real
        /\ v.ret = u.ret /\ v.moved = u.moved /\ v.promise = u.promise /\ v.inuse = u.inuse
    BY <2>2, <2>4 DEF Continued
  <2>6. Diverted(v, setting, call, p)
    BY <2>4, <2>5 DEF Diverted, Channelled, Dummied, Spurned
  <2>7. Running(v, setting, call, p)
    BY <1>1, <2>5, <2>6 DEF Running
  <2>8. ASSUME ~Untidy(setting) PROVE PageStep(w, v, p)
    <3>1. u.promise[p] = None
      BY <2>4, <2>8 DEF Diverted, Channelled, Dummied, Spurned
    <3>2. ~Holds(w, p) /\ Holds(v, p)
      BY <1>1, <2>5, <3>1 DEF Holds
    <3> QED
      BY <2>4, <2>5, <3>1, <3>2 DEF PageStep
  <2>9. PollStep(w, v, setting, p)
    <3>1. v.polls[p] = w.polls[p] /\ v.proc[p].state \notin {"WAITREAD", "WAITWRITE"}
      BY <1>1, <2>4, <2>5
    <3> QED
      BY <3>1, PollStepSame
  <2> QED
    BY <2>2, <2>3, <2>7, <2>8, <2>9 DEF Dispatched
<1>2. CASE u.proc[p].state # "KERNEL"
  <2>1. /\ u.at[p] = "entry" /\ u.proc[p].state = "WAITREAD" /\ call[p].op = "read" /\ u.moved[p] = 0
        /\ u.polls[p] = [w.polls[p] EXCEPT !["r"] = w.polls[p]["r"] + 1]
        /\ u.inuse = w.inuse
    BY <1>2 DEF Entered
  <2>2. v = u
    BY <2>1
  <2>3. Waiting(v, setting, call, p)
    BY <2>1, <2>2 DEF Waiting, Begun
  <2>4. PollStep(w, v, setting, p)
    <3>1. v.proc[p].state = IF "r" = "r" THEN "WAITREAD" ELSE "WAITWRITE"
      BY <2>1, <2>2
    <3> QED
      BY <2>1, <2>2, <3>1, PollStepMore
  <2>5. ~Holds(w, p) /\ ~Holds(v, p)
    BY <2>1, <2>2 DEF Holds
  <2>6. PageStep(w, v, p)
    BY <2>1, <2>2, <2>5 DEF PageStep
  <2> QED
    BY <2>2, <2>3, <2>4, <2>6 DEF Dispatched
<1> QED
  BY <1>1, <1>2

(* The same after an exit.                                                 *)
LEMMA ContinueExited ==
  ASSUME NEW w \in WorldType, NEW u \in WorldType, NEW p \in Procs, Only(w, u, p),
         ~Untidy(setting) => Holds(w, p),
         Exited(w, u, setting, call, p),
         NEW v, v = IF u.proc[p].state \in {"KERNEL", "USER"} THEN tracer_continue(u, p) ELSE u
  PROVE  v \in WorldType /\ Only(w, v, p) /\ Dispatched(w, v, setting, call, p)
<1>1. CASE u.proc[p].state = "USER"
  <2>1. v = tracer_continue(u, p)
    BY <1>1
  <2>2. v \in WorldType /\ Only(u, v, p) /\ Continued(u, v, p)
    BY <2>1, ContinueEffect
  <2>3. Only(w, v, p)
    BY <2>2, OnlyChain
  <2>4. /\ u.at[p] = "exit" /\ Tells(u, setting, call, p, u.ret[p]) /\ u.polls[p] = w.polls[p]
        /\ u.inuse = w.inuse \ {w.proc[p].io_channel_offset}
    BY <1>1 DEF Exited, Parked, Jammed
  <2>5. /\ v.at[p] = "user" /\ v.proc = u.proc /\ v.polls = u.polls
        /\ v.ret = u.ret /\ v.moved = u.moved /\ v.promise = u.promise /\ v.inuse = u.inuse
    BY <2>2, <2>4 DEF Continued
  <2>6. Running(v, setting, call, p)
    BY <1>1, <2>4, <2>5 DEF Running, Finished, Tells
  <2>7. ~Holds(v, p)
    BY <1>1, <2>5 DEF Holds
  <2>8. ~Untidy(setting) => PageStep(w, v, p)
    BY <2>4, <2>5, <2>7 DEF PageStep
  <2>9. PollStep(w, v, setting, p)
    <3>1. v.polls[p] = w.polls[p] /\ v.proc[p].state \notin {"WAITREAD", "WAITWRITE"}
      BY <1>1, <2>4, <2>5
    <3> QED
      BY <3>1, PollStepSame
  <2> QED
    BY <2>2, <2>3, <2>6, <2>8, <2>9 DEF Dispatched
<1>2. CASE Parked(w, u, setting, call, p)
  <2>2. v = u
    BY <1>2 DEF Parked
  <2>3. Waiting(v, setting, call, p)
    BY <1>2, <2>2 DEF Waiting, Parked
  <2>4. PollStep(w, v, setting, p)
    <3>1. /\ v.proc[p].state = IF "w" = "r" THEN "WAITREAD" ELSE "WAITWRITE"
          /\ v.polls[p] = [w.polls[p] EXCEPT !["w"] = w.polls[p]["w"] + 1]
      BY <1>2, <2>2 DEF Parked
    <3> QED
      BY <3>1, PollStepMore
  <2>5. Holds(v, p)
    BY <1>2, <2>2 DEF Holds, Parked
  <2>6. ~Untidy(setting) => PageStep(w, v, p)
    BY <1>2, <2>2, <2>5 DEF PageStep, Parked
  <2> QED
    BY <2>2, <2>3, <2>4, <2>6 DEF Dispatched
<1>3. CASE Jammed(w, u, setting, call, p)
  <2>1. v = u
    BY <1>3 DEF Jammed
  <2>2. Waiting(v, setting, call, p) /\ Untidy(setting)
    BY <1>3, <2>1 DEF Waiting, Jammed, Untidy
  <2>3. PollStep(w, v, setting, p)
    BY <1>3, <2>1, PollStepSame DEF Jammed
  <2> QED
    BY <2>1, <2>2, <2>3 DEF Dispatched
<1> QED
  BY <1>1, <1>2, <1>3 DEF Exited

(* pfs_dispatch64 takes a stopped or waiting process to where it runs or   *)
(* waits again, whatever the gremlins and the files do.                    *)
LEMMA DispatchEffect ==
  ASSUME NEW w \in WorldType, NEW p \in Procs, call \in CallsType,
         Stopped(w, setting, call, p) \/ Waiting(w, setting, call, p),
         ~Untidy(setting) /\ ~Holds(w, p) => Pages \ w.inuse # {},
         NEW v \in pfs_dispatch(w, p)
  PROVE  v \in WorldType /\ Only(w, v, p) /\ Dispatched(w, v, setting, call, p)
<1> DEFINE goes(u) == IF u.proc[p].state \in {"KERNEL", "USER"} THEN tracer_continue(u, p) ELSE u
           x == [w EXCEPT !.proc[p].interrupted = FALSE]
<1>1. w.proc[p] \in ProcType
  BY WorldHas
<1>2. PICK u \in CASE w.proc[p].state = "USER" -> EnterSyscall(x, p)
                   [] w.proc[p].state = "WAITREAD" -> EnterSyscall(w, p)
                   [] w.proc[p].state \in {"KERNEL", "WAITWRITE"} -> ExitSyscall(w, p) :
        v = goes(u)
  BY DEF pfs_dispatch
<1>3. CASE w.proc[p].state = "USER"
  <2> DEFINE pr == [w.proc[p] EXCEPT !.interrupted = FALSE]
  <2>1. pr \in ProcType
    BY <1>1 DEF ProcType
  <2>2. x = ReplaceProc(w, p, pr)
    BY <1>1 DEF WorldType, ReplaceProc
  <2>3. u \in EnterSyscall(x, p)
    BY <1>2, <1>3
  <2> HIDE DEF x, pr
  <2>4. x \in WorldType /\ Only(w, x, p) /\ ProcSet(w, x, p, pr)
    BY <2>1, <2>2, SetProc
  <2>5. Begun(w, setting, call, p) /\ ~Holds(w, p)
    BY <1>3 DEF Stopped, Waiting, Holds
  <2>6. Begun(x, setting, call, p) /\ x.inuse = w.inuse /\ x.polls = w.polls
    BY <2>4, <2>5 DEF ProcSet, Begun
  <2>7. u \in WorldType /\ Only(x, u, p) /\ Entered(x, u, setting, call, p)
    BY <2>3, <2>4, <2>5, <2>6, EnterSyscallEffect
  <2>8. Only(w, u, p) /\ Entered(w, u, setting, call, p)
    BY <2>4, <2>6, <2>7, EnteredChain
  <2>9. w.proc[p].state \in {"USER", "WAITREAD"}
    BY <1>3
  <2> QED
    BY <1>2, <2>5, <2>7, <2>8, <2>9, ContinueEntered
<1>4. CASE w.proc[p].state = "WAITREAD"
  <2>1. u \in EnterSyscall(w, p)
    BY <1>2, <1>4
  <2>2. Begun(w, setting, call, p) /\ ~Holds(w, p)
    BY <1>4 DEF Stopped, Waiting, Holds
  <2>3. u \in WorldType /\ Only(w, u, p) /\ Entered(w, u, setting, call, p)
    BY <2>1, <2>2, EnterSyscallEffect
  <2>4. w.proc[p].state \in {"USER", "WAITREAD"}
    BY <1>4
  <2> QED
    BY <1>2, <2>2, <2>3, <2>4, ContinueEntered
<1>5. CASE w.proc[p].state \in {"KERNEL", "WAITWRITE"}
  <2>1. u \in ExitSyscall(w, p)
    BY <1>2, <1>5
  <2>2. /\ w.at[p] = "exit"
        /\ \/ w.proc[p].state = "KERNEL" /\ Diverted(w, setting, call, p)
           \/ w.proc[p].state = "WAITWRITE" /\ Waiting(w, setting, call, p)
    BY <1>5 DEF Stopped, Waiting
  <2>3. u \in WorldType /\ Only(w, u, p) /\ Exited(w, u, setting, call, p)
    BY <2>1, <2>2, ExitSyscallEffect
  <2>4. ~Untidy(setting) => Holds(w, p)
    BY <2>2 DEF Holds, Diverted, Channelled, Dummied, Spurned
  <2> QED
    BY <1>2, <2>3, <2>4, ContinueExited
<1> QED
  BY <1>1, <1>3, <1>4, <1>5 DEF ProcType

---------------------------------------------------------------------------
(* The invariant.                                                          *)

Placed(w, s, c, E, p) ==
  IF p \in E THEN Stopped(w, s, c, p)
             ELSE Running(w, s, c, p) \/ Waiting(w, s, c, p)

(* The entries of a process that waits for a flag, and of one that does    *)
(* not.                                                                    *)
Entries(w, s, p) ==
  \A flag \in {"r", "w"} :
    IF WaitsFor(w, p, flag)
    THEN /\ w.polls[p][flag] <= MaxEntries
         /\ ~Sticks(s) => w.polls[p][flag] > 0
         /\ "signals" \notin s.faults => w.polls[p][flag] <= 1
    ELSE /\ w.polls[p][flag] <= MaxEntries - 1
         /\ "signals" \notin s.faults => w.polls[p][flag] = 0

(* Room for one more entry.                                                *)
Low(w, s, p) ==
  \A flag \in {"r", "w"} :
    /\ w.polls[p][flag] <= MaxEntries - 1
    /\ "signals" \notin s.faults => w.polls[p][flag] = 0

(* The pages in use are those of the processes that hold one, each its own. *)
Owned(w) ==
  /\ \A page \in w.inuse :
       \E p \in Procs : Holds(w, p) /\ w.proc[p].io_channel_offset = page
  /\ \A p \in Procs : Holds(w, p) => w.proc[p].io_channel_offset \in w.inuse
  /\ \A p, q \in Procs :
       Holds(w, p) /\ Holds(w, q) /\ w.proc[p].io_channel_offset = w.proc[q].io_channel_offset
         => p = q

WorldOK(w, s, c, E) ==
  /\ w \in WorldType
  /\ \A p \in Procs : Placed(w, s, c, E, p)
  /\ \A p \in Procs : Entries(w, s, p)
  /\ ~Untidy(s) => Owned(w)

Inv ==
  /\ call \in CallsType
  /\ setting \in Settings
  /\ due \subseteq Procs
  /\ events \subseteq Procs
  /\ WorldOK(World, setting, call, events)

(* With a page for every process, one that holds none finds one.           *)
LEMMA FreePage ==
  ASSUME NEW w \in WorldType, NEW p \in Procs, Owned(w), ~Holds(w, p), EnoughPages
  PROVE  Pages \ w.inuse # {}
<1> DEFINE users == {q \in Procs : Holds(w, q)}
           f == [q \in users |-> w.proc[q].io_channel_offset]
<1>1. f \in Surjection(users, w.inuse)
  BY DEF Owned, Surjection
<1>2. users \in SUBSET (Procs \ {p})
  OBVIOUS
<1>3. IsFiniteSet(Procs) /\ Cardinality(Procs) \in Nat /\ Cardinality(Procs) <= NumPages
  BY FS_CardinalityType DEF EnoughPages
<1>4. IsFiniteSet(Procs \ {p}) /\ Cardinality(Procs \ {p}) = Cardinality(Procs) - 1
  BY <1>3, FS_RemoveElement
<1>5. IsFiniteSet(users) /\ Cardinality(users) <= Cardinality(Procs \ {p})
  BY <1>2, <1>4, FS_Subset
<1> HIDE DEF users, f
<1>6. IsFiniteSet(w.inuse) /\ Cardinality(w.inuse) <= Cardinality(users)
  BY <1>1, <1>5, FS_Surjection
<1>7. Cardinality(Pages) = NumPages
  <2>1. 0 \in Int /\ NumPages - 1 \in Int /\ ~(0 > NumPages - 1) /\ NumPages \in Nat
    BY SMT, ConstantsAssumption
  <2> QED
    BY SMT, <2>1, FS_Interval DEF Pages
<1>8. Cardinality(w.inuse) \in Nat /\ Cardinality(users) \in Nat /\ NumPages \in Nat
  BY <1>5, <1>6, FS_CardinalityType, ConstantsAssumption
<1>9. w.inuse # Pages
  BY SMT, <1>3, <1>4, <1>5, <1>6, <1>7, <1>8
<1>10. w.inuse \subseteq Pages
  BY WorldHas
<1> QED
  BY <1>9, <1>10

(* What Only leaves alone stays placed, keeps its entries and its page.    *)
LEMMA OthersStay ==
  ASSUME NEW w, NEW v, NEW s, NEW c, NEW d, NEW E, NEW F, NEW p, NEW q \in Procs \ {p},
         Only(w, v, p), d[q] = c[q], q \in E <=> q \in F,
         Placed(w, s, c, E, q), Entries(w, s, q)
  PROVE  Placed(v, s, d, F, q) /\ Entries(v, s, q)
<1>1. /\ v.proc[q] = w.proc[q] /\ v.polls[q] = w.polls[q] /\ v.at[q] = w.at[q]
      /\ v.real[q] = w.real[q] /\ v.ret[q] = w.ret[q] /\ v.moved[q] = w.moved[q]
      /\ v.promise[q] = w.promise[q]
  BY DEF Only
<1>2. /\ Stopped(w, s, c, q) => Stopped(v, s, d, q)
      /\ Running(w, s, c, q) => Running(v, s, d, q)
      /\ Waiting(w, s, c, q) => Waiting(v, s, d, q)
  BY <1>1 DEF Stopped, Running, Waiting, Begun, Finished, Tells, Diverted, Channelled, Dummied, Spurned
<1>3. Placed(v, s, d, F, q)
  BY <1>2 DEF Placed
<1>4. Entries(v, s, q)
  BY <1>1 DEF Entries, WaitsFor
<1> QED
  BY <1>3, <1>4

LEMMA OwnedStep ==
  ASSUME NEW w, NEW v, NEW p \in Procs, Only(w, v, p), Owned(w), PageStep(w, v, p)
  PROVE  Owned(v)
<1>1. \A q \in Procs \ {p} : /\ Holds(v, q) <=> Holds(w, q)
                             /\ v.proc[q].io_channel_offset = w.proc[q].io_channel_offset
  BY DEF Only, Holds
<1>2. CASE /\ ~Holds(w, p) /\ Holds(v, p)
           /\ v.proc[p].io_channel_offset \notin w.inuse
           /\ v.inuse = w.inuse \cup {v.proc[p].io_channel_offset}
  BY SMT, <1>1, <1>2 DEF Owned
<1>3. CASE /\ Holds(w, p) /\ ~Holds(v, p)
           /\ v.inuse = w.inuse \ {w.proc[p].io_channel_offset}
  BY <1>1, <1>3 DEF Owned
<1>4. CASE /\ Holds(w, p) /\ Holds(v, p)
           /\ v.proc[p].io_channel_offset = w.proc[p].io_channel_offset
           /\ v.inuse = w.inuse
  BY <1>1, <1>4 DEF Owned
<1>5. CASE ~Holds(w, p) /\ ~Holds(v, p) /\ v.inuse = w.inuse
  BY <1>1, <1>5 DEF Owned
<1> QED
  BY <1>2, <1>3, <1>4, <1>5 DEF PageStep

LEMMA EntriesStep ==
  ASSUME NEW w \in WorldType, NEW v, NEW s, NEW p \in Procs, Low(w, s, p), PollStep(w, v, s, p)
  PROVE  Entries(v, s, p)
<1>1. w.polls[p] \in [{"r", "w"} -> Nat]
  BY WorldHas
<1> QED
  BY SMT, <1>1 DEF Low, PollStep, Entries, MaxEntries

(* A dispatch of p keeps the invariant, provided that p is stopped or      *)
(* waits and there is room for an entry.                                   *)
LEMMA DispatchKeeps ==
  ASSUME NEW w \in WorldType, NEW p \in Procs, NEW E, NEW F,
         call \in CallsType,
         Stopped(w, setting, call, p) \/ Waiting(w, setting, call, p),
         \A q \in Procs \ {p} : Placed(w, setting, call, E, q) /\ Entries(w, setting, q),
         ~Untidy(setting) => Owned(w),
         Low(w, setting, p),
         p \notin F, \A q \in Procs \ {p} : q \in E <=> q \in F,
         NEW v \in pfs_dispatch(w, p)
  PROVE  WorldOK(v, setting, call, F)
<1>1. ~Untidy(setting) /\ ~Holds(w, p) => Pages \ w.inuse # {}
  BY FreePage DEF Untidy
<1>2. v \in WorldType /\ Only(w, v, p) /\ Dispatched(w, v, setting, call, p)
  BY <1>1, DispatchEffect
<1>3. Placed(v, setting, call, F, p)
  BY <1>2 DEF Placed, Dispatched
<1>4. Entries(v, setting, p)
  BY <1>2, EntriesStep DEF Dispatched
<1>5. \A q \in Procs \ {p} : Placed(v, setting, call, F, q) /\ Entries(v, setting, q)
  BY <1>2, OthersStay
<1>6. ~Untidy(setting) => Owned(v)
  BY <1>2, OwnedStep DEF Dispatched
<1> QED
  BY <1>2, <1>3, <1>4, <1>5, <1>6 DEF WorldOK

---------------------------------------------------------------------------
(* Every action keeps the invariant.                                       *)

LEMMA WorldFields ==
  /\ World.proc = proc /\ World.inuse = inuse /\ World.polls = polls
  /\ World.avail = avail /\ World.room = room /\ World.at = at /\ World.real = real
  /\ World.ret = ret /\ World.moved = moved /\ World.promise = promise
  BY DEF World

LEMMA WorldFieldsNext ==
  /\ World'.proc = proc' /\ World'.inuse = inuse' /\ World'.polls = polls'
  /\ World'.avail = avail' /\ World'.room = room' /\ World'.at = at' /\ World'.real = real'
  /\ World'.ret = ret' /\ World'.moved = moved' /\ World'.promise = promise'
  BY DEF World

LEMMA Installed ==
  ASSUME NEW w \in WorldType, Install(w)
  PROVE  World' = w
  BY DEF WorldType, Install, World

(* Placed and Owned look at these fields only.                             *)
SamePlace(w, v, p) ==
  /\ v.proc[p].state = w.proc[p].state
  /\ v.proc[p].syscall_dummy = w.proc[p].syscall_dummy
  /\ v.proc[p].syscall_result = w.proc[p].syscall_result
  /\ v.proc[p].diverted_length = w.proc[p].diverted_length
  /\ v.at[p] = w.at[p] /\ v.real[p] = w.real[p] /\ v.ret[p] = w.ret[p]
  /\ v.moved[p] = w.moved[p] /\ v.promise[p] = w.promise[p]

LEMMA PlacedSame ==
  ASSUME NEW w, NEW v, NEW s, NEW c, NEW E, NEW p, SamePlace(w, v, p), Placed(w, s, c, E, p)
  PROVE  Placed(v, s, c, E, p)
<1>1. /\ Begun(w, s, c, p) => Begun(v, s, c, p)
      /\ Finished(w, s, c, p) => Finished(v, s, c, p)
      /\ Channelled(w, s, c, p) => Channelled(v, s, c, p)
      /\ Dummied(w, s, c, p) => Dummied(v, s, c, p)
      /\ Spurned(w, s, c, p) => Spurned(v, s, c, p)
  BY DEF SamePlace, Begun, Finished, Tells, Channelled, Dummied, Spurned
<1>2. /\ Stopped(w, s, c, p) => Stopped(v, s, c, p)
      /\ Running(w, s, c, p) => Running(v, s, c, p)
      /\ Waiting(w, s, c, p) => Waiting(v, s, c, p)
  BY <1>1 DEF SamePlace, Stopped, Running, Waiting, Diverted
<1> QED
  BY <1>2 DEF Placed

LEMMA OwnedSame ==
  ASSUME NEW w, NEW v, v.proc = w.proc, v.promise = w.promise, v.inuse = w.inuse, Owned(w)
  PROVE  Owned(v)
<1>1. \A p \in Procs : Holds(v, p) <=> Holds(w, p)
  BY DEF Holds
<1> QED
  BY <1>1 DEF Owned

LEMMA InitInv ==
  ASSUME Init
  PROVE  Inv
<1>1. call \in CallsType /\ setting \in Settings /\ due \subseteq Procs /\ events \subseteq Procs
  BY ZeroLength DEF Init, CallsType
<1>2. World \in WorldType
  <2>1. proc \in ProcsType
    <3>1. 1 \in Lengths /\ 0 \in Lengths /\ 0 \in Results /\ 0 \in -1 .. MaxBytes
      BY SMT, ConstantsAssumption DEF Lengths, Results
    <3>2. [read |-> 0, write |-> 0] \in Remainders
      BY <3>1 DEF Remainders
    <3> QED
      BY <3>1, <3>2 DEF Init, ProcsType, ProcType
  <2>2. polls \in PollsType
    BY DEF Init, PollsType
  <2>3. inuse \in SUBSET Pages /\ avail \in Lengths /\ room \in Lengths
    BY SMT, ConstantsAssumption DEF Init, Lengths
  <2>4. at \in PlacesType /\ real \in RealType
    BY DEF Init, PlacesType, RealType
  <2>5. ret \in RetType /\ moved \in MovedType /\ promise \in PromiseType
    BY ZeroLength DEF Init, RetType, MovedType, PromiseType, Results, Lengths
  <2> QED
    BY <2>1, <2>2, <2>3, <2>4, <2>5 DEF World, WorldType
<1>3. ASSUME NEW p \in Procs
      PROVE  /\ World.proc[p].state = "USER" /\ World.at[p] = "user" /\ World.ret[p] = 0
             /\ World.moved[p] = 0 /\ World.promise[p] = None /\ p \notin events
             /\ call[p].length = 0 /\ World.polls[p] = [flag \in {"r", "w"} |-> 0]
  <2>1. proc[p].state = "USER"
    BY DEF Init
  <2>2. /\ at[p] = "user" /\ ret[p] = 0 /\ moved[p] = 0 /\ promise[p] = None /\ p \notin events
        /\ call[p].length = 0 /\ polls[p] = [flag \in {"r", "w"} |-> 0]
    BY DEF Init
  <2> QED
    BY <2>1, <2>2, WorldFields
<1>4. ASSUME NEW p \in Procs PROVE Placed(World, setting, call, events, p)
  <2>1. Finished(World, setting, call, p)
    BY <1>3 DEF Finished, Tells
  <2> QED
    BY <1>3, <2>1 DEF Placed, Running
<1>5. ASSUME NEW p \in Procs PROVE Entries(World, setting, p)
  BY SMT, <1>3 DEF Entries, WaitsFor, MaxEntries
<1>6. Owned(World)
  <2>1. World.inuse = {}
    BY WorldFields DEF Init
  <2>2. \A p \in Procs : ~Holds(World, p)
    BY <1>3 DEF Holds
  <2> QED
    BY <2>1, <2>2 DEF Owned
<1> QED
  BY <1>1, <1>2, <1>4, <1>5, <1>6 DEF Inv, WorldOK

(* A stop is collected.                                                    *)
LEMMA HandleEventKeeps ==
  ASSUME Inv, NEW p \in Procs, handle_event(p)
  PROVE  Inv'
<1>1. PICK w \in pfs_dispatch(World, p) : Install(w)
  BY DEF handle_event
<1>2. /\ p \in events /\ events' = events \ {p} /\ due' = due /\ call' = call /\ setting' = setting
  BY DEF handle_event
<1>3. /\ World \in WorldType /\ call \in CallsType
      /\ \A q \in Procs : Placed(World, setting, call, events, q) /\ Entries(World, setting, q)
      /\ ~Untidy(setting) => Owned(World)
  BY DEF Inv, WorldOK
<1>4. Stopped(World, setting, call, p)
  BY <1>2, <1>3 DEF Placed
<1>5. Low(World, setting, p)
  <2>1. Entries(World, setting, p)
    BY <1>3
  <2>2. World.proc[p].state \in {"USER", "KERNEL"}
    BY <1>4 DEF Stopped
  <2> QED
    BY <2>1, <2>2 DEF Low, Entries, WaitsFor
<1>6. p \notin events' /\ \A q \in Procs \ {p} : q \in events <=> q \in events'
  BY <1>2
<1>7. WorldOK(w, setting, call, events')
  BY <1>1, <1>3, <1>4, <1>5, <1>6, DispatchKeeps
<1>8. World' = w
  BY <1>1, <1>7, Installed DEF WorldOK
<1> QED
  BY <1>2, <1>7, <1>8 DEF Inv

(* An entry is found ready and its process woken.                          *)
LEMMA PollWakeKeeps ==
  ASSUME Inv, NEW p \in Procs, PollWake(p)
  PROVE  Inv'
<1> DEFINE x == pfs_poll_clear(World, p)
<1>1. PICK w \in pfs_process_wake(x, p) : Install(w)
  BY DEF PollWake
<1>2. due' = due \ {p} /\ events' = events /\ call' = call /\ setting' = setting
  BY DEF PollWake
<1>3. /\ World \in WorldType /\ call \in CallsType
      /\ \A q \in Procs : Placed(World, setting, call, events, q) /\ Entries(World, setting, q)
      /\ ~Untidy(setting) => Owned(World)
  BY DEF Inv, WorldOK
<1>4. x \in WorldType /\ Only(World, x, p) /\ Cleared(World, x, p)
  BY <1>3, ClearEffect
<1> HIDE DEF x
<1>5. /\ x.proc = World.proc /\ x.at = World.at /\ x.real = World.real /\ x.ret = World.ret
      /\ x.moved = World.moved /\ x.promise = World.promise /\ x.inuse = World.inuse
      /\ x.polls[p] = [flag \in {"r", "w"} |-> 0]
  BY <1>4 DEF Cleared
<1>6. Low(x, setting, p)
  BY SMT, <1>5 DEF Low, MaxEntries
<1>7. \A q \in Procs \ {p} : Placed(x, setting, call, events, q) /\ Entries(x, setting, q)
  BY <1>3, <1>4, OthersStay
<1>8. ~Untidy(setting) => Owned(x)
  BY <1>3, <1>5, OwnedSame
<1>9. Placed(x, setting, call, events, p)
  BY <1>3, <1>5, PlacedSame DEF SamePlace
<1>10. WorldOK(w, setting, call, events)
  <2>1. CASE x.proc[p].state \in {"WAITREAD", "WAITWRITE"}
    <3>1. w \in pfs_dispatch(x, p)
      BY <1>1, <2>1 DEF pfs_process_wake
    <3>2. p \notin events /\ Waiting(x, setting, call, p)
      BY <1>9, <2>1 DEF Placed, Stopped, Running
    <3> QED
      BY <1>3, <1>4, <1>6, <1>7, <1>8, <3>1, <3>2, DispatchKeeps
  <2>2. CASE x.proc[p].state \notin {"WAITREAD", "WAITWRITE"}
    <3>1. w = x
      BY <1>1, <2>2 DEF pfs_process_wake
    <3>2. Entries(x, setting, p)
      BY SMT, <1>5, <2>2 DEF Entries, WaitsFor, MaxEntries
    <3>3. WorldOK(x, setting, call, events)
      BY <1>4, <1>7, <1>8, <1>9, <3>2 DEF WorldOK
    <3> QED
      BY <3>1, <3>3
  <2> QED
    BY <2>1, <2>2
<1>11. World' = w
  BY <1>1, <1>10, Installed DEF WorldOK
<1> QED
  BY <1>2, <1>10, <1>11 DEF Inv

(* A signal reaches a process that waits.                                  *)
LEMMA RaiseKeeps ==
  ASSUME Inv, NEW p \in Procs, pfs_process_raise(p)
  PROVE  Inv'
<1> DEFINE x == [World EXCEPT !.proc[p].interrupted = TRUE]
           pr == [World.proc[p] EXCEPT !.interrupted = TRUE]
<1>1. PICK w \in pfs_dispatch(x, p) : Install(w)
  BY DEF pfs_process_raise
<1>2. due' = due /\ events' = events /\ call' = call /\ setting' = setting
  BY DEF pfs_process_raise
<1>3. /\ World \in WorldType /\ call \in CallsType
      /\ \A q \in Procs : Placed(World, setting, call, events, q) /\ Entries(World, setting, q)
      /\ ~Untidy(setting) => Owned(World)
  BY DEF Inv, WorldOK
<1>4. World.proc[p] \in ProcType /\ World.polls[p] \in [{"r", "w"} -> Nat]
  BY <1>3, WorldHas
<1>5. pr \in ProcType
  BY <1>4 DEF ProcType
<1>6. x = ReplaceProc(World, p, pr)
  BY <1>3, <1>4 DEF WorldType, ReplaceProc
<1> HIDE DEF x, pr
<1>7. x \in WorldType /\ Only(World, x, p) /\ ProcSet(World, x, p, pr)
  BY <1>3, <1>5, <1>6, SetProc
<1>8. /\ x.proc[p].state = World.proc[p].state
      /\ x.proc[p].syscall_dummy = World.proc[p].syscall_dummy
      /\ x.proc[p].syscall_result = World.proc[p].syscall_result
      /\ x.proc[p].diverted_length = World.proc[p].diverted_length
      /\ x.proc[p].io_channel_offset = World.proc[p].io_channel_offset
      /\ x.polls = World.polls /\ x.promise = World.promise /\ x.inuse = World.inuse
      /\ x.at = World.at /\ x.real = World.real /\ x.ret = World.ret /\ x.moved = World.moved
  BY <1>4, <1>7 DEF ProcSet, pr, ProcType
<1>9. Placed(x, setting, call, events, p)
  BY <1>3, <1>8, PlacedSame DEF SamePlace
<1>10. p \notin events /\ Waiting(x, setting, call, p)
  <2>1. x.proc[p].state \in {"WAITREAD", "WAITWRITE"}
    BY <1>8, WorldFields DEF pfs_process_raise
  <2> QED
    BY <1>9, <2>1 DEF Placed, Stopped, Running
<1>11. Low(x, setting, p)
  <2>1. "signals" \in setting.faults /\ \A flag \in {"r", "w"} : World.polls[p][flag] < MaxEntries
    BY WorldFields DEF pfs_process_raise
  <2> QED
    BY SMT, <1>4, <1>8, <2>1 DEF Low, MaxEntries
<1>12. \A q \in Procs \ {p} : Placed(x, setting, call, events, q) /\ Entries(x, setting, q)
  BY <1>3, <1>7, OthersStay
<1>13. ~Untidy(setting) => Owned(x)
  <2>1. Holds(x, p) <=> Holds(World, p)
    BY <1>8 DEF Holds
  <2>2. PageStep(World, x, p)
    BY <1>8, <2>1 DEF PageStep
  <2> QED
    BY <1>3, <1>7, <2>2, OwnedStep
<1>14. WorldOK(w, setting, call, events)
  <2>1. Stopped(x, setting, call, p) \/ Waiting(x, setting, call, p)
    BY <1>10
  <2>2. p \notin events /\ \A q \in Procs \ {p} : q \in events <=> q \in events
    BY <1>10
  <2>3. x \in WorldType /\ call \in CallsType
    BY <1>3, <1>7
  <2> QED
    BY <1>1, <1>11, <1>12, <1>13, <2>1, <2>2, <2>3, DispatchKeeps
<1>15. World' = w
  BY <1>1, <1>14, Installed DEF WorldOK
<1> QED
  BY <1>2, <1>14, <1>15 DEF Inv

(* A process enters a call.                                                *)
LEMMA MakesCallKeeps ==
  ASSUME Inv, NEW p \in Procs, MakesCall(p)
  PROVE  Inv'
<1>1. /\ World \in WorldType /\ call \in CallsType /\ setting \in Settings
      /\ \A q \in Procs : Placed(World, setting, call, events, q) /\ Entries(World, setting, q)
      /\ ~Untidy(setting) => Owned(World)
  BY DEF Inv, WorldOK
<1>2. PICK op \in setting.ops, n \in setting.lengths, nb \in BOOLEAN :
        call' = [call EXCEPT ![p] = [op |-> op, length |-> n, nonblocking |-> nb]]
  BY DEF MakesCall
<1>3. /\ at[p] = "user" /\ at' = [at EXCEPT ![p] = "entry"] /\ moved' = [moved EXCEPT ![p] = 0]
      /\ events' = events \cup {p} /\ setting' = setting /\ due' = due
      /\ proc' = proc /\ inuse' = inuse /\ polls' = polls /\ avail' = avail /\ room' = room
      /\ real' = real /\ ret' = ret /\ promise' = promise
  BY DEF MakesCall
<1>4. op \in {"read", "write"} /\ n \in Lengths
  BY <1>1, ConstantsAssumption DEF Lengths
<1>5. /\ call' \in CallsType /\ call'[p].op = op /\ call'[p].length = n
      /\ \A q \in Procs \ {p} : call'[q] = call[q]
  BY <1>1, <1>2, <1>4 DEF CallsType
<1>6. at \in PlacesType /\ moved \in MovedType
  BY <1>1, WorldFields, WorldHas
<1>7. at' \in PlacesType /\ moved' \in MovedType
  BY <1>3, <1>6, ZeroLength DEF PlacesType, MovedType
<1>8. World' \in WorldType
  BY <1>1, <1>3, <1>7 DEF World, WorldType
<1>9. /\ at'[p] = "entry" /\ moved'[p] = 0
      /\ \A q \in Procs \ {p} : at'[q] = at[q] /\ moved'[q] = moved[q]
  BY <1>3, <1>6 DEF PlacesType, MovedType
<1>10. Only(World, World', p)
  BY <1>3, <1>9, WorldFields, WorldFieldsNext DEF Only
<1>11. proc[p].state = "USER"
  <2>1. Placed(World, setting, call, events, p) /\ World.at[p] = "user"
    BY <1>1, <1>3, WorldFields
  <2>2. World.proc[p].state = "USER"
    BY <2>1 DEF Placed, Stopped, Running, Waiting, Begun
  <2> QED
    BY <2>2, WorldFields
<1>12. Placed(World', setting, call', events', p)
  <2>1. Begun(World', setting, call', p)
    BY <1>4, <1>5, <1>9, WorldFieldsNext DEF Begun
  <2>2. World'.proc[p].state = "USER"
    BY <1>3, <1>11, WorldFieldsNext
  <2> QED
    BY <1>3, <2>1, <2>2 DEF Placed, Stopped
<1>13. Entries(World', setting, p)
  <2>1. World'.proc = World.proc /\ World'.polls = World.polls
    BY <1>3, WorldFields, WorldFieldsNext
  <2> QED
    BY <1>1, <2>1 DEF Entries, WaitsFor
<1>14. \A q \in Procs \ {p} : Placed(World', setting, call', events', q) /\ Entries(World', setting, q)
  <2>1. \A q \in Procs \ {p} : q \in events <=> q \in events'
    BY <1>3
  <2> QED
    BY <1>1, <1>5, <1>10, <2>1, OthersStay
<1>15. ~Untidy(setting) => Owned(World')
  <2>1. World'.proc = World.proc /\ World'.promise = World.promise /\ World'.inuse = World.inuse
    BY <1>3, WorldFields, WorldFieldsNext
  <2> QED
    BY <1>1, <2>1, OwnedSame
<1>16. WorldOK(World', setting, call', events')
  BY <1>8, <1>12, <1>13, <1>14, <1>15 DEF WorldOK
<1>17. due' \subseteq Procs /\ events' \subseteq Procs
  BY <1>3 DEF Inv
<1> QED
  BY <1>1, <1>3, <1>5, <1>16, <1>17 DEF Inv

(* The kernel runs the call a process was sent to.                         *)
LEMMA KernelRunsKeeps ==
  ASSUME Inv, NEW p \in Procs, KernelRuns(p)
  PROVE  Inv'
<1>1. /\ World \in WorldType /\ call \in CallsType /\ setting \in Settings
      /\ \A q \in Procs : Placed(World, setting, call, events, q) /\ Entries(World, setting, q)
      /\ ~Untidy(setting) => Owned(World)
  BY DEF Inv, WorldOK
<1> DEFINE r == IF real[p] = "getpid" THEN Pid ELSE proc[p].diverted_length
<1>3. /\ at[p] = "incall" /\ at' = [at EXCEPT ![p] = "exit"] /\ ret' = [ret EXCEPT ![p] = r]
      /\ events' = events \cup {p} /\ setting' = setting /\ due' = due /\ call' = call
      /\ proc' = proc /\ inuse' = inuse /\ polls' = polls /\ avail' = avail /\ room' = room
      /\ real' = real /\ moved' = moved /\ promise' = promise
  BY DEF KernelRuns
<1>4. at \in PlacesType /\ ret \in RetType /\ proc[p] \in ProcType
  BY <1>1, WorldFields, WorldHas
<1>5. r \in Results
  BY <1>4 DEF ProcType, Results, Lengths
<1> HIDE DEF r
<1>7. at' \in PlacesType /\ ret' \in RetType
  BY <1>3, <1>4, <1>5 DEF PlacesType, RetType
<1>8. World' \in WorldType
  BY <1>1, <1>3, <1>7 DEF World, WorldType
<1>9. /\ at'[p] = "exit" /\ ret'[p] = r
      /\ \A q \in Procs \ {p} : at'[q] = at[q] /\ ret'[q] = ret[q]
  BY <1>3, <1>4 DEF PlacesType, RetType
<1>10. Only(World, World', p)
  BY <1>3, <1>9, WorldFields, WorldFieldsNext DEF Only
<1>11. World.proc[p].state = "KERNEL" /\ Diverted(World, setting, call, p)
  <2>1. Placed(World, setting, call, events, p) /\ World.at[p] = "incall"
    BY <1>1, <1>3, WorldFields
  <2> QED
    BY <2>1 DEF Placed, Stopped, Running, Waiting, Begun, Finished
<1>12. Placed(World', setting, call, events', p)
  <2>1. /\ World'.proc = World.proc /\ World'.real = World.real /\ World'.moved = World.moved
        /\ World'.promise = World.promise
        /\ World'.at[p] = "exit" /\ World'.ret[p] = r
    BY <1>3, <1>9, WorldFields, WorldFieldsNext
  <2>2. CASE Channelled(World, setting, call, p)
    <3>1. r = World.proc[p].diverted_length
      BY <2>2, WorldFields DEF Channelled, r
    <3>2. Channelled(World', setting, call, p)
      BY <2>1, <2>2, <3>1 DEF Channelled
    <3> QED
      BY <1>3, <1>11, <2>1, <3>2 DEF Placed, Stopped, Diverted
  <2>3. CASE Dummied(World, setting, call, p)
    <3>1. Dummied(World', setting, call, p)
      BY <2>1, <2>3 DEF Dummied
    <3> QED
      BY <1>3, <1>11, <2>1, <3>1 DEF Placed, Stopped, Diverted
  <2>4. CASE Spurned(World, setting, call, p)
    <3>1. Spurned(World', setting, call, p)
      BY <2>1, <2>4 DEF Spurned
    <3> QED
      BY <1>3, <1>11, <2>1, <3>1 DEF Placed, Stopped, Diverted
  <2> QED
    BY <1>11, <2>2, <2>3, <2>4 DEF Diverted
<1>13. Entries(World', setting, p)
  <2>1. World'.proc = World.proc /\ World'.polls = World.polls
    BY <1>3, WorldFields, WorldFieldsNext
  <2> QED
    BY <1>1, <2>1 DEF Entries, WaitsFor
<1>14. \A q \in Procs \ {p} : Placed(World', setting, call, events', q) /\ Entries(World', setting, q)
  <2>1. \A q \in Procs \ {p} : q \in events <=> q \in events'
    BY <1>3
  <2> QED
    BY <1>1, <1>10, <2>1, OthersStay
<1>15. ~Untidy(setting) => Owned(World')
  <2>1. World'.proc = World.proc /\ World'.promise = World.promise /\ World'.inuse = World.inuse
    BY <1>3, WorldFields, WorldFieldsNext
  <2> QED
    BY <1>1, <2>1, OwnedSame
<1>16. WorldOK(World', setting, call, events')
  BY <1>8, <1>12, <1>13, <1>14, <1>15 DEF WorldOK
<1>17. due' \subseteq Procs /\ events' \subseteq Procs
  BY <1>3 DEF Inv
<1> QED
  BY <1>1, <1>3, <1>16, <1>17 DEF Inv

(* A step that changes neither the processes nor their pages and entries.  *)
LEMMA QuietKeeps ==
  ASSUME Inv, World' \in WorldType, due' \subseteq Procs,
         /\ proc' = proc /\ inuse' = inuse /\ polls' = polls /\ at' = at /\ real' = real
         /\ ret' = ret /\ moved' = moved /\ promise' = promise
         /\ call' = call /\ setting' = setting /\ events' = events
  PROVE  Inv'
<1>1. /\ World'.proc = World.proc /\ World'.inuse = World.inuse /\ World'.polls = World.polls
      /\ World'.at = World.at /\ World'.real = World.real /\ World'.ret = World.ret
      /\ World'.moved = World.moved /\ World'.promise = World.promise
  BY WorldFields, WorldFieldsNext
<1>2. /\ call \in CallsType /\ setting \in Settings /\ events \subseteq Procs
      /\ \A q \in Procs : Placed(World, setting, call, events, q) /\ Entries(World, setting, q)
      /\ ~Untidy(setting) => Owned(World)
  BY DEF Inv, WorldOK
<1>3. \A q \in Procs : SamePlace(World, World', q)
  BY <1>1 DEF SamePlace
<1>4. \A q \in Procs : Placed(World', setting, call, events, q)
  BY <1>2, <1>3, PlacedSame
<1>5. \A q \in Procs : Entries(World', setting, q)
  BY <1>1, <1>2 DEF Entries, WaitsFor
<1>6. ~Untidy(setting) => Owned(World')
  BY <1>1, <1>2, OwnedSame
<1>7. WorldOK(World', setting, call, events)
  BY <1>4, <1>5, <1>6 DEF WorldOK
<1> QED
  BY <1>2, <1>7 DEF Inv

(* The invariant is inductive.                                             *)
LEMMA NextKeeps ==
  ASSUME Inv, [Next]_vars
  PROVE  Inv'
<1>1. World \in WorldType /\ setting \in Settings
  BY DEF Inv, WorldOK
<1>2. ASSUME NEW p \in Procs, handle_event(p) PROVE Inv'
  BY <1>2, HandleEventKeeps
<1>3. CASE Select
  <2>1. World' = World /\ due' \subseteq Procs
    BY <1>3 DEF Select, World
  <2> QED
    BY <1>1, <1>3, <2>1, QuietKeeps DEF Select
<1>4. ASSUME NEW p \in Procs, PollWake(p) PROVE Inv'
  BY <1>4, PollWakeKeeps
<1>5. ASSUME NEW p \in Procs, pfs_process_raise(p) PROVE Inv'
  BY <1>5, RaiseKeeps
<1>6. ASSUME NEW p \in Procs, MakesCall(p) PROVE Inv'
  BY <1>6, MakesCallKeeps
<1>7. ASSUME NEW p \in Procs, KernelRuns(p) PROVE Inv'
  BY <1>7, KernelRunsKeeps
<1>8. CASE Arrives
  <2>1. avail' \in Lengths
    BY SMT, <1>1, <1>8, WorldFields, ConstantsAssumption DEF Arrives, WorldType, Lengths
  <2>2. World' \in WorldType /\ due' \subseteq Procs
    BY <1>1, <1>8, <2>1 DEF Arrives, World, WorldType, Inv
  <2> QED
    BY <1>8, <2>2, QuietKeeps DEF Arrives
<1>9. CASE Drains
  <2>1. room' \in Lengths
    BY SMT, <1>1, <1>9, WorldFields, ConstantsAssumption DEF Drains, WorldType, Lengths
  <2>2. World' \in WorldType /\ due' \subseteq Procs
    BY <1>1, <1>9, <2>1 DEF Drains, World, WorldType, Inv
  <2> QED
    BY <1>9, <2>2, QuietKeeps DEF Drains
<1>10. CASE UNCHANGED vars
  <2>1. World' = World /\ due' \subseteq Procs
    BY <1>10 DEF vars, World, Inv
  <2> QED
    BY <1>1, <1>10, <2>1, QuietKeeps DEF vars
<1> QED
  BY <1>2, <1>3, <1>4, <1>5, <1>6, <1>7, <1>8, <1>9, <1>10 DEF Next

(* What the invariant says of the properties the runs check.               *)
LEMMA InvTypes == ASSUME Inv PROVE TypeOK
<1>1. World \in WorldType
  BY DEF Inv, WorldOK
<1>2. /\ proc \in ProcsType /\ inuse \in SUBSET Pages /\ polls \in PollsType /\ avail \in Lengths
      /\ room \in Lengths /\ at \in PlacesType /\ real \in RealType /\ ret \in RetType
      /\ moved \in MovedType /\ promise \in PromiseType
  BY <1>1 DEF World, WorldType
<1>3. polls \in [Procs -> [{"r", "w"} -> 0 .. MaxEntries + 1]]
  <2>1. \A p \in Procs : \A flag \in {"r", "w"} : polls[p][flag] \in 0 .. MaxEntries + 1
    <3> TAKE p \in Procs
    <3> TAKE flag \in {"r", "w"}
    <3>1. Entries(World, setting, p)
      BY DEF Inv, WorldOK
    <3> QED
      BY SMT, <1>2, <3>1, WorldFields DEF Entries, PollsType, MaxEntries
  <2> QED
    BY <1>2, <2>1 DEF PollsType
<1>4. call \in CallsType /\ setting \in Settings /\ due \in SUBSET Procs /\ events \in SUBSET Procs
  BY DEF Inv
<1> QED
  BY <1>2, <1>3, <1>4
  DEF TypeOK, ProcsType, ProcType, Remainders, Lengths, PlacesType, RealType, RetType, MovedType,
      PromiseType, CallsType

LEMMA InvPages == ASSUME Inv PROVE PagesMatchCalls
<1> DEFINE users == {p \in Procs : HasPage(p)}
           f == [p \in users |-> proc[p].io_channel_offset]
<1>1. SUFFICES ASSUME NoneRefused, ~WritesFail
               PROVE  /\ inuse = {proc[p].io_channel_offset : p \in users}
                      /\ Cardinality(inuse) = Cardinality(users)
  BY DEF PagesMatchCalls
<1>2. Owned(World)
  BY <1>1 DEF Inv, WorldOK, Untidy, Sticks, EnoughPages, NoneRefused, WritesFail
<1>3. \A p \in Procs : HasPage(p) <=> Holds(World, p)
  BY WorldFields DEF HasPage, Holds
<1>4. /\ inuse = {proc[p].io_channel_offset : p \in users}
      /\ \A p, q \in users : proc[p].io_channel_offset = proc[q].io_channel_offset => p = q
  BY SMT, <1>2, <1>3, WorldFields DEF Owned
<1>5. IsFiniteSet(users)
  <2>1. users \in SUBSET Procs
    OBVIOUS
  <2> QED
    BY <1>1, <2>1, FS_Subset DEF NoneRefused
<1> HIDE DEF users
<1>6. f \in Surjection(users, inuse) /\ f \in Injection(users, inuse)
  BY <1>4 DEF Surjection, Injection, IsInjective
<1> HIDE DEF f
<1> QED
  BY <1>4, <1>5, <1>6, FS_Surjection

LEMMA InvPolls == ASSUME Inv PROVE BlockedIsPolled /\ OneEntry
<1>1. ASSUME NEW p \in Procs
      PROVE  /\ ~WritesFail => /\ proc[p].state = "WAITREAD" => polls[p]["r"] > 0
                               /\ proc[p].state = "WAITWRITE" => polls[p]["w"] > 0
             /\ "signals" \notin setting.faults => polls[p]["r"] + polls[p]["w"] <= 1
  <2>1. Entries(World, setting, p)
    BY DEF Inv, WorldOK
  <2>2. polls[p] \in [{"r", "w"} -> Nat]
    BY WorldFields, WorldHas DEF Inv, WorldOK
  <2>3. ~WritesFail => /\ proc[p].state = "WAITREAD" => polls[p]["r"] > 0
                       /\ proc[p].state = "WAITWRITE" => polls[p]["w"] > 0
    BY <2>1, WorldFields DEF Entries, WaitsFor, Sticks, WritesFail
  <2>4. ASSUME "signals" \notin setting.faults
        PROVE  /\ polls[p]["r"] <= 1 /\ polls[p]["w"] <= 1
               /\ polls[p]["r"] = 0 \/ polls[p]["w"] = 0
    BY SMT, <2>1, <2>4, WorldFields DEF Entries, WaitsFor
  <2>5. ASSUME "signals" \notin setting.faults PROVE polls[p]["r"] + polls[p]["w"] <= 1
    BY SMT, <2>2, <2>4, <2>5
  <2> QED
    BY <2>3, <2>5
<1> QED
  BY <1>1 DEF BlockedIsPolled, OneEntry

LEMMA InvResults == ASSUME Inv PROVE ResultIsTrue /\ RefusedReadHolds
<1>1. ASSUME NEW p \in Procs, at[p] = "user"
      PROVE  Tells(World, setting, call, p, ret[p])
  <2>1. Placed(World, setting, call, events, p) /\ World.at[p] = "user"
    BY <1>1, WorldFields DEF Inv, WorldOK
  <2>2. Finished(World, setting, call, p)
    BY <2>1 DEF Placed, Stopped, Running, Waiting, Begun
  <2> QED
    BY <2>2, WorldFields DEF Finished
<1>2. \A p \in Procs : ret[p] \in Int
  <2>1. ret \in RetType
    BY WorldFields DEF Inv, WorldOK, WorldType
  <2> QED
    BY <2>1, ResultsAreInts DEF RetType
<1>3. ASSUME NEW p \in Procs PROVE ~(ret[p] >= 0) => ret[p] < 0
  BY SMT, <1>2
<1> QED
  BY <1>1, <1>3, WorldFields DEF ResultIsTrue, RefusedReadHolds, Tells

LEMMA InvHolds == Spec => []Inv
<1>1. Init => Inv
  BY InitInv
<1>2. Inv /\ [Next]_vars => Inv'
  BY NextKeeps
<1> QED
  BY <1>1, <1>2, PTL DEF Spec

---------------------------------------------------------------------------
(* The theorems hold for every number of processes, pages and bytes, and   *)
(* for every setting: whatever gremlins are on and whatever the files do.  *)

(* The calls in progress in decode_read and decode_write have a page each, *)
(* no page is lost or shared, and a parked process is in the poll table.   *)
THEOREM IoStaysSound == Spec => []IoSound
<1>1. Inv => IoSound
  BY InvTypes, InvPages, InvPolls DEF IoSound
<1> QED
  BY <1>1, InvHolds, PTL

(* A finished read or write that was not refused reports the bytes that it *)
(* moved, or an error and then no byte has moved.                          *)
THEOREM ResultsStayTrue == Spec => []ResultIsTrue
<1>1. Inv => ResultIsTrue
  BY InvResults
<1> QED
  BY <1>1, InvHolds, PTL

(* A read that decode_syscall or a full channel refuses moves no byte, and *)
(* returns the refusal's error unless that is EINTR.                       *)
THEOREM RefusedReadsStayHeld == Spec => []RefusedReadHolds
<1>1. Inv => RefusedReadHolds
  BY InvResults
<1> QED
  BY <1>1, InvHolds, PTL

============================================================================
