------------------------------ MODULE Dispatch ------------------------------
(***************************************************************************)
(* How Murphy carries out read and write for the traced processes          *)
(* (decode_read, decode_write, decode_syscall and pfs_dispatch64 of        *)
(* pfs_dispatch64.cc), what the gremlins do to these calls, and how a      *)
(* process that has to wait for a file descriptor is parked and woken      *)
(* (pfs_poll.cc, pfs_process_wake and pfs_process_raise of                 *)
(* pfs_process.cc).                                                        *)
(*                                                                         *)
(* A read is done at the entry of the call: the data goes into the shared  *)
(* channel and the process is sent to pread it from there.  A write is     *)
(* done at the exit: the process has been sent to pwrite its data into the *)
(* channel.  A call that is not to happen is replaced by getpid, and its   *)
(* result is set at the exit.                                              *)
(*                                                                         *)
(* No request is longer than a page of the channel, so an allocation takes *)
(* the first free page; it fails when there is none, or when the channel   *)
(* cannot grow (module Channel has the allocator itself).                  *)
(***************************************************************************)
EXTENDS Integers, FiniteSets, FiniteSetsExt

CONSTANTS
  Procs,      \* the traced processes
  NumPages,   \* bound: pages of the channel
  MaxBytes,   \* bound: bytes of a call, and of what a descriptor holds
  Settings    \* the settings considered

(* A setting is a record of                                                *)
(*   ops       the calls the programs make: "read", "write"                *)
(*   lengths   the byte counts they ask for                                *)
(*   bytes     the bytes a file descriptor holds or has room for           *)
(*   gremlins  the gremlins that are on                                    *)
(*   faults    what the files may do, "full" when the channel may be       *)
(*             unable to grow, and "signals" when signals without          *)
(*             SA_RESTART arrive                                           *)
(* The results of the calls, and the pid that getpid returns.              *)
EINTR == -4
EIO == -5
EAGAIN == -11
ENOMEM == -12
ENOSPC == -28
EPIPE == -32
Pid == MaxBytes + 1
None == -1000

(* The gremlins that shorten a request.                                    *)
Less == [read |-> "readless", write |-> "writeless"]
OneS == [read |-> "readone_s", write |-> "writeone_s"]
One == [read |-> "readone", write |-> "writeone"]

ReadGremlins == {"readless", "readone", "readone_s", "eintr", "eagain"}
WriteGremlins == {"writezero", "writeless", "writeone", "writeone_s",
                  "enospc", "eintr", "eagain"}

(* The gremlins that refuse a call.                                        *)
Refusing == {"writezero", "enospc", "eintr", "eagain"}

ASSUME ConstantsAssumption ==
  /\ NumPages \in Nat \ {0}
  /\ MaxBytes \in Nat \ {0}
  /\ Settings # {}
  /\ \A s \in Settings :
       /\ s.ops \subseteq {"read", "write"}
       /\ s.lengths \subseteq 0 .. MaxBytes
       /\ s.bytes \in 1 .. MaxBytes
       /\ s.gremlins \subseteq ReadGremlins \cup WriteGremlins
       /\ s.faults \subseteq {"eof", "eio", "epipe", "full", "nonblocking", "signals"}

Pages == 0 .. NumPages - 1

VARIABLES
  proc,     \* struct pfs_process
  inuse,    \* pages of the channel that are allocated
  polls,    \* poll_table: how many entries a process has for a flag
  due,      \* processes whose entry select found ready and that
            \* pfs_poll_sleep has still to wake
  avail,    \* bytes waiting to be read
  room,     \* bytes that can be written
  at,       \* where a process is: user, entry, incall or exit
  events,   \* stops the main loop has not collected
  call,     \* the call a process makes
  real,     \* the call the kernel will run for it
  ret,      \* the result register
  moved,    \* bytes that the call took from or gave to the file
  promise,  \* the result a call diverted before any I/O is to have
  setting   \* the setting of this run; it never changes

vars == <<proc, inuse, polls, due, avail, room, at, events, call, real, ret,
          moved, promise, setting>>

World == [proc |-> proc, inuse |-> inuse, polls |-> polls, avail |-> avail,
          room |-> room, at |-> at, real |-> real, ret |-> ret,
          moved |-> moved, promise |-> promise]

Install(w) ==
  /\ proc' = w.proc
  /\ inuse' = w.inuse
  /\ polls' = w.polls
  /\ avail' = w.avail
  /\ room' = w.room
  /\ at' = w.at
  /\ real' = w.real
  /\ ret' = w.ret
  /\ moved' = w.moved
  /\ promise' = w.promise

---------------------------------------------------------------------------
(* The parts the handlers are made of.                                     *)

tracer_continue(w, p) ==
  [w EXCEPT !.at[p] = CASE @ = "entry" -> "incall"
                        [] @ = "exit" -> "user"
                        [] OTHER -> @]

(* The page an allocation may return, or Full.                             *)
Full == -1
pfs_channel_alloc(w) ==
  LET free == Pages \ w.inuse
  IN  (IF free # {} THEN {Min(free)} ELSE {})
      \cup (IF free = {} \/ "full" \in setting.faults THEN {Full} ELSE {})

pfs_channel_free(w, page) == [w EXCEPT !.inuse = @ \ {page}]

divert_to_dummy(w, p, result) ==
  [w EXCEPT !.proc[p] = [@ EXCEPT !.syscall_dummy = TRUE, !.syscall_result = result],
            !.real[p] = "getpid"]

(* The same before the call has touched the channel or the file.           *)
Refuse(w, p, result) ==
  [divert_to_dummy(w, p, result) EXCEPT !.promise[p] = result]

divert_to_channel(w, p, length) ==
  [w EXCEPT !.proc[p].diverted_length = length,
            !.real[p] = "channel"]

pfs_poll_wakeon_lost(w, p, flag) == w

pfs_poll_wakeon(w, p, flag) == [w EXCEPT !.polls[p][flag] = @ + 1]

pfs_poll_clear(w, p) == [w EXCEPT !.polls[p] = [flag \in {"r", "w"} |-> 0]]

(* The worlds in which the request of length n has been cut by one of the  *)
(* gremlins "less", "one_s" and "one", or left alone.                      *)
Cut(w, p, n, op) ==
  LET rem == w.proc[p].remainder[op]
      asks(k, r) == [w EXCEPT !.proc[p] = [@ EXCEPT !.length = k, !.remainder[op] = r]]
  IN  {asks(n, rem)}
      \cup (IF Less[op] \in setting.gremlins THEN {asks(IF n > 1 THEN n \div 2 ELSE n, rem)} ELSE {})
      \cup (IF OneS[op] \in setting.gremlins
            THEN {IF rem = n THEN asks(n, 0) ELSE asks(1, n - 1)}
            ELSE {})
      \cup (IF One[op] \in setting.gremlins THEN {asks(1, rem)} ELSE {})

---------------------------------------------------------------------------
(* decode_read.                                                            *)

(* What pfs_read may return for a request of n bytes.                      *)
ReadResults(w, n) ==
  {IF n = 0 THEN 0 ELSE IF w.avail = 0 THEN EAGAIN ELSE Min({n, w.avail})}
  \cup (IF "eof" \in setting.faults /\ w.avail = 0 THEN {0} ELSE {})
  \cup (IF "eio" \in setting.faults THEN {EIO} ELSE {})

ReadBlocks_keepPage(w, p) ==
  IF w.proc[p].interrupted
  THEN divert_to_dummy([w EXCEPT !.proc[p].interrupted = FALSE], p, EINTR)
  ELSE IF call[p].nonblocking
       THEN divert_to_dummy(w, p, EAGAIN)
       ELSE pfs_poll_wakeon([w EXCEPT !.proc[p].state = "WAITREAD"], p, "r")

(* The read found nothing: give up, or let the page go and wait.           *)
ReadBlocks(w, p) ==
  IF w.proc[p].interrupted
  THEN divert_to_dummy([w EXCEPT !.proc[p].interrupted = FALSE], p, EINTR)
  ELSE IF call[p].nonblocking
       THEN divert_to_dummy(w, p, EAGAIN)
       ELSE pfs_poll_wakeon(pfs_channel_free([w EXCEPT !.proc[p].state = "WAITREAD"],
                                             w.proc[p].io_channel_offset), p, "r")

ReadInto(w, p, page) ==
  LET in == [w EXCEPT !.inuse = @ \cup {page},
                      !.proc[p].io_channel_offset = page,
                      !.proc[p].diverted_length = 0]
      done(n) == [in EXCEPT !.proc[p].syscall_result = IF n < 0 THEN -1 ELSE n]
      got(n) == [done(n) EXCEPT !.avail = @ - n, !.moved[p] = n]
  IN  {CASE n > 0 -> divert_to_channel(got(n), p, n)
         [] n = EAGAIN -> ReadBlocks(done(n), p)
         [] OTHER -> divert_to_dummy(done(n), p, n) :
         n \in ReadResults(w, w.proc[p].length)}

EnterRead(w, p) ==
  UNION {IF page = Full THEN {Refuse(v, p, ENOMEM)} ELSE ReadInto(v, p, page) :
           v \in Cut(w, p, call[p].length, "read"), page \in pfs_channel_alloc(w)}

ExitRead(w, p) ==
  LET late == /\ w.proc[p].syscall_result = EINTR
              /\ w.proc[p].diverted_length > 0
      n == w.proc[p].diverted_length
      out == IF late THEN [w EXCEPT !.proc[p].syscall_result = n, !.ret[p] = n] ELSE w
  IN  {pfs_channel_free(out, w.proc[p].io_channel_offset)}

---------------------------------------------------------------------------
(* decode_write.                                                           *)

(* What pfs_write may return for n bytes.                                  *)
WriteResults(w, n) ==
  {IF w.room = 0 THEN EAGAIN ELSE Min({n, w.room})}
  \cup (IF "eio" \in setting.faults THEN {EIO} ELSE {})
  \cup (IF "epipe" \in setting.faults THEN {EPIPE} ELSE {})

WriteFrom(w, p, page) ==
  divert_to_channel([w EXCEPT !.inuse = @ \cup {page}, !.proc[p].io_channel_offset = page],
                    p, w.proc[p].length)

EnterWrite(w, p) ==
  (IF "writezero" \in setting.gremlins THEN {Refuse(w, p, 0)} ELSE {})
  \cup {IF page = Full THEN Refuse(v, p, ENOMEM) ELSE WriteFrom(v, p, page) :
          v \in Cut(w, p, call[p].length, "write"), page \in pfs_channel_alloc(w)}

(* The data is in the channel: hand it to the file.                        *)
WriteOut(w, p, n) ==
  LET result == [w EXCEPT !.proc[p].syscall_result = n, !.ret[p] = n]
      freed == pfs_channel_free(result, w.proc[p].io_channel_offset)
  IN  CASE n >= 0 -> [freed EXCEPT !.proc[p].state = "KERNEL", !.room = @ - n, !.moved[p] = @ + n]
        [] n = EAGAIN /\ ~call[p].nonblocking ->
             pfs_poll_wakeon([w EXCEPT !.proc[p].state = "WAITWRITE",
                                       !.proc[p].syscall_result = -1], p, "w")
        [] n = EPIPE -> [freed EXCEPT !.proc[p].state = "KERNEL"]
        [] OTHER -> freed

ExitWrite(w, p) ==
  IF w.ret[p] > 0
  THEN {WriteOut(w, p, n) : n \in WriteResults(w, w.ret[p])}
  ELSE {pfs_channel_free(w, w.proc[p].io_channel_offset)}

---------------------------------------------------------------------------
(* decode_syscall and pfs_dispatch64.                                      *)

(* The gremlins that refuse the call before it is looked at, in the order  *)
(* they are asked: enospc for a write, eintr and eagain for both calls.    *)
enospc(op) == IF "enospc" \in setting.gremlins /\ op = "write" THEN {ENOSPC} ELSE {}

eintr == IF "eintr" \in setting.gremlins THEN {EINTR} ELSE {}

eagain == IF "eagain" \in setting.gremlins THEN {EAGAIN} ELSE {}

Refusals(op) == enospc(op) \cup eintr \cup eagain

EnterSyscall(w, p) ==
  LET in == [w EXCEPT !.proc[p] = [@ EXCEPT !.state = "KERNEL", !.syscall_dummy = FALSE],
                      !.promise[p] = None]
  IN  {Refuse(in, p, result) : result \in Refusals(call[p].op)}
      \cup (IF call[p].op = "read" THEN EnterRead(in, p) ELSE EnterWrite(in, p))

Epilogue_noResult(w, p) ==
  IF w.proc[p].state # "KERNEL" THEN w
  ELSE [w EXCEPT !.proc[p] = [@ EXCEPT !.state = "USER", !.syscall_dummy = FALSE]]

(* The end of decode_syscall: the call is over unless the process waits.   *)
Epilogue(w, p) ==
  IF w.proc[p].state # "KERNEL" THEN w
  ELSE [w EXCEPT !.proc[p] = [@ EXCEPT !.state = "USER", !.syscall_dummy = FALSE],
                 !.ret[p] = IF w.proc[p].syscall_dummy
                            THEN w.proc[p].syscall_result ELSE @]

ExitSyscall(w, p) ==
  {Epilogue(v, p) : v \in IF call[p].op = "read" THEN ExitRead(w, p) ELSE ExitWrite(w, p)}

pfs_dispatch(w, p) ==
  LET after == CASE w.proc[p].state = "USER" ->
                      EnterSyscall([w EXCEPT !.proc[p].interrupted = FALSE], p)
                 [] w.proc[p].state = "WAITREAD" -> EnterSyscall(w, p)
                 [] w.proc[p].state \in {"KERNEL", "WAITWRITE"} -> ExitSyscall(w, p)
  IN  {IF v.proc[p].state \in {"KERNEL", "USER"} THEN tracer_continue(v, p) ELSE v :
         v \in after}

pfs_process_wake(w, p) ==
  IF w.proc[p].state \in {"WAITREAD", "WAITWRITE"} THEN pfs_dispatch(w, p) ELSE {w}

---------------------------------------------------------------------------
(* The main loop.                                                          *)

(* A stop is collected.                                                    *)
handle_event(p) ==
  /\ due = {}
  /\ p \in events
  /\ \E w \in pfs_dispatch(World, p) : Install(w)
  /\ events' = events \ {p}
  /\ UNCHANGED <<due, call, setting>>

Ready(p) == \/ polls[p]["r"] > 0 /\ avail > 0
            \/ polls[p]["w"] > 0 /\ room > 0

(* pfs_poll_sleep, when wait4 has no more events: what select returns.     *)
Select ==
  /\ due = {}
  /\ events = {}
  /\ \E p \in Procs : Ready(p)
  /\ due' = {p \in Procs : Ready(p)}
  /\ UNCHANGED <<proc, inuse, polls, avail, room, at, events, call, real, ret,
                 moved, promise, setting>>

PollWake_noClear(p) ==
  /\ p \in due
  /\ \E w \in pfs_process_wake(World, p) : Install(w)
  /\ due' = due \ {p}
  /\ UNCHANGED <<events, call, setting>>

(* pfs_poll_sleep wakes the processes in the order of the poll table.      *)
PollWake(p) ==
  /\ p \in due
  /\ \E w \in pfs_process_wake(pfs_poll_clear(World, p), p) : Install(w)
  /\ due' = due \ {p}
  /\ UNCHANGED <<events, call, setting>>

(* Bound: entries for a flag beyond which no more signals are looked at.   *)
MaxEntries == 2

(* Another process sends p a signal whose handler has no SA_RESTART:       *)
(* pfs_process_raise for a process that waits.                             *)
pfs_process_raise(p) ==
  /\ "signals" \in setting.faults
  /\ due = {}
  /\ proc[p].state \in {"WAITREAD", "WAITWRITE"}
  /\ \A flag \in {"r", "w"} : polls[p][flag] < MaxEntries
  /\ \E w \in pfs_dispatch([World EXCEPT !.proc[p].interrupted = TRUE], p) : Install(w)
  /\ UNCHANGED <<due, events, call, setting>>

---------------------------------------------------------------------------
(* The traced processes, the kernel and the files (external).              *)

MakesCall(p) ==
  /\ at[p] = "user"
  /\ \E op \in setting.ops, n \in setting.lengths, nb \in BOOLEAN :
       /\ nb => "nonblocking" \in setting.faults
       /\ call' = [call EXCEPT ![p] = [op |-> op, length |-> n, nonblocking |-> nb]]
  /\ at' = [at EXCEPT ![p] = "entry"]
  /\ events' = events \cup {p}
  /\ moved' = [moved EXCEPT ![p] = 0]
  /\ UNCHANGED <<proc, inuse, polls, due, avail, room, real, ret, promise, setting>>

KernelRuns(p) ==
  /\ at[p] = "incall"
  /\ ret' = [ret EXCEPT ![p] = IF real[p] = "getpid" THEN Pid ELSE proc[p].diverted_length]
  /\ at' = [at EXCEPT ![p] = "exit"]
  /\ events' = events \cup {p}
  /\ UNCHANGED <<proc, inuse, polls, due, avail, room, call, real, moved, promise, setting>>

(* The other end of the input writes, the one of the output reads.         *)
Arrives ==
  /\ avail < setting.bytes
  /\ avail' = avail + 1
  /\ UNCHANGED <<proc, inuse, polls, due, room, at, events, call, real, ret,
                 moved, promise, setting>>

Drains ==
  /\ room < setting.bytes
  /\ room' = room + 1
  /\ UNCHANGED <<proc, inuse, polls, due, avail, at, events, call, real, ret,
                 moved, promise, setting>>

(* The offset in the channel and the diverted length are not initialized   *)
(* by pfs_process_create: any value the memory held before.                *)
Init ==
  /\ setting \in Settings
  /\ proc \in [Procs -> [state : {"USER"}, io_channel_offset : Pages,
                         diverted_length : {0, 1}, length : {0},
                         remainder : {[read |-> 0, write |-> 0]},
                         syscall_dummy : {FALSE}, syscall_result : {0},
                         interrupted : {FALSE}]]
  /\ inuse = {}
  /\ polls = [p \in Procs |-> [flag \in {"r", "w"} |-> 0]]
  /\ due = {}
  /\ avail = 0
  /\ room = setting.bytes
  /\ at = [p \in Procs |-> "user"]
  /\ events = {}
  /\ call = [p \in Procs |-> [op |-> "read", length |-> 0, nonblocking |-> FALSE]]
  /\ real = [p \in Procs |-> "getpid"]
  /\ ret = [p \in Procs |-> 0]
  /\ moved = [p \in Procs |-> 0]
  /\ promise = [p \in Procs |-> None]

Next ==
  \/ \E p \in Procs : handle_event(p)
  \/ Select
  \/ \E p \in Procs : PollWake(p)
  \/ \E p \in Procs : pfs_process_raise(p)
  \/ \E p \in Procs : MakesCall(p)
  \/ \E p \in Procs : KernelRuns(p)
  \/ Arrives
  \/ Drains

Spec == Init /\ [][Next]_vars

---------------------------------------------------------------------------
(* Properties.                                                             *)

Results == {EINTR, EIO, EAGAIN, ENOMEM, ENOSPC, EPIPE, -1, Pid} \cup 0 .. MaxBytes

(* The types of the variables.                                             *)
TypeOK ==
  /\ proc \in [Procs -> [state : {"USER", "KERNEL", "WAITREAD", "WAITWRITE"},
                         io_channel_offset : Pages, diverted_length : 0 .. MaxBytes,
                         length : 0 .. MaxBytes,
                         remainder : [read : -1 .. MaxBytes, write : -1 .. MaxBytes],
                         syscall_dummy : BOOLEAN, syscall_result : Results,
                         interrupted : BOOLEAN]]
  /\ inuse \in SUBSET Pages
  /\ polls \in [Procs -> [{"r", "w"} -> 0 .. MaxEntries + 1]]
  /\ due \in SUBSET Procs
  /\ avail \in 0 .. MaxBytes
  /\ room \in 0 .. MaxBytes
  /\ at \in [Procs -> {"user", "entry", "incall", "exit"}]
  /\ events \in SUBSET Procs
  /\ call \in [Procs -> [op : {"read", "write"}, length : 0 .. MaxBytes, nonblocking : BOOLEAN]]
  /\ real \in [Procs -> {"getpid", "channel"}]
  /\ ret \in [Procs -> Results]
  /\ moved \in [Procs -> 0 .. MaxBytes]
  /\ promise \in [Procs -> Results \cup {None}]
  /\ setting \in Settings

(* The process is inside a call for which a page was allocated.            *)
HasPage(p) ==
  \/ proc[p].state = "WAITWRITE"
  \/ proc[p].state = "KERNEL" /\ promise[p] = None

(* No call is refused: no gremlin does so, and every process finds a page. *)
NoneRefused ==
  /\ setting.gremlins \cap Refusing = {}
  /\ "full" \notin setting.faults
  /\ IsFiniteSet(Procs) /\ Cardinality(Procs) <= NumPages

(* A write may fail after it has waited, and then waits for ever.          *)
WritesFail == "write" \in setting.ops /\ "eio" \in setting.faults

(* Exactly the processes inside such a call have a page, each its own: no  *)
(* page is leaked on an error path, released twice, or released while      *)
(* another process has it.  (Not so once calls are refused: the exit of a  *)
(* refused call releases the page of the call before it.  Nor once a write *)
(* that waited has failed: it has no page and its process is never woken.) *)
PagesMatchCalls ==
  LET users == {p \in Procs : HasPage(p)}
  IN  NoneRefused /\ ~WritesFail =>
        /\ inuse = {proc[p].io_channel_offset : p \in users}
        /\ Cardinality(inuse) = Cardinality(users)

(* No gremlin makes a request of one byte out of one of none.              *)
CanCut(s, n) ==
  n = 0 => s.gremlins \cap {"readone", "readone_s", "writeone", "writeone_s"} = {}

(* What a finished call that was not refused reports is what happened,     *)
(* whatever was refused to it and to others before: as many bytes as it    *)
(* moved and no more than the program asked for, or an error and no byte   *)
(* at all.                                                                 *)
ResultIsTrue ==
  \A p \in Procs : at[p] = "user" /\ promise[p] = None =>
    IF ret[p] >= 0
    THEN /\ ret[p] = moved[p]
         /\ CanCut(setting, call[p].length) => ret[p] <= call[p].length
    ELSE moved[p] = 0

(* A read that a gremlin or a full channel refuses moves no byte, and      *)
(* returns the refusal's error, unless that is EINTR: ExitRead takes such  *)
(* a read for one that a signal interrupted, and returns the length that   *)
(* an earlier call left behind.                                            *)
RefusedReadHolds ==
  \A p \in Procs : at[p] = "user" /\ call[p].op = "read" /\ promise[p] # None =>
    /\ moved[p] = 0
    /\ promise[p] # EINTR => ret[p] = promise[p]

(* What divert_to_dummy promises of every refused call: it has the given   *)
(* result and is harmless (pfs_dispatch64.cc:143).  The exit of a refused  *)
(* write takes the pid that getpid returned for a number of bytes.         *)
RefusalHolds ==
  \A p \in Procs : at[p] = "user" /\ promise[p] # None =>
    ret[p] = promise[p] /\ moved[p] = 0

(* A process that waits for a file is in the poll table, whatever woke it  *)
(* before: it cannot be forgotten.                                         *)
BlockedIsPolled ==
  ~WritesFail => \A p \in Procs :
    /\ proc[p].state = "WAITREAD" => polls[p]["r"] > 0
    /\ proc[p].state = "WAITWRITE" => polls[p]["w"] > 0

(* A process has one entry in the poll table at most, so the table cannot  *)
(* run full before there are as many processes as it has entries.  (Not so *)
(* with signals: a call that is interrupted and waits again adds an entry.) *)
OneEntry ==
  "signals" \notin setting.faults =>
    \A p \in Procs : polls[p]["r"] + polls[p]["w"] <= 1

(* The calls in progress, their pages and their poll entries match, on the *)
(* ways in and out of blocking, interruption and refusal.                  *)
IoSound == TypeOK /\ PagesMatchCalls /\ BlockedIsPolled /\ OneEntry

============================================================================
