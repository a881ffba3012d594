------------------------------ MODULE FdTable ------------------------------
(***************************************************************************)
(* The descriptors of the traced processes: class pfs_table with its       *)
(* pfs_pointer and pfs_file objects and their pfs_refcounts, the local     *)
(* files of pfs_service_local.cc, and how processes share, copy and give   *)
(* up tables (pfs_process_create, exec, pfs_process_stop).                 *)
(*                                                                         *)
(* Every open makes a new pfs_file and a new pfs_pointer for it, so an     *)
(* object stands for the two together; each has its own count.  Data are   *)
(* left out: a transfer moves one unit, and what matters is from where in  *)
(* the file it comes.                                                      *)
(***************************************************************************)
EXTENDS Integers, FiniteSets

CONSTANTS
  Procs,      \* the traced processes
  Tables,     \* struct pfs_table in memory; bound on their number
  NFds,       \* pointer_count
  Objs,       \* pointer and file in memory; bound on their number
  MaxOff,     \* bound: offsets and sizes
  Settings,   \* the settings considered
  Null,       \* the null pointer
  Gone,       \* the position of a file that is not open
  First       \* the process that Murphy starts

Fds == 0 .. NFds - 1

(* A setting is a record of                                                *)
(*   ops      the operations that take place; "close fails" when the close *)
(*            of a file may fail                                           *)
(*   sizes    the sizes of files that are opened                           *)
(*   appends  whether they are opened with O_APPEND                        *)
(*   objs     bound: the objects in use                                    *)
Operations ==
  {"open", "pipe", "accept", "close", "dup", "dup2", "dupfd", "setfd", "read", "write",
   "pread", "lseek", "chdir", "fork", "share", "exec", "exit", "close fails"}

ASSUME FdAssumption ==
  /\ NFds \in Nat \ {0} /\ MaxOff \in Nat \ {0}
  /\ IsFiniteSet(Tables) /\ IsFiniteSet(Procs)
  /\ Null \notin Objs /\ Null \notin Tables /\ Gone \notin Nat
  /\ First \in Procs
  /\ Objs \subseteq Nat /\ Tables \subseteq Nat /\ 1 \in Objs /\ 1 \in Tables
  /\ \A s \in Settings : /\ s.ops \subseteq Operations
                         /\ s.sizes \subseteq 0 .. MaxOff - 1
                         /\ s.appends \subseteq BOOLEAN
                         /\ s.objs \subseteq Objs /\ 1 \in s.objs

VARIABLES
  pointers,   \* pfs_table::pointers
  fd_flags,   \* pfs_table::fd_flags: is FD_CLOEXEC set
  cwd,        \* pfs_table::working_dir
  refs,       \* pfs_refcount of a table; 0 when it is deleted
  obj,        \* the pointer and the file objects
  table,      \* pfs_process::table
  overrun,    \* an entry before the first was written
  result,     \* what the last operation returned
  setting     \* the setting of this run; it never changes

vars == <<pointers, fd_flags, cwd, refs, obj, table, overrun, result, setting>>

(* numrefs and offset are the pointer's; frefs, last_offset and seekable   *)
(* the file's; local is the last_offset of pfs_file_local, which hides the *)
(* other; kernel is the position of the real descriptor, size the file's.  *)
(* append is O_APPEND on the real descriptor.  missed is history: since    *)
(* the last transfer that moved the real descriptor, one elsewhere moved   *)
(* nothing, or an append landed elsewhere.                                 *)
FreeObj ==
  [numrefs |-> 0, frefs |-> 0, offset |-> 0, last_offset |-> 0, local |-> 0,
   kernel |-> 0, size |-> 0, seekable |-> TRUE, append |-> FALSE, missed |-> FALSE]

World == [pointers |-> pointers, fd_flags |-> fd_flags, obj |-> obj]

Install(w) ==
  /\ pointers' = w.pointers
  /\ fd_flags' = w.fd_flags
  /\ obj' = w.obj

ESPIPE == -29
EAGAIN == -11

(* asked and got say where a transfer should and did take place, known     *)
(* whether pfs_file_local could place it, see Known.                       *)
NoIO == [op |-> "none", value |-> 0, asked |-> 0, got |-> 0, known |-> TRUE]
Returns(op, value) == result' = [NoIO EXCEPT !.op = op, !.value = value]

---------------------------------------------------------------------------
(* Reference counts, and giving up descriptors.                            *)

Slots(ptrs, t, o) == {fd \in Fds : ptrs[t][fd] = o}

addref(r, n) == [r EXCEPT !.numrefs = @ + n, !.frefs = @ + n]

delref_twice(r, n) ==
  IF n = 0 THEN r ELSE [r EXCEPT !.numrefs = @ - n, !.frefs = @ - 2 * n]

(* delref, or deletion when the count would reach zero.                    *)
delref(r, n) ==
  IF n = 0 THEN r
  ELSE IF r.frefs = n /\ r.numrefs = n THEN FreeObj
  ELSE [r EXCEPT !.numrefs = @ - n, !.frefs = @ - n]

(* close of each descriptor in S.                                          *)
Release(w, t, S) ==
  [pointers |-> [w.pointers EXCEPT ![t] = [fd \in Fds |-> IF fd \in S THEN Null ELSE @[fd]]],
   fd_flags |-> [w.fd_flags EXCEPT ![t] = [fd \in Fds |-> fd \notin S /\ @[fd]]],
   obj |-> [o \in Objs |->
              delref(w.obj[o], Cardinality(Slots(w.pointers, t, o) \cap S))]]

Valid(t, fd) == fd \in Fds /\ pointers[t][fd] # Null
Empty(ptrs, t, lowest) == {fd \in Fds : fd >= lowest /\ ptrs[t][fd] = Null}

find_empty_highest(ptrs, t, lowest) ==
  IF Empty(ptrs, t, lowest) = {} THEN -1
  ELSE CHOOSE fd \in Empty(ptrs, t, lowest) : \A g \in Empty(ptrs, t, lowest) : fd >= g

(* Chose the lowest numbered file descriptor that is available.            *)
find_empty(ptrs, t, lowest) ==
  IF Empty(ptrs, t, lowest) = {} THEN -1
  ELSE CHOOSE fd \in Empty(ptrs, t, lowest) : \A g \in Empty(ptrs, t, lowest) : fd <= g

Free(w) == {o \in setting.objs : w.obj[o] = FreeObj}
NextFree(w) == CHOOSE o \in Free(w) : \A n \in Free(w) : o <= n

(* A new pointer to a new file at descriptor fd.                           *)
NewObj(seekable, size, append) ==
  [FreeObj EXCEPT !.numrefs = 1, !.frefs = 1, !.size = size, !.seekable = seekable,
                  !.append = append, !.offset = IF append THEN size ELSE 0]

Attach(w, t, fd, seekable, size, append) ==
  [pointers |-> [w.pointers EXCEPT ![t][fd] = NextFree(w)],
   fd_flags |-> [w.fd_flags EXCEPT ![t][fd] = FALSE],
   obj |-> [w.obj EXCEPT ![NextFree(w)] = NewObj(seekable, size, append)]]

---------------------------------------------------------------------------
(* Opening.                                                                *)

Does(p, op) == op \in setting.ops /\ table[p] # Null /\ ~overrun

(* open_object may find nothing; with O_APPEND the pointer starts at the   *)
(* end.                                                                    *)
pfs_open(p) ==
  /\ Does(p, "open")
  /\ LET t == table[p]
         fd == find_empty(pointers, t, 0)
     IN  \/ /\ fd = -1
            /\ Returns("open", -1)
            /\ UNCHANGED <<pointers, fd_flags, obj>>
         \/ /\ Returns("open", -1)
            /\ UNCHANGED <<pointers, fd_flags, obj>>
         \/ /\ fd # -1 /\ Free(World) # {}
            /\ \E size \in setting.sizes, append \in setting.appends :
                 Install(Attach(World, t, fd, TRUE, size, append))
            /\ Returns("open", fd)
  /\ UNCHANGED <<cwd, refs, table, overrun, setting>>

(* pipe and socketpair take the two lowest descriptors without looking     *)
(* whether there are any.                                                  *)
pfs_pipe(p) ==
  /\ Does(p, "pipe")
  /\ LET t == table[p]
         fd0 == find_empty(pointers, t, 0)
         fd1 == find_empty(pointers, t, fd0 + 1)
     IN  IF fd0 = -1 \/ fd1 = -1
         THEN /\ overrun' = TRUE
              /\ Returns("pipe", 0)
              /\ UNCHANGED <<pointers, fd_flags, obj>>
         ELSE /\ Cardinality(Free(World)) >= 2
              /\ Install(Attach(Attach(World, t, fd0, FALSE, 0, FALSE), t, fd1, FALSE, 0, FALSE))
              /\ Returns("pipe", fd0)
              /\ UNCHANGED overrun
  /\ UNCHANGED <<cwd, refs, table, setting>>

(* accept resets the flags at rfd, the number of the real descriptor, and  *)
(* not at the descriptor that it gives to the process; socket takes the    *)
(* same path and resets the right ones.                                    *)
pfs_accept(p) ==
  /\ Does(p, "accept")
  /\ LET t == table[p]
         fd == find_empty(pointers, t, 0)
         new == Attach(World, t, fd, FALSE, 0, FALSE)
     IN  IF fd = -1
         THEN /\ overrun' = TRUE
              /\ Returns("accept", -1)
              /\ UNCHANGED <<pointers, fd_flags, obj>>
         ELSE /\ Free(World) # {}
              /\ \E rfd \in Fds :
                   Install([new EXCEPT !.fd_flags = [fd_flags EXCEPT ![t][rfd] = FALSE]])
              /\ Returns("accept", fd)
              /\ UNCHANGED overrun
  /\ UNCHANGED <<cwd, refs, table, setting>>

---------------------------------------------------------------------------
(* Closing and duplicating.                                                *)

(* What the close of the file may return; it is called for the last        *)
(* reference only.                                                         *)
CloseResults(t, fd) ==
  IF obj[pointers[t][fd]].frefs = 1 /\ "close fails" \in setting.ops
  THEN {"ok", "EIO", "EINTR"} ELSE {"ok"}

(* The entry is cleared whatever the close of the file returned.  After    *)
(* EINTR pfs_close tries again and meets EBADF.                            *)
pfs_close(p) ==
  /\ Does(p, "close")
  /\ \E fd \in Fds :
       IF Valid(table[p], fd)
       THEN /\ \E r \in CloseResults(table[p], fd) :
                 Returns("close", IF r = "ok" THEN 0 ELSE -1)
            /\ Install(Release(World, table[p], {fd}))
       ELSE /\ Returns("close", -1)
            /\ UNCHANGED <<pointers, fd_flags, obj>>
  /\ UNCHANGED <<cwd, refs, table, overrun, setting>>

Share_noFile(w, t, ofd, nfd) ==
  [pointers |-> [w.pointers EXCEPT ![t][nfd] = w.pointers[t][ofd]],
   fd_flags |-> [w.fd_flags EXCEPT ![t][nfd] = FALSE],
   obj |-> [w.obj EXCEPT ![w.pointers[t][ofd]].numrefs = @ + 1]]

Share_allFlags(w, t, ofd, nfd) ==
  [pointers |-> [w.pointers EXCEPT ![t][nfd] = w.pointers[t][ofd]],
   fd_flags |-> [w.fd_flags EXCEPT ![t] = [fd \in Fds |-> FALSE]],
   obj |-> [w.obj EXCEPT ![w.pointers[t][ofd]] = addref(@, 1)]]

Share(w, t, ofd, nfd) ==
  [pointers |-> [w.pointers EXCEPT ![t][nfd] = w.pointers[t][ofd]],
   fd_flags |-> [w.fd_flags EXCEPT ![t][nfd] = FALSE],
   obj |-> [w.obj EXCEPT ![w.pointers[t][ofd]] = addref(@, 1)]]

(* "If this fd is already in use, close it. But, close _can_ fail!"  Then  *)
(* the dup is given up, and nfd stays closed; but pfs_dup2 tries again     *)
(* after EINTR and finds nfd closed.                                       *)
pfs_dup2(p) ==
  /\ Does(p, "dup2")
  /\ \E ofd, nfd \in Fds :
       LET t == table[p]
           cleared == Release(World, t, {nfd})
       IN  CASE ~Valid(t, ofd) ->
                  Returns("dup2", -1) /\ UNCHANGED <<pointers, fd_flags, obj>>
             [] Valid(t, ofd) /\ ofd = nfd ->
                  Returns("dup2", ofd) /\ UNCHANGED <<pointers, fd_flags, obj>>
             [] Valid(t, ofd) /\ ofd # nfd /\ ~Valid(t, nfd) ->
                  Returns("dup2", nfd) /\ Install(Share(World, t, ofd, nfd))
             [] Valid(t, ofd) /\ ofd # nfd /\ Valid(t, nfd) ->
                  \E r \in CloseResults(t, nfd) :
                    IF r = "EIO"
                    THEN Returns("dup2", -1) /\ Install(cleared)
                    ELSE Returns("dup2", nfd) /\ Install(Share(cleared, t, ofd, nfd))
  /\ UNCHANGED <<cwd, refs, table, overrun, setting>>

(* search_dup2, from 0 for dup and from the argument for F_DUPFD.          *)
search_dup2(p, op, lowest) ==
  /\ Does(p, op)
  /\ \E fd \in Fds :
       LET nfd == find_empty(pointers, table[p], lowest)
       IN  IF ~Valid(table[p], fd) \/ nfd = -1
           THEN Returns(op, -1) /\ UNCHANGED <<pointers, fd_flags, obj>>
           ELSE Returns(op, nfd) /\ Install(Share(World, table[p], fd, nfd))
  /\ UNCHANGED <<cwd, refs, table, overrun, setting>>

pfs_dup(p) == search_dup2(p, "dup", 0)
fcntl_DUPFD(p) == \E lowest \in Fds : search_dup2(p, "dupfd", lowest)

fcntl_SETFD(p) ==
  /\ Does(p, "setfd")
  /\ \E fd \in Fds, flag \in BOOLEAN :
       /\ Valid(table[p], fd)
       /\ fd_flags' = [fd_flags EXCEPT ![table[p]][fd] = flag]
  /\ Returns("setfd", 0)
  /\ UNCHANGED <<pointers, cwd, refs, obj, table, overrun, setting>>

---------------------------------------------------------------------------
(* Transfers.                                                              *)

(* pfs_file_local::read and write at an offset: the real descriptor is     *)
(* moved first if the offset is not where the last transfer ended (which   *)
(* a stream ignores).  A file gives nothing at its end; a stream may have  *)
(* nothing to give.                                                        *)
Placed_unmoved(r, off) == r

Placed(r, off) ==
  [r EXCEPT !.kernel = IF off # r.local /\ r.seekable THEN off ELSE @]

(* Where the kernel puts or takes the unit.                                *)
Where(r, off, grows) == IF grows /\ r.append THEN r.size ELSE Placed(r, off).kernel

Moved_keepsLast(r, off, grows) ==
  LET at == Where(r, off, grows)
  IN  [r EXCEPT !.local = off + 1, !.kernel = at + 1,
                !.missed = IF grows /\ r.append THEN at # off ELSE @ /\ off = r.local,
                !.size = IF grows /\ r.seekable /\ at >= @ THEN at + 1 ELSE @]

Moved(r, off, grows) ==
  LET at == Where(r, off, grows)
  IN  [r EXCEPT !.local = off + 1, !.last_offset = off + 1, !.kernel = at + 1,
                !.missed = IF grows /\ r.append THEN at # off ELSE @ /\ off = r.local,
                !.size = IF grows /\ r.seekable /\ at >= @ THEN at + 1 ELSE @]

Missed(r, off) == [Placed(r, off) EXCEPT !.missed = @ \/ (r.seekable /\ off # r.local)]

(* History: everything but an append, which the kernel places, and a       *)
(* transfer at the very offset where the last one ended when the real      *)
(* descriptor is no longer there; any other offset moves it.               *)
Known(r, off, grows) ==
  /\ ~(grows /\ r.append)
  /\ r.missed => r.seekable /\ off # r.local

(* pread and pwrite, and with them read and write, which use the pointer's *)
(* offset and move it on.                                                  *)
Transfer(p, op, fd, off, bump, grows) ==
  LET o == pointers[table[p]][fd]
      r == obj[o]
      at == Where(r, off, grows)
      more == grows \/ ~r.seekable \/ at < r.size
  IN  \/ /\ ~r.seekable /\ r.last_offset # off
         /\ Returns(op, ESPIPE)
         /\ UNCHANGED obj
      \/ /\ r.seekable \/ r.last_offset = off
         /\ more
         /\ off < MaxOff /\ at < MaxOff
         /\ obj' = [obj EXCEPT ![o] = [Moved(r, off, grows)
                                         EXCEPT !.offset = @ + (IF bump THEN 1 ELSE 0)]]
         /\ result' = [op |-> op, value |-> 1, asked |-> off, got |-> at,
                       known |-> Known(r, off, grows)]
      \/ /\ r.seekable \/ r.last_offset = off
         /\ ~more \/ ~r.seekable
         /\ obj' = [obj EXCEPT ![o] = Missed(r, off)]
         /\ Returns(op, IF r.seekable THEN 0 ELSE EAGAIN)

pfs_read(p) ==
  /\ Does(p, "read")
  /\ \E fd \in Fds :
       /\ Valid(table[p], fd)
       /\ Transfer(p, "read", fd, obj[pointers[table[p]][fd]].offset, TRUE, FALSE)
  /\ UNCHANGED <<pointers, fd_flags, cwd, refs, table, overrun, setting>>

pfs_write(p) ==
  /\ Does(p, "write")
  /\ \E fd \in Fds :
       /\ Valid(table[p], fd)
       /\ Transfer(p, "write", fd, obj[pointers[table[p]][fd]].offset, TRUE, TRUE)
  /\ UNCHANGED <<pointers, fd_flags, cwd, refs, table, overrun, setting>>

pfs_pread(p) ==
  /\ Does(p, "pread")
  /\ \E fd \in Fds, off \in 0 .. MaxOff :
       Valid(table[p], fd) /\ Transfer(p, "pread", fd, off, FALSE, FALSE)
  /\ UNCHANGED <<pointers, fd_flags, cwd, refs, table, overrun, setting>>

(* pfs_table::lseek and pfs_pointer::seek to an absolute offset, which     *)
(* SEEK_CUR and SEEK_END amount to.                                        *)
pfs_lseek(p) ==
  /\ Does(p, "lseek")
  /\ \E fd \in Fds, off \in 0 .. MaxOff :
       LET o == pointers[table[p]][fd]
       IN  /\ Valid(table[p], fd)
           /\ IF obj[o].seekable
              THEN /\ obj' = [obj EXCEPT ![o].offset = off]
                   /\ Returns("lseek", off)
              ELSE /\ Returns("lseek", -29)
                   /\ UNCHANGED obj
  /\ UNCHANGED <<pointers, fd_flags, cwd, refs, table, overrun, setting>>

---------------------------------------------------------------------------
(* Tables.                                                                 *)

pfs_chdir(p) ==
  /\ Does(p, "chdir")
  /\ \E dir \in {"/", "/d"} : cwd' = [cwd EXCEPT ![table[p]] = dir]
  /\ Returns("chdir", 0)
  /\ UNCHANGED <<pointers, fd_flags, refs, obj, table, overrun, setting>>

(* pfs_process_create without CLONE_FILES: pfs_table::fork.                *)
Fork(p, q) ==
  /\ Does(p, "fork") /\ table[q] = Null
  /\ \E t \in Tables :
       /\ refs[t] = 0 /\ \A s \in Tables : refs[s] = 0 => t <= s
       /\ pointers' = [pointers EXCEPT ![t] = pointers[table[p]]]
       /\ fd_flags' = [fd_flags EXCEPT ![t] = fd_flags[table[p]]]
       /\ obj' = [o \in Objs |-> addref(obj[o], Cardinality(Slots(pointers, table[p], o)))]
       /\ cwd' = [cwd EXCEPT ![t] = cwd[table[p]]]
       /\ refs' = [refs EXCEPT ![t] = 1]
       /\ table' = [table EXCEPT ![q] = t]
  /\ Returns("fork", 0)
  /\ UNCHANGED <<overrun, setting>>

(* pfs_process_create with CLONE_FILES.                                    *)
ShareTable(p, q) ==
  /\ Does(p, "share") /\ table[q] = Null
  /\ refs' = [refs EXCEPT ![table[p]] = @ + 1]
  /\ table' = [table EXCEPT ![q] = table[p]]
  /\ Returns("share", 0)
  /\ UNCHANGED <<pointers, fd_flags, cwd, obj, overrun, setting>>

(* close_on_exec, once the exec has succeeded.                             *)
Exec(p) ==
  /\ Does(p, "exec")
  /\ Install(Release(World, table[p], {fd \in Fds : fd_flags[table[p]][fd]}))
  /\ Returns("exec", 0)
  /\ UNCHANGED <<cwd, refs, table, overrun, setting>>

(* pfs_process_stop of a process that is gone: the last one that uses a    *)
(* table deletes it, which closes every descriptor.                        *)
Exit(p) ==
  /\ Does(p, "exit")
  /\ LET t == table[p]
     IN  /\ refs' = [refs EXCEPT ![t] = @ - 1]
         /\ IF refs[t] = 1 THEN Install(Release(World, t, Fds))
            ELSE UNCHANGED <<pointers, fd_flags, obj>>
  /\ table' = [table EXCEPT ![p] = Null]
  /\ Returns("exit", 0)
  /\ UNCHANGED <<cwd, overrun, setting>>

---------------------------------------------------------------------------
(* The first process inherits descriptor 0 from Murphy.                    *)
Init ==
  /\ setting \in Settings
  /\ pointers = [t \in Tables |-> [fd \in Fds |-> IF t = 1 /\ fd = 0 THEN 1 ELSE Null]]
  /\ fd_flags = [t \in Tables |-> [fd \in Fds |-> FALSE]]
  /\ cwd = [t \in Tables |-> "/"]
  /\ refs = [t \in Tables |-> IF t = 1 THEN 1 ELSE 0]
  /\ obj = [o \in Objs |-> IF o = 1 THEN [addref(FreeObj, 1) EXCEPT !.seekable = FALSE]
                           ELSE FreeObj]
  /\ table = [p \in Procs |-> IF p = First THEN 1 ELSE Null]
  /\ overrun = FALSE
  /\ result = NoIO

Acts(p) ==
  \/ pfs_open(p) \/ pfs_pipe(p) \/ pfs_accept(p)
  \/ pfs_close(p) \/ pfs_dup2(p) \/ pfs_dup(p) \/ fcntl_DUPFD(p) \/ fcntl_SETFD(p)
  \/ pfs_read(p) \/ pfs_write(p) \/ pfs_pread(p) \/ pfs_lseek(p)
  \/ pfs_chdir(p) \/ Exec(p) \/ Exit(p)

Next == \E p \in Procs : Acts(p) \/ \E q \in Procs : Fork(p, q) \/ ShareTable(p, q)

Spec == Init /\ [][Next]_vars

---------------------------------------------------------------------------
(* Properties.                                                             *)

(* The types of the variables.                                             *)
FdTypeOK ==
  /\ pointers \in [Tables -> [Fds -> Objs \cup {Null}]]
  /\ fd_flags \in [Tables -> [Fds -> BOOLEAN]]
  /\ refs \in [Tables -> Nat]
  /\ obj \in [Objs -> [numrefs : Nat, frefs : Nat, offset : Nat, last_offset : Nat,
                       local : Nat, kernel : Nat, size : Nat, seekable : BOOLEAN,
                       append : BOOLEAN, missed : BOOLEAN]]
  /\ table \in [Procs -> Tables \cup {Null}]
  /\ overrun \in BOOLEAN
  /\ setting \in Settings

Users(ptrs, o) == {s \in Tables \X Fds : ptrs[s[1]][s[2]] = o}

ObjectsCounted(ptrs, ob) ==
  \A o \in Objs : /\ ob[o].numrefs = Cardinality(Users(ptrs, o))
                  /\ ob[o].frefs = Cardinality(Users(ptrs, o))

TablesCounted ==
  \A t \in Tables :
    /\ refs[t] = Cardinality({p \in Procs : table[p] = t})
    /\ refs[t] = 0 => \A fd \in Fds : pointers[t][fd] = Null /\ ~fd_flags[t][fd]

(* Both counts of an object say how many descriptors of all tables refer   *)
(* to it, and the count of a table how many processes use it; a deleted    *)
(* table has no descriptors.  So nothing is closed or deleted while a      *)
(* descriptor leads to it, and nothing is left behind.                     *)
RefsExact == ObjectsCounted(pointers, obj) /\ TablesCounted

(* A transfer that is not an append takes place at the offset that was     *)
(* asked for, through whichever descriptor and process, except in the one  *)
(* case that pfs_file_local gets wrong: the offset is the one where the    *)
(* last transfer ended, but since then one elsewhere has moved nothing, or *)
(* that last one was an append, so that the real descriptor is not there.  *)
(* A transfer at any other offset puts the descriptor right again.         *)
TransferWhereAsked ==
  result.value = 1 /\ result.known /\ result.op \in {"read", "write", "pread"} =>
    result.got = result.asked

(* As long as nobody uses pread on it, a stream that is read and written   *)
(* through any of its descriptors never fails with ESPIPE.                 *)
StreamKeepsPlace ==
  "pread" \notin setting.ops => ~(result.op \in {"read", "write"} /\ result.value = ESPIPE)

(* The table is sound: its variables have their types and its counts are   *)
(* exact.                                                                  *)
TableSound == FdTypeOK /\ RefsExact

(* The two remembered offsets, of pfs_file and of pfs_file_local, lead     *)
(* astray only a transfer that continues where the last one ended after    *)
(* another has moved the real descriptor and no data, or after an append;  *)
(* and only pread makes that of a stream refuse a read or a write.         *)
OffsetsKept == TransferWhereAsked /\ StreamKeepsPlace

(* close-on-exec stays set until fcntl resets it or the descriptor is      *)
(* closed, or replaced by dup2.  (accept may reset it for another          *)
(* descriptor.)                                                            *)
CloexecKept ==
  [][\A t \in Tables, fd \in Fds :
       /\ fd_flags[t][fd] /\ ~fd_flags'[t][fd] /\ pointers'[t][fd] = pointers[t][fd]
       => \/ result'.op \in {"setfd", "accept"}
          \/ result'.op = "dup2" /\ result'.value = fd]_vars

(* The descriptors behave as FdTableAbs says.                              *)
Abs == INSTANCE FdTableAbs WITH
         space <- [t \in Tables |-> pointers[t]],
         keep <- [t \in Tables |-> {fd \in Fds : ~fd_flags[t][fd]}],
         position <- [o \in Objs |-> IF obj[o].numrefs > 0 THEN obj[o].offset ELSE Gone],
         dir <- cwd,
         uses <- table
RefinesAbs == Abs!AbsSpec
============================================================================
