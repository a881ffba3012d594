----------------------------- MODULE FileCache -----------------------------
(***************************************************************************)
(* The cache of whole files: dttools/src/file_cache.c and pfs_cache_open,  *)
(* pfs_file_cached and pfs_cache_invalidate of pfs_file_cache.cc.  Several *)
(* Murphys share one cache directory and one remote file, a path that all  *)
(* of them use.  Every system call on the directory and every call of the  *)
(* service is a step.                                                      *)
(*                                                                         *)
(* Data are the versions that wrote the chunks of a file, so that a file   *)
(* put together from two versions, or half of one, can be told from one    *)
(* that is whole.  Time is whether 60 seconds have passed since a file was *)
(* last written.                                                           *)
(***************************************************************************)
EXTENDS Integers, Sequences, FiniteSets

CONSTANTS
  MaxCreates, \* bound: opens that create or truncate
  Murphys,    \* processes of Murphy on one host
  Inodes,     \* files in the cache directory; bound on their number
  Chunks,     \* bound: the length of a file
  Versions,   \* bound: contents that are written
  Timeout,    \* pfs_master_timeout
  Settings,   \* the settings considered
  None        \* no file

(* A setting is a record of                                                *)
(*   murphys  the Murphys that run                                         *)
(*   session  is pfs_session_cache set                                     *)
(*   writers  the Murphys whose programs create and write the file         *)
(*   flags    how they open it; the others read it                         *)
(*   faults   what may happen: "crash" of a Murphy, an "error" of the      *)
(*            service, a remote file that is "inconsistent", one that      *)
(*            "changes" by other hands, "unlink" by a Murphy               *)
Flags == {"read", "create", "trunc"}
Faults == {"crash", "error", "inconsistent", "changes", "unlink"}

ASSUME CacheAssumption ==
  /\ Chunks \in Nat /\ Timeout \in Nat /\ MaxCreates \in Nat /\ Versions \in Nat \ {0}
  /\ None \notin Inodes
  /\ \A n \in 0 .. Chunks : \A file \in [1 .. n -> 0 .. Versions] : file # None
  /\ \A s \in Settings :
       /\ s.session \in BOOLEAN /\ s.murphys \subseteq Murphys /\ s.writers \subseteq s.murphys
       /\ s.flags \subseteq Flags /\ s.faults \subseteq Faults

VARIABLES
  remote,     \* the remote file: its chunks, or None
  version,    \* the last version that was written
  data,       \* the chunks of the files in the cache directory
  old,        \* has a file not been written for 60 seconds
  cached,     \* the file at cached_name of the path, or None
  txns,       \* the files in txn for the path, with the Murphy that began
              \* them, or None when it is gone
  proc,       \* what each Murphy does
  handle,     \* the pfs_file_cached that each Murphy has open
  creates,    \* the opens that created or truncated so far
  notfound,   \* is the path in not_found_table of a Murphy
  setting     \* the setting of this run; it never changes

vars == <<remote, version, data, old, cached, txns, proc, handle, creates, notfound, setting>>

Hole == 0
NoHandle == [fd |-> None, changed |-> FALSE]
Idle == [pc |-> "idle", flags |-> "read", size |-> 0, fd |-> None, wait |-> None,
         off |-> 0, sleep |-> 1]

Steps == {"idle", "stat", "look", "wait", "restat", "hit", "begin", "ropen", "copy", "rclose",
          "utime", "commit", "rcreate", "abort", "store", "stored", "invalidate", "dead"}

At(m, pc) == proc[m].pc = pc
Goto(m, pc) == proc' = [proc EXCEPT ![m].pc = pc]
Finish(m) == proc' = [proc EXCEPT ![m] = Idle]
May(f) == f \in setting.faults

Unused == {i \in Inodes : /\ cached # i
                          /\ \A t \in txns : t.file # i
                          /\ \A m \in Murphys : i \notin {proc[m].fd, proc[m].wait, handle[m].fd}}
NewInode == CHOOSE i \in Unused : TRUE

(* A file without a name and a descriptor is gone.                         *)
Keep ==
  /\ data' = [i \in Inodes |-> IF i \in Unused' THEN <<>> ELSE data[i]]
  /\ old' = [i \in Inodes |-> old[i] /\ \E t \in txns' : t.file = i]

Write(i, chunks) == data' = [data EXCEPT ![i] = chunks] /\ old' = [old EXCEPT ![i] = FALSE]

---------------------------------------------------------------------------
(* pfs_cache_open.                                                         *)

(* The not_found_table, or stat of the remote file, which gives the size   *)
(* that the cached file should have.                                       *)
Open(m, flags) ==
  /\ At(m, "idle") /\ handle[m] = NoHandle
  /\ m \in setting.murphys
  /\ flags # "read" => creates < MaxCreates
  /\ IF m \in setting.writers THEN flags \in setting.flags ELSE flags = "read"
  /\ LET size == IF setting.session \/ remote = None THEN 0 ELSE Len(remote)
     IN  /\ IF setting.session THEN flags = "read" => ~notfound[m]
            ELSE remote = None => flags # "read"
         /\ proc' = [proc EXCEPT ![m] = [Idle EXCEPT !.pc = "stat", !.flags = flags, !.size = size]]
  /\ creates' = IF flags = "read" THEN creates ELSE creates + 1
  /\ UNCHANGED <<remote, version, data, old, cached, txns, handle, notfound, setting>>

(* file_cache_open with the cached file found: is it stale.                *)
Judge(m, miss) ==
  IF cached = None THEN Goto(m, miss)
  ELSE IF proc[m].size = 0 \/ proc[m].size = Len(data[cached]) THEN Goto(m, "hit")
  ELSE Goto(m, "begin")

file_cache_stat(m) ==
  /\ At(m, "stat")
  /\ Judge(m, "look")
  /\ UNCHANGED <<remote, version, data, old, cached, txns, handle, creates, notfound, setting>>

(* wait_for_running_txn: any transaction for the path.                     *)
LookForTxn(m) ==
  /\ At(m, "look")
  /\ \/ txns = {} /\ Goto(m, "begin")
     \/ \E t \in txns : proc' = [proc EXCEPT ![m].pc = "wait", ![m].wait = t.file]
  /\ UNCHANGED <<remote, version, data, old, cached, txns, handle, creates, notfound, setting>>

Waiting_forever(m) ==
  /\ At(m, "wait")
  /\ \A t \in txns : t.file # proc[m].wait
  /\ proc' = [proc EXCEPT ![m].pc = "restat", ![m].wait = None]
  /\ UNCHANGED <<remote, version, cached, txns, handle, creates, notfound, setting>>
  /\ Keep

(* It waits until the transaction is gone, or is overridden.               *)
Waiting(m) ==
  /\ At(m, "wait")
  /\ LET running == \E t \in txns : t.file = proc[m].wait
     IN  /\ running => old[proc[m].wait]
         /\ proc' = [proc EXCEPT ![m].pc = IF running THEN "begin" ELSE "restat", ![m].wait = None]
  /\ UNCHANGED <<remote, version, cached, txns, handle, creates, notfound, setting>>
  /\ Keep

StatAgain(m) ==
  /\ At(m, "restat")
  /\ Judge(m, "begin")
  /\ UNCHANGED <<remote, version, data, old, cached, txns, handle, creates, notfound, setting>>

(* open64 of the cached file, which may be another one by now, or gone.    *)
OpenHit(m) ==
  /\ At(m, "hit")
  /\ IF cached = None THEN Goto(m, "begin") /\ UNCHANGED <<data, old, handle>>
     ELSE /\ handle' = [handle EXCEPT ![m] = [fd |-> cached, changed |-> FALSE]]
          /\ Finish(m)
          /\ IF proc[m].flags = "trunc" THEN Write(cached, <<>>) ELSE UNCHANGED <<data, old>>
  /\ UNCHANGED <<remote, version, cached, txns, creates, notfound, setting>>

file_cache_begin(m) ==
  /\ At(m, "begin") /\ Unused # {}
  /\ txns' = txns \cup {[file |-> NewInode, owner |-> m]}
  /\ Write(NewInode, <<>>)
  /\ proc' = [proc EXCEPT ![m].pc = "ropen", ![m].fd = NewInode]
  /\ UNCHANGED <<remote, version, cached, handle, creates, notfound, setting>>

Fail_ignored(m, enoent) ==
  Goto(m, "utime") /\ UNCHANGED notfound

Fail(m, enoent) ==
  /\ Goto(m, "abort")
  /\ notfound' = [notfound EXCEPT ![m] = @ \/ (setting.session /\ enoent)]

(* The remote file is opened for reading unless it would be truncated.     *)
OpenRemote(m) ==
  /\ At(m, "ropen")
  /\ LET ok_to_fail == proc[m].flags # "read"
     IN  \/ /\ proc[m].flags # "trunc" /\ remote # None
            /\ Goto(m, "copy") /\ UNCHANGED notfound
         \/ /\ proc[m].flags = "trunc" \/ remote = None \/ May("error")
            /\ IF ok_to_fail THEN Goto(m, "rcreate") /\ UNCHANGED notfound
               ELSE Fail(m, remote = None)
  /\ UNCHANGED <<remote, version, data, old, cached, txns, handle, creates, setting>>

(* copy_file_to_fd.                                                        *)
Copy(m) ==
  /\ At(m, "copy")
  /\ LET off == proc[m].off
         fd == proc[m].fd
     IN  \/ /\ remote # None /\ off < Len(remote)
            /\ Write(fd, Append(data[fd], remote[off + 1]))
            /\ proc' = [proc EXCEPT ![m].off = @ + 1]
            /\ UNCHANGED notfound
         \/ /\ remote # None /\ off >= Len(remote)
            /\ Goto(m, "rclose") /\ UNCHANGED <<data, old, notfound>>
         \/ /\ remote = None \/ May("error")
            /\ Fail(m, FALSE) /\ UNCHANGED <<data, old>>
  /\ UNCHANGED <<remote, version, cached, txns, handle, creates, setting>>

Unlink(file) == txns' = {t \in txns : t.file # file}

GivesUp_never(sleep) == FALSE
GivesUp(sleep) == sleep >= Timeout

(* The close of the remote file: if it says that the file system is not    *)
(* consistent everything is tried again, after twice the time, until       *)
(* Murphy gives up.                                                        *)
CloseRemote(m) ==
  /\ At(m, "rclose")
  /\ \/ Goto(m, "utime") /\ UNCHANGED txns
     \/ /\ May("inconsistent")
        /\ Unlink(proc[m].fd)
        /\ LET again == ~GivesUp(proc[m].sleep)
           IN  proc' = [proc EXCEPT ![m] =
                 [Idle EXCEPT !.pc = IF again THEN "stat" ELSE "dead", !.flags = proc[m].flags,
                              !.size = IF setting.session \/ remote = None THEN 0 ELSE Len(remote),
                              !.sleep = IF again THEN 2 * proc[m].sleep ELSE 1]]
  /\ UNCHANGED <<remote, version, cached, handle, creates, notfound, setting>>
  /\ Keep

(* The time of the remote file may be any.                                 *)
Utime(m) ==
  /\ At(m, "utime")
  /\ \E o \in BOOLEAN : old' = [old EXCEPT ![proc[m].fd] = o]
  /\ Goto(m, "commit")
  /\ UNCHANGED <<remote, version, data, cached, txns, handle, creates, notfound, setting>>

(* rename replaces what is there; it fails with ENOENT when the            *)
(* transaction was removed by somebody else.                               *)
file_cache_commit(m) ==
  /\ At(m, "commit")
  /\ IF \E t \in txns : t.file = proc[m].fd
     THEN /\ cached' = proc[m].fd /\ Unlink(proc[m].fd)
          /\ handle' = [handle EXCEPT ![m] = [fd |-> proc[m].fd, changed |-> FALSE]]
          /\ Finish(m)
          /\ UNCHANGED notfound
     ELSE Fail(m, TRUE) /\ UNCHANGED <<cached, txns, handle>>
  /\ UNCHANGED <<remote, version, creates, setting>>
  /\ Keep

(* The file is created at the service; the transaction stays where it is,  *)
(* and the new file is in it.                                              *)
CreateRemote(m) ==
  /\ At(m, "rcreate")
  /\ \/ /\ remote' = IF proc[m].flags = "trunc" \/ remote = None THEN <<>> ELSE remote
        /\ handle' = [handle EXCEPT ![m] = [fd |-> proc[m].fd, changed |-> TRUE]]
        /\ Write(proc[m].fd, <<>>)
        /\ Finish(m)
        /\ UNCHANGED notfound
     \/ /\ May("error")
        /\ Fail(m, FALSE)
        /\ UNCHANGED <<remote, data, old, handle>>
  /\ UNCHANGED <<version, cached, txns, creates, setting>>

Abort_leaves(m) ==
  /\ At(m, "abort")
  /\ Finish(m)
  /\ UNCHANGED <<remote, version, cached, txns, handle, creates, notfound, setting>>
  /\ Keep

Abort(m) ==
  /\ At(m, "abort")
  /\ Unlink(proc[m].fd)
  /\ Finish(m)
  /\ UNCHANGED <<remote, version, cached, handle, creates, notfound, setting>>
  /\ Keep

---------------------------------------------------------------------------
(* pfs_file_cached, and pfs_table::unlink.                                 *)

(* write at the end, straight into the cached file.                        *)
WriteCached(m) ==
  /\ m \in setting.writers
  /\ At(m, "idle") /\ handle[m] # NoHandle
  /\ version < Versions /\ Len(data[handle[m].fd]) < Chunks
  /\ version' = version + 1
  /\ Write(handle[m].fd, Append(data[handle[m].fd], version + 1))
  /\ handle' = [handle EXCEPT ![m].changed = TRUE]
  /\ UNCHANGED <<remote, cached, txns, proc, creates, notfound, setting>>

StoreOpened_kept(file) == IF file = None THEN <<>> ELSE file
StoreOpened(file) == <<>>

(* close: what was changed is stored, beginning with an open that          *)
(* truncates the remote file; it may fail, and the changes with it.        *)
CloseCached(m) ==
  /\ At(m, "idle") /\ handle[m] # NoHandle
  /\ \/ /\ handle[m].changed
        /\ remote' = StoreOpened(remote)
        /\ Goto(m, "store") /\ UNCHANGED handle
     \/ /\ ~handle[m].changed \/ May("error")
        /\ handle' = [handle EXCEPT ![m] = NoHandle]
        /\ UNCHANGED <<remote, proc>>
  /\ UNCHANGED <<version, cached, txns, creates, notfound, setting>>
  /\ Keep

(* A write past the end leaves a hole.                                     *)
WriteAt(file, off, chunk) ==
  [i \in 1 .. IF off < Len(file) THEN Len(file) ELSE off + 1 |->
     IF i = off + 1 THEN chunk ELSE IF i <= Len(file) THEN file[i] ELSE Hole]

(* copy_fd_to_file.                                                        *)
Store(m) ==
  /\ At(m, "store")
  /\ LET off == proc[m].off
         fd == handle[m].fd
     IN  \/ /\ off < Len(data[fd]) /\ remote # None
            /\ remote' = WriteAt(remote, off, data[fd][off + 1])
            /\ proc' = [proc EXCEPT ![m].off = @ + 1]
            /\ UNCHANGED handle
         \/ /\ off >= Len(data[fd]) \/ remote = None
            /\ Goto(m, "stored")
            /\ UNCHANGED <<remote, handle>>
         \/ /\ May("error")
            /\ handle' = [handle EXCEPT ![m] = NoHandle]
            /\ Finish(m)
            /\ UNCHANGED remote
  /\ UNCHANGED <<version, cached, txns, creates, notfound, setting>>
  /\ Keep

Stored(m) ==
  /\ At(m, "stored")
  /\ handle' = [handle EXCEPT ![m] = NoHandle]
  /\ Finish(m)
  /\ UNCHANGED <<remote, version, cached, txns, creates, notfound, setting>>
  /\ Keep

UnlinkRemote(m) ==
  /\ May("unlink")
  /\ At(m, "idle") /\ handle[m] = NoHandle /\ remote # None
  /\ remote' = None
  /\ Goto(m, "invalidate")
  /\ UNCHANGED <<version, data, old, cached, txns, handle, creates, notfound, setting>>

pfs_cache_invalidate(m) ==
  /\ At(m, "invalidate")
  /\ cached' = None
  /\ notfound' = [notfound EXCEPT ![m] = FALSE]
  /\ Finish(m)
  /\ UNCHANGED <<remote, version, txns, handle, creates, setting>>
  /\ Keep

---------------------------------------------------------------------------
(* The world: other users of the remote file, time, and crashes.           *)

RemoteChanges ==
  /\ May("changes") /\ version < Versions
  /\ version' = version + 1
  /\ \E n \in 0 .. Chunks : remote' = [i \in 1 .. n |-> version + 1]
  /\ UNCHANGED <<data, old, cached, txns, proc, handle, creates, notfound, setting>>

MinutePasses ==
  /\ \E t \in txns : ~old[t.file]
  /\ old' = [i \in Inodes |-> old[i] \/ \E t \in txns : t.file = i]
  /\ UNCHANGED <<remote, version, data, cached, txns, proc, handle, creates, notfound, setting>>

Crash(m) ==
  /\ May("crash") /\ ~At(m, "dead")
  /\ proc' = [proc EXCEPT ![m] = [Idle EXCEPT !.pc = "dead"]]
  /\ handle' = [handle EXCEPT ![m] = NoHandle]
  /\ txns' = {[t EXCEPT !.owner = IF @ = m THEN None ELSE @] : t \in txns}
  /\ UNCHANGED <<remote, version, cached, creates, notfound, setting>>
  /\ Keep

(* A new Murphy: file_cache_cleanup removes what those left that are gone. *)
file_cache_cleanup(m) ==
  /\ At(m, "dead") /\ May("crash")
  /\ txns' = {t \in txns : t.owner # None}
  /\ Finish(m)
  /\ notfound' = [notfound EXCEPT ![m] = FALSE]
  /\ UNCHANGED <<remote, version, cached, handle, creates, setting>>
  /\ Keep

---------------------------------------------------------------------------
Init ==
  /\ setting \in Settings
  /\ remote \in {None, [i \in 1 .. Chunks |-> 1]}
  /\ version = 1
  /\ data = [i \in Inodes |-> <<>>]
  /\ old = [i \in Inodes |-> FALSE]
  /\ cached = None
  /\ txns = {}
  /\ proc = [m \in Murphys |-> Idle]
  /\ handle = [m \in Murphys |-> NoHandle]
  /\ notfound = [m \in Murphys |-> FALSE]
  /\ creates = 0

Works(m) ==
  \/ file_cache_stat(m) \/ LookForTxn(m) \/ Waiting(m) \/ StatAgain(m) \/ OpenHit(m)
  \/ file_cache_begin(m) \/ OpenRemote(m) \/ Copy(m) \/ CloseRemote(m) \/ Utime(m)
  \/ file_cache_commit(m) \/ CreateRemote(m) \/ Abort(m)
  \/ Store(m) \/ Stored(m) \/ pfs_cache_invalidate(m)

Next ==
  \/ \E m \in Murphys :
       \/ \E flags \in Flags : Open(m, flags)
       \/ Works(m)
       \/ WriteCached(m) \/ CloseCached(m) \/ UnlinkRemote(m)
       \/ Crash(m) \/ file_cache_cleanup(m)
  \/ RemoteChanges \/ MinutePasses

(* Each Murphy runs, and while it waits time passes: weak fairness of the  *)
(* two, with the states that have such a step spelt out.                   *)
MustWait(m) == At(m, "wait") /\ \E t \in txns : t.file = proc[m].wait /\ ~old[t.file]
Busy(m) ==
  /\ ~At(m, "idle") /\ ~At(m, "dead")
  /\ At(m, "begin") => Unused # {}
  /\ At(m, "wait") => MustWait(m) \/ ENABLED Waiting(m)

Fairness ==
  \A m \in Murphys :
    []<>~Busy(m) \/ []<><<Works(m) \/ (MustWait(m) /\ MinutePasses)>>_vars

Spec == Init /\ [][Next]_vars
FairSpec == Spec /\ Fairness

---------------------------------------------------------------------------
(* Properties.                                                             *)

(* The types of the variables.                                             *)
CacheTypeOK ==
  /\ remote = None \/ Len(remote) <= Chunks
  /\ version \in 1 .. Versions
  /\ \A i \in Inodes : Len(data[i]) <= Chunks
  /\ old \in [Inodes -> BOOLEAN]
  /\ cached \in Inodes \cup {None}
  /\ \A t \in txns : t.file \in Inodes /\ t.owner \in Murphys \cup {None}
  /\ \A m \in Murphys : /\ proc[m].pc \in Steps /\ proc[m].fd \in Inodes \cup {None}
                        /\ proc[m].sleep = 1 \/ proc[m].sleep < 2 * Timeout
                        /\ handle[m].fd \in Inodes \cup {None}
  /\ notfound \in [Murphys -> BOOLEAN]
  /\ creates \in 0 .. MaxCreates

(* Nobody changes the file.                                                *)
ReadOnly == setting.writers = {} /\ setting.faults \subseteq {"crash", "error", "inconsistent"}

(* While nobody changes the remote file, the file in the cache and every   *)
(* file that an open has returned are whole copies of it: whichever Murphy *)
(* crashed, was overridden as too slow, or lost its transaction.           *)
CopiesWhole ==
  ReadOnly => /\ cached # None => data[cached] = remote
              /\ \A m \in Murphys : handle[m].fd # None => data[handle[m].fd] = remote

(* A Murphy that has nothing open and opens nothing has left no            *)
(* transaction behind, unless it created a file (then the transaction      *)
(* stays until a new Murphy finds it).                                     *)
NothingLeftBehind ==
  setting.writers = {} =>
    \A t \in txns : t.owner # None => proc[t.owner].fd = t.file

(* When the only writer has stored the file and nobody else changed it,    *)
(* the remote file is what was written, whatever those did that read it    *)
(* meanwhile through the same cache.                                       *)
StoredWhole ==
  \A m \in Murphys :
    At(m, "stored") /\ setting.writers = {m} /\ setting.faults \cap {"changes", "unlink"} = {}
      => remote = data[handle[m].fd]

(* Copies are whole on the way in and on the way out.                      *)
CopiesFaithful == CacheTypeOK /\ CopiesWhole /\ StoredWhole

(* Every open, close and unlink comes to an end, though a transaction that *)
(* it waits for may never do.                                              *)
OpenReturns ==
  \A m \in Murphys : []<>(At(m, "idle") \/ At(m, "dead"))
============================================================================
