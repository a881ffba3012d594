----------------------------- MODULE ChirpAlloc -----------------------------
(***************************************************************************)
(* Space allocations of the Chirp server (chirp/src/chirp_alloc.c): a      *)
(* directory may carry a state file .__alloc with its size and the space    *)
(* in use.  Every connection has a server process of its own.  A process    *)
(* locks the state file of the allocation it works in, keeps the state in   *)
(* memory (alloc_table) and writes it back when it flushes: after a second  *)
(* without requests, after mkalloc, rmdir and a rename between allocations, *)
(* and before it waits for a lock.                                          *)
(*                                                                         *)
(* The tree: the root "r" with the file "f", and below it the directory     *)
(* "d", absent, plain or an allocation, with the file "g".                  *)
(***************************************************************************)
EXTENDS Integers, Sequences, FiniteSets

CONSTANTS Servers,      \* the server processes
          Nobody,       \* no process
          BlockBytes,   \* the block size of space_consumed
          RootSize,     \* the root quota
          SubSizes,     \* the sizes mkalloc may ask for
          FileSizes,    \* the sizes that requests ask for
          MaxStates,    \* bound on the state files ever made
          Mixes         \* the kinds of requests that come together in a behaviour

ASSUME AllocAssumption ==
  /\ Nobody \notin Servers /\ IsFiniteSet(Servers)
  /\ BlockBytes \in Nat \ {0} /\ RootSize \in Nat
  /\ FileSizes \subseteq Nat /\ SubSizes \subseteq Nat /\ MaxStates \in Nat \ {0}

Dirs == {"r", "d"}
Names == {"f", "g"}
DirOf(n) == IF n = "f" THEN "r" ELSE "d"
Inos == 1..(2 + Cardinality(Servers))

VARIABLES mix,       \* the kinds of requests of this behaviour
          disk,      \* [at, bytes, d, acct, made]: inode of each name (0: none), size of each
                     \* inode, what "d" is (0: absent, 1: plain, else its state file),
                     \* contents of the state files (1 is the root's), how many were made
          lock,      \* the holder of the lock on each state file (or Nobody)
          table,     \* alloc_table of each process: directory -> [id, size, inuse, dirty]
          roots,     \* root_table of each process: directory -> directory
          fd,        \* the descriptor of each process: [name, ino] (ino 0: none)
          req,       \* the request each process is at
          books      \* "right"; "off" after something that the accounting does not
                     \* follow; "recovered" after a restart
allocVars == <<mix, disk, lock, table, roots, fd, req, books>>

Nothing == [x \in {} |-> 0]
NoReq == [op |-> "none", need |-> <<>>, got |-> <<>>, root |-> "none", file |-> 0,
          wait |-> FALSE]
NoFd == [name |-> "f", ino |-> 0]

AlInit ==
  /\ mix \in Mixes
  /\ disk = [at |-> [n \in Names |-> 0], bytes |-> [i \in Inos |-> 0], d |-> 0,
             acct |-> [i \in 1..MaxStates |-> [size |-> IF i = 1 THEN RootSize ELSE 0,
                                               inuse |-> 0]],
             made |-> 1]
  /\ lock = [i \in 1..MaxStates |-> Nobody]
  /\ table = [p \in Servers |-> Nothing] /\ roots = [p \in Servers |-> Nothing]
  /\ fd = [p \in Servers |-> NoFd] /\ req = [p \in Servers |-> NoReq]
  /\ books = "right"

space_consumed(n) ==
  (n \div BlockBytes + (IF n % BlockBytes = 0 THEN 0 ELSE 1)) * BlockBytes
Size(n) == IF disk.at[n] = 0 THEN -1 ELSE disk.bytes[disk.at[n]]
Exists(x) == x = "r" \/ disk.d # 0

(* alloc_state_root: the nearest directory upwards with a state file. *)
alloc_state_root(x) == IF x = "d" /\ disk.d > 1 THEN "d" ELSE "r"
StateFile(x) == IF x = "r" THEN 1 ELSE disk.d

(***************************************************************************)
(* A process works on w = [disk, lock, table, roots].                      *)
(***************************************************************************)
Kept == [disk |-> disk, lock |-> lock, table |-> table, roots |-> roots]
alloc_state_update(a, change) ==
  IF change = 0 THEN a
  ELSE [a EXCEPT !.inuse = IF @ + change < 0 THEN 0 ELSE @ + change, !.dirty = TRUE]
avail(a) == a.size - a.inuse

(* chirp_alloc_flush: every state is saved and unlocked, both tables emptied. *)
chirp_alloc_flush(w, p) ==
  LET mine(i) == \E x \in DOMAIN w.table[p]: w.table[p][x].id = i
      state(i) == w.table[p][CHOOSE x \in DOMAIN w.table[p]: w.table[p][x].id = i]
  IN [disk |-> [w.disk EXCEPT !.acct =
         [i \in 1..MaxStates |-> IF mine(i) /\ state(i).dirty
                                 THEN [size |-> state(i).size, inuse |-> state(i).inuse]
                                 ELSE w.disk.acct[i]]],
      lock |-> [i \in 1..MaxStates |-> IF mine(i) THEN Nobody ELSE w.lock[i]],
      table |-> [w.table EXCEPT ![p] = Nothing],
      roots |-> [w.roots EXCEPT ![p] = Nothing]]

With(f, x, v) == [y \in DOMAIN f \union {x} |-> IF y = x THEN v ELSE f[y]]
alloc_state_load(w, p, x, i) ==
  [w EXCEPT !.lock[i] = p,
            !.table[p] = With(@, x, [id |-> i, size |-> w.disk.acct[i].size,
                                     inuse |-> w.disk.acct[i].inuse, dirty |-> FALSE])]

Tidy(k, open) ==        \* an inode without name and descriptor is free
  [k EXCEPT !.bytes = [i \in Inos |->
     IF (\E n \in Names: k.at[n] = i) \/ (\E p \in Servers: open[p].ino = i) THEN @[i] ELSE 0]]
Keep(w) ==
  disk' = Tidy(w.disk, fd) /\ lock' = w.lock /\ table' = w.table /\ roots' = w.roots

(***************************************************************************)
(* A request names the directories whose allocation it needs, in the order *)
(* of its calls of alloc_state_cache; got are the pointers it has, as the   *)
(* keys of alloc_table, "freed" when a flush has freed the state.           *)
(***************************************************************************)
Requests ==
  [op: {"open"}, name: Names, trunc: BOOLEAN] \union
  [op: {"pwrite", "ftruncate"}, n: FileSizes] \union
  [op: {"truncate", "putfile"}, name: Names, n: FileSizes] \union
  [op: {"unlink"}, name: Names] \union [op: {"rename"}, name: Names] \union
  [op: {"mkalloc"}, n: SubSizes] \union [op: {"rmdir"}]
Needs(q, p) ==
  CASE q.op \in {"open", "truncate", "putfile", "unlink"} -> <<DirOf(q.name)>>
    [] q.op \in {"pwrite", "ftruncate"} -> <<DirOf(fd[p].name)>>
    [] q.op = "rename" -> IF q.name = "f" THEN <<"r", "d">> ELSE <<"d", "r">>
    [] q.op = "mkalloc" -> <<"r">>
    [] q.op = "rmdir" -> <<"d", "r">>

AlRequest(p) ==
  /\ req[p] = NoReq /\ books = "right"
  /\ \E q \in Requests:
       /\ q.op \in mix
       /\ q.op \in {"pwrite", "ftruncate"} => fd[p].ino # 0
       /\ q.op = "open" => fd[p].ino = 0
       /\ req' = [req EXCEPT ![p] = [op |-> q.op, q |-> q, need |-> Needs(q, p),
                                     got |-> <<>>, root |-> "none", file |-> 0,
                                     wait |-> FALSE]]
  /\ UNCHANGED <<disk, lock, table, roots, fd, books>>

(***************************************************************************)
(* alloc_state_cache_exact, for the next directory the request needs: the  *)
(* root is looked up and remembered (alloc_state_root_cached); unless it is *)
(* in alloc_table its state file is opened, then locked (alloc_state_load). *)
(* Other processes go on between these steps, and nothing is looked up      *)
(* again under the lock.                                                    *)
(***************************************************************************)
Got(r, x) ==
  [r EXCEPT !.need = Tail(@), !.got = Append(@, x), !.root = "none", !.file = 0,
            !.wait = FALSE]
Freed(r) == [r EXCEPT !.got = [k \in DOMAIN @ |-> "freed"]]
alloc_state_cache(p) ==
  /\ req[p].need # <<>> /\ req[p].root = "none"
  /\ LET x == Head(req[p].need)
         known == x \in DOMAIN roots[p]
         r == IF known THEN roots[p][x] ELSE alloc_state_root(x)
     IN /\ Keep([Kept EXCEPT !.roots[p] = IF known THEN @ ELSE With(@, x, r)])
        /\ req' = [req EXCEPT ![p] = IF r \in DOMAIN table[p] THEN Got(@, r)
                                     ELSE [@ EXCEPT !.root = r]]
  /\ UNCHANGED <<fd, books>>

(* fopen: it fails, and so does the request, when the state file is gone.   *)
OpenState(p) ==
  /\ req[p].root # "none" /\ req[p].file = 0
  /\ req' = [req EXCEPT ![p] = IF @.root = "d" /\ disk.d < 2 THEN NoReq
                               ELSE [@ EXCEPT !.file = StateFile(req[p].root)]]
  /\ UNCHANGED <<disk, lock, table, roots, fd, books>>

Off(off) == IF off THEN "off" ELSE books

(* The lock is there, and the state is read.  The file may be gone by now.  *)
Locked(p) ==
  /\ Keep(alloc_state_load(Kept, p, req[p].root, req[p].file))
  /\ req' = [req EXCEPT ![p] = Got(@, @.root)]
  /\ books' = Off(req[p].file # StateFile(req[p].root))

(* lockf(F_TLOCK): a lock that another process has is waited for, but only  *)
(* after a flush.                                                           *)
BeforeWait_hold(w, p) == w
BeforeWait(w, p) == chirp_alloc_flush(w, p)
TryLock(p) ==
  /\ req[p].file # 0 /\ ~req[p].wait
  /\ IF lock[req[p].file] = Nobody THEN Locked(p)
     ELSE /\ Keep(BeforeWait(Kept, p))
          /\ req' = [req EXCEPT ![p] = [Freed(@) EXCEPT !.wait = TRUE]]
          /\ UNCHANGED books
  /\ UNCHANGED fd

(* lockf(F_LOCK) returns. *)
AlGranted(p) ==
  /\ req[p].wait /\ lock[req[p].file] = Nobody
  /\ Locked(p)
  /\ UNCHANGED fd

(***************************************************************************)
(* What a request does once it has its pointers.  Charge is                *)
(* alloc_state_update through pointer k; through a freed one the update is  *)
(* lost.  OnBooks says that pointer k is that of the allocation directory x *)
(* is in now.                                                               *)
(***************************************************************************)
Ptr(p, k) == req[p].got[k]
Pointed(p, k) == table[p][Ptr(p, k)]
Charge(w, p, k, change) ==
  IF Ptr(p, k) = "freed" THEN w
  ELSE [w EXCEPT !.table[p] = [@ EXCEPT ![Ptr(p, k)] = alloc_state_update(@, change)]]
OnBooks(p, k, x) ==
  Ptr(p, k) # "freed" /\ Pointed(p, k).id = StateFile(alloc_state_root(x))

Unused == CHOOSE i \in Inos: /\ \A n \in Names: disk.at[n] # i
                             /\ \A p \in Servers: fd[p].ino # i
Finish(p, w, off) ==
  /\ Keep(w) /\ req' = [req EXCEPT ![p] = NoReq] /\ books' = Off(off)
Ready(p, op) == req[p].op = op /\ req[p].need = <<>>
Refuse(p) == Finish(p, Kept, FALSE) /\ UNCHANGED fd

chirp_alloc_open(p) ==
  /\ Ready(p, "open")
  /\ LET n == req[p].q.name
         x == DirOf(n)
         i == IF disk.at[n] = 0 THEN Unused ELSE disk.at[n]
         old == IF Size(n) < 0 THEN 0 ELSE Size(n)
         cut == req[p].q.trunc
         w == [Kept EXCEPT !.disk.at[n] = i, !.disk.bytes[i] = IF cut THEN 0 ELSE old]
     IN \/ Refuse(p)        \* cfs->open failed
        \/ /\ Exists(x)
           /\ fd' = [fd EXCEPT ![p] = [name |-> n, ino |-> i]]
           /\ IF cut THEN Finish(p, Charge(w, p, 1, -space_consumed(old)),
                                 old > 0 /\ ~OnBooks(p, 1, x))
                     ELSE Finish(p, w, FALSE)

(* chirp_alloc_pwrite, ftruncate and truncate: the inode i is to get n      *)
(* bytes, which is what is charged, and gets got of them; or there is no    *)
(* room, or the call fails.                                                 *)
Resize(p, i, n, got, named, x) ==
  LET change == space_consumed(n) - space_consumed(disk.bytes[i])
  IN \/ Refuse(p)
     \/ /\ avail(Pointed(p, 1)) >= change
        /\ Finish(p, Charge([Kept EXCEPT !.disk.bytes[i] = got], p, 1, change),
                  \/ change # 0 /\ ~(named /\ OnBooks(p, 1, x))
                  \/ space_consumed(got) # space_consumed(n))
        /\ UNCHANGED fd
chirp_alloc_pwrite(p) ==
  /\ Ready(p, "pwrite")
  /\ LET i == fd[p].ino
         n == IF req[p].q.n > disk.bytes[i] THEN req[p].q.n ELSE disk.bytes[i]
     IN \E got \in disk.bytes[i] .. n :        \* cfs->pwrite may write less
          Resize(p, i, n, got, disk.at[fd[p].name] = i, DirOf(fd[p].name))
chirp_alloc_ftruncate(p) ==
  /\ Ready(p, "ftruncate")
  /\ Resize(p, fd[p].ino, req[p].q.n, req[p].q.n, disk.at[fd[p].name] = fd[p].ino,
            DirOf(fd[p].name))
chirp_alloc_truncate(p) ==
  /\ Ready(p, "truncate")
  /\ LET n == req[p].q.name
     IN IF Size(n) < 0 THEN Refuse(p)
        ELSE Resize(p, disk.at[n], req[p].q.n, req[p].q.n, TRUE, DirOf(n))

Unlinked_uncharged(p, n) ==
  IF Size(n) < 0 THEN Kept ELSE [Kept EXCEPT !.disk.at[n] = 0]
Unlinked(p, n) ==
  IF Size(n) < 0 THEN Kept
  ELSE Charge([Kept EXCEPT !.disk.at[n] = 0], p, 1, -space_consumed(Size(n)))
chirp_alloc_unlink(p) ==
  /\ Ready(p, "unlink") /\ UNCHANGED fd
  /\ LET n == req[p].q.name
     IN \/ Finish(p, Unlinked(p, n), Size(n) > 0 /\ ~OnBooks(p, 1, DirOf(n)))
        \/ Refuse(p)        \* cfs->unlink failed

(* chirp_alloc_putfile unlinks the old file, and asks for the allocation    *)
(* again before it takes the new one ("put").  A transfer that fails, or    *)
(* one of 0 bytes, leaves no file.                                          *)
chirp_alloc_putfile(p) ==
  /\ Ready(p, "putfile") /\ UNCHANGED fd
  /\ LET n == req[p].q.name
     IN /\ Keep(Unlinked(p, n))
        /\ books' = Off(Size(n) > 0 /\ ~OnBooks(p, 1, DirOf(n)))
        /\ req' = [req EXCEPT ![p].op = "put", ![p].need = <<DirOf(n)>>, ![p].got = <<>>]
chirp_alloc_put(p) ==
  /\ Ready(p, "put") /\ UNCHANGED fd
  /\ LET n == req[p].q.name
         len == req[p].q.n
         w == [Kept EXCEPT !.disk.at[n] = Unused, !.disk.bytes[Unused] = len]
     IN IF avail(Pointed(p, 1)) > len /\ Exists(DirOf(n)) /\ len > 0
        THEN \/ Finish(p, Charge(w, p, 1, space_consumed(len)), ~OnBooks(p, 1, DirOf(n)))
             \/ Refuse(p)
        ELSE Refuse(p)

chirp_alloc_rename(p) ==
  /\ Ready(p, "rename") /\ UNCHANGED fd
  /\ LET n == req[p].q.name
         m == IF n = "f" THEN "g" ELSE "f"
         same == Ptr(p, 1) = Ptr(p, 2)
         can == Size(n) >= 0 /\ Exists(DirOf(m))
         w == IF can THEN [Kept EXCEPT !.disk.at[m] = disk.at[n], !.disk.at[n] = 0] ELSE Kept
         len == space_consumed(Size(n))
         off == can /\ (Size(m) > 0 \/ (~same /\ Size(n) > 0 /\
                        ~(OnBooks(p, 1, DirOf(n)) /\ OnBooks(p, 2, DirOf(m)))))
     IN IF same THEN Finish(p, w, off)
        ELSE IF Size(n) < 0 \/ avail(Pointed(p, 2)) < Size(n) THEN Refuse(p)
        ELSE Finish(p, chirp_alloc_flush(
               IF can THEN Charge(Charge(w, p, 1, -len), p, 2, len) ELSE w, p), off)

chirp_alloc_mkalloc(p) ==
  /\ Ready(p, "mkalloc") /\ UNCHANGED fd
  /\ LET n == req[p].q.n
         i == disk.made + 1
         w == [Kept EXCEPT !.disk.d = i, !.disk.made = i,
                            !.disk.acct[i] = [size |-> n, inuse |-> 0]]
     IN IF avail(Pointed(p, 1)) > n /\ disk.d = 0 /\ i <= MaxStates
        THEN \/ Finish(p, chirp_alloc_flush(Charge(w, p, 1, n), p), FALSE)
             \* alloc_state_create failed: a plain directory is left
             \/ Finish(p, [Kept EXCEPT !.disk.d = 1], FALSE)
        ELSE Refuse(p)

(* chirp_alloc_rmdir reads the size of d through its first pointer. *)
chirp_alloc_rmdir(p) ==
  /\ Ready(p, "rmdir") /\ UNCHANGED fd
  /\ LET freed == Ptr(p, 1) = "freed"
         w == [Kept EXCEPT !.disk.d = 0]
     IN IF disk.d = 0 \/ disk.at["g"] # 0 THEN Refuse(p)
        ELSE IF Ptr(p, 1) = Ptr(p, 2) THEN Finish(p, chirp_alloc_flush(w, p), disk.d > 1)
        ELSE \E n \in IF freed THEN SubSizes \union {0} ELSE {Pointed(p, 1).size}:
               Finish(p, chirp_alloc_flush(Charge(w, p, 2, -n), p),
                      freed \/ ~OnBooks(p, 1, "d"))

(* Requests that take no allocation: mkdir, and close. *)
chirp_alloc_mkdir(p) ==
  /\ req[p] = NoReq /\ books = "right" /\ "mkdir" \in mix
  /\ disk.d = 0 /\ disk' = [disk EXCEPT !.d = 1]
  /\ UNCHANGED <<lock, table, roots, fd, req, books>>
chirp_alloc_close(p) ==
  /\ req[p] = NoReq /\ fd[p] # NoFd /\ fd' = [fd EXCEPT ![p] = NoFd]
  /\ disk' = Tidy(disk, fd') /\ UNCHANGED <<lock, table, roots, req, books>>

(* chirp_handler, after a second without a request. *)
IdleFlush(p) ==
  /\ req[p] = NoReq /\ table[p] # Nothing
  /\ Keep(chirp_alloc_flush(Kept, p)) /\ UNCHANGED <<fd, req, books>>

(***************************************************************************)
(* A server process dies with what it has not saved; the kernel drops its  *)
(* locks.  chirp_alloc_init, when the server starts again, counts the space *)
(* of every allocation anew (recover).                                      *)
(***************************************************************************)
Crash(p) ==
  /\ lock' = [i \in DOMAIN lock |-> IF lock[i] = p THEN Nobody ELSE lock[i]]
  /\ table' = [table EXCEPT ![p] = Nothing] /\ roots' = [roots EXCEPT ![p] = Nothing]
  /\ fd' = [fd EXCEPT ![p] = NoFd] /\ req' = [req EXCEPT ![p] = NoReq]
  /\ books' = Off(\E x \in DOMAIN table[p]: table[p][x].dirty)
  /\ (lock' # lock \/ fd' # fd \/ req' # req) /\ disk' = Tidy(disk, fd')

Consumed(n) == IF Size(n) < 0 THEN 0 ELSE space_consumed(Size(n))
recover_flat(x) ==
  IF x = "d" THEN Consumed("g") ELSE Consumed("f") + Consumed("g")
recover(x) ==
  IF x = "d" THEN Consumed("g")
  ELSE Consumed("f") + (IF disk.d = 0 THEN 0 ELSE
                        IF disk.d = 1 THEN Consumed("g") ELSE disk.acct[disk.d].size)
chirp_alloc_init ==
  /\ books = "off"
  /\ disk' = [disk EXCEPT !.acct = [i \in DOMAIN @ |->
       IF i = 1 THEN [size |-> RootSize, inuse |-> recover("r")]
       ELSE IF i = disk.d THEN [@[i] EXCEPT !.inuse = recover("d")] ELSE @[i]]]
  /\ lock' = [i \in DOMAIN lock |-> Nobody]
  /\ table' = [p \in Servers |-> Nothing] /\ roots' = [p \in Servers |-> Nothing]
  /\ fd' = [p \in Servers |-> NoFd] /\ req' = [p \in Servers |-> NoReq]
  /\ books' = "recovered"

AlStep(p) ==
  \/ AlRequest(p) \/ alloc_state_cache(p) \/ OpenState(p) \/ TryLock(p) \/ AlGranted(p)
  \/ chirp_alloc_open(p) \/ chirp_alloc_pwrite(p) \/ chirp_alloc_ftruncate(p)
  \/ chirp_alloc_truncate(p) \/ chirp_alloc_unlink(p) \/ chirp_alloc_putfile(p)
  \/ chirp_alloc_put(p) \/ chirp_alloc_rename(p) \/ chirp_alloc_mkalloc(p)
  \/ chirp_alloc_rmdir(p) \/ chirp_alloc_mkdir(p) \/ chirp_alloc_close(p)
  \/ IdleFlush(p) \/ Crash(p)
AlNext == ((\E p \in Servers: AlStep(p)) \/ chirp_alloc_init) /\ UNCHANGED mix

(* The tables and locks have their types, and agree on who has which state. *)
AlTypeOK ==
  /\ disk.at \in [Names -> {0} \union Inos] /\ disk.d \in 0..disk.made
  /\ \A p \in Servers: /\ DOMAIN table[p] \subseteq Dirs /\ DOMAIN roots[p] \subseteq Dirs
                       /\ \A x \in DOMAIN table[p]: lock[table[p][x].id] = p
  /\ \A i \in DOMAIN lock: lock[i] # Nobody =>
       \E x \in DOMAIN table[lock[i]]: table[lock[i]][x].id = i

StateOf(i) ==
  IF lock[i] = Nobody THEN disk.acct[i]
  ELSE table[lock[i]][CHOOSE x \in DOMAIN table[lock[i]]: table[lock[i]][x].id = i]

(* The space in allocation x: its files, and the allocation inside it. *)
Inside(n, x) == IF alloc_state_root(DirOf(n)) = x THEN Consumed(n) ELSE 0
SpaceIn(x) ==
  Inside("f", x) + Inside("g", x)
    + (IF x = "r" /\ disk.d > 1 THEN disk.acct[disk.d].size ELSE 0)

(***************************************************************************)
(* The accounts are right: the space in use of every allocation, in the    *)
(* memory of the process that has it locked or else in the state file, is   *)
(* the space of its files and of the allocations inside it; and the files   *)
(* exceed the allocation by less than a block.  Claimed until something     *)
(* happens that the accounting does not follow (books, section 5 of the     *)
(* README); the first is so again after a restart.                          *)
(***************************************************************************)
AccountsRight ==
  /\ AlTypeOK
  /\ books # "off" => /\ StateOf(1).inuse = SpaceIn("r")
                      /\ disk.d > 1 => StateOf(disk.d).inuse = SpaceIn("d")
  /\ books = "right" => \A i \in DOMAIN lock \intersect {1, disk.d}:
                          StateOf(i).inuse < StateOf(i).size + BlockBytes

(***************************************************************************)
(* A process that waits for a lock (chirp_alloc.c:92) has none, though it   *)
(* may need two, in either order: servers never wait for each other.        *)
(***************************************************************************)
BlockedHoldsNothing == \A p \in Servers: req[p].wait => table[p] = Nothing
=============================================================================
