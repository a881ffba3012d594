----------------------------- MODULE ChirpReli -----------------------------
(***************************************************************************)
(* The Chirp client that retries (chirp/src/chirp_reli.c): one file that a  *)
(* program has open on a server, the block through which its small reads    *)
(* and writes go, and the retry of every request over a new connection      *)
(* when the old one breaks.                                                 *)
(*                                                                         *)
(* A request (chirp_client.c) is answered, or the connection breaks before  *)
(* the server has carried it out, or after.  The server (chirp_server.c)    *)
(* keeps the descriptors of a connection in the process that serves it:     *)
(* they end with the connection.  Time is one bit of the call in progress,  *)
(* "its stoptime has passed".                                               *)
(***************************************************************************)
EXTENDS Integers, Sequences

CONSTANTS Block,          \* chirp_reli_blocksize
          MaxLen,         \* bound on the length of a file
          ChirpSettings   \* the environments to explore, see ChInit

ASSUME ChirpAssumption ==
  /\ Block \in Nat \ {0} /\ MaxLen \in Nat \ {0}
  /\ \A x \in ChirpSettings:
       /\ {x.giveup, x.failing, x.replaced} \subseteq BOOLEAN
       /\ x.serials \in Nat \ {0} /\ x.values \subseteq Nat \ {0}

VARIABLES chset,    \* the environment of this behaviour
          server,   \* [name, store]: the inode at the path (0: none, -1: removed), and the contents
          conn,     \* [serial, fd]: the connection in the table (0: none), the inode
                    \* its one descriptor is open on (0: not open)
          nserial,  \* global_serial of chirp_client.c
          file,     \* the struct chirp_file
          call,     \* the call in progress
          last,     \* what the last call returned, if it was a pread or a close
          truth     \* what the program has been told, see ChInit
chirpVars == <<chset, server, conn, nserial, file, call, last, truth>>

Least(a, b) == IF a < b THEN a ELSE b
Fill(n, v) == [i \in 1..n |-> v]
Slice(s, o, n) == SubSeq(s, o + 1, Least(o + n, Len(s)))
Patch(s, o, d) ==
  IF d = <<>> THEN s ELSE
  [i \in 1..(IF o + Len(d) > Len(s) THEN o + Len(d) ELSE Len(s)) |->
     IF i > o /\ i <= o + Len(d) THEN d[i - o]
     ELSE IF i <= Len(s) THEN s[i] ELSE 0]
Cut(s, n) == [i \in 1..n |-> IF i <= Len(s) THEN s[i] ELSE 0]

Inodes == 1..3            \* the file found, one created by open, one put in its place
Replacement == <<9>>
NoConn == [serial |-> 0, fd |-> 0]
NoFile == [open |-> FALSE, fd |-> -1, serial |-> 0, ino |-> 0, flags |-> {},
           stale |-> FALSE, off |-> 0, buf |-> <<>>, dirty |-> FALSE]
NoCall == [op |-> "none", phase |-> "idle"]
NewCall(op, o, n, v) ==
  [op |-> op, phase |-> "loop", off |-> o, len |-> n, val |-> v, done |-> 0,
   got |-> <<>>, next |-> "none", part |-> 0, flags |-> {}, late |-> FALSE]
NoReturn == [op |-> "none", off |-> 0, len |-> 0, res |-> 0, data |-> <<>>]

(***************************************************************************)
(* A setting says whether time passes (giveup), the server may fail        *)
(* (failing) and someone may replace the file (replaced), and bounds the    *)
(* connections made (serials) and the values written.                       *)
(*                                                                         *)
(* truth.data is the contents according to the results the program has     *)
(* seen, as long as no call on the file has failed (truth.sure).            *)
(* truth.dropped records that a block was not written whole and the call    *)
(* did not say so.                                                          *)
(***************************************************************************)
ChInit ==
  /\ chset \in ChirpSettings
  /\ \E i \in {0, 1}:
       server = [name |-> i, store |-> <<Fill(Block, 0), <<>>, Replacement>>]
  /\ conn = NoConn /\ nserial = 0
  /\ file = NoFile /\ call = NoCall /\ last = NoReturn
  /\ truth = [data |-> <<>>, sure |-> TRUE, dropped |-> FALSE]

(***************************************************************************)
(* A call runs on w = [file, call, last, truth].  Return ends it with the  *)
(* result res, and Trip is the end of one trip of the loop of               *)
(* chirp_reli_pread and chirp_reli_pwrite, whose callee returned n.         *)
(***************************************************************************)
Believed(t, c, res) ==
  IF res < 0 /\ c.op # "pread" THEN [t EXCEPT !.sure = FALSE]
  ELSE IF c.op \notin {"pwrite", "ftruncate"} THEN t
  ELSE IF c.op = "pwrite" THEN [t EXCEPT !.data = Patch(@, c.off, Fill(res, c.val))]
  ELSE [t EXCEPT !.data = Cut(@, c.len)]
Return(w, res) ==
  [w EXCEPT !.call = NoCall,
            !.last = IF w.call.op \notin {"pread", "close"} THEN NoReturn
                     ELSE [op |-> w.call.op, off |-> w.call.off, len |-> w.call.len,
                           res |-> res, data |-> w.call.got],
            !.truth = Believed(@, w.call, res)]
Left(c) == c.len - c.done
Here(c) == c.off + c.done
Trip(w, n, d) ==
  IF n <= 0
  THEN Return(w, IF w.call.done > 0 THEN w.call.done ELSE n)
  ELSE LET c == [w.call EXCEPT !.done = @ + n, !.got = @ \o d, !.phase = "loop"]
       IN IF Left(c) = 0 THEN Return([w EXCEPT !.call = c], c.done)
                         ELSE [w EXCEPT !.call = c]

(***************************************************************************)
(* chirp_reli_flush: the block is written if it is dirty, and is empty     *)
(* afterwards whatever the result.  AfterFlush is what the caller does      *)
(* next, ok saying whether the result was negative.                         *)
(***************************************************************************)
Emptied(f) == [f EXCEPT !.buf = <<>>, !.off = 0, !.dirty = FALSE]
At(w, phase) == [w EXCEPT !.call.phase = phase]
Refill(w) ==
  Trip([w EXCEPT !.file.off = Here(w.call), !.file.dirty = TRUE,
                 !.file.buf = Fill(Left(w.call), w.call.val)], Left(w.call), <<>>)
AfterFlush(w, ok) ==
  LET u == [w EXCEPT !.file = Emptied(@)]
      next == w.call.next
  IN CASE next = "flushed" -> Return(u, IF ok THEN 0 ELSE -1)
       [] next \in {"own", "fetch", "bye"} -> At(u, next)
       [] next = "unbuffered" -> IF ok THEN At(u, next) ELSE Trip(u, -1, <<>>)
       [] next = "full" -> Trip(u, IF ok THEN w.call.part ELSE -1, <<>>)
       [] next = "refill" -> IF ok THEN Refill(u) ELSE Trip(u, -1, <<>>)
chirp_reli_flush(w, next) ==
  LET u == [w EXCEPT !.call.next = next]
  IN IF u.file.buf # <<>> /\ u.file.dirty THEN At(u, "flush") ELSE AfterFlush(u, TRUE)

pread_buffered_noFlush(w) ==
  LET c == w.call  f == w.file
      n == Least(Left(c), f.off + Len(f.buf) - Here(c))
  IN IF f.buf # <<>> /\ Here(c) >= f.off /\ Here(c) < f.off + Len(f.buf)
     THEN Trip(w, n, Slice(f.buf, Here(c) - f.off, n))
     ELSE At(w, "fetch")
pread_buffered(w) ==
  LET c == w.call  f == w.file
      n == Least(Left(c), f.off + Len(f.buf) - Here(c))
  IN IF f.buf # <<>> /\ Here(c) >= f.off /\ Here(c) < f.off + Len(f.buf)
     THEN Trip(w, n, Slice(f.buf, Here(c) - f.off, n))
     ELSE chirp_reli_flush(w, "fetch")

pwrite_buffered(w) ==
  LET c == w.call  f == w.file
      n == Least(Block - Len(f.buf), Left(c))
      g == [f EXCEPT !.buf = @ \o Fill(n, c.val), !.dirty = TRUE]
  IN IF Left(c) >= Block THEN chirp_reli_flush(w, "unbuffered")
     ELSE IF f.buf = <<>> THEN Refill(w)
     ELSE IF f.off + Len(f.buf) # Here(c) THEN chirp_reli_flush(w, "refill")
     ELSE IF Len(g.buf) = Block
          THEN chirp_reli_flush([w EXCEPT !.file = g, !.call.part = n], "full")
          ELSE Trip([w EXCEPT !.file = g], n, <<>>)

(***************************************************************************)
(* The request that is being tried, what it does to the contents s of the  *)
(* file, and what the caller does with its result res (data d).             *)
(***************************************************************************)
Request(w) ==
  LET c == w.call
  IN CASE c.phase = "flush" -> [op |-> "pwrite", off |-> w.file.off, data |-> w.file.buf]
       [] c.phase = "unbuffered" ->
            [op |-> "pwrite", off |-> Here(c), data |-> Fill(Left(c), c.val)]
       [] c.phase = "fetch" ->
            [op |-> "pread", off |-> Here(c),
             len |-> IF Left(c) <= Block THEN Block ELSE Left(c)]
       [] c.phase = "own" -> [op |-> c.op, len |-> c.len]
Effect(q, s) ==
  CASE q.op = "pwrite" -> Patch(s, q.off, q.data)
    [] q.op = "ftruncate" -> Cut(s, q.len)
    [] OTHER -> s
Answer(q, s) ==
  CASE q.op = "pwrite" -> [res |-> Len(q.data), data |-> <<>>]
    [] q.op = "pread" -> [res |-> Len(Slice(s, q.off, q.len)), data |-> Slice(s, q.off, q.len)]
    [] OTHER -> [res |-> 0, data |-> <<>>]

Fetched(w, a) ==
  LET n == Least(a.res, Left(w.call))
  IN IF a.res < 0 THEN Trip([w EXCEPT !.file = Emptied(@)], -1, <<>>)
     ELSE IF Left(w.call) > Block THEN Trip(w, a.res, a.data)
     ELSE Trip([w EXCEPT !.file.off = Here(w.call), !.file.buf = a.data,
                         !.file.dirty = FALSE], n, SubSeq(a.data, 1, n))
Concluded(w, a) ==
  CASE w.call.phase = "flush" ->
         AfterFlush([w EXCEPT !.truth.dropped =
                       @ \/ (a.res < 0 /\ w.call.next \in {"own", "fetch", "bye"})
                         \/ (a.res >= 0 /\ a.res < Len(w.file.buf))], a.res >= 0)
    [] w.call.phase = "unbuffered" -> Trip(w, a.res, <<>>)
    [] w.call.phase = "fetch" -> Fetched(w, a)
    [] w.call.phase \in {"own", "open"} -> Return(w, a.res)
Failure == [res |-> -1, data |-> <<>>]

Install(w) == /\ file' = w.file /\ call' = w.call /\ last' = w.last /\ chset' = chset
              /\ truth' = IF w.truth.sure /\ ~w.file.stale THEN w.truth
                          ELSE [w.truth EXCEPT !.data = <<>>]
World == [file |-> file, call |-> call, last |-> last, truth |-> truth]
Asking == call.phase \in {"flush", "unbuffered", "fetch", "own", "open"}

(***************************************************************************)
(* The program's calls.                                                    *)
(***************************************************************************)
Reliable == truth.sure /\ ~truth.dropped /\ ~file.stale
Called(c) == [World EXCEPT !.call = c, !.last = NoReturn]
Free == call = NoCall /\ file.open
Fresh == Free /\ Reliable     \* bound: the program closes a file after a failure
ChOpen(flags) ==
  /\ call = NoCall /\ ~file.open /\ server.name \in 0..2   \* bound: not once replaced
  /\ Install(Called([NewCall("open", 0, 0, 0) EXCEPT !.phase = "open", !.flags = flags]))
  /\ UNCHANGED <<server, conn, nserial>>
ChTransfer(op, o, n, v) ==
  /\ Fresh /\ o + n <= MaxLen
  /\ Install(Called(NewCall(op, o, n, v)))
  /\ UNCHANGED <<server, conn, nserial>>
ChOther(op, n) ==         \* ftruncate, and fsync for those that change nothing
  /\ Fresh
  /\ Install(chirp_reli_flush(Called(NewCall(op, 0, n, 0)), "own"))
  /\ UNCHANGED <<server, conn, nserial>>
ChFlush ==
  /\ Fresh
  /\ Install(chirp_reli_flush(Called(NewCall("flush", 0, 0, 0)), "flushed"))
  /\ UNCHANGED <<server, conn, nserial>>

(* chirp_reli_close asks for a connection once before it flushes. *)
ChClose ==
  /\ Free
  /\ Install(chirp_reli_flush(Called(NewCall("close", 0, 0, 0)), "bye"))
  /\ \/ UNCHANGED <<conn, nserial>>
     \/ /\ conn = NoConn /\ nserial < chset.serials
        /\ conn' = [serial |-> nserial + 1, fd |-> 0] /\ nserial' = nserial + 1
  /\ UNCHANGED server

(* One trip of the loop of chirp_reli_pread or chirp_reli_pwrite. *)
ChLoop ==
  /\ call.phase = "loop"
  /\ Install(IF call.op = "pread" THEN pread_buffered(World) ELSE pwrite_buffered(World))
  /\ UNCHANGED <<server, conn, nserial>>

(***************************************************************************)
(* The retry loops of RETRY_FILE and chirp_reli_open.  TryAgain is their   *)
(* tail: the call gives up once its stoptime has passed.                    *)
(***************************************************************************)
TryAgain_renewed(w) == [w EXCEPT !.call.late = FALSE]
TryAgain(w) == IF w.call.late THEN Concluded(w, Failure) ELSE w

connect_to_host ==
  /\ Asking /\ conn = NoConn /\ UNCHANGED server
  /\ \/ /\ nserial < chset.serials
        /\ conn' = [serial |-> nserial + 1, fd |-> 0] /\ nserial' = nserial + 1
        /\ Install(World)
     \/ Install(TryAgain(World)) /\ UNCHANGED <<conn, nserial>>
     \/ /\ chset.failing
        /\ Install(Concluded(World, Failure)) /\ UNCHANGED <<conn, nserial>>

(* chirp_client_open at the server: the inode, and the server after it. *)
OpenedInode(flags) ==
  IF server.name > 0 THEN server.name ELSE IF "creat" \in flags THEN 2 ELSE 0
ServerOpen(flags) ==
  LET i == OpenedInode(flags)
  IN IF i = 0 THEN server
     ELSE [name |-> i, store |-> IF "trunc" \in flags THEN [server.store EXCEPT ![i] = <<>>]
                                                      ELSE server.store]
KeptFlags_all(flags) == flags
KeptFlags(flags) == flags \ {"creat", "trunc"}

Opened(w, i) ==
  [w EXCEPT !.file = [NoFile EXCEPT !.open = TRUE, !.fd = 0, !.serial = conn.serial,
                                    !.ino = i, !.flags = KeptFlags(w.call.flags)],
            !.truth = [@ EXCEPT !.data = ServerOpen(w.call.flags).store[i], !.sure = TRUE,
                                !.dropped = FALSE]]
chirp_reli_open ==
  /\ call.phase = "open" /\ conn # NoConn /\ UNCHANGED nserial
  /\ LET i == OpenedInode(call.flags)
     IN \/ /\ server' = ServerOpen(call.flags) /\ conn' = [conn EXCEPT !.fd = i]
           /\ Install(IF i = 0 THEN Return(World, -1) ELSE Return(Opened(World, i), 0))
        \/ /\ server' \in {server, ServerOpen(call.flags)} /\ conn' = NoConn
           /\ Install(TryAgain(World))

(* connect_to_file, when the file was last used over another connection. *)
SameFile_any(i) == i # 0
SameFile(i) == i = file.ino
Verified(w, i, stale) ==
  [w EXCEPT !.file.serial = conn.serial, !.file.stale = stale,
            !.file.fd = IF i = 0 THEN -1 ELSE 0]
connect_to_file ==
  /\ Asking /\ call.phase # "open" /\ conn # NoConn /\ UNCHANGED nserial
  /\ ~file.stale /\ file.serial # conn.serial
  /\ LET i == OpenedInode(file.flags)
     IN \/ /\ server' = ServerOpen(file.flags) /\ conn' = [conn EXCEPT !.fd = i]
           /\ Install(IF i # 0 /\ SameFile(i) THEN Verified(World, i, FALSE)
                      ELSE Concluded(Verified(World, i, TRUE), Failure))
        \/ /\ server' \in {server, ServerOpen(file.flags)} /\ conn' = NoConn
           /\ Install(TryAgain(Verified(World, 0, FALSE)))

(* The request itself.  A stale file does not stop it: connect_to_file      *)
(* returns -1, which the retry loop takes for yes.                          *)
ChRequest ==
  /\ Asking /\ call.phase # "open" /\ conn # NoConn /\ UNCHANGED nserial
  /\ file.stale \/ file.serial = conn.serial
  /\ LET q == Request(World)
         i == IF file.fd = -1 THEN 0 ELSE conn.fd
         after == IF i = 0 THEN server
                  ELSE [server EXCEPT !.store[i] = Effect(q, @)]
     IN \/ /\ server' = after /\ UNCHANGED conn
           /\ Install(Concluded(World, IF i = 0 THEN Failure
                                       ELSE Answer(q, server.store[i])))
        \/ /\ server' \in {server, after} /\ conn' = NoConn
           /\ Install(TryAgain(World))
        \/ /\ chset.failing /\ i # 0 /\ UNCHANGED conn
           /\ \/ UNCHANGED server /\ Install(Concluded(World, Failure))
              \/ /\ q.op = "pwrite" /\ Len(q.data) > 1
                 /\ LET p == [q EXCEPT !.data = SubSeq(@, 1, Len(@) - 1)]
                    IN /\ server' = [server EXCEPT !.store[i] = Effect(p, @)]
                       /\ Install(Concluded(World, Answer(p, server.store[i])))

(* The end of chirp_reli_close: its result is 0 whatever the flush gave.    *)
(* If the flush has replaced the connection, the pointer close kept is to   *)
(* freed memory: the close may reach the new connection, or nothing.        *)
ChBye ==
  /\ call.phase = "bye"
  /\ Install(Return([World EXCEPT !.file = NoFile], 0))
  /\ conn' \in {conn, [conn EXCEPT !.fd = 0], NoConn}
  /\ UNCHANGED <<server, nserial>>

(* The world outside. *)
Clock ==
  /\ chset.giveup /\ call # NoCall /\ ~call.late
  /\ Install([World EXCEPT !.call.late = TRUE]) /\ UNCHANGED <<server, conn, nserial>>
ReplaceFile ==
  /\ chset.replaced /\ file.open /\ server.name \in {1, 2}
  /\ \E i \in {3, -1}: server' = [server EXCEPT !.name = i]
  /\ Install(World) /\ UNCHANGED <<conn, nserial>>

ChCalls ==
  \/ \E fl \in {{}, {"creat", "trunc"}}: ChOpen(fl)
  \/ \E o \in 0..MaxLen - 1, n \in 1..Block + 1:
       \/ ChTransfer("pread", o, n, 0)
       \/ \E v \in chset.values: ChTransfer("pwrite", o, n, v)
  \/ \E n \in {1, MaxLen}: ChOther("ftruncate", n)
  \/ ChOther("fsync", 0) \/ ChFlush \/ ChClose
ChProgress ==
  ChLoop \/ connect_to_host \/ chirp_reli_open \/ connect_to_file \/ ChRequest \/ ChBye
ChNext == ChCalls \/ ChProgress \/ Clock \/ ReplaceFile

(* A call in progress goes on, and time passes.  All that may hold a call   *)
(* up is a connection that cannot be made while there is still time.        *)
Waiting == Asking /\ conn = NoConn /\ nserial = chset.serials /\ ~call.late
ChFairness ==
  /\ []<>(call = NoCall \/ Waiting) \/ []<><<ChProgress>>_chirpVars
  /\ WF_chirpVars(Clock)
ChSpec == ChInit /\ [][ChNext]_chirpVars /\ ChFairness

(* The parts of the state have their types. *)
ChTypeOK ==
  /\ chset \in ChirpSettings
  /\ server.name \in -1..3 /\ DOMAIN server.store = Inodes
  /\ \A i \in Inodes: Len(server.store[i]) <= MaxLen
  /\ conn.serial \in 0..nserial /\ conn.fd \in 0..3
  /\ Len(file.buf) <= Block /\ (file.dirty => file.buf # <<>>)
  /\ file.open \/ file = NoFile

(***************************************************************************)
(* What the program has been told it wrote is what it has: in the file on  *)
(* the server, or in the block, in the order of its calls, however often    *)
(* the connection broke and whatever was retried; and what a read returns   *)
(* is what was written, all of it that the file holds.  Claimed until a     *)
(* call fails or drops a block without saying so (section 5 of the README). *)
(***************************************************************************)
WritesKept ==
  /\ ChTypeOK
  /\ (Free /\ Reliable) => Patch(server.store[file.ino], file.off, file.buf) = truth.data
  /\ (Free /\ Reliable /\ last.op = "pread" /\ last.res >= 0) =>
       /\ last.data = Slice(truth.data, last.off, last.res)
       /\ ~chset.failing /\ ~chset.giveup =>
            last.data = Slice(truth.data, last.off, last.len)

(***************************************************************************)
(* A file that someone put in the place of the one that is open is not     *)
(* written to, as long as the open file has not been found stale: over a    *)
(* new connection the inode is compared before anything is requested.       *)
(***************************************************************************)
ReplacementUntouched == (file.open /\ ~file.stale) => server.store[3] = Replacement

(***************************************************************************)
(* A call returns, at the latest when its stoptime has passed, however     *)
(* often the connection breaks or cannot be made: again and again no call   *)
(* is in progress.                                                          *)
(***************************************************************************)
CallsEnd == []<>(chset.giveup => call = NoCall)

(***************************************************************************)
(* chirp_reli.h says of chirp_reli_close that it "can fail" and that then  *)
(* "some previously written data was lost": a close that does not fail has  *)
(* lost nothing that the program was told it wrote.                         *)
(***************************************************************************)
CloseReportsLoss ==
  [][(call.op = "close" /\ call'.op = "none" /\ last'.res = 0 /\ truth.sure /\ ~file.stale)
       => server.store[file.ino] = truth.data]_chirpVars
=============================================================================
