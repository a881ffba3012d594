------------------------- MODULE FdTableRefinement -------------------------
(***************************************************************************)
(* The descriptors of FdTable behave as FdTableAbs says, and lose          *)
(* close-on-exec only as they should.                                      *)
(***************************************************************************)
EXTENDS FdTableProofs

USE Zenon

---------------------------------------------------------------------------
(* What the operations do to the descriptors and to the places of objects. *)

OffsetsStay ==
  \A o \in Objs : obj[o].numrefs > 0 /\ obj'[o].numrefs > 0 => obj'[o].offset = obj[o].offset

OthersStay(t) ==
  \A u \in Tables \ {t} : pointers'[u] = pointers[u] /\ fd_flags'[u] = fd_flags[u]

IsLowest(t, fd, from) ==
  /\ fd \in Fds /\ fd >= from /\ pointers[t][fd] = Null
  /\ \A g \in Fds : g >= from /\ pointers[t][g] = Null => fd <= g

(* The descriptors S of the table t are closed.                            *)
ClosedAt(t, S) ==
  /\ t \in Tables /\ S \subseteq Fds
  /\ \A fd \in Fds : /\ pointers'[t][fd] = IF fd \in S THEN Null ELSE pointers[t][fd]
                     /\ fd_flags'[t][fd] = (fd \notin S /\ fd_flags[t][fd])
  /\ OthersStay(t) /\ OffsetsStay

(* nfd of the table t comes to lead where ofd leads.                       *)
SharedAt(t, ofd, nfd) ==
  /\ t \in Tables /\ ofd \in Fds /\ nfd \in Fds /\ pointers[t][ofd] # Null
  /\ \A fd \in Fds : /\ pointers'[t][fd] = IF fd = nfd THEN pointers[t][ofd] ELSE pointers[t][fd]
                     /\ fd_flags'[t][fd] = (fd # nfd /\ fd_flags[t][fd])
  /\ OthersStay(t) /\ OffsetsStay

(* New objects are attached to the descriptors S of the table t, the       *)
(* lowest that were free.                                                  *)
OpenedAt(t, S) ==
  /\ t \in Tables /\ S \subseteq Fds /\ \E a, b \in Fds : S = {a, b}
  /\ \A fd \in S : /\ pointers[t][fd] = Null
                   /\ pointers'[t][fd] \in Objs
                   /\ Users(pointers, pointers'[t][fd]) = {}
                   /\ \A g \in S : g # fd => pointers'[t][g] # pointers'[t][fd]
                   /\ \A g \in 0 .. fd : g \in S \/ pointers[t][g] # Null
  /\ \A fd \in Fds \ S : pointers'[t][fd] = pointers[t][fd]
  /\ \A fd \in Fds : fd_flags'[t][fd] => fd_flags[t][fd]
  /\ OthersStay(t) /\ OffsetsStay

(* find_empty finds the lowest.                                            *)
LEMMA FindsLowest ==
  ASSUME NEW t \in Tables, NEW from \in Nat, find_empty(pointers, t, from) # -1
  PROVE  IsLowest(t, find_empty(pointers, t, from), from)
<1> DEFINE E == Empty(pointers, t, from)
           fd == find_empty(pointers, t, from)
<1>1. E # {} /\ E \subseteq Nat
  BY SMT, FdAssumption DEF find_empty, Empty, Fds
<1>2. \E x \in E : \A y \in E : x <= y
  <2> HIDE DEF E
  <2> QED
    BY <1>1, LeastElement
<1>3. fd \in E /\ \A y \in E : fd <= y
  BY <1>1, <1>2 DEF find_empty
<1> HIDE DEF fd
<1>4. /\ fd \in Fds /\ fd >= from /\ pointers[t][fd] = Null
      /\ \A g \in Fds : g >= from /\ pointers[t][g] = Null => fd <= g
  BY <1>3 DEF Empty
<1> QED
  BY <1>4 DEF IsLowest, fd

(* An object is referred to when its count says so.                        *)
LEMMA NumrefsUsers ==
  ASSUME FdInv, NEW o \in Objs
  PROVE  /\ obj[o].numrefs \in Nat
         /\ obj[o].numrefs > 0 <=> Users(pointers, o) # {}
<1>1. obj[o].numrefs = Cardinality(Users(pointers, o))
  BY DEF FdInv, RefsExact, ObjectsCounted
<1>2. IsFiniteSet(Users(pointers, o))
  BY UsersFinite
<1>3. Cardinality(Users(pointers, o)) \in Nat
  BY <1>2, FS_CardinalityType
<1>4. Cardinality(Users(pointers, o)) = 0 <=> Users(pointers, o) = {}
  BY <1>2, FS_EmptySet
<1> QED
  BY SMT, <1>1, <1>3, <1>4

(* delref keeps the place of what it does not delete.                      *)
LEMMA DelrefOffset ==
  ASSUME NEW r \in ObjType, NEW n, delref(r, n).numrefs > 0
  PROVE  delref(r, n).offset = r.offset
<1>1. CASE delref(r, n) = r
  BY <1>1
<1>2. CASE delref(r, n) = FreeObj
  <2>1. FreeObj.numrefs = 0
    BY DEF FreeObj
  <2> QED
    BY SMT, <1>2, <2>1
<1>3. CASE delref(r, n) = [r EXCEPT !.numrefs = @ - n, !.frefs = @ - n]
  BY <1>3 DEF ObjType
<1> QED
  BY <1>1, <1>2, <1>3 DEF delref

KeepsOffsets(r, w) ==
  \A o \in Objs : r.obj[o].numrefs > 0 => r.obj[o].offset = w.obj[o].offset

LEMMA ReleaseOffsets ==
  ASSUME NEW w \in WorldType, NEW t \in Tables, NEW S
  PROVE  KeepsOffsets(Release(w, t, S), w)
<1> DEFINE r == Release(w, t, S)
<1>1. w.obj \in [Objs -> ObjType]
  BY DEF WorldType
<1>2. ASSUME NEW o \in Objs, r.obj[o].numrefs > 0
      PROVE  r.obj[o].offset = w.obj[o].offset
  <2> DEFINE n == Cardinality(Slots(w.pointers, t, o) \cap S)
  <2>1. r.obj[o] = delref(w.obj[o], n)
    BY DEF Release
  <2>2. w.obj[o] \in ObjType
    BY <1>1
  <2> HIDE DEF n, r
  <2> QED
    BY <1>2, <2>1, <2>2, DelrefOffset
<1> QED
  BY <1>2 DEF KeepsOffsets

LEMMA CloseEffect ==
  ASSUME FdInv, NEW p \in Procs, table[p] # Null, NEW S, S \subseteq Fds,
         Install(Release(World, table[p], S))
  PROVE  ClosedAt(table[p], S)
<1> DEFINE r == Release(World, table[p], S)
           t == table[p]
<1>1. World \in WorldType /\ World.pointers = pointers /\ World.fd_flags = fd_flags
      /\ World.obj = obj /\ t \in Tables
  BY WorldTyped, InUse
<1>2. KeepsOffsets(r, World)
  BY <1>1, ReleaseOffsets
<1>3. Closed(r, World, t, S)
  BY KeptClosed
<1>4. pointers' = r.pointers /\ fd_flags' = r.fd_flags /\ obj' = r.obj
  BY DEF Install
<1> HIDE DEF r
<1> QED
  BY <1>1, <1>2, <1>3, <1>4 DEF ClosedAt, OthersStay, OffsetsStay, KeepsOffsets, Closed

(* What Share does to a world.                                             *)
IsShare(s, w, t, ofd, nfd) ==
  /\ \A fd \in Fds : /\ s.pointers[t][fd] = IF fd = nfd THEN w.pointers[t][ofd]
                                            ELSE w.pointers[t][fd]
                     /\ s.fd_flags[t][fd] = (fd # nfd /\ w.fd_flags[t][fd])
  /\ \A u \in Tables \ {t} : s.pointers[u] = w.pointers[u] /\ s.fd_flags[u] = w.fd_flags[u]
  /\ \A o \in Objs : /\ s.obj[o].offset = w.obj[o].offset
                     /\ o # w.pointers[t][ofd] => s.obj[o] = w.obj[o]

LEMMA ShareEffect ==
  ASSUME NEW w \in WorldType, NEW t \in Tables, NEW ofd \in Fds, NEW nfd \in Fds,
         w.pointers[t][ofd] \in Objs
  PROVE  IsShare(Share(w, t, ofd, nfd), w, t, ofd, nfd)
<1> DEFINE s == Share(w, t, ofd, nfd)
           n == w.pointers[t][ofd]
<1>1. s.obj = [w.obj EXCEPT ![n] = addref(w.obj[n], 1)] /\ w.obj \in [Objs -> ObjType]
  BY DEF Share, WorldType
<1>2. addref(w.obj[n], 1).offset = w.obj[n].offset
  BY SMT, <1>1 DEF addref, ObjType
<1>3. /\ s.pointers = [w.pointers EXCEPT ![t][nfd] = n]
      /\ s.fd_flags = [w.fd_flags EXCEPT ![t][nfd] = FALSE]
      /\ w.pointers \in PointersType /\ w.fd_flags \in FlagsType
  BY DEF Share, WorldType
<1> HIDE DEF s
<1>4. \A o \in Objs : s.obj[o].offset = w.obj[o].offset /\ (o # n => s.obj[o] = w.obj[o])
  BY <1>1, <1>2
<1>5. /\ \A fd \in Fds : /\ s.pointers[t][fd] = IF fd = nfd THEN n ELSE w.pointers[t][fd]
                         /\ s.fd_flags[t][fd] = (fd # nfd /\ w.fd_flags[t][fd])
      /\ \A u \in Tables \ {t} : s.pointers[u] = w.pointers[u] /\ s.fd_flags[u] = w.fd_flags[u]
  <2> HIDE DEF n
  <2>1. \A fd \in Fds : s.pointers[t][fd] = IF fd = nfd THEN n ELSE w.pointers[t][fd]
    BY SMT, <1>3 DEF PointersType
  <2>2. ASSUME NEW fd \in Fds
        PROVE  s.fd_flags[t][fd] = (fd # nfd /\ w.fd_flags[t][fd])
    <3>1. w.fd_flags[t][fd] \in BOOLEAN
      <4>1. w.fd_flags \in FlagsType
        BY <1>3
      <4>2. w.fd_flags[t] \in [Fds -> BOOLEAN]
        BY <4>1 DEF FlagsType
      <4> QED  BY <4>2
    <3>2. s.fd_flags[t] = [w.fd_flags[t] EXCEPT ![nfd] = FALSE]
      BY SMT, <1>3 DEF FlagsType
    <3>3. s.fd_flags[t][fd] = IF fd = nfd THEN FALSE ELSE w.fd_flags[t][fd]
      BY <1>3, <3>2 DEF FlagsType
    <3> QED
      BY <3>1, <3>3
  <2>3. \A u \in Tables \ {t} : s.pointers[u] = w.pointers[u] /\ s.fd_flags[u] = w.fd_flags[u]
    BY <1>3 DEF PointersType, FlagsType
  <2> QED
    BY <2>1, <2>2, <2>3
<1> QED
  BY <1>4, <1>5 DEF s, IsShare

(* dup into a free descriptor.                                             *)
LEMMA DupEffect ==
  ASSUME FdInv, NEW p \in Procs, table[p] # Null, NEW ofd \in Fds, NEW nfd \in Fds,
         pointers[table[p]][ofd] # Null,
         Install(Share(World, table[p], ofd, nfd))
  PROVE  SharedAt(table[p], ofd, nfd)
<1> DEFINE s == Share(World, table[p], ofd, nfd)
           t == table[p]
<1>1. World \in WorldType /\ World.pointers = pointers /\ World.fd_flags = fd_flags
      /\ World.obj = obj /\ t \in Tables
  BY WorldTyped, InUse
<1>2. World.pointers[t][ofd] \in Objs
  BY SMT, <1>1 DEF WorldType, PointersType
<1>3. IsShare(s, World, t, ofd, nfd)
  BY <1>1, <1>2, ShareEffect
<1>4. pointers' = s.pointers /\ fd_flags' = s.fd_flags /\ obj' = s.obj
  BY DEF Install
<1> HIDE DEF s
<1> QED
  BY <1>1, <1>3, <1>4 DEF SharedAt, OthersStay, OffsetsStay, IsShare

(* dup into a descriptor that is closed for it.                            *)
LEMMA CloseDupEffect ==
  ASSUME FdInv, NEW p \in Procs, table[p] # Null, NEW ofd \in Fds, NEW nfd \in Fds,
         pointers[table[p]][ofd] # Null, ofd # nfd,
         Install(Share(Release(World, table[p], {nfd}), table[p], ofd, nfd))
  PROVE  SharedAt(table[p], ofd, nfd)
<1> DEFINE c == Release(World, table[p], {nfd})
           s == Share(c, table[p], ofd, nfd)
           t == table[p]
           o == pointers[t][ofd]
<1>1. World \in WorldType /\ World.pointers = pointers /\ World.fd_flags = fd_flags
      /\ World.obj = obj /\ t \in Tables
      /\ pointers \in PointersType /\ fd_flags \in FlagsType
  BY WorldTyped, InUse DEF FdInv, FdTypeOK, PointersType, FlagsType
<1>2. o \in Objs
  BY <1>1 DEF PointersType
<1>3. KeepsOffsets(c, World)
  BY <1>1, ReleaseOffsets
<1>4. Closed(c, World, t, {nfd})
  BY KeptClosed
<1> HIDE DEF c
<1>5. c \in WorldType /\ c.pointers[t][ofd] = o /\ ObjectsCounted(c.pointers, c.obj)
  BY <1>1, <1>4 DEF Closed
<1>6. IsShare(s, c, t, ofd, nfd)
  BY <1>1, <1>2, <1>5, ShareEffect
<1>7. pointers' = s.pointers /\ fd_flags' = s.fd_flags /\ obj' = s.obj
  BY DEF Install, c
<1> HIDE DEF s, o
<1>8. c.obj[o].numrefs > 0
  <2>1. <<t, ofd>> \in Users(c.pointers, o)
    BY <1>1, <1>5 DEF Users
  <2>2. IsFiniteSet(Users(c.pointers, o))
    BY UsersFinite
  <2>3. Cardinality(Users(c.pointers, o)) \in Nat /\ Cardinality(Users(c.pointers, o)) # 0
    BY <2>1, <2>2, FS_CardinalityType, FS_EmptySet
  <2>4. c.obj[o].numrefs = Cardinality(Users(c.pointers, o))
    BY <1>2, <1>5 DEF ObjectsCounted
  <2> QED
    BY SMT, <2>3, <2>4
<1>9. OffsetsStay
  <2> SUFFICES ASSUME NEW n \in Objs, obj'[n].numrefs > 0
               PROVE  obj'[n].offset = obj[n].offset
    BY DEF OffsetsStay
  <2>1. c.obj[n].numrefs > 0
    BY <1>5, <1>6, <1>7, <1>8 DEF IsShare
  <2> QED
    BY <1>1, <1>3, <1>6, <1>7, <2>1 DEF IsShare, KeepsOffsets
<1>10. /\ \A fd \in Fds : /\ pointers'[t][fd] = IF fd = nfd THEN o ELSE pointers[t][fd]
                          /\ fd_flags'[t][fd] = (fd # nfd /\ fd_flags[t][fd])
       /\ OthersStay(t)
  BY <1>1, <1>4, <1>5, <1>6, <1>7 DEF IsShare, Closed, OthersStay
<1> QED
  BY <1>1, <1>9, <1>10 DEF SharedAt, o

---------------------------------------------------------------------------
(* Opening.                                                                *)

(* Close-on-exec stays as it is, but for the new descriptors S.            *)
FlagsStay(t, S) == \A fd \in Fds \ S : fd_flags'[t][fd] = fd_flags[t][fd]

(* What is attached to a descriptor was referred to by none.               *)
LEMMA AttachedNew ==
  ASSUME FdInv, NEW p \in Procs, table[p] # Null, Free(World) # {}
  PROVE  /\ NextFree(World) \in Objs
         /\ Users(pointers, NextFree(World)) = {}
         /\ obj[NextFree(World)].numrefs = 0
<1>1. World \in WorldType /\ ObjectsCounted(World.pointers, World.obj)
      /\ World.pointers = pointers /\ World.obj = obj /\ setting \in Settings
  BY WorldTyped DEF FdInv, FdTypeOK
<1>2. NextFree(World) \in Objs /\ World.obj[NextFree(World)] = FreeObj
  BY <1>1, NextFreeIsFree
<1>3. Users(World.pointers, NextFree(World)) = {}
  BY <1>1, <1>2, FreeHasNoUsers
<1>4. FreeObj.numrefs = 0
  BY DEF FreeObj
<1> QED
  BY <1>1, <1>2, <1>3, <1>4

(* One new object, whatever becomes of the flags.                          *)
LEMMA AttachEffect ==
  ASSUME FdInv, NEW p \in Procs, table[p] # Null, Free(World) # {},
         NEW fd, IsLowest(table[p], fd, 0),
         NEW a, Attached(a, World, table[p], fd), pointers' = a.pointers, obj' = a.obj,
         \A u \in Tables \ {table[p]} : fd_flags'[u] = fd_flags[u],
         \A g \in Fds : fd_flags'[table[p]][g] => fd_flags[table[p]][g]
  PROVE  OpenedAt(table[p], {fd})
<1> DEFINE t == table[p]
           o == NextFree(World)
<1>1. o \in Objs /\ Users(pointers, o) = {} /\ obj[o].numrefs = 0
  BY AttachedNew
<1>2. t \in Tables /\ pointers \in PointersType
  BY InUse DEF FdInv, FdTypeOK, PointersType
<1>3. /\ fd \in Fds /\ pointers[t][fd] = Null
      /\ \A g \in Fds : g >= 0 /\ pointers[t][g] = Null => fd <= g
  BY DEF IsLowest
<1>4. /\ pointers' = [pointers EXCEPT ![t][fd] = o]
      /\ \A n \in Objs \ {o} : obj'[n] = obj[n]
  BY WorldTyped DEF Attached
<1> HIDE DEF t, o
<1>5. /\ pointers'[t][fd] = o
      /\ \A g \in Fds \ {fd} : pointers'[t][g] = pointers[t][g]
      /\ \A u \in Tables \ {t} : pointers'[u] = pointers[u]
  BY SMT, <1>2, <1>3, <1>4 DEF PointersType
<1>6. \A g \in 0 .. fd : g \in {fd} \/ pointers[t][g] # Null
  BY SMT, <1>3, FdAssumption DEF Fds
<1>7. {fd} = {fd, fd} /\ {fd} \subseteq Fds
  BY <1>3
<1>8. OffsetsStay
  BY SMT, <1>1, <1>4 DEF OffsetsStay
<1>9. OthersStay(t) /\ \A g \in Fds : fd_flags'[t][g] => fd_flags[t][g]
  BY <1>5 DEF OthersStay, t
<1>10. \A g \in {fd} : /\ pointers[t][g] = Null
                       /\ pointers'[t][g] \in Objs
                       /\ Users(pointers, pointers'[t][g]) = {}
                       /\ \A h \in {fd} : h # g => pointers'[t][h] # pointers'[t][g]
                       /\ \A h \in 0 .. g : h \in {fd} \/ pointers[t][h] # Null
  BY <1>1, <1>3, <1>5, <1>6
<1> QED
  BY <1>2, <1>3, <1>5, <1>7, <1>8, <1>9, <1>10 DEF OpenedAt, t

LEMMA OpenEffect ==
  ASSUME FdInv, NEW p \in Procs, pfs_open(p)
  PROVE  \/ UNCHANGED <<pointers, fd_flags, obj>>
         \/ \E fd \in Fds : OpenedAt(table[p], {fd}) /\ FlagsStay(table[p], {fd})
<1> DEFINE t == table[p]
           fd == find_empty(pointers, t, 0)
<1>1. t # Null /\ t \in Tables /\ setting \in Settings /\ fd_flags \in FlagsType
  BY InUse DEF pfs_open, Does, FdInv, FdTypeOK, FlagsType
<1>2. ASSUME fd # -1, Free(World) # {}, NEW size \in setting.sizes, NEW append \in setting.appends,
             Install(Attach(World, t, fd, TRUE, size, append))
      PROVE  \E f \in Fds : OpenedAt(t, {f}) /\ FlagsStay(t, {f})
  <2> DEFINE a == Attach(World, t, fd, TRUE, size, append)
  <2>1. IsLowest(t, fd, 0)
    BY <1>1, <1>2, FindsLowest, 0 \in Nat
  <2>2. size \in Nat /\ append \in BOOLEAN
    BY SMT, <1>1, FdAssumption
  <2> HIDE DEF fd
  <2>3. fd \in Fds /\ pointers[t][fd] = Null
    BY <2>1 DEF IsLowest
  <2>4. Attached(a, World, t, fd)
    BY <1>1, <1>2, <2>2, <2>3, KeptAttach, TRUE \in BOOLEAN
  <2>5. pointers' = a.pointers /\ fd_flags' = a.fd_flags /\ obj' = a.obj
    BY <1>2 DEF Install, fd
  <2> HIDE DEF a
  <2>6. fd_flags' = [fd_flags EXCEPT ![t][fd] = FALSE]
    BY <2>4, <2>5, WorldTyped DEF Attached
  <2>7. /\ \A u \in Tables \ {t} : fd_flags'[u] = fd_flags[u]
        /\ \A g \in Fds \ {fd} : fd_flags'[t][g] = fd_flags[t][g]
        /\ ~fd_flags'[t][fd]
    BY <1>1, <2>3, <2>6 DEF FlagsType
  <2>8. \A g \in Fds : fd_flags'[t][g] => fd_flags[t][g]
    BY <2>7
  <2>9. OpenedAt(t, {fd})
    BY <1>1, <1>2, <2>1, <2>4, <2>5, <2>7, <2>8, AttachEffect
  <2> QED
    BY <2>3, <2>7, <2>9 DEF FlagsStay
<1> QED
  BY <1>2 DEF pfs_open

LEMMA AcceptEffect ==
  ASSUME FdInv, NEW p \in Procs, pfs_accept(p)
  PROVE  /\ result'.op = "accept"
         /\ \/ UNCHANGED <<pointers, fd_flags, obj>>
            \/ \E fd \in Fds : OpenedAt(table[p], {fd})
<1> DEFINE t == table[p]
           fd == find_empty(pointers, t, 0)
           new == Attach(World, t, fd, FALSE, 0, FALSE)
<1>1. t # Null /\ t \in Tables /\ setting \in Settings /\ fd_flags \in FlagsType
  BY InUse DEF pfs_accept, Does, FdInv, FdTypeOK, FlagsType
<1>2. result'.op = "accept"
  BY DEF pfs_accept, Returns, NoIO
<1>3. CASE fd # -1
  <2>1. PICK rfd \in Fds : Install([new EXCEPT !.fd_flags = [fd_flags EXCEPT ![t][rfd] = FALSE]])
    BY <1>3 DEF pfs_accept
  <2>2. Free(World) # {}
    BY <1>3 DEF pfs_accept
  <2>3. IsLowest(t, fd, 0)
    BY <1>1, <1>3, FindsLowest, 0 \in Nat
  <2> DEFINE w == [new EXCEPT !.fd_flags = [fd_flags EXCEPT ![t][rfd] = FALSE]]
  <2>4. /\ w.pointers = new.pointers /\ w.obj = new.obj
        /\ w.fd_flags = [fd_flags EXCEPT ![t][rfd] = FALSE]
    BY DEF Attach
  <2>5. Install(w)
    BY <2>1
  <2> HIDE DEF w, fd
  <2>6. /\ pointers' = new.pointers /\ obj' = new.obj
        /\ fd_flags' = [fd_flags EXCEPT ![t][rfd] = FALSE]
    BY <2>4, <2>5 DEF Install
  <2>7. fd \in Fds /\ pointers[t][fd] = Null
    BY <2>3 DEF IsLowest
  <2>8. Attached(new, World, t, fd)
    BY <1>1, <2>2, <2>7, KeptAttach, 0 \in Nat, FALSE \in BOOLEAN
  <2> HIDE DEF new
  <2>9. /\ \A u \in Tables \ {t} : fd_flags'[u] = fd_flags[u]
        /\ \A g \in Fds \ {rfd} : fd_flags'[t][g] = fd_flags[t][g]
        /\ ~fd_flags'[t][rfd]
    BY <1>1, <2>6 DEF FlagsType
  <2>10. \A g \in Fds : fd_flags'[t][g] => fd_flags[t][g]
    BY <2>9
  <2>11. OpenedAt(t, {fd})
    BY <1>1, <2>2, <2>3, <2>6, <2>8, <2>9, <2>10, AttachEffect
  <2> QED
    BY <1>2, <2>7, <2>11
<1> QED
  BY <1>2, <1>3 DEF pfs_accept

(* One entry of one table is overwritten.                                  *)
SlotSet(h, f, t, n, e) ==
  /\ h[t][n] = e
  /\ \A g \in Fds \ {n} : h[t][g] = f[t][g]
  /\ \A u \in Tables \ {t} : h[u] = f[u]

LEMMA SetSlot ==
  ASSUME NEW V, NEW f \in [Tables -> [Fds -> V]], NEW t \in Tables, NEW n \in Fds, NEW e,
         NEW h, h = [f EXCEPT ![t][n] = e]
  PROVE  SlotSet(h, f, t, n, e)
<1>1. h[t] = [f[t] EXCEPT ![n] = e] /\ \A u \in Tables \ {t} : h[u] = f[u]
  OBVIOUS
<1>2. h[t][n] = e /\ \A g \in Fds \ {n} : h[t][g] = f[t][g]
  BY <1>1
<1> QED
  BY <1>1, <1>2 DEF SlotSet

LEMMA PipeEffect ==
  ASSUME FdInv, NEW p \in Procs, pfs_pipe(p)
  PROVE  \/ UNCHANGED <<pointers, fd_flags, obj>>
         \/ \E S \in SUBSET Fds : OpenedAt(table[p], S) /\ FlagsStay(table[p], S)
<1> DEFINE t == table[p]
           fd0 == find_empty(pointers, t, 0)
           fd1 == find_empty(pointers, t, fd0 + 1)
           a == Attach(World, t, fd0, FALSE, 0, FALSE)
           b == Attach(a, t, fd1, FALSE, 0, FALSE)
           S == {fd0, fd1}
<1>1. t # Null /\ t \in Tables /\ pointers \in PointersType /\ fd_flags \in FlagsType
      /\ setting \in Settings
  BY InUse DEF pfs_pipe, Does, FdInv, FdTypeOK, PointersType, FlagsType
<1>2. CASE fd0 = -1 \/ fd1 = -1
  BY <1>2 DEF pfs_pipe
<1>3. CASE ~(fd0 = -1 \/ fd1 = -1)
  <2>1. Cardinality(Free(World)) >= 2 /\ Install(b)
    BY <1>3 DEF pfs_pipe
  <2>2. IsLowest(t, fd0, 0)
    BY <1>1, <1>3, FindsLowest, 0 \in Nat
  <2>3. fd0 + 1 \in Nat
    <3> HIDE DEF fd0
    <3> QED
      BY SMT, <2>2, FdAssumption DEF IsLowest, Fds
  <2>4. IsLowest(t, fd1, fd0 + 1)
    BY <1>1, <1>3, <2>3, FindsLowest
  <2> HIDE DEF fd0, fd1
  <2>5. /\ fd0 \in Fds /\ fd1 \in Fds /\ fd0 < fd1
        /\ pointers[t][fd0] = Null /\ pointers[t][fd1] = Null
        /\ \A g \in Fds : g < fd1 /\ pointers[t][g] = Null => g = fd0
    BY SMT, <2>2, <2>4, FdAssumption DEF IsLowest, Fds
  <2>6. /\ Free(World) # {}
        /\ \A o : Free(World) # {o}
    <3>1. ASSUME Free(World) = {} PROVE FALSE
      <4>1. Cardinality(Free(World)) = 0
        BY <3>1, FS_EmptySet
      <4> QED
        BY SMT, <2>1, <4>1
    <3>2. ASSUME NEW o, Free(World) = {o} PROVE FALSE
      <4>1. Cardinality(Free(World)) = 1
        BY <3>2, FS_Singleton
      <4> QED
        BY SMT, <2>1, <4>1
    <3> QED
      BY <3>1, <3>2
  <2> DEFINE o0 == NextFree(World)
             o1 == NextFree(a)
  <2>7. /\ a \in WorldType /\ ObjectsCounted(a.pointers, a.obj)
        /\ a.pointers = [pointers EXCEPT ![t][fd0] = o0]
        /\ a.fd_flags = [fd_flags EXCEPT ![t][fd0] = FALSE]
        /\ \A o \in Objs \ {o0} : a.obj[o] = obj[o]
    <3>1. Attached(a, World, t, fd0)
      BY <1>1, <2>5, <2>6, KeptAttach, 0 \in Nat, FALSE \in BOOLEAN
    <3> HIDE DEF a
    <3> QED
      BY <3>1, WorldTyped DEF Attached
  <2>8. o0 \in Objs /\ Users(pointers, o0) = {} /\ obj[o0].numrefs = 0
    BY <1>1, <2>6, AttachedNew
  <2> HIDE DEF a
  <2>9. Free(a) # {}
    <3>1. PICK o \in Free(World) : o # o0
      BY SMT, <2>6
    <3>2. o \in setting.objs /\ o \in Objs /\ obj[o] = FreeObj
      BY <1>1, FdAssumption, WorldTyped DEF Free
    <3> HIDE DEF o0
    <3> QED
      BY <2>7, <3>1, <3>2 DEF Free
  <2>10. o1 \in Objs /\ a.obj[o1] = FreeObj /\ Users(a.pointers, o1) = {}
    <3>1. o1 \in Objs /\ a.obj[o1] = FreeObj
      BY <1>1, <2>7, <2>9, NextFreeIsFree
    <3> QED
      BY <2>7, <3>1, FreeHasNoUsers
  <2> HIDE DEF o0, o1
  <2>11. /\ a.pointers[t][fd0] = o0 /\ a.pointers[t][fd1] = Null
         /\ \A g \in Fds \ {fd0} : a.pointers[t][g] = pointers[t][g]
         /\ \A u \in Tables \ {t} : a.pointers[u] = pointers[u]
    BY SMT, <1>1, <2>5, <2>7, FdAssumption DEF PointersType, Fds
  <2>12. o1 # o0 /\ Users(pointers, o1) = {} /\ obj[o1].numrefs = 0
    <3>1. <<t, fd0>> \in Users(a.pointers, o0)
      BY <1>1, <2>5, <2>11 DEF Users
    <3>2. o1 # o0
      BY <2>10, <3>1
    <3>3. obj[o1] = FreeObj
      BY <2>7, <2>10, <3>2
    <3>4. ObjectsCounted(pointers, obj)
      BY DEF FdInv, RefsExact
    <3>5. Users(pointers, o1) = {}
      BY <2>10, <3>3, <3>4, FreeHasNoUsers
    <3> QED
      BY SMT, <3>2, <3>3, <3>5 DEF FreeObj
  <2>13. /\ b.pointers = [a.pointers EXCEPT ![t][fd1] = o1]
         /\ b.fd_flags = [a.fd_flags EXCEPT ![t][fd1] = FALSE]
         /\ \A o \in Objs \ {o1} : b.obj[o] = a.obj[o]
    <3>1. Attached(b, a, t, fd1)
      BY <1>1, <2>5, <2>7, <2>9, <2>11, AttachCounts, 0 \in Nat, FALSE \in BOOLEAN
    <3> HIDE DEF b
    <3> QED
      BY <3>1 DEF Attached, o1
  <2>14. pointers' = b.pointers /\ fd_flags' = b.fd_flags /\ obj' = b.obj
    BY <2>1 DEF Install
  <2> HIDE DEF b
  <2>15. /\ pointers'[t][fd0] = o0 /\ pointers'[t][fd1] = o1
         /\ \A g \in Fds \ S : pointers'[t][g] = pointers[t][g]
         /\ \A u \in Tables \ {t} : pointers'[u] = pointers[u]
    <3>1. a.pointers \in [Tables -> [Fds -> Objs \cup {Null}]]
      BY <2>7 DEF WorldType, PointersType
    <3>2. SlotSet(pointers', a.pointers, t, fd1, o1)
      BY <1>1, <2>5, <2>13, <2>14, <3>1, SetSlot
    <3>3. fd0 \in Fds \ {fd1}
      BY SMT, <2>5, FdAssumption DEF Fds
    <3> QED
      BY <2>11, <3>2, <3>3 DEF SlotSet
  <2>16. /\ ~fd_flags'[t][fd0] /\ ~fd_flags'[t][fd1]
         /\ \A g \in Fds \ S : fd_flags'[t][g] = fd_flags[t][g]
         /\ \A u \in Tables \ {t} : fd_flags'[u] = fd_flags[u]
    <3>1. a.fd_flags \in [Tables -> [Fds -> BOOLEAN]] /\ fd_flags \in [Tables -> [Fds -> BOOLEAN]]
      BY <1>1, <2>7 DEF WorldType, FlagsType
    <3>2. SlotSet(a.fd_flags, fd_flags, t, fd0, FALSE)
      BY <1>1, <2>5, <2>7, <3>1, SetSlot
    <3>3. SlotSet(fd_flags', a.fd_flags, t, fd1, FALSE)
      BY <1>1, <2>5, <2>13, <2>14, <3>1, SetSlot
    <3>4. fd0 \in Fds \ {fd1}
      BY SMT, <2>5, FdAssumption DEF Fds
    <3>5. ~fd_flags'[t][fd1] /\ fd_flags'[t][fd0] = a.fd_flags[t][fd0] /\ ~a.fd_flags[t][fd0]
      BY <3>2, <3>3, <3>4 DEF SlotSet
    <3>6. ASSUME NEW g \in Fds \ S PROVE fd_flags'[t][g] = fd_flags[t][g]
      <4>1. g \in Fds \ {fd0} /\ g \in Fds \ {fd1}
        OBVIOUS
      <4> QED
        BY <3>2, <3>3, <4>1 DEF SlotSet
    <3>7. \A u \in Tables \ {t} : fd_flags'[u] = fd_flags[u]
      BY <3>2, <3>3 DEF SlotSet
    <3> HIDE DEF S
    <3> QED
      BY <3>5, <3>6, <3>7
  <2>17. OffsetsStay
    <3>1. \A o \in Objs : obj[o].numrefs > 0 => obj'[o] = obj[o]
      BY SMT, <2>7, <2>8, <2>12, <2>13, <2>14
    <3> QED
      BY <3>1 DEF OffsetsStay
  <2>18. S \subseteq Fds
    BY <2>5
  <2>19. \A g \in S : \A h \in 0 .. g : h \in S \/ pointers[t][h] # Null
    BY SMT, <2>5, FdAssumption DEF Fds
  <2>20. \A g \in S : /\ pointers[t][g] = Null
                      /\ pointers'[t][g] \in Objs
                      /\ Users(pointers, pointers'[t][g]) = {}
                      /\ \A h \in S : h # g => pointers'[t][h] # pointers'[t][g]
    BY <2>5, <2>8, <2>10, <2>12, <2>15
  <2>21. OthersStay(t) /\ \A g \in Fds : fd_flags'[t][g] => fd_flags[t][g]
    BY <2>15, <2>16 DEF OthersStay
  <2>22. OpenedAt(t, S) /\ FlagsStay(t, S)
    BY <1>1, <2>5, <2>15, <2>16, <2>17, <2>18, <2>19, <2>20, <2>21 DEF OpenedAt, FlagsStay
  <2> QED
    BY <2>18, <2>22
<1> QED
  BY <1>2, <1>3

---------------------------------------------------------------------------
(* What each call does to the descriptors.                                 *)

LEMMA CloseCall ==
  ASSUME FdInv, NEW p \in Procs, pfs_close(p)
  PROVE  \/ UNCHANGED <<pointers, fd_flags, obj>>
         \/ \E fd \in Fds : ClosedAt(table[p], {fd})
<1>1. table[p] # Null
  BY DEF pfs_close, Does
<1>2. ASSUME NEW fd \in Fds, Install(Release(World, table[p], {fd}))
      PROVE  ClosedAt(table[p], {fd})
  <2>1. {fd} \subseteq Fds
    OBVIOUS
  <2> QED
    BY <1>1, <1>2, <2>1, CloseEffect
<1> QED
  BY <1>2 DEF pfs_close

LEMMA Dup2Call ==
  ASSUME FdInv, NEW p \in Procs, pfs_dup2(p)
  PROVE  \/ UNCHANGED <<pointers, fd_flags, obj>>
         \/ \E fd \in Fds : ClosedAt(table[p], {fd})
         \/ \E ofd, nfd \in Fds : /\ SharedAt(table[p], ofd, nfd)
                                  /\ result'.op = "dup2" /\ result'.value = nfd
<1> DEFINE t == table[p]
<1>1. t # Null
  BY DEF pfs_dup2, Does
<1>2. PICK ofd \in Fds, nfd \in Fds :
        \/ UNCHANGED <<pointers, fd_flags, obj>>
        \/ Valid(t, ofd) /\ Returns("dup2", nfd) /\ Install(Share(World, t, ofd, nfd))
        \/ Install(Release(World, t, {nfd}))
        \/ /\ Valid(t, ofd) /\ ofd # nfd /\ Returns("dup2", nfd)
           /\ Install(Share(Release(World, t, {nfd}), t, ofd, nfd))
  BY DEF pfs_dup2
<1>3. Returns("dup2", nfd) => result'.op = "dup2" /\ result'.value = nfd
  BY DEF Returns, NoIO
<1>4. {nfd} \subseteq Fds
  OBVIOUS
<1>5. CASE Valid(t, ofd) /\ Returns("dup2", nfd) /\ Install(Share(World, t, ofd, nfd))
  <2>1. pointers[t][ofd] # Null
    BY <1>5 DEF Valid
  <2>2. SharedAt(t, ofd, nfd)
    BY <1>1, <1>5, <2>1, DupEffect
  <2> QED
    BY <1>3, <1>5, <2>2
<1>6. CASE Install(Release(World, t, {nfd}))
  <2>1. ClosedAt(t, {nfd})
    BY <1>1, <1>4, <1>6, CloseEffect
  <2> QED
    BY <2>1
<1>7. CASE /\ Valid(t, ofd) /\ ofd # nfd /\ Returns("dup2", nfd)
           /\ Install(Share(Release(World, t, {nfd}), t, ofd, nfd))
  <2>1. pointers[t][ofd] # Null
    BY <1>7 DEF Valid
  <2>2. SharedAt(t, ofd, nfd)
    BY <1>1, <1>7, <2>1, CloseDupEffect
  <2> QED
    BY <1>3, <1>7, <2>2
<1> QED
  BY <1>2, <1>5, <1>6, <1>7

LEMMA SearchCall ==
  ASSUME FdInv, NEW p \in Procs, NEW op, NEW lowest \in Nat, search_dup2(p, op, lowest)
  PROVE  \/ UNCHANGED <<pointers, fd_flags, obj>>
         \/ \E ofd, nfd \in Fds : /\ IsLowest(table[p], nfd, lowest)
                                  /\ SharedAt(table[p], ofd, nfd)
<1> DEFINE nfd == find_empty(pointers, table[p], lowest)
<1>1. table[p] # Null /\ table[p] \in Tables
  BY InUse DEF search_dup2, Does
<1>2. ASSUME NEW ofd \in Fds, Valid(table[p], ofd), nfd # -1,
             Install(Share(World, table[p], ofd, nfd))
      PROVE  /\ nfd \in Fds /\ IsLowest(table[p], nfd, lowest)
             /\ SharedAt(table[p], ofd, nfd)
  <2>1. IsLowest(table[p], nfd, lowest)
    BY <1>1, <1>2, FindsLowest
  <2> HIDE DEF nfd
  <2>2. nfd \in Fds
    BY <2>1 DEF IsLowest
  <2>3. pointers[table[p]][ofd] # Null
    BY <1>2 DEF Valid
  <2>4. SharedAt(table[p], ofd, nfd)
    BY <1>1, <1>2, <2>2, <2>3, DupEffect
  <2> QED
    BY <2>1, <2>2, <2>4
<1>3. CASE UNCHANGED <<pointers, fd_flags, obj>>
  BY <1>3
<1>4. CASE \E ofd \in Fds : /\ Valid(table[p], ofd) /\ nfd # -1
                            /\ Install(Share(World, table[p], ofd, nfd))
  <2>1. PICK ofd \in Fds : /\ Valid(table[p], ofd) /\ nfd # -1
                           /\ Install(Share(World, table[p], ofd, nfd))
    BY <1>4
  <2>2. nfd \in Fds /\ IsLowest(table[p], nfd, lowest) /\ SharedAt(table[p], ofd, nfd)
    BY <1>2, <2>1
  <2> HIDE DEF nfd
  <2> QED
    BY <2>2
<1> QED
  BY <1>3, <1>4 DEF search_dup2

(* dup searches from 0, F_DUPFD from its argument.                         *)
LEMMA DupCall ==
  ASSUME FdInv, NEW p \in Procs, pfs_dup(p) \/ fcntl_DUPFD(p)
  PROVE  \/ UNCHANGED <<pointers, fd_flags, obj>>
         \/ \E from, ofd, nfd \in Fds : /\ IsLowest(table[p], nfd, from)
                                        /\ SharedAt(table[p], ofd, nfd)
<1>1. 0 \in Fds /\ Fds \subseteq Nat
  BY SMT, FdAssumption DEF Fds
<1>2. PICK from \in Fds : \E op : search_dup2(p, op, from)
  BY <1>1 DEF pfs_dup, fcntl_DUPFD
<1>3. from \in Nat
  BY <1>1
<1> QED
  BY <1>2, <1>3, SearchCall

LEMMA ExecCall ==
  ASSUME FdInv, NEW p \in Procs, Exec(p)
  PROVE  ClosedAt(table[p], {fd \in Fds : fd_flags[table[p]][fd]})
<1> DEFINE S == {fd \in Fds : fd_flags[table[p]][fd]}
<1>1. table[p] # Null /\ Install(Release(World, table[p], S)) /\ S \subseteq Fds
  BY DEF Exec, Does
<1> HIDE DEF S
<1>2. ClosedAt(table[p], S)
  BY <1>1, CloseEffect
<1> QED
  BY <1>2 DEF S

(* The last process that uses a table deletes it.                          *)
LEMMA ExitCall ==
  ASSUME FdInv, NEW p \in Procs, Exit(p)
  PROVE  IF refs[table[p]] = 1 THEN ClosedAt(table[p], Fds)
         ELSE UNCHANGED <<pointers, fd_flags, obj>>
<1>1. CASE refs[table[p]] = 1
  <2>1. table[p] # Null /\ Install(Release(World, table[p], Fds)) /\ Fds \subseteq Fds
    BY <1>1 DEF Exit, Does
  <2>2. ClosedAt(table[p], Fds)
    BY <2>1, CloseEffect
  <2> QED
    BY <1>1, <2>2
<1>2. CASE refs[table[p]] # 1
  BY <1>2 DEF Exit
<1> QED
  BY <1>1, <1>2

---------------------------------------------------------------------------
(* close-on-exec.                                                          *)

(* Only a descriptor that is open has close-on-exec set.                   *)
FlagsLead == \A t \in Tables, fd \in Fds : fd_flags[t][fd] => pointers[t][fd] # Null

FlagKept(t, fd) ==
  /\ fd_flags[t][fd] /\ ~fd_flags'[t][fd] /\ pointers'[t][fd] = pointers[t][fd]
  => \/ result'.op \in {"setfd", "accept"}
     \/ result'.op = "dup2" /\ result'.value = fd

FlagsKept == \A t \in Tables, fd \in Fds : FlagKept(t, fd)

LEMMA SameFlags ==
  ASSUME FlagsLead, UNCHANGED <<pointers, fd_flags>>
  PROVE  FlagsLead' /\ FlagsKept
  BY DEF FlagsLead, FlagsKept, FlagKept, Fds

(* It is enough to look at the table that changes.                         *)
LEMMA OneTable ==
  ASSUME FlagsLead, NEW t \in Tables, OthersStay(t),
         \A fd \in Fds : FlagKept(t, fd) /\ (fd_flags'[t][fd] => pointers'[t][fd] # Null)
  PROVE  FlagsLead' /\ FlagsKept
<1>1. FlagsKept
  BY DEF FlagsKept, FlagKept, OthersStay
<1>2. \A u \in Tables, fd \in Fds : fd_flags'[u][fd] => pointers'[u][fd] # Null
  BY DEF FlagsLead, OthersStay
<1> QED
  BY <1>1, <1>2 DEF FlagsLead, Fds

LEMMA ClosedFlags ==
  ASSUME FlagsLead, NEW t, NEW S, ClosedAt(t, S)
  PROVE  FlagsLead' /\ FlagsKept
<1>1. ASSUME NEW fd \in Fds
      PROVE  FlagKept(t, fd) /\ (fd_flags'[t][fd] => pointers'[t][fd] # Null)
  <2>1. /\ pointers'[t][fd] = IF fd \in S THEN Null ELSE pointers[t][fd]
        /\ fd_flags'[t][fd] = (fd \notin S /\ fd_flags[t][fd])
        /\ t \in Tables
    BY DEF ClosedAt
  <2>2. fd_flags[t][fd] => pointers[t][fd] # Null
    BY <2>1 DEF FlagsLead
  <2> QED
    BY <2>1, <2>2 DEF FlagKept
<1>2. t \in Tables /\ OthersStay(t)
  BY DEF ClosedAt
<1> QED
  BY <1>1, <1>2, OneTable

LEMMA SharedFlags ==
  ASSUME FlagsLead, NEW t, NEW ofd, NEW nfd, SharedAt(t, ofd, nfd),
         pointers[t][nfd] = Null \/ (result'.op = "dup2" /\ result'.value = nfd)
  PROVE  FlagsLead' /\ FlagsKept
<1>1. ASSUME NEW fd \in Fds
      PROVE  FlagKept(t, fd) /\ (fd_flags'[t][fd] => pointers'[t][fd] # Null)
  <2>1. /\ pointers'[t][fd] = IF fd = nfd THEN pointers[t][ofd] ELSE pointers[t][fd]
        /\ fd_flags'[t][fd] = (fd # nfd /\ fd_flags[t][fd])
        /\ t \in Tables
    BY DEF SharedAt
  <2>2. fd_flags[t][fd] => pointers[t][fd] # Null
    BY <2>1 DEF FlagsLead
  <2> QED
    BY <2>1, <2>2 DEF FlagKept
<1>2. t \in Tables /\ OthersStay(t)
  BY DEF SharedAt
<1> QED
  BY <1>1, <1>2, OneTable

LEMMA OpenedFlags ==
  ASSUME FlagsLead, NEW t, NEW S, OpenedAt(t, S),
         FlagsStay(t, S) \/ result'.op = "accept"
  PROVE  FlagsLead' /\ FlagsKept
<1>1. ASSUME NEW fd \in Fds
      PROVE  FlagKept(t, fd) /\ (fd_flags'[t][fd] => pointers'[t][fd] # Null)
  <2>1. /\ fd \in S => pointers[t][fd] = Null
        /\ fd \notin S => pointers'[t][fd] = pointers[t][fd]
        /\ fd_flags'[t][fd] => fd_flags[t][fd]
        /\ t \in Tables
    BY DEF OpenedAt
  <2>2. fd_flags[t][fd] => pointers[t][fd] # Null
    BY <2>1 DEF FlagsLead
  <2>3. fd \notin S => fd_flags'[t][fd] = fd_flags[t][fd] \/ result'.op = "accept"
    BY DEF FlagsStay
  <2> QED
    BY <2>1, <2>2, <2>3 DEF FlagKept
<1>2. t \in Tables /\ OthersStay(t)
  BY DEF OpenedAt
<1> QED
  BY <1>1, <1>2, OneTable

LEMMA SetfdFlags ==
  ASSUME FdInv, FlagsLead, NEW p \in Procs, fcntl_SETFD(p)
  PROVE  FlagsLead' /\ FlagsKept
<1> DEFINE t == table[p]
<1>1. t \in Tables /\ result'.op = "setfd" /\ pointers' = pointers
  BY InUse DEF fcntl_SETFD, Does, Returns, NoIO
<1>2. PICK fd \in Fds, flag \in BOOLEAN :
        Valid(t, fd) /\ fd_flags' = [fd_flags EXCEPT ![t][fd] = flag]
  BY DEF fcntl_SETFD
<1>3. fd_flags \in [Tables -> [Fds -> BOOLEAN]]
  BY DEF FdInv, FdTypeOK
<1>4. SlotSet(fd_flags', fd_flags, t, fd, flag)
  BY <1>1, <1>2, <1>3, SetSlot
<1>5. OthersStay(t)
  BY <1>1, <1>4 DEF SlotSet, OthersStay
<1>6. ASSUME NEW g \in Fds
      PROVE  FlagKept(t, g) /\ (fd_flags'[t][g] => pointers'[t][g] # Null)
  <2>1. g # fd => fd_flags'[t][g] = fd_flags[t][g]
    BY <1>4 DEF SlotSet
  <2>2. fd_flags[t][g] => pointers[t][g] # Null
    BY <1>1 DEF FlagsLead
  <2> QED
    BY <1>1, <1>2, <2>1, <2>2 DEF FlagKept, Valid
<1> QED
  BY <1>1, <1>5, <1>6, OneTable

LEMMA ForkFlags ==
  ASSUME FdInv, FlagsLead, NEW p \in Procs, NEW q \in Procs, Fork(p, q)
  PROVE  FlagsLead' /\ FlagsKept
<1> DEFINE t == table[p]
<1>1. t \in Tables /\ pointers \in PointersType /\ fd_flags \in FlagsType
  BY InUse DEF Fork, Does, FdInv, FdTypeOK, PointersType, FlagsType
<1>2. PICK u \in Tables : /\ refs[u] = 0
                          /\ pointers' = [pointers EXCEPT ![u] = pointers[t]]
                          /\ fd_flags' = [fd_flags EXCEPT ![u] = fd_flags[t]]
  BY DEF Fork
<1>3. \A fd \in Fds : ~fd_flags[u][fd]
  BY <1>2 DEF FdInv, RefsExact, TablesCounted
<1>4. /\ pointers'[u] = pointers[t] /\ fd_flags'[u] = fd_flags[t] /\ OthersStay(u)
  BY <1>1, <1>2 DEF PointersType, FlagsType, OthersStay
<1>5. ASSUME NEW fd \in Fds
      PROVE  FlagKept(u, fd) /\ (fd_flags'[u][fd] => pointers'[u][fd] # Null)
  <2>1. fd_flags[t][fd] => pointers[t][fd] # Null
    BY <1>1 DEF FlagsLead
  <2> QED
    BY <1>3, <1>4, <2>1 DEF FlagKept
<1> QED
  BY <1>4, <1>5, OneTable

LEMMA NextFlags ==
  ASSUME FdInv, FlagsLead, Next
  PROVE  FlagsLead' /\ FlagsKept
<1>1. ASSUME NEW p \in Procs, pfs_open(p) \/ pfs_pipe(p) \/ pfs_accept(p)
      PROVE  FlagsLead' /\ FlagsKept
  <2>1. \/ UNCHANGED <<pointers, fd_flags>>
        \/ \E t, S : OpenedAt(t, S) /\ (FlagsStay(t, S) \/ result'.op = "accept")
    BY <1>1, OpenEffect, PipeEffect, AcceptEffect
  <2> QED
    BY <2>1, SameFlags, OpenedFlags
<1>2. ASSUME NEW p \in Procs, pfs_close(p) \/ Exec(p) \/ Exit(p)
      PROVE  FlagsLead' /\ FlagsKept
  <2>1. UNCHANGED <<pointers, fd_flags>> \/ \E t, S : ClosedAt(t, S)
    BY <1>2, CloseCall, ExecCall, ExitCall
  <2> QED
    BY <2>1, SameFlags, ClosedFlags
<1>3. ASSUME NEW p \in Procs, pfs_dup2(p)
      PROVE  FlagsLead' /\ FlagsKept
  <2>1. \/ UNCHANGED <<pointers, fd_flags>>
        \/ \E t, S : ClosedAt(t, S)
        \/ \E t, ofd, nfd : /\ SharedAt(t, ofd, nfd)
                            /\ result'.op = "dup2" /\ result'.value = nfd
    BY <1>3, Dup2Call
  <2> QED
    BY <2>1, SameFlags, ClosedFlags, SharedFlags
<1>4. ASSUME NEW p \in Procs, pfs_dup(p) \/ fcntl_DUPFD(p)
      PROVE  FlagsLead' /\ FlagsKept
  <2>1. \/ UNCHANGED <<pointers, fd_flags>>
        \/ \E t, ofd, nfd : SharedAt(t, ofd, nfd) /\ pointers[t][nfd] = Null
    BY <1>4, DupCall DEF IsLowest
  <2> QED
    BY <2>1, SameFlags, SharedFlags
<1>5. ASSUME NEW p \in Procs,
             pfs_read(p) \/ pfs_write(p) \/ pfs_pread(p) \/ pfs_lseek(p) \/ pfs_chdir(p)
      PROVE  FlagsLead' /\ FlagsKept
  <2>1. UNCHANGED <<pointers, fd_flags>>
    BY <1>5 DEF pfs_read, pfs_write, pfs_pread, pfs_lseek, pfs_chdir
  <2> QED
    BY <2>1, SameFlags
<1>6. ASSUME NEW p \in Procs, NEW q \in Procs, Fork(p, q) \/ ShareTable(p, q)
      PROVE  FlagsLead' /\ FlagsKept
  <2>1. ShareTable(p, q) => UNCHANGED <<pointers, fd_flags>>
    BY DEF ShareTable
  <2> QED
    BY <1>6, <2>1, ForkFlags, SameFlags
<1> QED
  BY <1>1, <1>2, <1>3, <1>4, <1>5, <1>6, SetfdFlags DEF Next, Acts

(* In every behaviour a descriptor that stays what it is keeps             *)
(* close-on-exec, until fcntl resets it, dup2 is told to replace it, or    *)
(* accept resets the flags of the wrong descriptor.                        *)
THEOREM CloexecStaysKept == Spec => CloexecKept
<1>1. Init => FlagsLead
  BY SMT DEF Init, FlagsLead
<1>2. FdInv /\ FlagsLead /\ [Next]_vars => FlagsLead'
  <2>1. FlagsLead /\ UNCHANGED vars => FlagsLead'
    BY SameFlags DEF vars
  <2> QED
    BY <2>1, NextFlags
<1>3. FdInv /\ FlagsLead /\ [Next]_vars =>
        [\A t \in Tables, fd \in Fds :
           /\ fd_flags[t][fd] /\ ~fd_flags'[t][fd] /\ pointers'[t][fd] = pointers[t][fd]
           => \/ result'.op \in {"setfd", "accept"}
              \/ result'.op = "dup2" /\ result'.value = fd]_vars
  BY NextFlags DEF FlagsKept, FlagKept
<1> QED
  BY <1>1, <1>2, <1>3, InitInv, NextInv, PTL DEF Spec, CloexecKept

---------------------------------------------------------------------------
(* The refinement.                                                         *)

Space == [t \in Tables |-> pointers[t]]
Keep == [t \in Tables |-> {fd \in Fds : ~fd_flags[t][fd]}]
Position == [o \in Objs |-> IF obj[o].numrefs > 0 THEN obj[o].offset ELSE Gone]

LEMMA SpaceIs ==
  ASSUME NEW ptrs \in PointersType
  PROVE  [t \in Tables |-> ptrs[t]] = ptrs
  BY DEF PointersType

LEMMA NamedUsers ==
  ASSUME NEW ptrs \in PointersType, NEW o \in Objs
  PROVE  o \in Abs!Named(ptrs) <=> Users(ptrs, o) # {}
<1>1. o # Null
  BY FdAssumption
<1>2. o \in Abs!Named(ptrs) <=> \E t \in Tables, fd \in Fds : ptrs[t][fd] = o
  BY SMT, <1>1 DEF Abs!Named
<1>3. ASSUME NEW t \in Tables, NEW fd \in Fds, ptrs[t][fd] = o
      PROVE  Users(ptrs, o) # {}
  <2>1. <<t, fd>> \in Users(ptrs, o)
    BY <1>3 DEF Users
  <2> QED
    BY <2>1
<1>4. ASSUME Users(ptrs, o) # {}
      PROVE  \E t \in Tables, fd \in Fds : ptrs[t][fd] = o
  <2>1. PICK s \in Users(ptrs, o) : TRUE
    BY <1>4
  <2>2. s[1] \in Tables /\ s[2] \in Fds /\ ptrs[s[1]][s[2]] = o
    BY DEF Users
  <2> QED
    BY <2>2
<1> QED
  BY <1>2, <1>3, <1>4

LEMMA CountedUsers ==
  ASSUME NEW ptrs, NEW ob, ObjectsCounted(ptrs, ob), NEW o \in Objs
  PROVE  ob[o].numrefs > 0 <=> Users(ptrs, o) # {}
<1>1. ob[o].numrefs = Cardinality(Users(ptrs, o))
  BY DEF ObjectsCounted
<1>2. IsFiniteSet(Users(ptrs, o))
  BY UsersFinite
<1>3. Cardinality(Users(ptrs, o)) \in Nat
  BY <1>2, FS_CardinalityType
<1>4. Cardinality(Users(ptrs, o)) = 0 <=> Users(ptrs, o) = {}
  BY <1>2, FS_EmptySet
<1> QED
  BY SMT, <1>1, <1>3, <1>4

(* The open files of FdTableAbs are the objects that are referred to.      *)
LEMMA OpenFiles ==
  ASSUME FdInv
  PROVE  /\ Space = pointers
         /\ \A o \in Objs : /\ o \in Abs!Named(pointers) <=> obj[o].numrefs > 0
                            /\ o \in Abs!Named(pointers) <=> Position[o] # Gone
<1>1. pointers \in PointersType /\ ObjectsCounted(pointers, obj)
      /\ \A o \in Objs : obj[o].offset \in Nat
  BY DEF FdInv, FdTypeOK, PointersType, RefsExact
<1>2. Space = pointers
  BY <1>1, SpaceIs DEF Space
<1>3. ASSUME NEW o \in Objs
      PROVE  o \in Abs!Named(pointers) <=> obj[o].numrefs > 0
  BY <1>1, NamedUsers, CountedUsers
<1>4. ASSUME NEW o \in Objs
      PROVE  o \in Abs!Named(pointers) <=> Position[o] # Gone
  <2>1. Position[o] = IF obj[o].numrefs > 0 THEN obj[o].offset ELSE Gone
    BY DEF Position
  <2>2. obj[o].offset # Gone
    BY <1>1, FdAssumption
  <2> QED
    BY <1>3, <2>1, <2>2
<1> QED
  BY <1>2, <1>3, <1>4

LEMMA OpenFilesAfter ==
  ASSUME FdInv'
  PROVE  /\ Space' = pointers'
         /\ \A o \in Objs : /\ o \in Abs!Named(pointers') <=> obj'[o].numrefs > 0
                            /\ o \in Abs!Named(pointers') <=> Position'[o] # Gone
<1>1. pointers' \in PointersType /\ \A o \in Objs : obj'[o].offset \in Nat
  BY DEF FdInv, FdTypeOK, PointersType, Fds
<1>2. ObjectsCounted(pointers', obj')
  BY DEF FdInv, RefsExact, ObjectsCounted, Users, Fds
<1>3. Space' = pointers'
  BY <1>1, SpaceIs DEF Space
<1>4. ASSUME NEW o \in Objs
      PROVE  o \in Abs!Named(pointers') <=> obj'[o].numrefs > 0
  BY <1>1, <1>2, NamedUsers, CountedUsers
<1>5. ASSUME NEW o \in Objs
      PROVE  o \in Abs!Named(pointers') <=> Position'[o] # Gone
  <2>1. Position'[o] = IF obj'[o].numrefs > 0 THEN obj'[o].offset ELSE Gone
    BY DEF Position
  <2>2. obj'[o].offset # Gone
    BY <1>1, FdAssumption
  <2> QED
    BY <1>4, <2>1, <2>2
<1> QED
  BY <1>3, <1>4, <1>5

LEMMA Follow ==
  ASSUME FdInv, FdInv', OffsetsStay
  PROVE  Abs!FilesFollow
<1>1. /\ Space = pointers
      /\ \A o \in Objs : o \in Abs!Named(pointers) <=> obj[o].numrefs > 0
  BY OpenFiles
<1>2. /\ Space' = pointers'
      /\ \A o \in Objs : /\ o \in Abs!Named(pointers') <=> obj'[o].numrefs > 0
                         /\ o \in Abs!Named(pointers') <=> Position'[o] # Gone
  BY OpenFilesAfter
<1>3. ASSUME NEW o \in Objs, o \in Abs!Named(pointers), o \in Abs!Named(pointers')
      PROVE  Position'[o] = Position[o]
  BY <1>1, <1>2, <1>3 DEF OffsetsStay, Position
<1>4. \A o \in Objs :
        /\ o \in Abs!Named(Space') <=> Position'[o] # Gone
        /\ o \in Abs!Named(Space) \cap Abs!Named(Space') => Position'[o] = Position[o]
  BY <1>1, <1>2, <1>3
<1> QED
  BY <1>4 DEF Abs!FilesFollow, Space, Position

LEMMA OneRow ==
  ASSUME NEW V, NEW W, NEW f \in [Tables -> V], NEW g \in [Tables -> W], NEW t \in Tables,
         \A u \in Tables \ {t} : g[u] = f[u]
  PROVE  g = [f EXCEPT ![t] = g[t]]
  OBVIOUS

(* The rows of the other tables stay; so it is enough to look at one.      *)
LEMMA OneSpace ==
  ASSUME FdInv, FdInv', NEW t \in Tables, OthersStay(t), NEW row,
         row \in [Fds -> Objs \cup {Null}], \A fd \in Fds : pointers'[t][fd] = row[fd]
  PROVE  pointers' = [pointers EXCEPT ![t] = row]
<1>1. /\ pointers \in [Tables -> [Fds -> Objs \cup {Null}]]
      /\ pointers' \in [Tables -> [Fds -> Objs \cup {Null}]]
  BY DEF FdInv, FdTypeOK, Fds
<1>2. pointers'[t] = row
  BY SMT, <1>1
<1>3. pointers' = [pointers EXCEPT ![t] = pointers'[t]]
  BY <1>1, OneRow DEF OthersStay
<1> QED
  BY <1>2, <1>3

LEMMA OneKeep ==
  ASSUME NEW t \in Tables, OthersStay(t), NEW S,
         \A fd \in Fds : fd \in S <=> ~fd_flags'[t][fd], S \subseteq Fds
  PROVE  Keep' = [Keep EXCEPT ![t] = S]
<1>1. Keep = [u \in Tables |-> {fd \in Fds : ~fd_flags[u][fd]}]
  BY DEF Keep
<1>2. Keep' = [u \in Tables |-> {fd \in Fds : ~fd_flags'[u][fd]}]
  BY DEF Keep, Fds
<1>3. \A u \in Tables \ {t} : Keep'[u] = Keep[u]
  BY <1>1, <1>2 DEF OthersStay
<1>4. Keep'[t] = S
  BY <1>2
<1>5. Keep \in [Tables -> SUBSET Fds] /\ Keep' \in [Tables -> SUBSET Fds]
  BY <1>1, <1>2
<1>6. Keep' = [Keep EXCEPT ![t] = Keep'[t]]
  BY <1>3, <1>5, OneRow
<1> QED
  BY <1>4, <1>6

LEMMA KeepAt ==
  ASSUME NEW t \in Tables
  PROVE  Keep[t] = {fd \in Fds : ~fd_flags[t][fd]}
  BY DEF Keep

LEMMA ClosedRows ==
  ASSUME FdInv, FdInv', NEW t, NEW S, ClosedAt(t, S)
  PROVE  /\ Space' = [Space EXCEPT ![t] = [fd \in Fds |-> IF fd \in S THEN Null ELSE Space[t][fd]]]
         /\ Keep' = [Keep EXCEPT ![t] = Keep[t] \cup S]
         /\ Abs!FilesFollow
<1> DEFINE row == [fd \in Fds |-> IF fd \in S THEN Null ELSE pointers[t][fd]]
<1>1. t \in Tables /\ S \subseteq Fds /\ OthersStay(t) /\ OffsetsStay
      /\ \A fd \in Fds : /\ pointers'[t][fd] = IF fd \in S THEN Null ELSE pointers[t][fd]
                         /\ fd_flags'[t][fd] = (fd \notin S /\ fd_flags[t][fd])
  BY DEF ClosedAt
<1>2. row \in [Fds -> Objs \cup {Null}] /\ \A fd \in Fds : pointers'[t][fd] = row[fd]
  BY SMT, <1>1 DEF FdInv, FdTypeOK
<1> HIDE DEF row
<1>3. pointers' = [pointers EXCEPT ![t] = row]
  BY <1>1, <1>2, OneSpace
<1>4. Keep' = [Keep EXCEPT ![t] = Keep[t] \cup S]
  <2> DEFINE K == Keep[t] \cup S
  <2>1. K \subseteq Fds /\ \A fd \in Fds : fd \in K <=> ~fd_flags'[t][fd]
    BY <1>1, KeepAt
  <2> HIDE DEF K
  <2>2. Keep' = [Keep EXCEPT ![t] = K]
    BY <1>1, <2>1, OneKeep
  <2> QED
    BY <2>2 DEF K
<1>5. Abs!FilesFollow
  BY <1>1, Follow
<1>6. Space = pointers /\ Space' = pointers'
  BY OpenFiles, OpenFilesAfter
<1>7. Space' = [Space EXCEPT ![t] = [fd \in Fds |-> IF fd \in S THEN Null ELSE Space[t][fd]]]
  BY <1>3, <1>6 DEF row
<1> QED
  BY <1>4, <1>5, <1>7

LEMMA ClosesAbs ==
  ASSUME FdInv, FdInv', NEW p \in Procs, UNCHANGED <<cwd, table>>
  PROVE  /\ \A fd \in Fds : ClosedAt(table[p], {fd}) => Abs!Closes(table[p], {fd})
         /\ ClosedAt(table[p], Fds \ Keep[table[p]]) => Abs!Closes(table[p], Fds \ Keep[table[p]])
<1> DEFINE t == table[p]
           Rows(S) ==
             /\ Space' = [Space EXCEPT ![t] = [g \in Fds |-> IF g \in S THEN Null ELSE Space[t][g]]]
             /\ Keep' = [Keep EXCEPT ![t] = Keep[t] \cup S]
             /\ Abs!FilesFollow
<1>1. ASSUME NEW fd \in Fds, ClosedAt(t, {fd})
      PROVE  Abs!Closes(t, {fd})
  <2>1. Rows({fd})
    BY <1>1, ClosedRows
  <2> QED
    BY <2>1 DEF Abs!Closes, Space, Keep
<1>2. ASSUME ClosedAt(t, Fds \ Keep[t])
      PROVE  Abs!Closes(t, Fds \ Keep[t])
  <2>1. Rows(Fds \ Keep[t])
    BY <1>2, ClosedRows
  <2> QED
    BY <2>1 DEF Abs!Closes, Space, Keep
<1> QED
  BY <1>1, <1>2

LEMMA DupsAbs ==
  ASSUME FdInv, FdInv', NEW t, NEW ofd, NEW nfd, SharedAt(t, ofd, nfd), UNCHANGED <<cwd, table>>
  PROVE  Abs!Dups(t, ofd, nfd)
<1> DEFINE row == [pointers[t] EXCEPT ![nfd] = pointers[t][ofd]]
<1>1. /\ t \in Tables /\ ofd \in Fds /\ nfd \in Fds /\ pointers[t][ofd] # Null
      /\ OthersStay(t) /\ OffsetsStay
      /\ \A fd \in Fds :
           /\ pointers'[t][fd] = IF fd = nfd THEN pointers[t][ofd] ELSE pointers[t][fd]
           /\ fd_flags'[t][fd] = (fd # nfd /\ fd_flags[t][fd])
  BY DEF SharedAt
<1>2. row \in [Fds -> Objs \cup {Null}] /\ \A fd \in Fds : pointers'[t][fd] = row[fd]
  <2>1. pointers[t] \in [Fds -> Objs \cup {Null}]
    BY <1>1 DEF FdInv, FdTypeOK
  <2> QED
    BY <1>1, <2>1
<1> HIDE DEF row
<1>3. pointers' = [pointers EXCEPT ![t] = row]
  BY <1>1, <1>2, OneSpace
<1>4. Keep' = [Keep EXCEPT ![t] = Keep[t] \cup {nfd}]
  <2> DEFINE K == Keep[t] \cup {nfd}
  <2>1. K \subseteq Fds /\ \A fd \in Fds : fd \in K <=> ~fd_flags'[t][fd]
    BY <1>1, KeepAt
  <2> HIDE DEF K
  <2>2. Keep' = [Keep EXCEPT ![t] = K]
    BY <1>1, <2>1, OneKeep
  <2> QED
    BY <2>2 DEF K
<1>5. Abs!FilesFollow
  BY <1>1, Follow
<1>6. Space = pointers /\ Space' = pointers'
  BY OpenFiles, OpenFilesAfter
<1>7. Space[t][ofd] # Null /\ Space' = [Space EXCEPT ![t][nfd] = Space[t][ofd]]
  BY <1>1, <1>3, <1>6 DEF row
<1> QED
  BY <1>4, <1>5, <1>7 DEF Abs!Dups, Space, Keep

LEMMA OpensAbs ==
  ASSUME FdInv, FdInv', NEW p \in Procs, NEW S, OpenedAt(table[p], S), UNCHANGED <<cwd, table>>
  PROVE  Abs!Opens(table[p])
<1> DEFINE t == table[p]
<1>1. /\ t \in Tables /\ S \subseteq Fds /\ \E a, b \in Fds : S = {a, b}
      /\ \A fd \in S : /\ pointers[t][fd] = Null
                       /\ pointers'[t][fd] \in Objs
                       /\ Users(pointers, pointers'[t][fd]) = {}
                       /\ \A g \in S : g # fd => pointers'[t][g] # pointers'[t][fd]
                       /\ \A g \in 0 .. fd : g \in S \/ pointers[t][g] # Null
      /\ \A fd \in Fds \ S : pointers'[t][fd] = pointers[t][fd]
      /\ \A fd \in Fds : fd_flags'[t][fd] => fd_flags[t][fd]
      /\ OthersStay(t) /\ OffsetsStay
  BY DEF OpenedAt
<1>2. Space = pointers /\ Space' = pointers' /\ pointers \in PointersType
  BY OpenFiles, OpenFilesAfter DEF FdInv, FdTypeOK, PointersType
<1>3. \A fd \in S : pointers'[t][fd] \notin Abs!Named(pointers)
  <2>1. SUFFICES ASSUME NEW fd \in S  PROVE pointers'[t][fd] \notin Abs!Named(pointers)
    OBVIOUS
  <2>2. pointers'[t][fd] \in Objs /\ Users(pointers, pointers'[t][fd]) = {}
    BY <1>1
  <2> QED
    BY <1>2, <2>2, NamedUsers
<1>4. \A s \in Tables \ {t} : Space'[s] = Space[s] /\ Keep'[s] = Keep[s]
  BY <1>1, <1>2 DEF OthersStay, Keep, Fds
<1>5. Keep[t] \subseteq Keep'[t]
  <2>1. Keep'[t] = {fd \in Fds : ~fd_flags'[t][fd]}
    BY <1>1 DEF Keep, Fds
  <2> QED
    BY SMT, <1>1, <2>1, KeepAt
<1>6. Abs!FilesFollow
  BY <1>1, Follow
<1>7. Abs!Fills(t, S)
  <2>1. /\ \A fd \in S : \A g \in 0 .. fd : g \in S \/ Space[t][g] # Null
        /\ \A fd \in Fds \ S : Space'[t][fd] = Space[t][fd]
        /\ \A fd \in S : /\ Space[t][fd] = Null
                         /\ Space'[t][fd] \in Objs \ Abs!Named(Space)
                         /\ \A g \in S : g # fd => Space'[t][g] # Space'[t][fd]
    BY <1>1, <1>2, <1>3
  <2> QED
    BY <2>1 DEF Abs!Fills, Space
<1>8. \E fd, g \in Fds : Abs!Fills(t, {fd, g})
  BY <1>1, <1>7
<1> QED
  BY <1>4, <1>5, <1>6, <1>8 DEF Abs!Opens, Space, Keep

(* A transfer or a seek touches one object, through a descriptor of the    *)
(* process.                                                                *)
LEMMA MovingCall ==
  ASSUME FdInv, NEW p \in Procs, pfs_read(p) \/ pfs_write(p) \/ pfs_pread(p) \/ pfs_lseek(p)
  PROVE  \E fd \in Fds : /\ Valid(table[p], fd)
                         /\ \A n \in Objs \ {pointers[table[p]][fd]} : obj'[n] = obj[n]
<1>1. ASSUME NEW op, NEW fd \in Fds, NEW off, NEW bump, NEW grows,
             Transfer(p, op, fd, off, bump, grows)
      PROVE  \A n \in Objs \ {pointers[table[p]][fd]} : obj'[n] = obj[n]
  <2>1. obj' = obj \/ \E r : obj' = [obj EXCEPT ![pointers[table[p]][fd]] = r]
    BY <1>1 DEF Transfer
  <2>2. DOMAIN obj = Objs
    BY DEF FdInv, FdTypeOK
  <2> QED
    BY <2>1, <2>2
<1>2. CASE pfs_read(p) \/ pfs_write(p) \/ pfs_pread(p)
  <2>1. \E fd \in Fds : /\ Valid(table[p], fd)
                        /\ \E op, off, bump, grows : Transfer(p, op, fd, off, bump, grows)
    BY <1>2 DEF pfs_read, pfs_write, pfs_pread
  <2> QED
    BY <1>1, <2>1
<1>3. CASE pfs_lseek(p)
  <2>1. PICK fd \in Fds, off \in 0 .. MaxOff :
          /\ Valid(table[p], fd)
          /\ \/ UNCHANGED obj
             \/ obj' = [obj EXCEPT ![pointers[table[p]][fd]].offset = off]
    BY <1>3 DEF pfs_lseek
  <2>2. DOMAIN obj = Objs
    BY DEF FdInv, FdTypeOK
  <2>3. \A n \in Objs \ {pointers[table[p]][fd]} : obj'[n] = obj[n]
    BY <2>1, <2>2
  <2> QED
    BY <2>1, <2>3
<1> QED
  BY <1>2, <1>3

LEMMA MovesAbs ==
  ASSUME FdInv, FdInv', NEW p \in Procs, table[p] # Null, NEW fd \in Fds, Valid(table[p], fd),
         \A n \in Objs \ {pointers[table[p]][fd]} : obj'[n] = obj[n],
         UNCHANGED <<pointers, fd_flags, cwd, table>>
  PROVE  Abs!Moves(table[p])
<1> DEFINE t == table[p]
           o == pointers[t][fd]
<1>1. t \in Tables /\ o \in Objs /\ pointers \in PointersType
  BY SMT, InUse DEF Valid, FdInv, FdTypeOK, PointersType
<1>2. Space = pointers /\ Space' = pointers
  BY OpenFiles, OpenFilesAfter
<1>3. Position'[o] \in Nat
  <2>1. o \in Abs!Named(pointers)
    <3>1. <<t, fd>> \in Users(pointers, o)
      BY <1>1 DEF Users
    <3> QED
      BY <1>1, <3>1, NamedUsers
  <2>2. obj'[o].numrefs > 0
    BY <1>1, <2>1, OpenFilesAfter
  <2>3. obj'[o].offset \in Nat
    BY <1>1 DEF FdInv, FdTypeOK
  <2> QED
    BY <1>1, <2>2, <2>3 DEF Position
<1>4. Position' = [Position EXCEPT ![o] = Position'[o]]
  BY <1>1 DEF Position
<1>5. Keep' = Keep
  BY DEF Keep, Fds
<1>6. \E g \in Fds : /\ Space[t][g] # Null
                     /\ Position' = [Position EXCEPT ![Space[t][g]] = Position'[Space[t][g]]]
                     /\ Position'[Space[t][g]] \in Nat
  BY <1>2, <1>3, <1>4 DEF Valid
<1> QED
  BY <1>2, <1>5, <1>6 DEF Abs!Moves, Space, Keep, Position

(* What leaves the descriptors and the objects alone is a stutter.         *)
Stutters == Space' = Space /\ Keep' = Keep /\ Position' = Position /\ UNCHANGED <<cwd, table>>

LEMMA SameAbs ==
  ASSUME UNCHANGED <<pointers, fd_flags, obj, cwd, table>>
  PROVE  Stutters
  BY DEF Stutters, Space, Keep, Position, Fds

LEMMA MarksAbs ==
  ASSUME FdInv, NEW p \in Procs, fcntl_SETFD(p)
  PROVE  Abs!Marks(table[p])
<1> DEFINE t == table[p]
<1>1. t \in Tables /\ UNCHANGED <<pointers, obj, cwd, table>>
  BY InUse DEF fcntl_SETFD, Does
<1>2. PICK fd \in Fds, flag \in BOOLEAN : fd_flags' = [fd_flags EXCEPT ![t][fd] = flag]
  BY DEF fcntl_SETFD
<1>3. fd_flags \in [Tables -> [Fds -> BOOLEAN]]
  BY DEF FdInv, FdTypeOK
<1>4. SlotSet(fd_flags', fd_flags, t, fd, flag)
  BY <1>1, <1>2, <1>3, SetSlot
<1> DEFINE S == IF flag THEN {} ELSE {fd}
           K == (Keep[t] \ {fd}) \cup S
<1>5. S \in SUBSET {fd}
  OBVIOUS
<1>6. K \subseteq Fds /\ \A g \in Fds : g \in K <=> ~fd_flags'[t][g]
  <2>1. Keep[t] = {g \in Fds : ~fd_flags[t][g]}
    BY <1>1, KeepAt
  <2>2. fd_flags'[t][fd] = flag /\ \A g \in Fds \ {fd} : fd_flags'[t][g] = fd_flags[t][g]
    BY <1>4 DEF SlotSet
  <2> QED
    BY <2>1, <2>2
<1>7. OthersStay(t)
  BY <1>1, <1>4 DEF SlotSet, OthersStay
<1> HIDE DEF K
<1>8. Keep' = [Keep EXCEPT ![t] = K]
  BY <1>1, <1>6, <1>7, OneKeep
<1>9. Space' = Space /\ Position' = Position
  BY <1>1 DEF Space, Position
<1>10. \E g \in Fds : \E T \in SUBSET {g} : Keep' = [Keep EXCEPT ![t] = (Keep[t] \ {g}) \cup T]
  BY <1>5, <1>8 DEF K
<1> QED
  BY <1>1, <1>9, <1>10 DEF Abs!Marks, Space, Keep, Position

LEMMA DupsLowestAbs ==
  ASSUME FdInv, FdInv', NEW p \in Procs, table[p] # Null, NEW from \in Fds, NEW ofd \in Fds,
         NEW nfd \in Fds, IsLowest(table[p], nfd, from), SharedAt(table[p], ofd, nfd),
         UNCHANGED <<cwd, table>>
  PROVE  Abs!DupsLowest(table[p])
<1> DEFINE t == table[p]
<1>1. Space = pointers
  BY OpenFiles
<1>2. /\ nfd >= from /\ pointers[t][nfd] = Null
      /\ \A g \in Fds : g >= from /\ pointers[t][g] = Null => nfd <= g
  BY DEF IsLowest
<1>3. Abs!HasFree(Space, t, from)
  BY <1>1, <1>2 DEF Abs!HasFree
<1>4. Abs!Lowest(Space, t, from) = nfd
  <2> DEFINE L(fd) == /\ fd >= from /\ pointers[t][fd] = Null
                      /\ \A g \in Fds : g >= from /\ pointers[t][g] = Null => fd <= g
  <2>1. \A fd \in Fds : L(fd) => fd = nfd
    BY SMT, <1>2, FdAssumption DEF Fds
  <2>2. Abs!Lowest(Space, t, from) = CHOOSE fd \in Fds : L(fd)
    BY <1>1 DEF Abs!Lowest
  <2> QED
    BY <1>2, <2>1, <2>2
<1>5. Abs!Dups(t, ofd, nfd)
  BY DupsAbs
<1>6. Abs!Dups(t, ofd, Abs!Lowest(Space, t, from))
  BY <1>4, <1>5 DEF Abs!Dups
<1> QED
  BY <1>3, <1>6 DEF Abs!DupsLowest, Space

(* The working directory of every table.                                   *)
CwdTyped == cwd \in [Tables -> {"/", "/d"}]

LEMMA GoesToAbs ==
  ASSUME FdInv, CwdTyped, NEW p \in Procs, pfs_chdir(p)
  PROVE  Abs!GoesTo(table[p])
<1>1. \A s \in Tables \ {table[p]} : cwd'[s] = cwd[s]
  BY InUse DEF pfs_chdir, CwdTyped
<1>2. Stutters \/ UNCHANGED <<pointers, fd_flags, obj, table>>
  BY DEF pfs_chdir
<1>3. Space' = Space /\ Keep' = Keep /\ Position' = Position /\ table' = table
  BY DEF pfs_chdir, Space, Keep, Position, Fds
<1> QED
  BY <1>1, <1>3 DEF Abs!GoesTo, Space, Keep, Position

LEMMA JoinsAbs ==
  ASSUME NEW p \in Procs, NEW q \in Procs, ShareTable(p, q)
  PROVE  Abs!Joins(p)
<1>1. Space' = Space /\ Keep' = Keep /\ Position' = Position /\ cwd' = cwd
  BY DEF ShareTable, Space, Keep, Position, Fds
<1>2. table[q] = Null /\ table' = [table EXCEPT ![q] = table[p]]
  BY DEF ShareTable
<1> QED
  BY <1>1, <1>2 DEF Abs!Joins, Space, Keep, Position

(* A table with count 1 is used by one process, one with count 0 by none.  *)
LEMMA LastUser ==
  ASSUME FdInv, NEW p \in Procs, table[p] \in Tables
  PROVE  refs[table[p]] = 1 <=> \A q \in Procs \ {p} : table[q] # table[p]
<1> DEFINE X == {q \in Procs : table[q] = table[p]}
<1>1. IsFiniteSet(X) /\ refs[table[p]] = Cardinality(X) /\ p \in X
  <2>1. IsFiniteSet(X)
    BY FdAssumption, FS_Subset
  <2>2. refs[table[p]] = Cardinality(X)
    BY DEF FdInv, RefsExact, TablesCounted
  <2> QED
    BY <2>1, <2>2
<1>2. IsFiniteSet(X \ {p}) /\ Cardinality(X \ {p}) = Cardinality(X) - 1
  BY <1>1, FS_RemoveElement
<1>3. Cardinality(X) \in Nat /\ Cardinality(X \ {p}) \in Nat
  BY <1>1, <1>2, FS_CardinalityType
<1>4. Cardinality(X \ {p}) = 0 <=> X \ {p} = {}
  BY <1>2, FS_EmptySet
<1>5. X \ {p} = {} <=> \A q \in Procs \ {p} : table[q] # table[p]
  BY SMT
<1> QED
  BY SMT, <1>1, <1>2, <1>3, <1>4, <1>5

LEMMA NoUser ==
  ASSUME FdInv, NEW t \in Tables, refs[t] = 0
  PROVE  \A r \in Procs : table[r] # t
<1> DEFINE X == {q \in Procs : table[q] = t}
<1>1. IsFiniteSet(X)
  BY FdAssumption, FS_Subset
<1>2. Cardinality(X) = 0
  BY DEF FdInv, RefsExact, TablesCounted
<1>3. X = {}
  BY <1>1, <1>2, FS_EmptySet
<1> QED
  BY <1>3

LEMMA LeavesAbs ==
  ASSUME FdInv, FdInv', NEW p \in Procs, Exit(p)
  PROVE  Abs!Leaves(p)
<1> DEFINE t == table[p]
           S == IF \E q \in Procs \ {p} : table[q] = t THEN {} ELSE Fds
<1>1. t \in Tables /\ UNCHANGED cwd /\ table' = [table EXCEPT ![p] = Null]
  BY InUse DEF Exit, Does
<1>2. ClosedAt(t, S)
  <2>1. CASE refs[t] = 1
    <3>1. S = Fds
      BY <1>1, <2>1, LastUser
    <3>2. ClosedAt(t, Fds)
      BY <2>1, ExitCall
    <3> QED
      BY <3>1, <3>2
  <2>2. CASE refs[t] # 1
    <3>1. S = {}
      BY <1>1, <2>2, LastUser
    <3>2. UNCHANGED <<pointers, fd_flags, obj>>
      BY <2>2, ExitCall
    <3>3. OthersStay(t) /\ OffsetsStay
      BY <3>2 DEF OthersStay, OffsetsStay
    <3>4. fd_flags \in [Tables -> [Fds -> BOOLEAN]]
      BY DEF FdInv, FdTypeOK
    <3>5. ClosedAt(t, {})
      BY <1>1, <3>2, <3>3, <3>4 DEF ClosedAt
    <3> QED
      BY <3>1, <3>5
  <2> QED
    BY <2>1, <2>2
<1> HIDE DEF S
<1>3. /\ Space' = [Space EXCEPT ![t] = [fd \in Fds |-> IF fd \in S THEN Null ELSE Space[t][fd]]]
      /\ Keep' = [Keep EXCEPT ![t] = Keep[t] \cup S]
      /\ Abs!FilesFollow
  BY <1>2, ClosedRows
<1> QED
  BY <1>1, <1>3 DEF Abs!Leaves, Space, Keep, S

(* A fork gives the open files more names and no new ones lose or gain     *)
(* their last.                                                             *)
LEMMA CopiesAbs ==
  ASSUME FdInv, FdInv', NEW p \in Procs, NEW q \in Procs, Fork(p, q)
  PROVE  Abs!Copies(p)
<1>1. PICK t \in Tables :
        /\ refs[t] = 0
        /\ pointers' = [pointers EXCEPT ![t] = pointers[table[p]]]
        /\ fd_flags' = [fd_flags EXCEPT ![t] = fd_flags[table[p]]]
        /\ obj' = [o \in Objs |-> addref(obj[o], Cardinality(Slots(pointers, table[p], o)))]
        /\ cwd' = [cwd EXCEPT ![t] = cwd[table[p]]]
        /\ table' = [table EXCEPT ![q] = t]
  BY DEF Fork
<1>2. table[p] \in Tables /\ table[q] = Null
  BY InUse DEF Fork, Does
<1>3. /\ pointers \in [Tables -> [Fds -> Objs \cup {Null}]]
      /\ fd_flags \in [Tables -> [Fds -> BOOLEAN]]
  BY DEF FdInv, FdTypeOK
<1>4. \A r \in Procs : table[r] # t
  BY <1>1, NoUser
<1>5. Space = pointers /\ Space' = pointers'
  BY OpenFiles, OpenFilesAfter
<1>6. Space' = [Space EXCEPT ![t] = Space[table[p]]]
  BY <1>1, <1>5
<1>7. Keep' = [Keep EXCEPT ![t] = Keep[table[p]]]
  <2> DEFINE K == Keep[table[p]]
  <2>1. Keep[table[p]] = {fd \in Fds : ~fd_flags[table[p]][fd]}
    BY <1>2, KeepAt
  <2>2. fd_flags'[t] = fd_flags[table[p]] /\ OthersStay(t)
    BY <1>1, <1>3 DEF OthersStay
  <2>3. K \subseteq Fds /\ \A fd \in Fds : fd \in K <=> ~fd_flags'[t][fd]
    BY <2>1, <2>2
  <2> HIDE DEF K
  <2>4. Keep' = [Keep EXCEPT ![t] = K]
    BY <2>2, <2>3, OneKeep
  <2> QED
    BY <2>4 DEF K
<1>8. Position' = Position
  <2>1. ASSUME NEW o \in Objs
        PROVE  Position'[o] = Position[o]
    <3>1. obj'[o].offset = obj[o].offset
      <4>1. obj'[o] = addref(obj[o], Cardinality(Slots(pointers, table[p], o)))
        BY <1>1
      <4>2. obj[o] \in ObjType
        BY DEF FdInv, FdTypeOK, ObjType
      <4>3. \A n : addref(obj[o], n).offset = obj[o].offset
        BY <4>2 DEF addref, ObjType
      <4> QED
        BY <4>1, <4>3
    <3>2. o \in Abs!Named(pointers') <=> o \in Abs!Named(pointers)
      <4>1. ASSUME o \in Abs!Named(pointers')
            PROVE  o \in Abs!Named(pointers)
        <5>1. PICK u \in Tables, fd \in Fds : pointers'[u][fd] = o /\ o # Null
          BY SMT, <4>1 DEF Abs!Named
        <5>2. pointers[IF u = t THEN table[p] ELSE u][fd] = o
          BY <1>1, <1>3, <5>1
        <5> QED
          BY SMT, <1>2, <5>1, <5>2 DEF Abs!Named
      <4>2. ASSUME o \in Abs!Named(pointers)
            PROVE  o \in Abs!Named(pointers')
        <5>1. PICK u \in Tables, fd \in Fds : pointers[u][fd] = o /\ o # Null
          BY SMT, <4>2 DEF Abs!Named
        <5>2. u # t
          BY <1>1, <5>1 DEF FdInv, RefsExact, TablesCounted
        <5>3. pointers'[u][fd] = o
          BY <1>1, <1>3, <5>1, <5>2
        <5> QED
          BY SMT, <5>1, <5>3 DEF Abs!Named
      <4> QED
        BY <4>1, <4>2
    <3>3. obj'[o].numrefs > 0 <=> obj[o].numrefs > 0
      BY <3>2, OpenFiles, OpenFilesAfter
    <3> QED
      BY <3>1, <3>3 DEF Position
  <2>2. Position = [o \in Objs |-> Position[o]] /\ Position' = [o \in Objs |-> Position'[o]]
    BY DEF Position
  <2> QED
    BY <2>1, <2>2
<1>9. /\ table[q] = Null /\ (\A r \in Procs : table[r] # t)
      /\ table' = [table EXCEPT ![q] = t]
      /\ Space' = [Space EXCEPT ![t] = Space[table[p]]]
      /\ Keep' = [Keep EXCEPT ![t] = Keep[table[p]]]
      /\ cwd' = [cwd EXCEPT ![t] = cwd[table[p]]]
  BY <1>1, <1>2, <1>4, <1>6, <1>7
<1> QED
  BY <1>8, <1>9 DEF Abs!Copies, Space, Keep, Position

(* One step of a process that has a table is one of FdTableAbs.            *)
LEMMA AbsActs ==
  ASSUME NEW p \in Procs, table[p] # Null,
         \/ Abs!Opens(table[p]) \/ Abs!DupsLowest(table[p]) \/ Abs!Moves(table[p])
         \/ Abs!Marks(table[p]) \/ Abs!GoesTo(table[p])
         \/ \E fd \in Fds : Abs!Closes(table[p], {fd}) \/ \E g \in Fds : Abs!Dups(table[p], fd, g)
         \/ Abs!Closes(table[p], Fds \ Keep[table[p]])
         \/ Abs!Copies(p) \/ Abs!Joins(p) \/ Abs!Leaves(p)
  PROVE  Abs!AbsNext
  BY DEF Abs!AbsNext, Keep

LEMMA ActsAbs ==
  ASSUME FdInv, FdInv', CwdTyped, NEW p \in Procs, Acts(p)
  PROVE  Abs!AbsNext \/ Stutters
<1> DEFINE t == table[p]
<1>1. t # Null
  BY DEF Acts, pfs_open, pfs_pipe, pfs_accept, pfs_close, pfs_dup2, pfs_dup, fcntl_DUPFD,
         search_dup2, fcntl_SETFD, pfs_read, pfs_write, pfs_pread, pfs_lseek, pfs_chdir,
         Exec, Exit, Does
<1>2. CASE pfs_open(p) \/ pfs_pipe(p) \/ pfs_accept(p)
  <2>1. UNCHANGED <<cwd, table>>
    BY <1>2 DEF pfs_open, pfs_pipe, pfs_accept
  <2>2. UNCHANGED <<pointers, fd_flags, obj>> \/ \E S : OpenedAt(t, S)
    BY <1>2, OpenEffect, PipeEffect, AcceptEffect
  <2>3. (\E S : OpenedAt(t, S)) => Abs!Opens(t)
    BY <2>1, OpensAbs
  <2>4. UNCHANGED <<pointers, fd_flags, obj>> => Stutters
    BY <2>1, SameAbs
  <2> QED
    BY <1>1, <2>2, <2>3, <2>4, AbsActs
<1>3. CASE pfs_close(p) \/ pfs_dup2(p)
  <2>1. UNCHANGED <<cwd, table>>
    BY <1>3 DEF pfs_close, pfs_dup2
  <2>2. \/ UNCHANGED <<pointers, fd_flags, obj>>
        \/ \E fd \in Fds : ClosedAt(t, {fd})
        \/ \E fd, g \in Fds : SharedAt(t, fd, g)
    BY <1>3, CloseCall, Dup2Call
  <2>3. ASSUME NEW fd \in Fds, ClosedAt(t, {fd})
        PROVE  Abs!AbsNext
    <3>1. Abs!Closes(t, {fd})
      BY <2>1, <2>3, ClosesAbs
    <3> QED
      BY <1>1, <3>1, AbsActs
  <2>4. ASSUME NEW fd \in Fds, NEW g \in Fds, SharedAt(t, fd, g)
        PROVE  Abs!AbsNext
    <3>1. Abs!Dups(t, fd, g)
      BY <2>1, <2>4, DupsAbs
    <3> QED
      BY <1>1, <3>1, AbsActs
  <2>5. UNCHANGED <<pointers, fd_flags, obj>> => Stutters
    BY <2>1, SameAbs
  <2> QED
    BY <2>2, <2>3, <2>4, <2>5
<1>4. CASE pfs_dup(p) \/ fcntl_DUPFD(p)
  <2>1. UNCHANGED <<cwd, table>>
    BY <1>4 DEF pfs_dup, fcntl_DUPFD, search_dup2
  <2>2. ASSUME NEW from \in Fds, NEW ofd \in Fds, NEW nfd \in Fds,
               IsLowest(t, nfd, from), SharedAt(t, ofd, nfd)
        PROVE  Abs!AbsNext
    <3>1. Abs!DupsLowest(t)
      BY <1>1, <2>1, <2>2, DupsLowestAbs
    <3> QED
      BY <1>1, <3>1, AbsActs
  <2>3. UNCHANGED <<pointers, fd_flags, obj>> => Stutters
    BY <2>1, SameAbs
  <2>4. \/ UNCHANGED <<pointers, fd_flags, obj>>
        \/ \E from, ofd, nfd \in Fds : IsLowest(t, nfd, from) /\ SharedAt(t, ofd, nfd)
    BY <1>4, DupCall
  <2> QED
    BY <2>2, <2>3, <2>4
<1>5. CASE fcntl_SETFD(p)
  <2>1. Abs!Marks(t)
    BY <1>5, MarksAbs
  <2> QED
    BY <1>1, <2>1, AbsActs
<1>6. CASE pfs_read(p) \/ pfs_write(p) \/ pfs_pread(p) \/ pfs_lseek(p)
  <2>1. UNCHANGED <<pointers, fd_flags, cwd, table>>
    BY <1>6 DEF pfs_read, pfs_write, pfs_pread, pfs_lseek
  <2>2. PICK fd \in Fds : /\ Valid(t, fd)
                          /\ \A n \in Objs \ {pointers[t][fd]} : obj'[n] = obj[n]
    BY <1>6, MovingCall
  <2>3. Abs!Moves(t)
    BY <1>1, <2>1, <2>2, MovesAbs
  <2> QED
    BY <1>1, <2>3, AbsActs
<1>7. CASE pfs_chdir(p)
  <2>1. Abs!GoesTo(t)
    BY <1>7, GoesToAbs
  <2> QED
    BY <1>1, <2>1, AbsActs
<1>8. CASE Exec(p)
  <2> DEFINE S == {fd \in Fds : fd_flags[t][fd]}
  <2>1. UNCHANGED <<cwd, table>> /\ t \in Tables
    BY <1>1, <1>8, InUse DEF Exec
  <2>2. S = Fds \ Keep[t]
    BY <2>1, KeepAt
  <2>3. ClosedAt(t, Fds \ Keep[t])
    BY <1>8, <2>2, ExecCall
  <2>4. Abs!Closes(t, Fds \ Keep[t])
    BY <2>1, <2>3, ClosesAbs
  <2> QED
    BY <1>1, <2>4, AbsActs
<1>9. CASE Exit(p)
  <2>1. Abs!Leaves(p)
    BY <1>9, LeavesAbs
  <2> QED
    BY <1>1, <2>1, AbsActs
<1> QED
  BY <1>2, <1>3, <1>4, <1>5, <1>6, <1>7, <1>8, <1>9 DEF Acts

LEMMA NextAbs ==
  ASSUME FdInv, FdInv', CwdTyped, Next
  PROVE  Abs!AbsNext \/ Stutters
<1>1. ASSUME NEW p \in Procs, NEW q \in Procs, Fork(p, q) \/ ShareTable(p, q)
      PROVE  Abs!AbsNext
  <2>1. table[p] # Null
    BY <1>1 DEF Fork, ShareTable, Does
  <2>2. Abs!Copies(p) \/ Abs!Joins(p)
    BY <1>1, CopiesAbs, JoinsAbs
  <2> QED
    BY <2>1, <2>2, AbsActs
<1> QED
  BY <1>1, ActsAbs DEF Next

LEMMA NextCwd == FdInv /\ CwdTyped /\ [Next]_vars => CwdTyped'
<1> SUFFICES ASSUME FdInv, CwdTyped, [Next]_vars PROVE CwdTyped'
  OBVIOUS
<1>1. CASE UNCHANGED cwd
  BY <1>1 DEF CwdTyped
<1>2. ASSUME NEW p \in Procs, pfs_chdir(p)
      PROVE  CwdTyped'
  BY <1>2 DEF pfs_chdir, CwdTyped
<1>3. ASSUME NEW p \in Procs, NEW q \in Procs, Fork(p, q)
      PROVE  CwdTyped'
  BY <1>3, InUse DEF Fork, Does, CwdTyped
<1>4. ASSUME NEW p \in Procs, Acts(p), ~pfs_chdir(p)
      PROVE  UNCHANGED cwd
  BY <1>4 DEF Acts, pfs_open, pfs_pipe, pfs_accept, pfs_close, pfs_dup2, pfs_dup, fcntl_DUPFD,
         search_dup2, fcntl_SETFD, pfs_read, pfs_write, pfs_pread, pfs_lseek, Exec, Exit
<1>5. ASSUME NEW p \in Procs, NEW q \in Procs, ShareTable(p, q)
      PROVE  UNCHANGED cwd
  BY <1>5 DEF ShareTable
<1>6. UNCHANGED vars => UNCHANGED cwd
  BY DEF vars
<1> QED
  BY <1>1, <1>2, <1>3, <1>4, <1>5, <1>6 DEF Next

LEMMA InitAbs == Init => Abs!AbsInit
<1> SUFFICES ASSUME Init PROVE Abs!AbsInit
  OBVIOUS
<1>1. FdInv
  BY InitInv
<1>2. \A o \in Objs : o \in Abs!Named(Space) <=> Position[o] # Gone
  BY <1>1, OpenFiles
<1>3. \A t \in Tables : Keep[t] = Fds
  BY DEF Init, Keep
<1>4. ASSUME NEW t \in Tables, \A p \in Procs : table[p] # t
      PROVE  \A fd \in Fds : Space[t][fd] = Null
  BY <1>4, FdAssumption DEF Init, Space
<1> QED
  BY <1>2, <1>3, <1>4 DEF Abs!AbsInit, Space, Keep, Position

(* The tables, pointers and counts of the code implement the shared        *)
(* descriptor spaces of FdTableAbs: every operation of every process is    *)
(* one of its steps or changes nothing there.                              *)
THEOREM TableImplementsAbs == Spec => RefinesAbs
<1>1. Init => CwdTyped
  BY DEF Init, CwdTyped
<1>2. FdInv /\ FdInv' /\ CwdTyped /\ [Next]_vars => [Abs!AbsNext]_(Abs!absvars)
  <2> SUFFICES ASSUME FdInv, FdInv', CwdTyped, [Next]_vars
               PROVE  [Abs!AbsNext]_(Abs!absvars)
    OBVIOUS
  <2>1. Stutters => UNCHANGED Abs!absvars
    BY DEF Stutters, Abs!absvars, Space, Keep, Position
  <2>2. UNCHANGED vars => Stutters
    BY SameAbs DEF vars
  <2> QED
    BY <2>1, <2>2, NextAbs
<1> QED
  BY <1>1, <1>2, InitInv, NextInv, InitAbs, NextCwd, PTL DEF Spec, RefinesAbs, Abs!AbsSpec
============================================================================
