--------------------------- MODULE FdTableProofs ---------------------------
(***************************************************************************)
(* The reference counts of FdTable are exact, for any number of processes, *)
(* tables, descriptors and objects.                                        *)
(***************************************************************************)
EXTENDS FdTable, FiniteSetTheorems, WellFoundedInduction, TLAPS

USE Zenon

PointersType == [Tables -> [Fds -> Objs \cup {Null}]]
FlagsType == [Tables -> [Fds -> BOOLEAN]]
ObjType == [numrefs : Nat, frefs : Nat, offset : Nat, last_offset : Nat, local : Nat,
            kernel : Nat, size : Nat, seekable : BOOLEAN, append : BOOLEAN, missed : BOOLEAN]
WorldType == [pointers : PointersType, fd_flags : FlagsType, obj : [Objs -> ObjType]]

(* A set of naturals that is not empty has a least element.                *)
LEMMA LeastElement ==
  ASSUME NEW S, S \subseteq Nat, S # {}
  PROVE  \E x \in S : \A y \in S : x <= y
<1>1. \E x \in S : \A y \in S : ~(<<y, x>> \in OpToRel(<, Nat))
  BY NatLessThanWellFounded, WFMin
<1>2. PICK x \in S : \A y \in S : ~(<<y, x>> \in OpToRel(<, Nat))
  BY <1>1
<1>3. \A y \in S : ~(y < x)
  BY <1>2 DEF OpToRel
<1> QED
  BY SMT, <1>3

(* The descriptors that refer to an object are finitely many.              *)
LEMMA UsersFinite ==
  ASSUME NEW ptrs, NEW o
  PROVE  IsFiniteSet(Users(ptrs, o))
<1>1. IsFiniteSet(Fds)
  BY SMT, FS_Interval, FdAssumption DEF Fds
<1>2. IsFiniteSet(Tables \X Fds)
  BY <1>1, FS_Product, FdAssumption
<1> QED
  BY <1>2, FS_Subset DEF Users

(* A number less than NFds that a search for an empty descriptor returns   *)
(* is one.                                                                 *)
LEMMA FindEmpty ==
  ASSUME NEW ptrs \in PointersType, NEW t \in Tables, NEW lowest,
         find_empty(ptrs, t, lowest) # -1
  PROVE  /\ find_empty(ptrs, t, lowest) \in Fds
         /\ ptrs[t][find_empty(ptrs, t, lowest)] = Null
         /\ find_empty(ptrs, t, lowest) >= lowest
<1> DEFINE E == Empty(ptrs, t, lowest)
<1>1. E # {} /\ E \subseteq Nat
  BY SMT, FdAssumption DEF find_empty, Empty, Fds
<1>2. \E x \in E : \A y \in E : x <= y
  BY <1>1, LeastElement
<1>3. find_empty(ptrs, t, lowest) = CHOOSE fd \in E : \A g \in E : fd <= g
  BY <1>1 DEF find_empty
<1>4. find_empty(ptrs, t, lowest) \in E
  BY <1>2, <1>3
<1> QED
  BY <1>4 DEF Empty

(* The object that an open takes is free.                                  *)
LEMMA NextFreeIsFree ==
  ASSUME NEW w \in WorldType, setting \in Settings, Free(w) # {}
  PROVE  NextFree(w) \in Objs /\ w.obj[NextFree(w)] = FreeObj
<1>1. Free(w) \subseteq Nat /\ Free(w) \subseteq Objs
  BY FdAssumption DEF Free
<1>2. \E x \in Free(w) : \A y \in Free(w) : x <= y
  BY <1>1, LeastElement
<1>3. NextFree(w) \in Free(w)
  BY <1>2 DEF NextFree
<1> QED
  BY <1>1, <1>3 DEF Free

(* A free object that is counted has no descriptors.                       *)
LEMMA FreeHasNoUsers ==
  ASSUME NEW ptrs, NEW ob, ObjectsCounted(ptrs, ob), NEW o \in Objs, ob[o] = FreeObj
  PROVE  Users(ptrs, o) = {}
<1>1. Cardinality(Users(ptrs, o)) = 0
  BY SMT DEF ObjectsCounted, FreeObj
<1> QED
  BY <1>1, UsersFinite, FS_EmptySet

(* A descriptor that was empty comes to refer to o: o has one more.        *)
LEMMA UsersOfSlot ==
  ASSUME NEW ptrs \in PointersType, NEW t \in Tables, NEW fd \in Fds, ptrs[t][fd] = Null,
         NEW o \in Objs, NEW new, new = [ptrs EXCEPT ![t][fd] = o]
  PROVE  /\ Cardinality(Users(new, o)) = Cardinality(Users(ptrs, o)) + 1
         /\ \A n \in Objs \ {o} : Users(new, n) = Users(ptrs, n)
<1>1. new \in PointersType /\ new[t][fd] = o
      /\ \A s \in Tables \X Fds : s # <<t, fd>> => new[s[1]][s[2]] = ptrs[s[1]][s[2]]
  BY SMT DEF PointersType
<1>2. Users(new, o) = Users(ptrs, o) \cup {<<t, fd>>}
  BY SMT, <1>1 DEF Users
<1>3. <<t, fd>> \notin Users(ptrs, o)
  BY FdAssumption DEF Users
<1>4. \A n \in Objs \ {o} : Users(new, n) = Users(ptrs, n)
  BY SMT, <1>1, FdAssumption DEF Users
<1> QED
  BY <1>2, <1>3, <1>4, UsersFinite, FS_AddElement

(* a is w with an object that was free attached to the descriptor fd.      *)
Attached(a, w, t, fd) ==
  /\ a \in WorldType
  /\ ObjectsCounted(a.pointers, a.obj)
  /\ a.pointers = [w.pointers EXCEPT ![t][fd] = NextFree(w)]
  /\ a.fd_flags = [w.fd_flags EXCEPT ![t][fd] = FALSE]
  /\ \A o \in Objs \ {NextFree(w)} : a.obj[o] = w.obj[o]

(* Opening keeps the counts exact.                                         *)
LEMMA AttachCounts ==
  ASSUME setting \in Settings,
         NEW w \in WorldType, ObjectsCounted(w.pointers, w.obj), Free(w) # {},
         NEW t \in Tables, NEW fd \in Fds, w.pointers[t][fd] = Null,
         NEW seekable \in BOOLEAN, NEW size \in Nat, NEW append \in BOOLEAN
  PROVE  Attached(Attach(w, t, fd, seekable, size, append), w, t, fd)
<1> DEFINE o == NextFree(w)
           a == Attach(w, t, fd, seekable, size, append)
           new == NewObj(seekable, size, append)
<1>1. o \in Objs /\ w.obj[o] = FreeObj
  BY NextFreeIsFree
<1>2. /\ a.pointers = [w.pointers EXCEPT ![t][fd] = o]
      /\ a.fd_flags = [w.fd_flags EXCEPT ![t][fd] = FALSE]
      /\ a.obj = [w.obj EXCEPT ![o] = new]
      /\ a = [pointers |-> a.pointers, fd_flags |-> a.fd_flags, obj |-> a.obj]
  BY DEF Attach
<1>3. new \in ObjType /\ new.numrefs = 1 /\ new.frefs = 1
  BY DEF NewObj, FreeObj, ObjType
<1>4. /\ a.pointers \in PointersType /\ a.fd_flags \in FlagsType
      /\ a.obj \in [Objs -> ObjType]
  BY SMT, <1>1, <1>2, <1>3 DEF WorldType, PointersType, FlagsType
<1>5. a \in WorldType
  BY <1>2, <1>4 DEF WorldType
<1>6. Users(w.pointers, o) = {}
  BY <1>1, FreeHasNoUsers
<1>7. /\ Cardinality(Users(a.pointers, o)) = 1
      /\ \A n \in Objs \ {o} : Users(a.pointers, n) = Users(w.pointers, n)
  <2>1. w.pointers \in PointersType
    BY DEF WorldType
  <2>2. /\ Cardinality(Users(a.pointers, o)) = Cardinality(Users(w.pointers, o)) + 1
        /\ \A n \in Objs \ {o} : Users(a.pointers, n) = Users(w.pointers, n)
    <3> HIDE DEF o, a
    <3> QED
      BY SMT, <1>1, <1>2, <2>1, UsersOfSlot
  <2>3. Cardinality(Users(w.pointers, o)) = 0
    BY <1>6, FS_EmptySet
  <2> QED
    BY SMT, <2>2, <2>3
<1>8. ObjectsCounted(a.pointers, a.obj)
  BY SMT, <1>1, <1>2, <1>3, <1>7 DEF ObjectsCounted, WorldType
<1> QED
  BY <1>1, <1>2, <1>5, <1>8 DEF WorldType, Attached

(* A column of the descriptors of one table.                               *)
LEMMA ColumnFinite ==
  ASSUME NEW t \in Tables, NEW K, K \subseteq Fds
  PROVE  /\ IsFiniteSet(K) /\ Cardinality(K) \in Nat
         /\ IsFiniteSet({t} \X K)
         /\ Cardinality({t} \X K) = Cardinality(K)
<1>1. IsFiniteSet(Fds)
  BY SMT, FS_Interval, FdAssumption DEF Fds
<1>2. IsFiniteSet(K)
  BY <1>1, FS_Subset
<1>3. Cardinality(K) \in Nat
  BY <1>2, FS_CardinalityType
<1>4. IsFiniteSet({t}) /\ Cardinality({t}) = 1
  BY FS_Singleton
<1>5. IsFiniteSet({t} \X K) /\ Cardinality({t} \X K) = Cardinality({t}) * Cardinality(K)
  BY <1>2, <1>4, FS_Product
<1> QED
  BY SMT, <1>2, <1>3, <1>4, <1>5

(* Taking n of c references leaves c - n.                                  *)
LEMMA DelrefCounts ==
  ASSUME NEW r \in ObjType, NEW n \in Nat, r.numrefs = r.frefs, n <= r.frefs
  PROVE  /\ delref(r, n) \in ObjType
         /\ delref(r, n).numrefs = r.numrefs - n
         /\ delref(r, n).frefs = r.frefs - n
<1>1. CASE n = 0
  BY SMT, <1>1 DEF delref, ObjType
<1>2. CASE n # 0 /\ r.frefs = n
  BY SMT, <1>2 DEF delref, ObjType, FreeObj
<1>3. CASE n # 0 /\ r.frefs # n
  <2> DEFINE i == r.numrefs - n
             j == r.frefs - n
             d == delref(r, n)
  <2>1. i \in Nat /\ j \in Nat
    BY SMT DEF ObjType
  <2>2. d = [r EXCEPT !.numrefs = i, !.frefs = j]
    BY <1>3 DEF delref
  <2> HIDE DEF i, j, d
  <2>3. d.numrefs = i /\ d.frefs = j
    BY <2>1, <2>2 DEF ObjType
  <2>4. d \in ObjType
    BY <2>1, <2>2 DEF ObjType
  <2> QED
    BY <2>3, <2>4 DEF i, j, d
<1> QED
  BY <1>1, <1>2, <1>3

LEMMA AddrefCounts ==
  ASSUME NEW r \in ObjType, NEW n \in Nat
  PROVE  /\ addref(r, n) \in ObjType
         /\ addref(r, n).numrefs = r.numrefs + n
         /\ addref(r, n).frefs = r.frefs + n
<1> DEFINE i == r.numrefs + n
           j == r.frefs + n
           a == addref(r, n)
<1>1. i \in Nat /\ j \in Nat
  BY SMT DEF ObjType
<1>2. a = [r EXCEPT !.numrefs = i, !.frefs = j]
  BY DEF addref
<1> HIDE DEF i, j, a
<1>3. a.numrefs = i /\ a.frefs = j
  BY <1>1, <1>2 DEF ObjType
<1>4. a \in ObjType
  BY <1>1, <1>2 DEF ObjType
<1> QED
  BY <1>3, <1>4 DEF i, j, a

(* r is w with the descriptors S of the table t closed.                    *)
Closed(r, w, t, S) ==
  /\ r \in WorldType
  /\ ObjectsCounted(r.pointers, r.obj)
  /\ \A fd \in Fds : /\ r.pointers[t][fd] = IF fd \in S THEN Null ELSE w.pointers[t][fd]
                     /\ r.fd_flags[t][fd] = (fd \notin S /\ w.fd_flags[t][fd])
  /\ \A u \in Tables \ {t} : r.pointers[u] = w.pointers[u] /\ r.fd_flags[u] = w.fd_flags[u]

(* Closing descriptors keeps the counts exact.                             *)
LEMMA ReleaseCounts ==
  ASSUME NEW w \in WorldType, ObjectsCounted(w.pointers, w.obj),
         NEW t \in Tables, NEW S, S \subseteq Fds
  PROVE  Closed(Release(w, t, S), w, t, S)
<1> DEFINE r == Release(w, t, S)
           K(o) == Slots(w.pointers, t, o) \cap S
           n(o) == Cardinality(K(o))
<1>1. /\ w.pointers \in PointersType /\ w.fd_flags \in FlagsType /\ w.obj \in [Objs -> ObjType]
  BY DEF WorldType
<1>2. /\ r.pointers = [w.pointers EXCEPT ![t] =
                         [fd \in Fds |-> IF fd \in S THEN Null ELSE w.pointers[t][fd]]]
      /\ r.fd_flags = [w.fd_flags EXCEPT ![t] =
                         [fd \in Fds |-> fd \notin S /\ w.fd_flags[t][fd]]]
      /\ r.obj = [o \in Objs |-> delref(w.obj[o], n(o))]
      /\ r = [pointers |-> r.pointers, fd_flags |-> r.fd_flags, obj |-> r.obj]
  BY <1>1 DEF Release, PointersType, FlagsType
<1>3. /\ r.pointers \in PointersType /\ r.fd_flags \in FlagsType
      /\ \A fd \in Fds : /\ r.pointers[t][fd] = IF fd \in S THEN Null ELSE w.pointers[t][fd]
                         /\ r.fd_flags[t][fd] = (fd \notin S /\ w.fd_flags[t][fd])
      /\ \A u \in Tables \ {t} : r.pointers[u] = w.pointers[u] /\ r.fd_flags[u] = w.fd_flags[u]
  <2> HIDE DEF r
  <2> QED
    BY SMT, <1>1, <1>2 DEF PointersType, FlagsType
<1>4. ASSUME NEW o \in Objs
      PROVE  /\ n(o) \in Nat
             /\ n(o) <= Cardinality(Users(w.pointers, o))
             /\ Cardinality(Users(r.pointers, o)) = Cardinality(Users(w.pointers, o)) - n(o)
  <2>1. K(o) \subseteq Fds
    BY DEF Slots
  <2>2. n(o) \in Nat /\ IsFiniteSet({t} \X K(o)) /\ Cardinality({t} \X K(o)) = n(o)
    <3> HIDE DEF K
    <3> QED
      BY <2>1, ColumnFinite
  <2>3. {t} \X K(o) \subseteq Users(w.pointers, o)
    BY DEF Users, Slots
  <2>4. Users(r.pointers, o) = Users(w.pointers, o) \ ({t} \X K(o))
    <3> HIDE DEF r
    <3>1. Null # o
      BY FdAssumption
    <3>2. \A x \in Tables, fd \in Fds :
            r.pointers[x][fd] = o <=> w.pointers[x][fd] = o /\ ~(x = t /\ fd \in S)
      BY <1>3, <3>1
    <3> DEFINE D == {t} \X K(o)
    <3>3. \A s \in Tables \X Fds :
            /\ s[1] \in Tables /\ s[2] \in Fds
            /\ s \in D <=> s[1] = t /\ s[2] \in K(o)
      <4> HIDE DEF K
      <4> QED  OBVIOUS
    <3> HIDE DEF D
    <3>4. \A fd \in Fds : fd \in K(o) <=> w.pointers[t][fd] = o /\ fd \in S
      BY DEF Slots
    <3> HIDE DEF K
    <3>5. \A s \in Tables \X Fds :
            r.pointers[s[1]][s[2]] = o <=> w.pointers[s[1]][s[2]] = o /\ s \notin D
      BY SMT, <3>2, <3>3, <3>4
    <3>6. Users(r.pointers, o) = Users(w.pointers, o) \ D
      BY <3>5 DEF Users
    <3> QED  BY <3>6 DEF D
  <2>5. IsFiniteSet(Users(w.pointers, o))
    BY UsersFinite
  <2>6. Cardinality(Users(w.pointers, o) \ ({t} \X K(o)))
          = Cardinality(Users(w.pointers, o)) - Cardinality(Users(w.pointers, o) \cap ({t} \X K(o)))
    BY <2>5, FS_Difference
  <2>7. Users(w.pointers, o) \cap ({t} \X K(o)) = {t} \X K(o)
    <3> HIDE DEF K
    <3> QED
      BY <2>3
  <2>8. Cardinality({t} \X K(o)) <= Cardinality(Users(w.pointers, o))
    <3> HIDE DEF K
    <3> QED
      BY <2>3, <2>5, FS_Subset
  <2> QED
    BY <2>2, <2>4, <2>6, <2>7, <2>8
<1>5. ASSUME NEW o \in Objs
      PROVE  /\ r.obj[o] \in ObjType
             /\ r.obj[o].numrefs = Cardinality(Users(r.pointers, o))
             /\ r.obj[o].frefs = Cardinality(Users(r.pointers, o))
  <2> HIDE DEF r, n
  <2>1. w.obj[o] \in ObjType
    BY <1>1
  <2>2. /\ w.obj[o].numrefs = Cardinality(Users(w.pointers, o))
        /\ w.obj[o].frefs = Cardinality(Users(w.pointers, o))
    BY DEF ObjectsCounted
  <2>3. n(o) \in Nat /\ n(o) <= w.obj[o].frefs
    BY <1>4, <2>2
  <2>4. /\ delref(w.obj[o], n(o)) \in ObjType
        /\ delref(w.obj[o], n(o)).numrefs = w.obj[o].numrefs - n(o)
        /\ delref(w.obj[o], n(o)).frefs = w.obj[o].frefs - n(o)
    BY <2>1, <2>2, <2>3, DelrefCounts
  <2>5. r.obj[o] = delref(w.obj[o], n(o))
    BY <1>2
  <2> QED
    BY <1>4, <2>2, <2>4, <2>5
<1>6. r \in WorldType
  <2> HIDE DEF r
  <2>1. r.obj \in [Objs -> ObjType]
    BY <1>2, <1>5
  <2> QED
    BY <1>2, <1>3, <2>1 DEF WorldType
<1>7. ObjectsCounted(r.pointers, r.obj)
  <2> HIDE DEF r
  <2> QED
    BY <1>5 DEF ObjectsCounted
<1> QED
  BY <1>3, <1>6, <1>7 DEF Closed

(* s differs from w in the descriptors of the table t only.                *)
Changed(s, w, t) ==
  /\ s \in WorldType
  /\ ObjectsCounted(s.pointers, s.obj)
  /\ \A u \in Tables \ {t} : s.pointers[u] = w.pointers[u] /\ s.fd_flags[u] = w.fd_flags[u]

(* dup keeps the counts exact.                                             *)
LEMMA ShareCounts ==
  ASSUME NEW w \in WorldType, ObjectsCounted(w.pointers, w.obj),
         NEW t \in Tables, NEW ofd \in Fds, NEW nfd \in Fds,
         w.pointers[t][ofd] # Null, w.pointers[t][nfd] = Null
  PROVE  Changed(Share(w, t, ofd, nfd), w, t)
<1> DEFINE s == Share(w, t, ofd, nfd)
           o == w.pointers[t][ofd]
<1>1. /\ w.pointers \in PointersType /\ w.fd_flags \in FlagsType /\ w.obj \in [Objs -> ObjType]
  BY DEF WorldType
<1>2. o \in Objs
  BY SMT, <1>1 DEF PointersType
<1>3. /\ s.pointers = [w.pointers EXCEPT ![t][nfd] = o]
      /\ s.fd_flags = [w.fd_flags EXCEPT ![t][nfd] = FALSE]
      /\ s.obj = [w.obj EXCEPT ![o] = addref(w.obj[o], 1)]
      /\ s = [pointers |-> s.pointers, fd_flags |-> s.fd_flags, obj |-> s.obj]
  BY DEF Share
<1> HIDE DEF s, o
<1>4. /\ Cardinality(Users(s.pointers, o)) = Cardinality(Users(w.pointers, o)) + 1
      /\ \A n \in Objs \ {o} : Users(s.pointers, n) = Users(w.pointers, n)
  BY SMT, <1>1, <1>2, <1>3, UsersOfSlot
<1>5. /\ addref(w.obj[o], 1) \in ObjType
      /\ addref(w.obj[o], 1).numrefs = w.obj[o].numrefs + 1
      /\ addref(w.obj[o], 1).frefs = w.obj[o].frefs + 1
  BY <1>1, <1>2, AddrefCounts
<1>6. ObjectsCounted(s.pointers, s.obj)
  BY <1>1, <1>2, <1>3, <1>4, <1>5 DEF ObjectsCounted
<1>7. /\ s.pointers \in PointersType /\ s.fd_flags \in FlagsType /\ s.obj \in [Objs -> ObjType]
      /\ \A u \in Tables \ {t} : s.pointers[u] = w.pointers[u] /\ s.fd_flags[u] = w.fd_flags[u]
  BY SMT, <1>1, <1>2, <1>3, <1>5 DEF PointersType, FlagsType
<1>8. s \in WorldType
  BY <1>3, <1>7 DEF WorldType
<1> QED
  BY <1>6, <1>7, <1>8 DEF s, Changed

(* A table that is copied into one that was empty adds its descriptors.    *)
LEMMA ForkUsers ==
  ASSUME NEW ptrs \in PointersType, NEW t \in Tables, NEW u \in Tables,
         \A fd \in Fds : ptrs[u][fd] = Null,
         NEW new, new = [ptrs EXCEPT ![u] = ptrs[t]], NEW o \in Objs
  PROVE  /\ Cardinality(Slots(ptrs, t, o)) \in Nat
         /\ Cardinality(Users(new, o)) = Cardinality(Users(ptrs, o)) + Cardinality(Slots(ptrs, t, o))
<1> DEFINE K == Slots(ptrs, t, o)
<1>1. K \subseteq Fds
  BY DEF Slots
<1>2. Cardinality(K) \in Nat /\ IsFiniteSet({u} \X K) /\ Cardinality({u} \X K) = Cardinality(K)
  <2> HIDE DEF K
  <2> QED
    BY <1>1, ColumnFinite
<1>3. Users(new, o) = Users(ptrs, o) \cup ({u} \X K)
  BY FdAssumption DEF Users, Slots, PointersType
<1>4. Users(ptrs, o) \cap ({u} \X K) = {}
  BY FdAssumption DEF Users
<1>5. IsFiniteSet(Users(ptrs, o)) /\ Cardinality(Users(ptrs, o)) \in Nat
  BY UsersFinite, FS_CardinalityType
<1>6. Cardinality(Users(ptrs, o) \cup ({u} \X K))
        = Cardinality(Users(ptrs, o)) + Cardinality({u} \X K)
            - Cardinality(Users(ptrs, o) \cap ({u} \X K))
  <2> HIDE DEF K
  <2> QED
    BY <1>2, <1>5, FS_Union
<1>7. Cardinality({}) = 0
  BY FS_EmptySet
<1>8. Cardinality(Users(ptrs, o) \cap ({u} \X K)) = 0
  BY <1>4, <1>7
<1>9. Cardinality(Users(new, o)) = Cardinality(Users(ptrs, o) \cup ({u} \X K))
  BY <1>3
<1> HIDE DEF K
<1>10. Cardinality(Users(new, o)) = Cardinality(Users(ptrs, o)) + Cardinality(K)
  BY SMT, <1>2, <1>5, <1>6, <1>8, <1>9
<1> QED
  BY <1>2, <1>10 DEF K

---------------------------------------------------------------------------
(* The invariant.                                                          *)

FdInv == FdTypeOK /\ RefsExact

LEMMA WorldTyped ==
  ASSUME FdInv
  PROVE  /\ World \in WorldType /\ ObjectsCounted(World.pointers, World.obj)
         /\ World.pointers = pointers /\ World.fd_flags = fd_flags /\ World.obj = obj
<1>1. World.pointers = pointers /\ World.fd_flags = fd_flags /\ World.obj = obj
  BY DEF World
<1>2. ObjectsCounted(World.pointers, World.obj)
  BY <1>1 DEF FdInv, RefsExact
<1>3. pointers \in PointersType /\ fd_flags \in FlagsType /\ obj \in [Objs -> ObjType]
  BY DEF FdInv, FdTypeOK, PointersType, FlagsType, ObjType
<1>4. World \in WorldType
  BY <1>3 DEF World, WorldType
<1> QED
  BY <1>1, <1>2, <1>4

(* The table of a process is counted.                                      *)
LEMMA InUse ==
  ASSUME FdInv, NEW p \in Procs, table[p] # Null
  PROVE  table[p] \in Tables /\ refs[table[p]] # 0
<1>1. table[p] \in Tables
  BY DEF FdInv, FdTypeOK
<1>2. refs[table[p]] = Cardinality({q \in Procs : table[q] = table[p]})
  BY <1>1 DEF FdInv, RefsExact, TablesCounted
<1>3. IsFiniteSet({q \in Procs : table[q] = table[p]})
  BY FS_Subset, FdAssumption
<1>4. {q \in Procs : table[q] = table[p]} # {}
  OBVIOUS
<1> QED
  BY <1>1, <1>2, <1>3, <1>4, FS_EmptySet

(* A step that changes only the descriptors of a table in use keeps the    *)
(* invariant, if it keeps the counts of the objects.                       *)
LEMMA Kept ==
  ASSUME FdInv, NEW p \in Procs, table[p] # Null,
         NEW w \in WorldType, ObjectsCounted(w.pointers, w.obj),
         \A u \in Tables \ {table[p]} : /\ w.pointers[u] = pointers[u]
                                        /\ w.fd_flags[u] = fd_flags[u],
         Install(w), UNCHANGED <<refs, table, setting>>, overrun' \in BOOLEAN
  PROVE  FdInv'
<1>1. table[p] \in Tables /\ refs[table[p]] # 0
  BY InUse
<1>2. pointers' = w.pointers /\ fd_flags' = w.fd_flags /\ obj' = w.obj
  BY DEF Install
<1>3. FdTypeOK'
  BY <1>2 DEF FdInv, FdTypeOK, WorldType, PointersType, FlagsType, ObjType
<1>4. ObjectsCounted(pointers, obj)'
  BY <1>2 DEF ObjectsCounted, Users, Fds
<1>5. ASSUME NEW u \in Tables
      PROVE  /\ refs'[u] = Cardinality({q \in Procs : table'[q] = u})
             /\ refs'[u] = 0 => \A fd \in Fds : pointers'[u][fd] = Null /\ ~fd_flags'[u][fd]
  <2>1. /\ refs[u] = Cardinality({q \in Procs : table[q] = u})
        /\ refs[u] = 0 => \A fd \in Fds : pointers[u][fd] = Null /\ ~fd_flags[u][fd]
    BY DEF FdInv, RefsExact, TablesCounted
  <2>2. refs' = refs /\ table' = table
    OBVIOUS
  <2>3. refs[u] = 0 => pointers'[u] = pointers[u] /\ fd_flags'[u] = fd_flags[u]
    BY <1>1, <1>2
  <2> QED
    BY <2>1, <2>2, <2>3
<1>6. TablesCounted'
  BY <1>5 DEF TablesCounted
<1> QED
  BY <1>3, <1>4, <1>6 DEF FdInv, RefsExact

(* A step that leaves the descriptors alone and gives an object another    *)
(* position keeps the invariant.                                           *)
LEMMA KeptObject ==
  ASSUME FdInv, NEW o \in Objs, NEW r \in ObjType,
         r.numrefs = obj[o].numrefs, r.frefs = obj[o].frefs,
         obj' = [obj EXCEPT ![o] = r],
         UNCHANGED <<pointers, fd_flags, refs, table, overrun, setting>>
  PROVE  FdInv'
<1>1. obj \in [Objs -> ObjType]
  BY DEF FdInv, FdTypeOK, ObjType
<1>2. obj' \in [Objs -> ObjType]
  BY <1>1
<1>3. FdTypeOK'
  BY <1>2 DEF FdInv, FdTypeOK, ObjType
<1>4. ObjectsCounted(pointers, obj)'
  BY <1>1 DEF FdInv, RefsExact, ObjectsCounted, Users, Fds
<1>5. TablesCounted'
  BY DEF FdInv, RefsExact, TablesCounted, Fds
<1> QED
  BY <1>3, <1>4, <1>5 DEF FdInv, RefsExact

LEMMA InitInv == Init => FdInv
<1> SUFFICES ASSUME Init PROVE FdInv
  OBVIOUS
<1>1. 0 \in Fds
  BY SMT, FdAssumption DEF Fds
<1>2. FreeObj \in ObjType /\ FreeObj.numrefs = 0 /\ FreeObj.frefs = 0
  BY DEF FreeObj, ObjType
<1> DEFINE first == [addref(FreeObj, 1) EXCEPT !.seekable = FALSE]
<1>3. first \in ObjType /\ first.numrefs = 1 /\ first.frefs = 1
  <2> DEFINE one == addref(FreeObj, 1)
  <2>1. one \in ObjType /\ one.numrefs = 1 /\ one.frefs = 1
    <3>1. /\ one \in ObjType /\ one.numrefs = FreeObj.numrefs + 1
          /\ one.frefs = FreeObj.frefs + 1
      BY <1>2, AddrefCounts, 1 \in Nat
    <3> QED
      BY SMT, <1>2, <3>1
  <2> HIDE DEF one
  <2>2. first = [one EXCEPT !.seekable = FALSE]
    BY DEF one
  <2> HIDE DEF first
  <2>3. first.numrefs = 1 /\ first.frefs = 1
    BY <2>1, <2>2 DEF ObjType
  <2>4. first \in ObjType
    BY <2>1, <2>2 DEF ObjType
  <2> QED
    BY <2>3, <2>4
<1> HIDE DEF first
<1>4. obj = [o \in Objs |-> IF o = 1 THEN first ELSE FreeObj]
  BY DEF Init, first
<1>5. obj \in [Objs -> ObjType]
  BY <1>2, <1>3, <1>4
<1>6. FdTypeOK
  <2>1. pointers \in [Tables -> [Fds -> Objs \cup {Null}]] /\ fd_flags \in [Tables -> [Fds -> BOOLEAN]]
    BY FdAssumption DEF Init
  <2>2. /\ refs \in [Tables -> Nat] /\ table \in [Procs -> Tables \cup {Null}]
        /\ overrun \in BOOLEAN /\ setting \in Settings
    BY FdAssumption DEF Init
  <2> QED
    BY <1>5, <2>1, <2>2 DEF FdTypeOK, ObjType
<1>7. ObjectsCounted(pointers, obj)
  <2>1. Users(pointers, 1) = {<<1, 0>>}
    BY SMT, <1>1, FdAssumption DEF Init, Users
  <2>2. \A o \in Objs \ {1} : Users(pointers, o) = {}
    BY FdAssumption DEF Init, Users
  <2>3. Cardinality(Users(pointers, 1)) = 1
    BY <2>1, FS_Singleton
  <2>4. \A o \in Objs \ {1} : Cardinality(Users(pointers, o)) = 0
    BY <2>2, FS_EmptySet
  <2> QED
    BY <1>2, <1>3, <1>4, <2>3, <2>4 DEF ObjectsCounted
<1>8. TablesCounted
  <2>1. {p \in Procs : table[p] = 1} = {First}
    BY FdAssumption DEF Init
  <2>2. \A t \in Tables \ {1} : {p \in Procs : table[p] = t} = {}
    BY FdAssumption DEF Init
  <2>3. Cardinality({p \in Procs : table[p] = 1}) = 1
    BY <2>1, FS_Singleton
  <2>4. \A t \in Tables \ {1} : Cardinality({p \in Procs : table[p] = t}) = 0
    BY <2>2, FS_EmptySet
  <2>5. \A t \in Tables : refs[t] = IF t = 1 THEN 1 ELSE 0
    BY DEF Init
  <2>6. \A t \in Tables \ {1} : \A fd \in Fds : pointers[t][fd] = Null /\ ~fd_flags[t][fd]
    BY DEF Init
  <2> QED
    BY SMT, <2>3, <2>4, <2>5, <2>6 DEF TablesCounted
<1> QED
  BY <1>6, <1>7, <1>8 DEF FdInv, RefsExact

(* What leaves the descriptors, the objects and the tables alone.          *)
LEMMA KeptAll ==
  ASSUME FdInv, UNCHANGED <<pointers, fd_flags, refs, obj, table, setting>>, overrun' \in BOOLEAN
  PROVE  FdInv'
<1>1. FdTypeOK'
  BY DEF FdInv, FdTypeOK, Fds
<1>2. ObjectsCounted(pointers, obj)' /\ TablesCounted'
  BY DEF FdInv, RefsExact, ObjectsCounted, TablesCounted, Users, Fds
<1> QED
  BY <1>1, <1>2 DEF FdInv, RefsExact

(* The case of a process that opens.                                       *)
LEMMA KeptAttach ==
  ASSUME FdInv, NEW p \in Procs, table[p] # Null, Free(World) # {},
         NEW fd \in Fds, pointers[table[p]][fd] = Null,
         NEW seekable \in BOOLEAN, NEW size \in Nat, NEW append \in BOOLEAN
  PROVE  Attached(Attach(World, table[p], fd, seekable, size, append), World, table[p], fd)
<1>1. setting \in Settings /\ table[p] \in Tables
  BY InUse DEF FdInv, FdTypeOK
<1>2. World \in WorldType /\ ObjectsCounted(World.pointers, World.obj) /\ World.pointers = pointers
  BY WorldTyped
<1>3. World.pointers[table[p]][fd] = Null
  BY <1>2
<1> QED
  BY <1>1, <1>2, <1>3, AttachCounts

LEMMA OpenInv ==
  ASSUME FdInv, NEW p \in Procs, pfs_open(p)
  PROVE  FdInv'
<1> DEFINE t == table[p]
           fd == find_empty(pointers, t, 0)
<1>1. t # Null /\ t \in Tables /\ pointers \in PointersType /\ overrun \in BOOLEAN
      /\ setting \in Settings
  BY InUse DEF pfs_open, Does, FdInv, FdTypeOK, PointersType
<1>2. UNCHANGED <<refs, table, overrun, setting>>
  BY DEF pfs_open
<1>3. CASE UNCHANGED <<pointers, fd_flags, obj>>
  BY <1>1, <1>2, <1>3, KeptAll
<1>4. ASSUME fd # -1, Free(World) # {}, NEW size \in setting.sizes, NEW append \in setting.appends,
             Install(Attach(World, t, fd, TRUE, size, append))
      PROVE  FdInv'
  <2> DEFINE a == Attach(World, t, fd, TRUE, size, append)
  <2>1. fd \in Fds /\ pointers[t][fd] = Null
    BY <1>1, <1>4, FindEmpty
  <2>2. size \in Nat /\ append \in BOOLEAN
    BY SMT, <1>1, FdAssumption
  <2> HIDE DEF fd
  <2>3. /\ a \in WorldType /\ ObjectsCounted(a.pointers, a.obj)
        /\ a.pointers = [pointers EXCEPT ![t][fd] = NextFree(World)]
        /\ a.fd_flags = [fd_flags EXCEPT ![t][fd] = FALSE]
    <3>1. Attached(a, World, t, fd)
      BY <1>1, <1>4, <2>1, <2>2, KeptAttach, TRUE \in BOOLEAN
    <3> HIDE DEF a
    <3> QED
      BY <3>1, WorldTyped DEF Attached
  <2> HIDE DEF a
  <2>4. \A u \in Tables \ {t} : a.pointers[u] = pointers[u] /\ a.fd_flags[u] = fd_flags[u]
    BY <1>1, <2>3 DEF PointersType, FdInv, FdTypeOK
  <2>5. Install(a)
    BY <1>4 DEF a, fd
  <2> QED
    BY <1>1, <1>2, <2>3, <2>4, <2>5, Kept
<1> QED
  BY <1>3, <1>4 DEF pfs_open

LEMMA PipeInv ==
  ASSUME FdInv, NEW p \in Procs, pfs_pipe(p)
  PROVE  FdInv'
<1> DEFINE t == table[p]
           fd0 == find_empty(pointers, t, 0)
           fd1 == find_empty(pointers, t, fd0 + 1)
           a == Attach(World, t, fd0, FALSE, 0, FALSE)
           b == Attach(a, t, fd1, FALSE, 0, FALSE)
<1>1. t # Null /\ t \in Tables /\ pointers \in PointersType /\ fd_flags \in FlagsType
      /\ overrun \in BOOLEAN /\ setting \in Settings /\ UNCHANGED <<refs, table, setting>>
  BY InUse DEF pfs_pipe, Does, FdInv, FdTypeOK, PointersType, FlagsType
<1>2. CASE fd0 = -1 \/ fd1 = -1
  BY <1>1, <1>2, KeptAll DEF pfs_pipe
<1>3. CASE ~(fd0 = -1 \/ fd1 = -1)
  <2>1. Cardinality(Free(World)) >= 2 /\ Install(b) /\ UNCHANGED overrun
    BY <1>3 DEF pfs_pipe
  <2>2. fd0 \in Fds /\ pointers[t][fd0] = Null
    BY <1>1, <1>3, FindEmpty
  <2>3. fd1 \in Fds /\ pointers[t][fd1] = Null /\ fd1 >= fd0 + 1
    BY <1>1, <1>3, FindEmpty
  <2>4. fd0 # fd1
    BY SMT, <2>2, <2>3, FdAssumption DEF Fds
  <2> HIDE DEF fd0, fd1
  <2>5. /\ Free(World) # {}
        /\ \A o : Free(World) # {o}
    <3>1. ASSUME Free(World) = {} PROVE FALSE
      <4>1. Cardinality(Free(World)) = 0
        BY <3>1, FS_EmptySet
      <4> QED
        BY SMT, <2>1, <4>1
    <3>2. ASSUME NEW o, Free(World) = {o} PROVE FALSE
      <4>1. Cardinality(Free(World)) = 1
        BY <3>2, FS_Singleton
      <4> QED
        BY SMT, <2>1, <4>1
    <3> QED
      BY <3>1, <3>2
  <2>6. /\ a \in WorldType /\ ObjectsCounted(a.pointers, a.obj)
        /\ a.pointers = [pointers EXCEPT ![t][fd0] = NextFree(World)]
        /\ a.fd_flags = [fd_flags EXCEPT ![t][fd0] = FALSE]
        /\ \A o \in Objs \ {NextFree(World)} : a.obj[o] = obj[o]
    <3>1. Attached(a, World, t, fd0)
      BY <1>1, <2>2, <2>5, KeptAttach, 0 \in Nat, FALSE \in BOOLEAN
    <3> HIDE DEF a
    <3> QED
      BY <3>1, WorldTyped DEF Attached
  <2> HIDE DEF a
  <2>7. Free(a) # {}
    <3>1. PICK o \in Free(World) : o # NextFree(World)
      BY SMT, <2>5
    <3>2. o \in setting.objs /\ o \in Objs /\ obj[o] = FreeObj
      BY <1>1, FdAssumption, WorldTyped DEF Free
    <3> QED
      BY <2>6, <3>1, <3>2 DEF Free
  <2>8. a.pointers[t][fd1] = Null
    BY SMT, <1>1, <2>2, <2>3, <2>4, <2>6 DEF PointersType
  <2>9. /\ b \in WorldType /\ ObjectsCounted(b.pointers, b.obj)
        /\ b.pointers = [a.pointers EXCEPT ![t][fd1] = NextFree(a)]
        /\ b.fd_flags = [a.fd_flags EXCEPT ![t][fd1] = FALSE]
    <3>1. Attached(b, a, t, fd1)
      BY <1>1, <2>3, <2>6, <2>7, <2>8, AttachCounts, 0 \in Nat, FALSE \in BOOLEAN
    <3> HIDE DEF b
    <3> QED
      BY <3>1 DEF Attached
  <2> HIDE DEF b
  <2>10. \A u \in Tables \ {t} : a.pointers[u] = pointers[u] /\ a.fd_flags[u] = fd_flags[u]
    BY <1>1, <2>2, <2>6 DEF PointersType, FlagsType
  <2>11. \A u \in Tables \ {t} : b.pointers[u] = pointers[u] /\ b.fd_flags[u] = fd_flags[u]
    BY <1>1, <2>3, <2>6, <2>9, <2>10 DEF PointersType, FlagsType
  <2> QED
    BY <1>1, <2>1, <2>9, <2>11, Kept
<1> QED
  BY <1>2, <1>3

LEMMA AcceptInv ==
  ASSUME FdInv, NEW p \in Procs, pfs_accept(p)
  PROVE  FdInv'
<1> DEFINE t == table[p]
           fd == find_empty(pointers, t, 0)
           new == Attach(World, t, fd, FALSE, 0, FALSE)
<1>1. t # Null /\ t \in Tables /\ pointers \in PointersType /\ fd_flags \in FlagsType
      /\ overrun \in BOOLEAN /\ setting \in Settings /\ UNCHANGED <<refs, table, setting>>
  BY InUse DEF pfs_accept, Does, FdInv, FdTypeOK, PointersType, FlagsType
<1>2. CASE fd = -1
  BY <1>1, <1>2, KeptAll DEF pfs_accept
<1>3. CASE fd # -1
  <2>1. PICK rfd \in Fds : Install([new EXCEPT !.fd_flags = [fd_flags EXCEPT ![t][rfd] = FALSE]])
    BY <1>3 DEF pfs_accept
  <2> DEFINE flags == [fd_flags EXCEPT ![t][rfd] = FALSE]
             w == [new EXCEPT !.fd_flags = flags]
  <2>2. Free(World) # {} /\ UNCHANGED overrun
    BY <1>3 DEF pfs_accept
  <2>3. fd \in Fds /\ pointers[t][fd] = Null
    BY <1>1, <1>3, FindEmpty
  <2> HIDE DEF fd
  <2>4. /\ new \in WorldType /\ ObjectsCounted(new.pointers, new.obj)
        /\ new.pointers = [pointers EXCEPT ![t][fd] = NextFree(World)]
    <3>1. Attached(new, World, t, fd)
      BY <1>1, <2>2, <2>3, KeptAttach, 0 \in Nat, FALSE \in BOOLEAN
    <3> HIDE DEF new
    <3> QED
      BY <3>1, WorldTyped DEF Attached
  <2> HIDE DEF new
  <2>5. flags \in FlagsType /\ \A u \in Tables \ {t} : flags[u] = fd_flags[u]
    BY <1>1 DEF FlagsType
  <2> HIDE DEF flags
  <2>6. /\ w.pointers = new.pointers /\ w.obj = new.obj /\ w.fd_flags = flags
    BY <2>4 DEF WorldType
  <2>7. w \in WorldType
    BY <2>4, <2>5 DEF WorldType
  <2>8. Install(w)
    BY <2>1 DEF flags
  <2> HIDE DEF w
  <2>9. \A u \in Tables \ {t} : w.pointers[u] = pointers[u] /\ w.fd_flags[u] = fd_flags[u]
    BY <1>1, <2>3, <2>4, <2>5, <2>6 DEF PointersType
  <2> QED
    BY <1>1, <2>2, <2>4, <2>6, <2>7, <2>8, <2>9, Kept
<1> QED
  BY <1>2, <1>3

(* A step that changes the descriptors of the table of a process.          *)
LEMMA KeptChanged ==
  ASSUME FdInv, NEW p \in Procs, table[p] # Null, NEW w, Changed(w, World, table[p]),
         Install(w), UNCHANGED <<refs, table, overrun, setting>>
  PROVE  FdInv'
<1>1. overrun' \in BOOLEAN
  BY DEF FdInv, FdTypeOK
<1>2. /\ w \in WorldType /\ ObjectsCounted(w.pointers, w.obj)
      /\ \A u \in Tables \ {table[p]} : w.pointers[u] = pointers[u] /\ w.fd_flags[u] = fd_flags[u]
  BY WorldTyped DEF Changed
<1> QED
  BY <1>1, <1>2, Kept

LEMMA KeptClosed ==
  ASSUME FdInv, NEW p \in Procs, table[p] # Null, NEW S, S \subseteq Fds
  PROVE  /\ Closed(Release(World, table[p], S), World, table[p], S)
         /\ Changed(Release(World, table[p], S), World, table[p])
<1>1. table[p] \in Tables
  BY InUse
<1>2. World \in WorldType /\ ObjectsCounted(World.pointers, World.obj)
  BY WorldTyped
<1>3. Closed(Release(World, table[p], S), World, table[p], S)
  BY <1>1, <1>2, ReleaseCounts
<1> QED
  BY <1>3 DEF Closed, Changed

LEMMA KeptShare ==
  ASSUME FdInv, NEW p \in Procs, table[p] # Null, NEW ofd \in Fds, NEW nfd \in Fds,
         pointers[table[p]][ofd] # Null, pointers[table[p]][nfd] = Null
  PROVE  Changed(Share(World, table[p], ofd, nfd), World, table[p])
<1>1. table[p] \in Tables
  BY InUse
<1>2. /\ World \in WorldType /\ ObjectsCounted(World.pointers, World.obj)
      /\ World.pointers[table[p]][ofd] # Null /\ World.pointers[table[p]][nfd] = Null
  BY WorldTyped
<1> QED
  BY <1>1, <1>2, ShareCounts

LEMMA CloseInv ==
  ASSUME FdInv, NEW p \in Procs, pfs_close(p)
  PROVE  FdInv'
<1>1. table[p] # Null /\ UNCHANGED <<refs, table, overrun, setting>> /\ overrun' \in BOOLEAN
  BY DEF pfs_close, Does, FdInv, FdTypeOK
<1>2. CASE UNCHANGED <<pointers, fd_flags, obj>>
  BY <1>1, <1>2, KeptAll
<1>3. ASSUME NEW fd \in Fds, Install(Release(World, table[p], {fd}))
      PROVE  FdInv'
  <2>1. Changed(Release(World, table[p], {fd}), World, table[p])
    BY <1>1, KeptClosed
  <2> QED
    BY <1>1, <1>3, <2>1, KeptChanged
<1> QED
  BY <1>2, <1>3 DEF pfs_close

LEMMA Dup2Inv ==
  ASSUME FdInv, NEW p \in Procs, pfs_dup2(p)
  PROVE  FdInv'
<1> DEFINE t == table[p]
           cleared(nfd) == Release(World, t, {nfd})
<1>1. t # Null /\ UNCHANGED <<refs, table, overrun, setting>> /\ overrun' \in BOOLEAN
  BY DEF pfs_dup2, Does, FdInv, FdTypeOK
<1>2. CASE UNCHANGED <<pointers, fd_flags, obj>>
  BY <1>1, <1>2, KeptAll
<1>3. ASSUME NEW ofd \in Fds, NEW nfd \in Fds, Valid(t, ofd), ~Valid(t, nfd),
             Install(Share(World, t, ofd, nfd))
      PROVE  FdInv'
  <2>1. Changed(Share(World, t, ofd, nfd), World, t)
    BY <1>1, <1>3, KeptShare DEF Valid
  <2> QED
    BY <1>1, <1>3, <2>1, KeptChanged
<1>4. ASSUME NEW nfd \in Fds, Install(cleared(nfd))
      PROVE  FdInv'
  <2>1. Changed(cleared(nfd), World, t)
    BY <1>1, KeptClosed
  <2> QED
    BY <1>1, <1>4, <2>1, KeptChanged
<1>5. ASSUME NEW ofd \in Fds, NEW nfd \in Fds, Valid(t, ofd), ofd # nfd,
             Install(Share(cleared(nfd), t, ofd, nfd))
      PROVE  FdInv'
  <2> DEFINE c == cleared(nfd)
             s == Share(c, t, ofd, nfd)
  <2>1. Closed(c, World, t, {nfd})
    BY <1>1, KeptClosed
  <2>2. t \in Tables
    BY <1>1, InUse
  <2> HIDE DEF c
  <2>3. /\ c \in WorldType /\ ObjectsCounted(c.pointers, c.obj)
        /\ c.pointers[t][ofd] # Null /\ c.pointers[t][nfd] = Null
    BY <1>5, <2>1, WorldTyped DEF Closed, Valid
  <2>4. Changed(s, c, t)
    BY <2>2, <2>3, ShareCounts
  <2> HIDE DEF s
  <2>5. Changed(s, World, t)
    BY <2>1, <2>4 DEF Changed, Closed
  <2>6. Install(s)
    BY <1>5 DEF s, c
  <2> QED
    BY <1>1, <2>5, <2>6, KeptChanged
<1>6. PICK ofd \in Fds, nfd \in Fds :
        \/ UNCHANGED <<pointers, fd_flags, obj>>
        \/ Valid(t, ofd) /\ ~Valid(t, nfd) /\ Install(Share(World, t, ofd, nfd))
        \/ Install(cleared(nfd))
        \/ Valid(t, ofd) /\ ofd # nfd /\ Install(Share(cleared(nfd), t, ofd, nfd))
  BY DEF pfs_dup2
<1> QED
  BY <1>2, <1>3, <1>4, <1>5, <1>6

LEMMA SearchDup2Inv ==
  ASSUME FdInv, NEW p \in Procs, NEW op, NEW lowest, search_dup2(p, op, lowest)
  PROVE  FdInv'
<1> DEFINE nfd == find_empty(pointers, table[p], lowest)
<1>1. table[p] # Null /\ UNCHANGED <<refs, table, overrun, setting>> /\ overrun' \in BOOLEAN
  BY DEF search_dup2, Does, FdInv, FdTypeOK
<1>2. CASE UNCHANGED <<pointers, fd_flags, obj>>
  BY <1>1, <1>2, KeptAll
<1>3. ASSUME NEW fd \in Fds, Valid(table[p], fd), nfd # -1,
             Install(Share(World, table[p], fd, nfd))
      PROVE  FdInv'
  <2>1. table[p] \in Tables /\ pointers \in PointersType
    BY <1>1, InUse DEF FdInv, FdTypeOK, PointersType
  <2>2. nfd \in Fds /\ pointers[table[p]][nfd] = Null
    BY <1>3, <2>1, FindEmpty
  <2> HIDE DEF nfd
  <2>3. Changed(Share(World, table[p], fd, nfd), World, table[p])
    BY <1>1, <1>3, <2>2, KeptShare DEF Valid
  <2> QED
    BY <1>1, <1>3, <2>3, KeptChanged
<1> QED
  BY <1>2, <1>3 DEF search_dup2

LEMMA SetfdInv ==
  ASSUME FdInv, NEW p \in Procs, fcntl_SETFD(p)
  PROVE  FdInv'
<1>1. table[p] # Null /\ UNCHANGED <<pointers, refs, obj, table, overrun, setting>>
  BY DEF fcntl_SETFD, Does
<1>2. PICK fd \in Fds, flag \in BOOLEAN : fd_flags' = [fd_flags EXCEPT ![table[p]][fd] = flag]
  BY DEF fcntl_SETFD
<1>3. table[p] \in Tables /\ refs[table[p]] # 0
  BY <1>1, InUse
<1>4. fd_flags \in FlagsType
  BY DEF FdInv, FdTypeOK, FlagsType
<1>5. fd_flags' \in FlagsType /\ \A u \in Tables \ {table[p]} : fd_flags'[u] = fd_flags[u]
  BY <1>2, <1>3, <1>4 DEF FlagsType
<1>6. FdTypeOK'
  BY <1>1, <1>5 DEF FdInv, FdTypeOK, FlagsType, Fds
<1>7. ObjectsCounted(pointers, obj)'
  BY <1>1 DEF FdInv, RefsExact, ObjectsCounted, Users, Fds
<1>8. TablesCounted'
  BY <1>1, <1>3, <1>5 DEF FdInv, RefsExact, TablesCounted, Fds
<1> QED
  BY <1>6, <1>7, <1>8 DEF FdInv, RefsExact

SameCounts(m, r) == m \in ObjType /\ m.numrefs = r.numrefs /\ m.frefs = r.frefs

(* Transfers touch only the places of an object.                           *)
LEMMA MovedCounts ==
  ASSUME NEW r \in ObjType, NEW off \in Nat, NEW grows \in BOOLEAN, NEW k \in Nat
  PROVE  SameCounts([Moved(r, off, grows) EXCEPT !.offset = @ + k], r)
<1> DEFINE at == Where(r, off, grows)
           gap == IF grows /\ r.append THEN at # off ELSE r.missed /\ off = r.local
           sz == IF grows /\ r.seekable /\ at >= r.size THEN at + 1 ELSE r.size
           v == [r EXCEPT !.local = off + 1, !.last_offset = off + 1, !.kernel = at + 1,
                          !.missed = gap, !.size = sz]
           m == [v EXCEPT !.offset = v.offset + k]
<1>1. at \in Nat
  <2>1. CASE grows /\ r.append
    BY <2>1 DEF Where, ObjType
  <2>2. CASE ~(grows /\ r.append)
    <3>1. at = Placed(r, off).kernel
      BY <2>2 DEF Where
    <3>2. Placed(r, off).kernel \in {off, r.kernel}
      BY DEF Placed, ObjType
    <3>3. r.kernel \in Nat
      BY DEF ObjType
    <3> QED
      BY <3>1, <3>2, <3>3
  <2> QED
    BY <2>1, <2>2
<1> HIDE DEF at
<1>2. gap \in BOOLEAN /\ sz \in Nat /\ off + 1 \in Nat /\ at + 1 \in Nat
  <2>1. r.missed \in BOOLEAN
    BY DEF ObjType
  <2>2. gap \in BOOLEAN
    BY <2>1
  <2>3. sz \in Nat /\ off + 1 \in Nat /\ at + 1 \in Nat
    BY SMT, <1>1 DEF ObjType
  <2> QED
    BY <2>2, <2>3
<1>3. Moved(r, off, grows) = v
  BY DEF Moved, at
<1> HIDE DEF gap, sz
<1>4. v \in ObjType
  BY <1>2 DEF ObjType
<1>5. v.numrefs = r.numrefs /\ v.frefs = r.frefs
  BY DEF ObjType
<1> HIDE DEF v
<1>6. v.offset + k \in Nat
  BY SMT, <1>4 DEF ObjType
<1>7. m \in ObjType
  BY <1>4, <1>6 DEF ObjType
<1>8. m.numrefs = v.numrefs /\ m.frefs = v.frefs
  BY <1>4 DEF ObjType
<1> QED
  BY <1>3, <1>5, <1>7, <1>8 DEF SameCounts

LEMMA MissedCounts ==
  ASSUME NEW r \in ObjType, NEW off \in Nat
  PROVE  /\ Missed(r, off) \in ObjType
         /\ Missed(r, off).numrefs = r.numrefs /\ Missed(r, off).frefs = r.frefs
<1> DEFINE at == IF off # r.local /\ r.seekable THEN off ELSE r.kernel
           pl == [r EXCEPT !.kernel = at]
           gap == pl.missed \/ (r.seekable /\ off # r.local)
           m == [pl EXCEPT !.missed = gap]
<1>1. at \in Nat
  BY DEF ObjType
<1>2. Missed(r, off) = m
  BY DEF Missed, Placed
<1> HIDE DEF at
<1>3. pl \in ObjType
  BY <1>1 DEF ObjType
<1>4. pl.numrefs = r.numrefs /\ pl.frefs = r.frefs
  BY DEF ObjType
<1>5. gap \in BOOLEAN
  OBVIOUS
<1> HIDE DEF pl, gap
<1>6. m \in ObjType
  BY <1>3, <1>5 DEF ObjType
<1>7. m.numrefs = pl.numrefs /\ m.frefs = pl.frefs
  BY <1>3 DEF ObjType
<1> QED
  BY <1>2, <1>4, <1>6, <1>7

LEMMA TransferInv ==
  ASSUME FdInv, NEW p \in Procs, table[p] # Null, NEW op, NEW fd \in Fds, Valid(table[p], fd),
         NEW off \in Nat, NEW bump \in BOOLEAN, NEW grows \in BOOLEAN,
         Transfer(p, op, fd, off, bump, grows),
         UNCHANGED <<pointers, fd_flags, refs, table, overrun, setting>>
  PROVE  FdInv'
<1> DEFINE o == pointers[table[p]][fd]
           r == obj[o]
           k == IF bump THEN 1 ELSE 0
           moved == [Moved(r, off, grows) EXCEPT !.offset = @ + k]
           missed == Missed(r, off)
<1>1. o \in Objs
  BY SMT, InUse DEF Valid, FdInv, FdTypeOK
<1>2. r \in ObjType
  BY <1>1 DEF FdInv, FdTypeOK, ObjType
<1>3. k \in Nat
  OBVIOUS
<1>4. \/ obj' = obj
      \/ obj' = [obj EXCEPT ![o] = moved]
      \/ obj' = [obj EXCEPT ![o] = missed]
  BY DEF Transfer
<1>5. moved \in ObjType /\ moved.numrefs = r.numrefs /\ moved.frefs = r.frefs
  <2> HIDE DEF k, r
  <2>1. SameCounts(moved, r)
    BY <1>2, <1>3, MovedCounts
  <2> HIDE DEF moved
  <2> QED
    BY <2>1 DEF SameCounts
<1>6. missed \in ObjType /\ missed.numrefs = r.numrefs /\ missed.frefs = r.frefs
  <2> HIDE DEF r
  <2> QED
    BY <1>2, MissedCounts
<1>7. CASE obj' = obj
  <2>1. overrun' \in BOOLEAN
    BY DEF FdInv, FdTypeOK
  <2> QED
    BY <1>7, <2>1, KeptAll
<1>8. CASE obj' = [obj EXCEPT ![o] = moved]
  <2> HIDE DEF moved, o
  <2> QED
    BY <1>1, <1>5, <1>8, KeptObject
<1>9. CASE obj' = [obj EXCEPT ![o] = missed]
  <2> HIDE DEF missed, o
  <2> QED
    BY <1>1, <1>6, <1>9, KeptObject
<1> QED
  BY <1>4, <1>7, <1>8, <1>9

LEMMA TransfersInv ==
  ASSUME FdInv, NEW p \in Procs, pfs_read(p) \/ pfs_write(p) \/ pfs_pread(p)
  PROVE  FdInv'
<1>1. /\ table[p] # Null /\ TRUE \in BOOLEAN /\ FALSE \in BOOLEAN
      /\ UNCHANGED <<pointers, fd_flags, refs, table, overrun, setting>>
  BY DEF pfs_read, pfs_write, pfs_pread, Does
<1>2. ASSUME NEW fd \in Fds, Valid(table[p], fd)
      PROVE  obj[pointers[table[p]][fd]].offset \in Nat
  <2>1. pointers[table[p]][fd] \in Objs
    BY SMT, <1>1, <1>2, InUse DEF Valid, FdInv, FdTypeOK
  <2> QED
    BY <2>1 DEF FdInv, FdTypeOK
<1>3. CASE pfs_read(p)
  <2>1. PICK fd \in Fds :
          /\ Valid(table[p], fd)
          /\ Transfer(p, "read", fd, obj[pointers[table[p]][fd]].offset, TRUE, FALSE)
    BY <1>3 DEF pfs_read
  <2> QED
    BY <1>1, <1>2, <2>1, TransferInv
<1>4. CASE pfs_write(p)
  <2>1. PICK fd \in Fds :
          /\ Valid(table[p], fd)
          /\ Transfer(p, "write", fd, obj[pointers[table[p]][fd]].offset, TRUE, TRUE)
    BY <1>4 DEF pfs_write
  <2> QED
    BY <1>1, <1>2, <2>1, TransferInv
<1>5. CASE pfs_pread(p)
  <2>1. PICK fd \in Fds, off \in 0 .. MaxOff :
          Valid(table[p], fd) /\ Transfer(p, "pread", fd, off, FALSE, FALSE)
    BY <1>5 DEF pfs_pread
  <2>2. off \in Nat
    BY SMT
  <2> QED
    BY <1>1, <2>1, <2>2, TransferInv
<1> QED
  BY <1>3, <1>4, <1>5

LEMMA LseekInv ==
  ASSUME FdInv, NEW p \in Procs, pfs_lseek(p)
  PROVE  FdInv'
<1>1. /\ table[p] # Null /\ overrun' \in BOOLEAN
      /\ UNCHANGED <<pointers, fd_flags, refs, table, overrun, setting>>
  BY DEF pfs_lseek, Does, FdInv, FdTypeOK
<1>2. CASE UNCHANGED obj
  BY <1>1, <1>2, KeptAll
<1>3. ASSUME NEW fd \in Fds, NEW off \in 0 .. MaxOff, Valid(table[p], fd),
             obj' = [obj EXCEPT ![pointers[table[p]][fd]].offset = off]
      PROVE  FdInv'
  <2> DEFINE o == pointers[table[p]][fd]
             r == [obj[o] EXCEPT !.offset = off]
  <2>1. o \in Objs
    BY SMT, <1>1, <1>3, InUse DEF Valid, FdInv, FdTypeOK
  <2>2. obj[o] \in ObjType /\ off \in Nat
    BY SMT, <2>1 DEF FdInv, FdTypeOK, ObjType
  <2>3. r \in ObjType
    BY <2>2 DEF ObjType
  <2>4. r.numrefs = obj[o].numrefs /\ r.frefs = obj[o].frefs
    BY <2>2 DEF ObjType
  <2>5. obj' = [obj EXCEPT ![o] = r]
    BY <1>3
  <2> HIDE DEF r, o
  <2> QED
    BY <1>1, <2>1, <2>3, <2>4, <2>5, KeptObject
<1> QED
  BY <1>2, <1>3 DEF pfs_lseek

LEMMA ChdirInv ==
  ASSUME FdInv, NEW p \in Procs, pfs_chdir(p)
  PROVE  FdInv'
<1>1. UNCHANGED <<pointers, fd_flags, refs, obj, table, setting>> /\ overrun' \in BOOLEAN
  BY DEF pfs_chdir, FdInv, FdTypeOK
<1> QED
  BY <1>1, KeptAll

LEMMA ExecInv ==
  ASSUME FdInv, NEW p \in Procs, Exec(p)
  PROVE  FdInv'
<1> DEFINE S == {fd \in Fds : fd_flags[table[p]][fd]}
<1>1. table[p] # Null /\ UNCHANGED <<refs, table, overrun, setting>>
  BY DEF Exec, Does
<1>2. Install(Release(World, table[p], S))
  BY DEF Exec
<1>3. Changed(Release(World, table[p], S), World, table[p])
  BY <1>1, KeptClosed
<1> QED
  BY <1>1, <1>2, <1>3, KeptChanged

LEMMA ForkInv ==
  ASSUME FdInv, NEW p \in Procs, NEW q \in Procs, Fork(p, q)
  PROVE  FdInv'
<1> DEFINE t == table[p]
           n(o) == Cardinality(Slots(pointers, t, o))
<1>1. t # Null /\ table[q] = Null /\ UNCHANGED <<overrun, setting>>
  BY DEF Fork, Does
<1>2. PICK u \in Tables :
        /\ refs[u] = 0
        /\ pointers' = [pointers EXCEPT ![u] = pointers[t]]
        /\ fd_flags' = [fd_flags EXCEPT ![u] = fd_flags[t]]
        /\ obj' = [o \in Objs |-> addref(obj[o], n(o))]
        /\ refs' = [refs EXCEPT ![u] = 1]
        /\ table' = [table EXCEPT ![q] = u]
  BY DEF Fork
<1>3. /\ t \in Tables /\ pointers \in PointersType /\ fd_flags \in FlagsType
      /\ obj \in [Objs -> ObjType] /\ refs \in [Tables -> Nat]
      /\ table \in [Procs -> Tables \cup {Null}]
  BY <1>1, InUse DEF FdInv, FdTypeOK, PointersType, FlagsType, ObjType
<1>4. \A fd \in Fds : pointers[u][fd] = Null
  BY <1>2 DEF FdInv, RefsExact, TablesCounted
<1>5. ASSUME NEW o \in Objs
      PROVE  /\ obj'[o] \in ObjType
             /\ obj'[o].numrefs = Cardinality(Users(pointers', o))
             /\ obj'[o].frefs = Cardinality(Users(pointers', o))
  <2>1. /\ n(o) \in Nat
        /\ Cardinality(Users(pointers', o)) = Cardinality(Users(pointers, o)) + n(o)
    BY <1>2, <1>3, <1>4, ForkUsers
  <2> HIDE DEF n
  <2>2. obj[o] \in ObjType /\ obj'[o] = addref(obj[o], n(o))
    BY <1>2, <1>3
  <2>3. /\ addref(obj[o], n(o)) \in ObjType
        /\ addref(obj[o], n(o)).numrefs = obj[o].numrefs + n(o)
        /\ addref(obj[o], n(o)).frefs = obj[o].frefs + n(o)
    BY <2>1, <2>2, AddrefCounts
  <2>4. /\ obj[o].numrefs = Cardinality(Users(pointers, o))
        /\ obj[o].frefs = Cardinality(Users(pointers, o))
    BY DEF FdInv, RefsExact, ObjectsCounted
  <2> QED
    BY <2>1, <2>2, <2>3, <2>4
<1>6. FdTypeOK'
  <2>1. obj' \in [Objs -> ObjType]
    BY <1>2, <1>5
  <2>2. pointers' \in PointersType /\ fd_flags' \in FlagsType
    BY <1>2, <1>3 DEF PointersType, FlagsType
  <2>3. refs' \in [Tables -> Nat] /\ table' \in [Procs -> Tables \cup {Null}]
    BY <1>2, <1>3
  <2>4. overrun' \in BOOLEAN /\ setting' \in Settings
    BY <1>1 DEF FdInv, FdTypeOK
  <2> QED
    BY <2>1, <2>2, <2>3, <2>4 DEF FdTypeOK, ObjType, PointersType, FlagsType, Fds
<1>7. ObjectsCounted(pointers, obj)'
  BY <1>5 DEF ObjectsCounted, Users, Fds
<1>8. ASSUME NEW s \in Tables
      PROVE  /\ refs'[s] = Cardinality({x \in Procs : table'[x] = s})
             /\ refs'[s] = 0 => \A fd \in Fds : pointers'[s][fd] = Null /\ ~fd_flags'[s][fd]
  <2>1. /\ refs[s] = Cardinality({x \in Procs : table[x] = s})
        /\ refs[s] = 0 => \A fd \in Fds : pointers[s][fd] = Null /\ ~fd_flags[s][fd]
    BY DEF FdInv, RefsExact, TablesCounted
  <2>2. CASE s = u
    <3>1. IsFiniteSet({x \in Procs : table[x] = u})
      BY FS_Subset, FdAssumption
    <3>2. {x \in Procs : table[x] = u} = {}
      BY <1>2, <2>1, <2>2, <3>1, FS_EmptySet
    <3>3. {x \in Procs : table'[x] = u} = {q}
      BY SMT, <1>1, <1>2, <1>3, <3>2, FdAssumption
    <3>4. Cardinality({q}) = 1
      BY FS_Singleton
    <3>5. refs'[u] = 1
      BY <1>2, <1>3
    <3> QED
      BY SMT, <2>2, <3>3, <3>4, <3>5
  <2>3. CASE s # u
    <3>1. {x \in Procs : table'[x] = s} = {x \in Procs : table[x] = s}
      BY <1>1, <1>2, <1>3, <2>3, FdAssumption
    <3>2. refs'[s] = refs[s] /\ pointers'[s] = pointers[s] /\ fd_flags'[s] = fd_flags[s]
      BY <1>2, <1>3, <2>3 DEF PointersType, FlagsType
    <3> QED
      BY <2>1, <3>1, <3>2
  <2> QED
    BY <2>2, <2>3
<1> QED
  BY <1>6, <1>7, <1>8 DEF FdInv, RefsExact, TablesCounted, Fds

LEMMA ShareTableInv ==
  ASSUME FdInv, NEW p \in Procs, NEW q \in Procs, ShareTable(p, q)
  PROVE  FdInv'
<1> DEFINE t == table[p]
<1>1. /\ t # Null /\ table[q] = Null
      /\ refs' = [refs EXCEPT ![t] = refs[t] + 1] /\ table' = [table EXCEPT ![q] = t]
      /\ UNCHANGED <<pointers, fd_flags, obj, overrun, setting>>
  BY DEF ShareTable, Does
<1>2. /\ t \in Tables /\ refs[t] # 0 /\ refs \in [Tables -> Nat]
      /\ table \in [Procs -> Tables \cup {Null}]
  BY <1>1, InUse DEF FdInv, FdTypeOK
<1>3. FdTypeOK'
  BY SMT, <1>1, <1>2 DEF FdInv, FdTypeOK, Fds
<1>4. ObjectsCounted(pointers, obj)'
  BY <1>1 DEF FdInv, RefsExact, ObjectsCounted, Users, Fds
<1>5. ASSUME NEW s \in Tables
      PROVE  /\ refs'[s] = Cardinality({x \in Procs : table'[x] = s})
             /\ refs'[s] = 0 => \A fd \in Fds : pointers'[s][fd] = Null /\ ~fd_flags'[s][fd]
  <2>1. /\ refs[s] = Cardinality({x \in Procs : table[x] = s})
        /\ refs[s] = 0 => \A fd \in Fds : pointers[s][fd] = Null /\ ~fd_flags[s][fd]
    BY DEF FdInv, RefsExact, TablesCounted
  <2>2. CASE s = t
    <3>1. IsFiniteSet({x \in Procs : table[x] = t})
      BY FS_Subset, FdAssumption
    <3>2. {x \in Procs : table'[x] = t} = {x \in Procs : table[x] = t} \cup {q}
      BY <1>1, <1>2
    <3>3. q \notin {x \in Procs : table[x] = t}
      BY <1>1
    <3>4. Cardinality({x \in Procs : table[x] = t} \cup {q})
            = Cardinality({x \in Procs : table[x] = t}) + 1
      BY <3>1, <3>3, FS_AddElement
    <3>5. refs'[t] = refs[t] + 1 /\ refs'[t] # 0
      BY SMT, <1>1, <1>2
    <3> QED
      BY <2>1, <2>2, <3>2, <3>4, <3>5
  <2>3. CASE s # t
    <3>1. {x \in Procs : table'[x] = s} = {x \in Procs : table[x] = s}
      BY <1>1, <1>2, <2>3, FdAssumption
    <3>2. refs'[s] = refs[s]
      BY <1>1, <1>2, <2>3
    <3> QED
      BY <1>1, <2>1, <3>1, <3>2
  <2> QED
    BY <2>2, <2>3
<1> QED
  BY <1>3, <1>4, <1>5 DEF FdInv, RefsExact, TablesCounted, Fds

LEMMA ExitInv ==
  ASSUME FdInv, NEW p \in Procs, Exit(p)
  PROVE  FdInv'
<1> DEFINE t == table[p]
           r == Release(World, t, Fds)
<1>1. /\ t # Null
      /\ refs' = [refs EXCEPT ![t] = refs[t] - 1] /\ table' = [table EXCEPT ![p] = Null]
      /\ IF refs[t] = 1 THEN Install(r) ELSE UNCHANGED <<pointers, fd_flags, obj>>
      /\ UNCHANGED <<overrun, setting>>
  BY DEF Exit, Does
<1>2. /\ t \in Tables /\ refs[t] # 0 /\ refs \in [Tables -> Nat]
      /\ table \in [Procs -> Tables \cup {Null}]
  BY <1>1, InUse DEF FdInv, FdTypeOK
<1>3. Closed(r, World, t, Fds)
  BY <1>1, KeptClosed
<1> HIDE DEF r
<1>4. /\ pointers' \in PointersType /\ fd_flags' \in FlagsType /\ obj' \in [Objs -> ObjType]
      /\ ObjectsCounted(pointers', obj')
      /\ \A u \in Tables \ {t} : pointers'[u] = pointers[u] /\ fd_flags'[u] = fd_flags[u]
      /\ refs[t] = 1 => \A fd \in Fds : pointers'[t][fd] = Null /\ ~fd_flags'[t][fd]
  <2>1. CASE refs[t] = 1
    <3>1. pointers' = r.pointers /\ fd_flags' = r.fd_flags /\ obj' = r.obj
      BY <1>1, <2>1 DEF Install
    <3> QED
      BY <1>3, <3>1, WorldTyped DEF Closed, WorldType
  <2>2. CASE refs[t] # 1
    BY <1>1, <2>2 DEF FdInv, FdTypeOK, RefsExact, PointersType, FlagsType, ObjType
  <2> QED
    BY <2>1, <2>2
<1>5. FdTypeOK'
  <2>1. refs' \in [Tables -> Nat] /\ table' \in [Procs -> Tables \cup {Null}]
    BY SMT, <1>1, <1>2
  <2>2. overrun' \in BOOLEAN /\ setting' \in Settings
    BY <1>1 DEF FdInv, FdTypeOK
  <2> QED
    BY <1>4, <2>1, <2>2 DEF FdTypeOK, ObjType, PointersType, FlagsType, Fds
<1>6. ObjectsCounted(pointers, obj)'
  BY <1>4 DEF ObjectsCounted, Users, Fds
<1>7. ASSUME NEW s \in Tables
      PROVE  /\ refs'[s] = Cardinality({x \in Procs : table'[x] = s})
             /\ refs'[s] = 0 => \A fd \in Fds : pointers'[s][fd] = Null /\ ~fd_flags'[s][fd]
  <2>1. /\ refs[s] = Cardinality({x \in Procs : table[x] = s})
        /\ refs[s] = 0 => \A fd \in Fds : pointers[s][fd] = Null /\ ~fd_flags[s][fd]
    BY DEF FdInv, RefsExact, TablesCounted
  <2>2. CASE s = t
    <3>1. IsFiniteSet({x \in Procs : table[x] = t})
      BY FS_Subset, FdAssumption
    <3>2. {x \in Procs : table'[x] = t} = {x \in Procs : table[x] = t} \ {p}
      BY <1>1, <1>2, FdAssumption
    <3>3. p \in {x \in Procs : table[x] = t}
      OBVIOUS
    <3>4. Cardinality({x \in Procs : table[x] = t} \ {p})
            = Cardinality({x \in Procs : table[x] = t}) - 1
      BY <3>1, <3>3, FS_RemoveElement
    <3>5. refs'[t] = refs[t] - 1 /\ refs[t] \in Nat
      BY <1>1, <1>2
    <3>6. refs'[t] = 0 => refs[t] = 1
      BY SMT, <3>5
    <3>7. refs'[t] = Cardinality({x \in Procs : table'[x] = t})
      <4>1. refs'[t] = Cardinality({x \in Procs : table[x] = t}) - 1
        BY <2>1, <2>2, <3>5
      <4> QED
        BY <3>2, <3>4, <4>1
    <3>8. refs'[t] = 0 => \A fd \in Fds : pointers'[t][fd] = Null /\ ~fd_flags'[t][fd]
      BY <1>4, <3>6
    <3> QED
      BY <2>2, <3>7, <3>8
  <2>3. CASE s # t
    <3>1. {x \in Procs : table'[x] = s} = {x \in Procs : table[x] = s}
      BY <1>1, <1>2, <2>3, FdAssumption
    <3>2. refs'[s] = refs[s] /\ pointers'[s] = pointers[s] /\ fd_flags'[s] = fd_flags[s]
      BY <1>1, <1>2, <1>4, <2>3
    <3> QED
      BY <2>1, <3>1, <3>2
  <2> QED
    BY <2>2, <2>3
<1> QED
  BY <1>5, <1>6, <1>7 DEF FdInv, RefsExact, TablesCounted, Fds

LEMMA NextInv == FdInv /\ [Next]_vars => FdInv'
<1> SUFFICES ASSUME FdInv, [Next]_vars PROVE FdInv'
  OBVIOUS
<1>1. CASE UNCHANGED vars
  <2>1. UNCHANGED <<pointers, fd_flags, refs, obj, table, setting, overrun>>
    BY <1>1 DEF vars
  <2>2. overrun' \in BOOLEAN
    BY <2>1 DEF FdInv, FdTypeOK
  <2> QED
    BY <2>1, <2>2, KeptAll
<1>2. ASSUME NEW p \in Procs, Acts(p) PROVE FdInv'
  <2>1. ASSUME pfs_dup(p) \/ fcntl_DUPFD(p) PROVE FdInv'
    BY <2>1, SearchDup2Inv DEF pfs_dup, fcntl_DUPFD
  <2> QED
    BY <1>2, <2>1, OpenInv, PipeInv, AcceptInv, CloseInv, Dup2Inv, SetfdInv, TransfersInv,
       LseekInv, ChdirInv, ExecInv, ExitInv DEF Acts
<1>3. ASSUME NEW p \in Procs, NEW q \in Procs, Fork(p, q) \/ ShareTable(p, q) PROVE FdInv'
  BY <1>3, ForkInv, ShareTableInv
<1> QED
  BY <1>1, <1>2, <1>3 DEF Next

(* In every behaviour, whichever descriptors the processes open, duplicate *)
(* and close and however they share and copy their tables, the variables   *)
(* keep their types and both counts of every object and the count of every *)
(* table are exact: pfs_table::close deletes a file when, and only when,   *)
(* no descriptor is left that leads to it.                                 *)
THEOREM TableStaysSound == Spec => []TableSound
<1>1. FdInv => TableSound
  BY DEF FdInv, TableSound
<1> QED
  BY InitInv, NextInv, <1>1, PTL DEF Spec

---------------------------------------------------------------------------
(* Where transfers take place.                                             *)

(* Unless a transfer has missed, the real descriptor is where the last one *)
(* ended; a stream never misses, and without pread its pointer is there    *)
(* too.                                                                    *)
Place(r) ==
  /\ ~r.missed => r.local = r.kernel
  /\ ~r.seekable => /\ ~r.append /\ ~r.missed /\ r.last_offset = r.local
                    /\ "pread" \notin setting.ops => r.offset = r.last_offset

Places == \A o \in Objs : Place(obj[o])

(* Two objects with the same places.                                       *)
Alike(m, r) ==
  /\ m.missed = r.missed /\ m.local = r.local /\ m.kernel = r.kernel
  /\ m.seekable = r.seekable /\ m.append = r.append
  /\ m.last_offset = r.last_offset /\ m.offset = r.offset

LEMMA AlikePlace ==
  ASSUME NEW m, NEW r, Alike(m, r), Place(r)
  PROVE  Place(m)
  BY DEF Alike, Place

LEMMA FreePlace == Place(FreeObj)
  BY DEF Place, FreeObj

LEMMA AddrefPlace ==
  ASSUME NEW r \in ObjType, NEW n \in Nat, Place(r)
  PROVE  Place(addref(r, n))
<1>1. Alike(addref(r, n), r)
  BY DEF Alike, addref, ObjType
<1> QED
  BY <1>1, AlikePlace

LEMMA DelrefPlace ==
  ASSUME NEW r \in ObjType, NEW n, Place(r)
  PROVE  Place(delref(r, n))
<1>1. CASE delref(r, n) = r
  BY <1>1
<1>2. CASE delref(r, n) = FreeObj
  BY <1>2, FreePlace
<1>3. CASE delref(r, n) = [r EXCEPT !.numrefs = @ - n, !.frefs = @ - n]
  <2>1. Alike([r EXCEPT !.numrefs = @ - n, !.frefs = @ - n], r)
    BY DEF Alike, ObjType
  <2> QED
    BY <1>3, <2>1, AlikePlace
<1> QED
  BY <1>1, <1>2, <1>3 DEF delref

LEMMA NewPlace ==
  ASSUME NEW seekable \in BOOLEAN, NEW size \in Nat, NEW append \in BOOLEAN, seekable \/ ~append
  PROVE  Place(NewObj(seekable, size, append))
<1> DEFINE n == NewObj(seekable, size, append)
<1>1. /\ n.missed = FALSE /\ n.local = 0 /\ n.kernel = 0 /\ n.last_offset = 0
      /\ n.seekable = seekable /\ n.append = append /\ n.offset = IF append THEN size ELSE 0
  BY DEF NewObj, FreeObj
<1> HIDE DEF n
<1>2. Place(n)
  BY <1>1 DEF Place
<1> QED
  BY <1>2 DEF n

LEMMA MovedPlace ==
  ASSUME NEW r \in ObjType, NEW off \in Nat, NEW grows \in BOOLEAN, NEW k \in Nat, Place(r),
         r.seekable \/ r.last_offset = off, "pread" \notin setting.ops => k = 1
  PROVE  /\ Place([Moved(r, off, grows) EXCEPT !.offset = @ + k])
         /\ Known(r, off, grows) => Where(r, off, grows) = off
<1> DEFINE at == Where(r, off, grows)
           v == Moved(r, off, grows)
           m == [v EXCEPT !.offset = @ + k]
<1>1. at = IF grows /\ r.append THEN r.size
           ELSE IF off # r.local /\ r.seekable THEN off ELSE r.kernel
  BY DEF Where, Placed, ObjType
<1>2. /\ v.local = off + 1 /\ v.last_offset = off + 1 /\ v.kernel = at + 1
      /\ v.missed = IF grows /\ r.append THEN at # off ELSE r.missed /\ off = r.local
      /\ v.seekable = r.seekable /\ v.append = r.append /\ v.offset = r.offset
  BY DEF Moved, ObjType
<1>3. /\ m.local = v.local /\ m.last_offset = v.last_offset /\ m.kernel = v.kernel
      /\ m.missed = v.missed /\ m.seekable = v.seekable /\ m.append = v.append
      /\ m.offset = v.offset + k
  BY DEF Moved, ObjType
<1> HIDE DEF at, v, m
<1>4. Known(r, off, grows) => at = off
  BY <1>1 DEF Place, Known
<1>5. ~m.missed => m.local = m.kernel
  BY <1>1, <1>2, <1>3, <1>4 DEF Place
<1>6. ~m.seekable => ~m.append /\ ~m.missed /\ m.last_offset = m.local
  BY <1>1, <1>2, <1>3, <1>4 DEF Place
<1>7. ~m.seekable /\ "pread" \notin setting.ops => m.offset = m.last_offset
  BY <1>2, <1>3 DEF Place
<1>8. Place(m)
  BY <1>5, <1>6, <1>7 DEF Place
<1> QED
  BY <1>4, <1>8 DEF at, v, m

LEMMA MissedPlace ==
  ASSUME NEW r \in ObjType, NEW off \in Nat, Place(r), r.seekable \/ r.last_offset = off
  PROVE  Place(Missed(r, off))
<1> DEFINE m == Missed(r, off)
<1>1. /\ m.local = r.local /\ m.last_offset = r.last_offset
      /\ m.kernel = IF off # r.local /\ r.seekable THEN off ELSE r.kernel
      /\ m.seekable = r.seekable /\ m.append = r.append /\ m.offset = r.offset
  BY DEF Missed, Placed, ObjType
<1>2. m.missed <=> (r.missed \/ (r.seekable /\ off # r.local))
  BY DEF Missed, Placed, ObjType
<1> HIDE DEF m
<1>3. Place(m)
  BY <1>1, <1>2 DEF Place
<1> QED
  BY <1>3 DEF m

PlacedIn(w) == \A o \in Objs : Place(w.obj[o])

LEMMA AttachPlaces ==
  ASSUME NEW w \in WorldType, setting \in Settings, Free(w) # {}, PlacedIn(w), NEW t, NEW fd,
         NEW seekable \in BOOLEAN, NEW size \in Nat, NEW append \in BOOLEAN, seekable \/ ~append
  PROVE  PlacedIn(Attach(w, t, fd, seekable, size, append))
<1> DEFINE new == NewObj(seekable, size, append)
           ob == Attach(w, t, fd, seekable, size, append).obj
<1>1. Place(new)
  BY NewPlace
<1>2. ob = [w.obj EXCEPT ![NextFree(w)] = new]
  BY DEF Attach
<1>3. w.obj \in [Objs -> ObjType]
  BY DEF WorldType
<1> HIDE DEF new, ob
<1>4. \A o \in Objs : ob[o] = new \/ ob[o] = w.obj[o]
  BY <1>2, <1>3
<1>5. \A o \in Objs : Place(ob[o])
  BY <1>1, <1>4 DEF PlacedIn
<1> QED
  BY <1>5 DEF PlacedIn, ob

LEMMA ReleasePlaces ==
  ASSUME NEW w \in WorldType, PlacedIn(w), NEW t, NEW S
  PROVE  PlacedIn(Release(w, t, S))
<1>1. ASSUME NEW o \in Objs
      PROVE  Place(Release(w, t, S).obj[o])
  <2> DEFINE n == Cardinality(Slots(w.pointers, t, o) \cap S)
  <2>1. Release(w, t, S).obj[o] = delref(w.obj[o], n)
    BY DEF Release
  <2>2. w.obj[o] \in ObjType /\ Place(w.obj[o])
    BY DEF WorldType, PlacedIn
  <2> HIDE DEF n
  <2>3. Place(delref(w.obj[o], n))
    BY <2>2, DelrefPlace
  <2> QED
    BY <2>1, <2>3
<1> QED
  BY <1>1 DEF PlacedIn

LEMMA SharePlaces ==
  ASSUME NEW w \in WorldType, PlacedIn(w), NEW t, NEW ofd, NEW nfd
  PROVE  PlacedIn(Share(w, t, ofd, nfd))
<1> DEFINE n == w.pointers[t][ofd]
           ob == Share(w, t, ofd, nfd).obj
<1>1. ob = [w.obj EXCEPT ![n] = addref(w.obj[n], 1)]
  BY DEF Share
<1>2. w.obj \in [Objs -> ObjType]
  BY DEF WorldType
<1> HIDE DEF ob, n
<1>3. ASSUME NEW o \in Objs
      PROVE  Place(ob[o])
  <2>1. Place(w.obj[o]) /\ w.obj[o] \in ObjType
    BY <1>2 DEF PlacedIn
  <2>2. Place(addref(w.obj[o], 1))
    BY <2>1, AddrefPlace, 1 \in Nat
  <2>3. ob[o] = w.obj[o] \/ ob[o] = addref(w.obj[o], 1)
    BY <1>1, <1>2
  <2> QED
    BY <2>1, <2>2, <2>3
<1> QED
  BY <1>3 DEF PlacedIn, ob

LEMMA WorldPlaced ==
  ASSUME FdInv, Places
  PROVE  World \in WorldType /\ PlacedIn(World) /\ setting \in Settings
<1>1. World \in WorldType /\ World.obj = obj
  BY WorldTyped
<1> QED
  BY <1>1 DEF Places, PlacedIn, FdInv, FdTypeOK

LEMMA InstallPlaces ==
  ASSUME NEW w, PlacedIn(w), Install(w), setting' = setting
  PROVE  Places'
<1>1. obj' = w.obj
  BY DEF Install
<1>2. \A o \in Objs : Place(obj'[o])
  BY <1>1 DEF PlacedIn
<1> QED
  BY <1>2 DEF Places, Place

LEMMA SameObjPlaces ==
  ASSUME Places, obj' = obj, setting' = setting
  PROVE  Places'
  BY DEF Places, Place

(* The result of an operation that is not a transfer.                      *)
LEMMA OtherResult ==
  ASSUME NEW op, NEW value, op \notin {"read", "write", "pread"}, Returns(op, value)
  PROVE  TransferWhereAsked' /\ StreamKeepsPlace'
<1>1. result'.op = op
  BY DEF Returns, NoIO
<1> QED
  BY <1>1 DEF TransferWhereAsked, StreamKeepsPlace

LEMMA TransferPlaces ==
  ASSUME FdInv, Places, NEW p \in Procs, table[p] # Null, NEW op,
         NEW fd \in Fds, Valid(table[p], fd), NEW off \in Nat,
         NEW bump \in BOOLEAN, NEW grows \in BOOLEAN,
         "pread" \notin setting.ops => bump /\ off = obj[pointers[table[p]][fd]].offset,
         Transfer(p, op, fd, off, bump, grows), setting' = setting
  PROVE  Places' /\ TransferWhereAsked' /\ StreamKeepsPlace'
<1> DEFINE o == pointers[table[p]][fd]
           r == obj[o]
           k == IF bump THEN 1 ELSE 0
           moved == [Moved(r, off, grows) EXCEPT !.offset = @ + k]
           at == Where(r, off, grows)
<1>1. o \in Objs /\ r \in ObjType /\ Place(r) /\ obj \in [Objs -> ObjType]
  BY SMT, InUse DEF Valid, FdInv, FdTypeOK, ObjType, Places
<1>2. k \in Nat /\ ("pread" \notin setting.ops => k = 1)
  OBVIOUS
<1>3. CASE ~r.seekable /\ r.last_offset # off /\ Returns(op, ESPIPE) /\ UNCHANGED obj
  <2>1. Places'
    BY <1>3, SameObjPlaces
  <2>2. result'.op = op /\ result'.value = ESPIPE
    BY <1>3 DEF Returns, NoIO
  <2>3. TransferWhereAsked'
    BY SMT, <2>2 DEF TransferWhereAsked, ESPIPE
  <2>4. "pread" \in setting.ops
    <3>1. "pread" \notin setting.ops => off = r.offset
      OBVIOUS
    <3>2. Place(r) /\ ~r.seekable /\ r.last_offset # off
      BY <1>1, <1>3
    <3> HIDE DEF r
    <3> QED
      BY <3>1, <3>2 DEF Place
  <2> QED
    BY <2>1, <2>3, <2>4 DEF StreamKeepsPlace
<1>4. CASE /\ r.seekable \/ r.last_offset = off
           /\ obj' = [obj EXCEPT ![o] = moved]
           /\ result' = [op |-> op, value |-> 1, asked |-> off, got |-> at,
                         known |-> Known(r, off, grows)]
  <2>1. Place(moved) /\ (Known(r, off, grows) => at = off)
    <3>1. (r.seekable \/ r.last_offset = off) /\ ("pread" \notin setting.ops => k = 1)
      BY <1>2, <1>4
    <3>2. r \in ObjType /\ Place(r) /\ k \in Nat
      BY <1>1, <1>2
    <3> HIDE DEF k, r
    <3> QED
      BY <3>1, <3>2, MovedPlace
  <2> HIDE DEF moved, at
  <2>2. \A n \in Objs : obj'[n] = moved \/ obj'[n] = obj[n]
    BY <1>1, <1>4
  <2>3. \A n \in Objs : Place(obj'[n])
    BY <2>1, <2>2 DEF Places
  <2>4. Places'
    BY <2>3 DEF Places, Place
  <2>5. /\ result'.value = 1 /\ result'.asked = off /\ result'.got = at
    BY <1>4
  <2>6. result'.known => at = off
    <3>1. result'.known = Known(r, off, grows)
      BY <1>4
    <3> QED
      BY <2>1, <3>1
  <2>7. TransferWhereAsked'
    BY <2>5, <2>6 DEF TransferWhereAsked
  <2>8. StreamKeepsPlace'
    BY SMT, <2>5 DEF StreamKeepsPlace, ESPIPE
  <2> QED
    BY <2>4, <2>7, <2>8
<1>5. CASE /\ r.seekable \/ r.last_offset = off
           /\ obj' = [obj EXCEPT ![o] = Missed(r, off)]
           /\ Returns(op, IF r.seekable THEN 0 ELSE EAGAIN)
  <2> DEFINE missed == Missed(r, off)
  <2>1. Place(missed)
    <3> HIDE DEF r
    <3> QED
      BY <1>1, <1>5, MissedPlace
  <2>2. obj' = [obj EXCEPT ![o] = missed]
    BY <1>5
  <2> HIDE DEF missed
  <2>3. \A n \in Objs : obj'[n] = missed \/ obj'[n] = obj[n]
    BY <1>1, <2>2
  <2>4. \A n \in Objs : Place(obj'[n])
    BY <2>1, <2>3 DEF Places
  <2>5. Places'
    BY <2>4 DEF Places, Place
  <2>6. result'.value = 0 \/ result'.value = EAGAIN
    BY <1>5 DEF Returns, NoIO
  <2>7. TransferWhereAsked' /\ StreamKeepsPlace'
    BY SMT, <2>6 DEF TransferWhereAsked, StreamKeepsPlace, EAGAIN, ESPIPE
  <2> QED
    BY <2>5, <2>7
<1> QED
  BY <1>3, <1>4, <1>5 DEF Transfer

LEMMA InitPlaces == Init => Places /\ TransferWhereAsked /\ StreamKeepsPlace
<1> SUFFICES ASSUME Init PROVE Places /\ TransferWhereAsked /\ StreamKeepsPlace
  OBVIOUS
<1> DEFINE first == [addref(FreeObj, 1) EXCEPT !.seekable = FALSE]
<1>1. /\ first.missed = FALSE /\ first.local = 0 /\ first.kernel = 0 /\ first.append = FALSE
      /\ first.last_offset = 0 /\ first.offset = 0
  BY DEF addref, FreeObj
<1> HIDE DEF first
<1>2. Place(first)
  BY <1>1 DEF Place
<1>3. obj = [o \in Objs |-> IF o = 1 THEN first ELSE FreeObj]
  BY DEF Init, first
<1>4. Places
  BY <1>2, <1>3, FreePlace DEF Places
<1>5. result.op = "none"
  BY DEF Init, NoIO
<1> QED
  BY <1>4, <1>5 DEF TransferWhereAsked, StreamKeepsPlace

LEMMA OpeningPlaces ==
  ASSUME FdInv, Places, NEW p \in Procs, pfs_open(p) \/ pfs_pipe(p) \/ pfs_accept(p)
  PROVE  Places' /\ TransferWhereAsked' /\ StreamKeepsPlace'
<1> DEFINE t == table[p]
<1>1. World \in WorldType /\ PlacedIn(World) /\ setting \in Settings
  BY WorldPlaced
<1>2. setting' = setting
  BY DEF pfs_open, pfs_pipe, pfs_accept
<1>3. TransferWhereAsked' /\ StreamKeepsPlace'
  BY OtherResult DEF pfs_open, pfs_pipe, pfs_accept
<1>4. CASE UNCHANGED obj
  BY <1>2, <1>3, <1>4, SameObjPlaces
<1>5. ASSUME NEW fd, NEW size \in setting.sizes, NEW append \in setting.appends,
             Free(World) # {}, Install(Attach(World, t, fd, TRUE, size, append))
      PROVE  Places'
  <2>1. size \in Nat /\ append \in BOOLEAN
    BY SMT, <1>1, FdAssumption
  <2>2. PlacedIn(Attach(World, t, fd, TRUE, size, append))
    BY <1>1, <1>5, <2>1, AttachPlaces, TRUE \in BOOLEAN
  <2> QED
    BY <1>2, <1>5, <2>2, InstallPlaces
<1>6. CASE pfs_open(p)
  BY <1>3, <1>4, <1>5, <1>6 DEF pfs_open
<1>7. CASE pfs_pipe(p)
  <2> DEFINE fd0 == find_empty(pointers, t, 0)
             fd1 == find_empty(pointers, t, fd0 + 1)
             a == Attach(World, t, fd0, FALSE, 0, FALSE)
             b == Attach(a, t, fd1, FALSE, 0, FALSE)
  <2>1. CASE fd0 = -1 \/ fd1 = -1
    BY <1>3, <1>4, <1>7, <2>1 DEF pfs_pipe
  <2>2. CASE ~(fd0 = -1 \/ fd1 = -1)
    <3>1. Cardinality(Free(World)) >= 2 /\ Install(b) /\ t # Null
      BY <1>7, <2>2 DEF pfs_pipe, Does
    <3> HIDE DEF fd1, b
    <3>2. Free(World) # {}
      <4>1. ASSUME Free(World) = {} PROVE FALSE
        <5>1. Cardinality(Free(World)) = 0
          BY <4>1, FS_EmptySet
        <5> QED
          BY SMT, <3>1, <5>1
      <4> QED
        BY <4>1
    <3>3. PlacedIn(a)
      BY <1>1, <3>2, AttachPlaces, 0 \in Nat, FALSE \in BOOLEAN
    <3>4. a.obj = [obj EXCEPT ![NextFree(World)] = NewObj(FALSE, 0, FALSE)]
      BY WorldTyped DEF Attach
    <3> HIDE DEF a
    <3>5. PlacedIn(b)
      <4> DEFINE new == NewObj(FALSE, 0, FALSE)
                 ob == b.obj
      <4>1. Place(new)
        BY NewPlace, 0 \in Nat, FALSE \in BOOLEAN
      <4>2. ob = [a.obj EXCEPT ![NextFree(a)] = new]
        BY DEF Attach, b
      <4>3. obj \in [Objs -> ObjType]
        BY DEF FdInv, FdTypeOK, ObjType
      <4> HIDE DEF new, ob
      <4>4. \A o \in Objs : ob[o] = new \/ ob[o] = a.obj[o]
        BY <3>4, <4>2, <4>3
      <4> QED
        BY <3>3, <4>1, <4>4 DEF PlacedIn, ob
    <3> QED
      BY <1>2, <1>3, <3>1, <3>5, InstallPlaces
  <2> QED
    BY <2>1, <2>2
<1>8. CASE pfs_accept(p)
  <2> DEFINE fd == find_empty(pointers, t, 0)
             new == Attach(World, t, fd, FALSE, 0, FALSE)
  <2>1. CASE fd = -1
    BY <1>3, <1>4, <1>8, <2>1 DEF pfs_accept
  <2>2. CASE fd # -1
    <3>1. PICK rfd \in Fds : Install([new EXCEPT !.fd_flags = [fd_flags EXCEPT ![t][rfd] = FALSE]])
      BY <1>8, <2>2 DEF pfs_accept
    <3>2. Free(World) # {}
      BY <1>8, <2>2 DEF pfs_accept
    <3>3. PlacedIn(new)
      BY <1>1, <3>2, AttachPlaces, 0 \in Nat, FALSE \in BOOLEAN
    <3> DEFINE w == [new EXCEPT !.fd_flags = [fd_flags EXCEPT ![t][rfd] = FALSE]]
    <3>4. w.obj = new.obj
      BY DEF Attach
    <3> HIDE DEF new, w
    <3>5. PlacedIn(w)
      BY <3>3, <3>4 DEF PlacedIn
    <3>6. Install(w)
      BY <3>1 DEF w
    <3> QED
      BY <1>2, <1>3, <3>5, <3>6, InstallPlaces
  <2> QED
    BY <2>1, <2>2
<1> QED
  BY <1>6, <1>7, <1>8

LEMMA ClosingPlaces ==
  ASSUME FdInv, Places, NEW p \in Procs,
         \/ pfs_close(p) \/ pfs_dup2(p) \/ Exec(p) \/ Exit(p) \/ fcntl_SETFD(p) \/ pfs_chdir(p)
         \/ \E op \in {"dup", "dupfd"}, lowest \in Nat : search_dup2(p, op, lowest)
  PROVE  Places' /\ TransferWhereAsked' /\ StreamKeepsPlace'
<1> DEFINE t == table[p]
<1>1. World \in WorldType /\ PlacedIn(World)
  BY WorldPlaced
<1>2. setting' = setting
  BY DEF pfs_close, pfs_dup2, Exec, Exit, fcntl_SETFD, pfs_chdir, search_dup2
<1>3. TransferWhereAsked' /\ StreamKeepsPlace'
  <2>1. \E op, value : op \notin {"read", "write", "pread"} /\ Returns(op, value)
    BY DEF pfs_close, pfs_dup2, Exec, Exit, fcntl_SETFD, pfs_chdir, search_dup2
  <2> QED
    BY <2>1, OtherResult
<1> SUFFICES Places'
  BY <1>3
<1>4. CASE UNCHANGED obj
  BY <1>2, <1>4, SameObjPlaces
<1>5. ASSUME NEW S, Install(Release(World, t, S)) PROVE Places'
  <2>1. PlacedIn(Release(World, t, S))
    BY <1>1, ReleasePlaces
  <2> QED
    BY <1>2, <1>5, <2>1, InstallPlaces
<1>6. ASSUME NEW ofd, NEW nfd, Install(Share(World, t, ofd, nfd)) PROVE Places'
  <2>1. PlacedIn(Share(World, t, ofd, nfd))
    BY <1>1, SharePlaces
  <2> QED
    BY <1>2, <1>6, <2>1, InstallPlaces
<1>7. ASSUME NEW ofd, NEW nfd \in Fds, t # Null,
             Install(Share(Release(World, t, {nfd}), t, ofd, nfd))
      PROVE  Places'
  <2> DEFINE c == Release(World, t, {nfd})
  <2>1. PlacedIn(c)
    BY <1>1, ReleasePlaces
  <2>2. Closed(c, World, t, {nfd})
    BY <1>7, KeptClosed
  <2>3. c \in WorldType
    BY <2>2 DEF Closed
  <2>4. PlacedIn(Share(c, t, ofd, nfd))
    BY <2>1, <2>3, SharePlaces
  <2> QED
    BY <1>2, <1>7, <2>4, InstallPlaces
<1>8. CASE pfs_close(p)
  BY <1>4, <1>5, <1>8 DEF pfs_close
<1>9. CASE pfs_dup2(p)
  <2>1. t # Null
    BY <1>9 DEF pfs_dup2, Does
  <2>2. PICK ofd \in Fds, nfd \in Fds :
          \/ UNCHANGED obj
          \/ Install(Share(World, t, ofd, nfd))
          \/ Install(Release(World, t, {nfd}))
          \/ Install(Share(Release(World, t, {nfd}), t, ofd, nfd))
    BY <1>9 DEF pfs_dup2
  <2> QED
    BY <1>4, <1>5, <1>6, <1>7, <2>1, <2>2
<1>10. CASE Exec(p)
  BY <1>5, <1>10 DEF Exec
<1>11. CASE Exit(p)
  BY <1>4, <1>5, <1>11 DEF Exit
<1>12. CASE fcntl_SETFD(p) \/ pfs_chdir(p)
  BY <1>4, <1>12 DEF fcntl_SETFD, pfs_chdir
<1>13. ASSUME NEW op, NEW lowest, search_dup2(p, op, lowest) PROVE Places'
  BY <1>4, <1>6, <1>13 DEF search_dup2
<1> QED
  BY <1>8, <1>9, <1>10, <1>11, <1>12, <1>13

LEMMA ForkPlaces ==
  ASSUME FdInv, Places, NEW p \in Procs, NEW q \in Procs, Fork(p, q) \/ ShareTable(p, q)
  PROVE  Places' /\ TransferWhereAsked' /\ StreamKeepsPlace'
<1>1. setting' = setting
  BY DEF Fork, ShareTable
<1>2. TransferWhereAsked' /\ StreamKeepsPlace'
  BY OtherResult DEF Fork, ShareTable
<1>3. CASE Fork(p, q)
  <2> DEFINE n(o) == Cardinality(Slots(pointers, table[p], o))
  <2>1. obj' = [o \in Objs |-> addref(obj[o], n(o))]
    BY <1>3 DEF Fork
  <2>2. ASSUME NEW o \in Objs PROVE Place(obj'[o])
    <3>1. n(o) \in Nat
      <4>1. Slots(pointers, table[p], o) \subseteq Fds
        BY DEF Slots
      <4>2. 1 \in Tables
        BY FdAssumption
      <4> QED
        BY <4>1, <4>2, ColumnFinite
    <3>2. obj[o] \in ObjType /\ Place(obj[o])
      BY DEF FdInv, FdTypeOK, ObjType, Places
    <3> HIDE DEF n
    <3>3. Place(addref(obj[o], n(o)))
      BY <3>1, <3>2, AddrefPlace
    <3> QED
      BY <2>1, <3>3
  <2> QED
    BY <1>1, <1>2, <2>2 DEF Places, Place
<1>4. CASE ShareTable(p, q)
  BY <1>1, <1>2, <1>4, SameObjPlaces DEF ShareTable
<1> QED
  BY <1>3, <1>4

LEMMA MovingPlaces ==
  ASSUME FdInv, Places, NEW p \in Procs,
         pfs_read(p) \/ pfs_write(p) \/ pfs_pread(p) \/ pfs_lseek(p)
  PROVE  Places' /\ TransferWhereAsked' /\ StreamKeepsPlace'
<1>1. table[p] # Null /\ setting' = setting
  BY DEF pfs_read, pfs_write, pfs_pread, pfs_lseek, Does
<1>2. ASSUME NEW fd \in Fds, Valid(table[p], fd)
      PROVE  /\ pointers[table[p]][fd] \in Objs
             /\ obj[pointers[table[p]][fd]] \in ObjType
             /\ obj[pointers[table[p]][fd]].offset \in Nat
  <2>1. pointers[table[p]][fd] \in Objs
    BY SMT, <1>1, <1>2, InUse DEF Valid, FdInv, FdTypeOK
  <2>2. obj[pointers[table[p]][fd]] \in ObjType
    BY <2>1 DEF FdInv, FdTypeOK, ObjType
  <2> QED
    BY <2>1, <2>2 DEF ObjType
<1>3. CASE pfs_read(p)
  <2>1. PICK fd \in Fds :
          /\ Valid(table[p], fd)
          /\ Transfer(p, "read", fd, obj[pointers[table[p]][fd]].offset, TRUE, FALSE)
    BY <1>3 DEF pfs_read
  <2> QED
    BY <1>1, <1>2, <2>1, TransferPlaces, TRUE \in BOOLEAN, FALSE \in BOOLEAN
<1>4. CASE pfs_write(p)
  <2>1. PICK fd \in Fds :
          /\ Valid(table[p], fd)
          /\ Transfer(p, "write", fd, obj[pointers[table[p]][fd]].offset, TRUE, TRUE)
    BY <1>4 DEF pfs_write
  <2> QED
    BY <1>1, <1>2, <2>1, TransferPlaces, TRUE \in BOOLEAN
<1>5. CASE pfs_pread(p)
  <2>1. PICK fd \in Fds, off \in 0 .. MaxOff :
          Valid(table[p], fd) /\ Transfer(p, "pread", fd, off, FALSE, FALSE)
    BY <1>5 DEF pfs_pread
  <2>2. off \in Nat /\ "pread" \in setting.ops
    BY SMT, <1>5 DEF pfs_pread, Does
  <2> QED
    BY <1>1, <2>1, <2>2, TransferPlaces, FALSE \in BOOLEAN
<1>6. CASE pfs_lseek(p)
  <2>1. TransferWhereAsked' /\ StreamKeepsPlace'
    BY SMT, <1>6, OtherResult DEF pfs_lseek
  <2>2. PICK fd \in Fds, off \in 0 .. MaxOff :
          /\ Valid(table[p], fd)
          /\ \/ UNCHANGED obj
             \/ /\ obj[pointers[table[p]][fd]].seekable
                /\ obj' = [obj EXCEPT ![pointers[table[p]][fd]].offset = off]
    BY <1>6 DEF pfs_lseek
  <2>3. CASE UNCHANGED obj
    BY <1>1, <2>1, <2>3, SameObjPlaces
  <2>4. CASE /\ obj[pointers[table[p]][fd]].seekable
             /\ obj' = [obj EXCEPT ![pointers[table[p]][fd]].offset = off]
    <3> DEFINE o == pointers[table[p]][fd]
               r == obj[o]
               m == [r EXCEPT !.offset = off]
    <3>1. o \in Objs /\ r \in ObjType /\ Place(r)
      BY <1>2, <2>2 DEF Places
    <3>2. /\ m.missed = r.missed /\ m.local = r.local /\ m.kernel = r.kernel
          /\ m.seekable = r.seekable
      BY <3>1 DEF ObjType
    <3>3. obj' = [obj EXCEPT ![o] = m]
      BY <2>4
    <3>4. r.seekable /\ obj \in [Objs -> ObjType]
      BY <2>4 DEF FdInv, FdTypeOK, ObjType
    <3> HIDE DEF o, m, r
    <3>5. Place(m)
      BY <3>1, <3>2, <3>4 DEF Place
    <3>6. \A n \in Objs : obj'[n] = m \/ obj'[n] = obj[n]
      BY <3>1, <3>3, <3>4
    <3>7. \A n \in Objs : Place(obj'[n])
      BY <3>5, <3>6 DEF Places
    <3> QED
      BY <1>1, <2>1, <3>7 DEF Places, Place
  <2> QED
    BY <2>2, <2>3, <2>4
<1> QED
  BY <1>3, <1>4, <1>5, <1>6

PlaceInv == FdInv /\ Places /\ TransferWhereAsked /\ StreamKeepsPlace

LEMMA NextPlaces == PlaceInv /\ [Next]_vars => PlaceInv'
<1> SUFFICES ASSUME PlaceInv, [Next]_vars PROVE PlaceInv'
  OBVIOUS
<1>1. FdInv'
  BY NextInv DEF PlaceInv
<1>2. CASE UNCHANGED vars
  BY <1>1, <1>2 DEF PlaceInv, vars, Places, Place, TransferWhereAsked, StreamKeepsPlace
<1>3. ASSUME NEW p \in Procs, Acts(p)
      PROVE  Places' /\ TransferWhereAsked' /\ StreamKeepsPlace'
  <2>1. CASE pfs_open(p) \/ pfs_pipe(p) \/ pfs_accept(p)
    BY <2>1, OpeningPlaces DEF PlaceInv
  <2>2. CASE pfs_read(p) \/ pfs_write(p) \/ pfs_pread(p) \/ pfs_lseek(p)
    BY <2>2, MovingPlaces DEF PlaceInv
  <2>3. ASSUME pfs_dup(p) \/ fcntl_DUPFD(p)
        PROVE  \E op \in {"dup", "dupfd"}, lowest \in Nat : search_dup2(p, op, lowest)
    <3>1. Fds \subseteq Nat
      BY SMT, FdAssumption DEF Fds
    <3> QED
      BY <2>3, <3>1 DEF pfs_dup, fcntl_DUPFD
  <2> QED
    BY <1>3, <2>1, <2>2, <2>3, ClosingPlaces DEF Acts, PlaceInv
<1>4. ASSUME NEW p \in Procs, NEW q \in Procs, Fork(p, q) \/ ShareTable(p, q)
      PROVE  Places' /\ TransferWhereAsked' /\ StreamKeepsPlace'
  BY <1>4, ForkPlaces DEF PlaceInv
<1>5. CASE Next
  BY <1>1, <1>3, <1>4, <1>5 DEF Next, PlaceInv
<1> QED
  BY <1>2, <1>5

(* In every behaviour a transfer through any descriptor of any process     *)
(* that is not an append takes place at the offset that was asked for,     *)
(* except one that continues where the last one ended after another has    *)
(* moved the real descriptor of pfs_file_local and no data, or after an    *)
(* append: any other offset is reached whatever was missed before.  And    *)
(* without pread reads and writes of a stream through any of the           *)
(* descriptors that share it never fail with ESPIPE.                       *)
THEOREM OffsetsStayKept == Spec => []OffsetsKept
<1>1. PlaceInv => OffsetsKept
  BY DEF PlaceInv, OffsetsKept
<1>2. Init => PlaceInv
  BY InitInv, InitPlaces DEF PlaceInv
<1> QED
  BY <1>1, <1>2, NextPlaces, PTL DEF Spec
============================================================================
