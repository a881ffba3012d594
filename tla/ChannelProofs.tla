---------------------------- MODULE ChannelProofs ----------------------------
(***************************************************************************)
(* Proofs about the I/O channel, for every page size, initial size, bound  *)
(* and set of request lengths.                                             *)
(***************************************************************************)
EXTENDS Channel, SequenceTheorems, TLAPS

-----------------------------------------------------------------------------
(* What the operations on the block list do to a well-formed list: they    *)
(* keep it ordered and joined, and change the regions in use by exactly    *)
(* the region taken or released.  The proofs about the channel below use   *)
(* TakeKeepsList, ExtendKeepsList and FreeAtKeepsList.                     *)

\* A product of natural numbers is one.  (Stated on its own: the provers use it
\* as a fact and never multiply.)
LEMMA NatTimes == \A a, b \in Nat : a * b \in Nat
OBVIOUS

\* <= is transitive through a sum and one or two bounds.
LEMMA SumChain ==
  \A x, y, u, v, w, z \in Nat :
    x + y <= u + v /\ u + v <= w /\ w <= z => x + y <= z
OBVIOUS

LEMMA SumBelow ==
  \A x, y, u, w \in Nat : x + y <= u /\ u <= w => x + y <= w
OBVIOUS

\* round_up returns a positive length.
LEMMA RoundUpPositive ==
  ASSUME NEW x \in Nat
  PROVE  round_up(x) \in Nat \ {0}
<1> DEFINE q == x \div PageSize
<1>1. PageSize \in Nat \ {0}
  BY PageSizeAssumption
<1>2. q \in Nat
  BY <1>1
<1>3. PageSize * (q + 1) \in Nat
  BY <1>1, <1>2, NatTimes
<1> HIDE DEF q
<1>4. round_up(x) = IF (IF x % PageSize # 0 THEN PageSize * (q + 1) ELSE x) <= 0
                    THEN PageSize
                    ELSE IF x % PageSize # 0 THEN PageSize * (q + 1) ELSE x
  BY DEF round_up, q
<1>5. QED
  BY <1>1, <1>3, <1>4

\* What entry_delete leaves.
LEMMA DeleteElements ==
  ASSUME NEW S, NEW s \in Seq(S), NEW i \in 1 .. Len(s)
  PROVE  /\ entry_delete(s, i) \in Seq(S)
         /\ Len(entry_delete(s, i)) = Len(s) - 1
         /\ \A k \in 1 .. Len(s) - 1 :
              entry_delete(s, i)[k] = IF k < i THEN s[k] ELSE s[k + 1]
<1> DEFINE a == SubSeq(s, 1, i - 1)
           b == SubSeq(s, i + 1, Len(s))
<1>1. /\ a \in Seq(S) /\ Len(a) = i - 1
      /\ \A k \in 1 .. i - 1 : a[k] = s[k]
  BY SubSeqProperties
<1>2. /\ b \in Seq(S) /\ Len(b) = Len(s) - i
      /\ \A k \in 1 .. Len(s) - i : b[k] = s[i + k]
  BY SubSeqProperties
<1> HIDE DEF a, b
<1>3. /\ a \o b \in Seq(S)
      /\ Len(a \o b) = Len(a) + Len(b)
      /\ \A k \in 1 .. Len(a) + Len(b) :
           (a \o b)[k] = IF k <= Len(a) THEN a[k] ELSE b[k - Len(a)]
  BY <1>1, <1>2, ConcatProperties, Zenon
<1>4. entry_delete(s, i) = a \o b
  BY DEF entry_delete, a, b
<1>5. ASSUME NEW k \in 1 .. Len(s) - 1
      PROVE  (a \o b)[k] = IF k < i THEN s[k] ELSE s[k + 1]
  BY <1>1, <1>2, <1>3
<1>6. Len(a \o b) = Len(s) - 1
  BY <1>1, <1>2, <1>3
<1>7. QED
  BY <1>3, <1>4, <1>5, <1>6, Zenon

\* t is s with e put in at position i.
IsInsert(S, s, t, i, e) ==
  /\ t \in Seq(S)
  /\ Len(t) = Len(s) + 1
  /\ \A k \in 1 .. Len(s) + 1 : k < i => t[k] = s[k]
  /\ t[i] = e
  /\ \A k \in 1 .. Len(s) + 1 : k > i => t[k] = s[k - 1]

\* What entry_create gives.
LEMMA CreateElements ==
  ASSUME NEW S, NEW s \in Seq(S), NEW i \in 1 .. Len(s) + 1, NEW e \in S
  PROVE  IsInsert(S, s, entry_create(s, i, e), i, e)
<1> DEFINE a == SubSeq(s, 1, i - 1)
           b == SubSeq(s, i, Len(s))
           c == a \o <<e>>
<1>1. /\ a \in Seq(S) /\ Len(a) = i - 1
      /\ \A k \in 1 .. i - 1 : a[k] = s[k]
  BY SubSeqProperties
<1>2. /\ b \in Seq(S) /\ Len(b) = Len(s) - i + 1
      /\ \A k \in 1 .. Len(s) - i + 1 : b[k] = s[i + k - 1]
  BY SubSeqProperties
<1>3. <<e>> \in Seq(S) /\ Len(<<e>>) = 1 /\ <<e>>[1] = e
  OBVIOUS
<1> HIDE DEF a, b
<1>4. /\ c \in Seq(S) /\ Len(c) = i
      /\ \A k \in 1 .. i : c[k] = IF k < i THEN s[k] ELSE e
  <2>1. /\ c \in Seq(S) /\ Len(c) = Len(a) + Len(<<e>>)
        /\ \A k \in 1 .. Len(a) + Len(<<e>>) :
             c[k] = IF k <= Len(a) THEN a[k] ELSE <<e>>[k - Len(a)]
    BY <1>1, <1>3, ConcatProperties
  <2> HIDE DEF c
  <2>2. QED
    BY <2>1, <1>1, <1>3
<1> HIDE DEF c
<1>5. /\ c \o b \in Seq(S)
      /\ Len(c \o b) = Len(c) + Len(b)
      /\ \A k \in 1 .. Len(c) + Len(b) :
           (c \o b)[k] = IF k <= Len(c) THEN c[k] ELSE b[k - Len(c)]
  BY <1>2, <1>4, ConcatProperties
<1>6. entry_create(s, i, e) = c \o b
  BY DEF entry_create, a, b, c
<1>7. ASSUME NEW k \in 1 .. Len(s) + 1
      PROVE  (c \o b)[k] = IF k < i THEN s[k] ELSE IF k = i THEN e ELSE s[k - 1]
  BY <1>2, <1>4, <1>5
<1>8. Len(c \o b) = Len(s) + 1 /\ Len(s) \in Nat
  BY <1>2, <1>4, <1>5
<1> DEFINE d == c \o b
<1>9. /\ entry_create(s, i, e) = d /\ d \in Seq(S) /\ Len(d) = Len(s) + 1
      /\ \A k \in 1 .. Len(s) + 1 :
           d[k] = IF k < i THEN s[k] ELSE IF k = i THEN e ELSE s[k - 1]
  BY <1>5, <1>6, <1>7, <1>8, Zenon
<1> HIDE DEF d
<1>10. /\ \A k \in 1 .. Len(s) + 1 : k < i => d[k] = s[k]
       /\ d[i] = e
       /\ \A k \in 1 .. Len(s) + 1 : k > i => d[k] = s[k - 1]
  BY <1>8, <1>9
<1>11. QED
  BY <1>9, <1>10 DEF IsInsert

\* What replacing an element of a sequence gives.
LEMMA ReplaceElements ==
  ASSUME NEW S, NEW s \in Seq(S), NEW i \in 1 .. Len(s), NEW e \in S
  PROVE  /\ [s EXCEPT ![i] = e] \in Seq(S)
         /\ Len([s EXCEPT ![i] = e]) = Len(s)
         /\ \A k \in 1 .. Len(s) :
              [s EXCEPT ![i] = e][k] = IF k = i THEN e ELSE s[k]
OBVIOUS

\* The fields of an entry have their types, and determine it.
LEMMA EntryFields ==
  ASSUME NEW l \in Seq(Entry), NEW k \in 1 .. Len(l)
  PROVE  /\ l[k].start \in Nat
         /\ l[k].length \in Nat /\ l[k].length > 0
         /\ l[k].inuse \in BOOLEAN
         /\ l[k] = [start |-> l[k].start, length |-> l[k].length,
                    inuse |-> l[k].inuse]
<1>1. l[k] \in Entry
  OBVIOUS
<1>2. QED
  BY <1>1 DEF Entry

\* A record built from a start, a positive length and a flag is an entry.
LEMMA EntryMade ==
  ASSUME NEW s \in Nat, NEW n \in Nat, n > 0, NEW b \in BOOLEAN
  PROVE  [start |-> s, length |-> n, inuse |-> b] \in Entry
BY DEF Entry

-----------------------------------------------------------------------------
(* Joining two neighbours: what both merges of pfs_channel_free do.          *)

\* m is l with the free entries i and i + 1 joined into one.
IsJoin(l, m, i) ==
  /\ m \in Seq(Entry)
  /\ Len(m) = Len(l) - 1
  /\ \A k \in 1 .. Len(m) :
       /\ k < i => m[k] = l[k]
       /\ k > i => m[k] = l[k + 1]
  /\ m[i] = [start |-> l[i].start, length |-> l[i].length + l[i + 1].length,
             inuse |-> FALSE]

\* Removing one of two neighbours, the other having become their join, is a join.
LEMMA RemovedIsJoin ==
  ASSUME NEW l \in Seq(Entry), NEW i \in 1 .. Len(l) - 1, NEW q \in {i, i + 1},
         NEW r \in {i, i + 1}, q # r
  PROVE  IsJoin(l, entry_delete([l EXCEPT ![q] =
                      [start  |-> l[i].start,
                       length |-> l[i].length + l[i + 1].length,
                       inuse  |-> FALSE]], r), i)
<1> DEFINE e == [start |-> l[i].start, length |-> l[i].length + l[i + 1].length,
                 inuse |-> FALSE]
           n == [l EXCEPT ![q] = e]
           m == entry_delete(n, r)
<1>1. /\ l[i].start \in Nat /\ l[i].length \in Nat /\ l[i].length > 0
      /\ l[i + 1].length \in Nat
  <2>1. i \in 1 .. Len(l) /\ i + 1 \in 1 .. Len(l)
    OBVIOUS
  <2>2. QED
    BY <2>1, EntryFields, Zenon
<1>2. e \in Entry
  <2>1. l[i].length + l[i + 1].length \in Nat /\ l[i].length + l[i + 1].length > 0
    BY <1>1
  <2>2. QED
    BY <1>1, <2>1, EntryMade, Zenon
<1> HIDE DEF e
<1>3. /\ n \in Seq(Entry) /\ Len(n) = Len(l)
      /\ \A k \in 1 .. Len(l) : n[k] = IF k = q THEN e ELSE l[k]
  BY <1>2, ReplaceElements
<1> HIDE DEF n
<1>4. /\ m \in Seq(Entry) /\ Len(m) = Len(l) - 1
      /\ \A k \in 1 .. Len(l) - 1 : m[k] = IF k < r THEN n[k] ELSE n[k + 1]
  <2>1. r \in 1 .. Len(n)
    BY <1>3
  <2>2. /\ m \in Seq(Entry) /\ Len(m) = Len(n) - 1
        /\ \A k \in 1 .. Len(n) - 1 : m[k] = IF k < r THEN n[k] ELSE n[k + 1]
    BY <1>3, <2>1, DeleteElements, Zenon
  <2>3. QED
    BY <1>3, <2>2, Zenon
<1> HIDE DEF m
<1>5. Len(l) \in Nat
  OBVIOUS
<1>6. m[i] = e
  BY <1>3, <1>4, <1>5
<1>7. \A k \in 1 .. Len(m) : (k < i => m[k] = l[k]) /\ (k > i => m[k] = l[k + 1])
  BY <1>3, <1>4, <1>5
<1>8. IsJoin(l, m, i)
  BY <1>4, <1>6, <1>7, Zenon DEF IsJoin, e
<1>9. QED
  BY <1>8 DEF m, n, e

\* Merging with the entry before is a join at the position before.
LEMMA MergePrevIsJoin ==
  ASSUME NEW l \in Seq(Entry), NEW i \in 1 .. Len(l), NEW sz \in Nat,
         IsOrdered(l, sz), MergesPrev(l, i)
  PROVE  i > 1 /\ ~l[i - 1].inuse /\ IsJoin(l, MergePrev(l, i), i - 1)
<1>0. Len(l) \in Nat /\ Len(l) \in 1 .. Len(l)
  OBVIOUS
<1>1. l[1].start = 0
  BY DEF IsOrdered
<1>2. l[Len(l)].start \in Nat
  BY <1>0, EntryFields, Zenon
<1>3. i # 1
  BY <1>0, <1>1, <1>2 DEF MergesPrev, Prev
<1>4. Prev(l, i) = i - 1
  BY <1>3 DEF Prev
<1>5. i - 1 \in 1 .. Len(l) - 1 /\ (i - 1) + 1 = i /\ i - 1 \in 1 .. Len(l)
  BY <1>0, <1>3
<1>6. l[i - 1].inuse \in BOOLEAN
  BY <1>5, EntryFields, Zenon
<1>7. l[i - 1].inuse = FALSE
  BY <1>4, <1>6 DEF MergesPrev
<1> DEFINE j == i - 1
<1>8. IsJoin(l, entry_delete([l EXCEPT ![j] =
                      [start  |-> l[j].start,
                       length |-> l[j].length + l[j + 1].length,
                       inuse  |-> FALSE]], j + 1), j)
  <2> HIDE DEF j
  <2>1. j \in 1 .. Len(l) - 1
    BY <1>5 DEF j
  <2>2. j \in {j, j + 1} /\ j + 1 \in {j, j + 1} /\ j # j + 1
    BY <2>1
  <2>3. QED
    BY <2>1, <2>2, RemovedIsJoin, Zenon
<1>9. MergePrev(l, i) = entry_delete([l EXCEPT ![j] =
                      [start  |-> l[j].start,
                       length |-> l[j].length + l[j + 1].length,
                       inuse  |-> FALSE]], j + 1)
  BY <1>4, <1>5, <1>7, Zenon DEF MergePrev
<1>10. QED
  BY <1>3, <1>5, <1>7, <1>8, <1>9

\* Merging with the entry after is a join at the same position.
LEMMA MergeNextIsJoin ==
  ASSUME NEW l \in Seq(Entry), NEW i \in 1 .. Len(l), NEW sz \in Nat,
         IsOrdered(l, sz), MergesNext(l, i)
  PROVE  i < Len(l) /\ ~l[i + 1].inuse /\ IsJoin(l, MergeNext(l, i), i)
<1>0. Len(l) \in Nat
  OBVIOUS
<1>1. l[1].start = 0
  BY DEF IsOrdered
<1>2. l[i].start \in Nat
  BY EntryFields, Zenon
<1>3. i # Len(l)
  BY <1>1, <1>2 DEF MergesNext, Next_
<1>4. Next_(l, i) = i + 1
  BY <1>3 DEF Next_
<1>5. i \in 1 .. Len(l) - 1 /\ i + 1 \in 1 .. Len(l)
  BY <1>0, <1>3
<1>6. l[i + 1].inuse \in BOOLEAN /\ l[i + 1].length \in Nat
  BY <1>5, EntryFields, Zenon
<1>7. l[i + 1].inuse = FALSE
  BY <1>4, <1>6 DEF MergesNext
<1>8. l[i + 1].length + l[i].length = l[i].length + l[i + 1].length
  <2>1. l[i].length \in Nat
    BY EntryFields, Zenon
  <2>2. QED
    BY <2>1, <1>6
<1> DEFINE e == [start |-> l[i].start, length |-> l[i].length + l[i + 1].length,
                 inuse |-> FALSE]
<1>9. IsJoin(l, entry_delete([l EXCEPT ![i + 1] = e], i), i)
  <2>1. i \in {i, i + 1} /\ i + 1 \in {i, i + 1} /\ i + 1 # i
    BY <1>5
  <2>2. QED
    BY <1>5, <2>1, RemovedIsJoin, Zenon
<1>10. MergeNext(l, i) = entry_delete([l EXCEPT ![i + 1] = e], i)
  BY <1>4, <1>7, <1>8, Zenon DEF MergeNext
<1>11. QED
  BY <1>5, <1>7, <1>9, <1>10

\* A join keeps the list ordered.
LEMMA JoinOrdered ==
  ASSUME NEW l \in Seq(Entry), NEW m, NEW i \in 1 .. Len(l) - 1, NEW sz \in Nat,
         IsOrdered(l, sz), IsJoin(l, m, i)
  PROVE  IsOrdered(m, sz)
<1> DEFINE end(k) == l[k].start + l[k].length
<1>0. Len(l) \in Nat /\ Len(m) = Len(l) - 1 /\ m \in Seq(Entry)
  BY DEF IsJoin
<1>1. \A k \in 1 .. Len(l) : l[k].start \in Nat /\ l[k].length \in Nat
  BY EntryFields, Zenon
<1>2. /\ \A k \in 1 .. Len(m) : k < i => m[k] = l[k]
      /\ \A k \in 1 .. Len(m) : k > i => m[k] = l[k + 1]
      /\ m[i].start = l[i].start
      /\ m[i].length = l[i].length + l[i + 1].length
  <2>1. m[i] = [start |-> l[i].start, length |-> l[i].length + l[i + 1].length,
                inuse |-> FALSE]
    BY DEF IsJoin
  <2>2. QED
    BY <2>1 DEF IsJoin
<1>3. /\ l[1].start = 0
      /\ \A j, k \in 1 .. Len(l) : j < k => end(j) <= l[k].start
      /\ \A k \in 1 .. Len(l) : end(k) <= sz
  BY DEF IsOrdered
<1>4. m[1].start = 0
  BY <1>0, <1>2, <1>3
<1>5. m[i].start + m[i].length <= end(i + 1)
  <2>1. i \in 1 .. Len(l) /\ i + 1 \in 1 .. Len(l) /\ i < i + 1
    BY <1>0
  <2>2. end(i) <= l[i + 1].start
    BY <1>3, <2>1
  <2>3. QED
    BY <1>1, <1>2, <2>1, <2>2
<1>6. ASSUME NEW k \in 1 .. Len(m)
      PROVE  \E a, b \in 1 .. Len(l) :
               /\ a = (IF k <= i THEN k ELSE k + 1)
               /\ b = (IF k < i THEN k ELSE k + 1)
               /\ m[k].start = l[a].start
               /\ m[k].start + m[k].length <= end(b)
  <2>1. CASE k < i
    <3>1. k \in 1 .. Len(l) /\ m[k] = l[k]
      BY <1>0, <1>2, <2>1
    <3>2. end(k) \in Nat
      BY <1>1, <3>1
    <3>3. QED
      BY <2>1, <3>1, <3>2
  <2>2. CASE k = i
    <3>1. k \in 1 .. Len(l) /\ k + 1 \in 1 .. Len(l)
      BY <1>0, <2>2
    <3>2. QED
      BY <1>2, <1>5, <2>2, <3>1
  <2>3. CASE k > i
    <3>1. k + 1 \in 1 .. Len(l) /\ m[k] = l[k + 1]
      BY <1>0, <1>2, <2>3
    <3>2. end(k + 1) \in Nat
      BY <1>1, <3>1
    <3>3. QED
      BY <2>3, <3>1, <3>2
  <2>4. QED
    BY <2>1, <2>2, <2>3
<1>7. ASSUME NEW k \in 1 .. Len(m)
      PROVE  m[k].start + m[k].length <= sz
  <2>1. PICK b \in 1 .. Len(l) : m[k].start + m[k].length <= end(b)
    BY <1>6
  <2>2. m[k].start \in Nat /\ m[k].length \in Nat
    BY <1>0, EntryFields, Zenon
  <2>3. end(b) <= sz /\ end(b) \in Nat
    BY <1>1, <1>3
  <2> HIDE DEF end
  <2>4. QED
    BY <2>1, <2>2, <2>3
<1>8. ASSUME NEW j \in 1 .. Len(m), NEW k \in 1 .. Len(m), j < k
      PROVE  m[j].start + m[j].length <= m[k].start
  <2>1. PICK b \in 1 .. Len(l) : /\ b = (IF j < i THEN j ELSE j + 1)
                                 /\ m[j].start + m[j].length <= end(b)
    BY <1>6
  <2>2. PICK a \in 1 .. Len(l) : /\ a = (IF k <= i THEN k ELSE k + 1)
                                 /\ m[k].start = l[a].start
    BY <1>6
  <2>3. b < a
    BY <1>8, <2>1, <2>2
  <2>4. end(b) <= l[a].start /\ end(b) \in Nat /\ l[a].start \in Nat
    BY <1>1, <1>3, <2>3
  <2>5. m[j].start \in Nat /\ m[j].length \in Nat
    BY <1>0, EntryFields, Zenon
  <2> HIDE DEF end
  <2>6. QED
    BY <2>1, <2>2, <2>4, <2>5, SumBelow, Zenon
<1>9. QED
  BY <1>4, <1>7, <1>8, Zenon DEF IsOrdered

\* A join of two free entries leaves the regions in use as they are.
LEMMA JoinRegions ==
  ASSUME NEW l \in Seq(Entry), NEW m, NEW i \in 1 .. Len(l) - 1,
         ~l[i].inuse, ~l[i + 1].inuse, IsJoin(l, m, i)
  PROVE  RegionsInUse(m) = RegionsInUse(l)
<1>0. Len(l) \in Nat /\ Len(m) = Len(l) - 1
  BY DEF IsJoin
<1>1. /\ \A k \in 1 .. Len(m) : k < i => m[k] = l[k]
      /\ \A k \in 1 .. Len(m) : k > i => m[k] = l[k + 1]
      /\ ~m[i].inuse
  BY DEF IsJoin
<1>2. ASSUME NEW k \in 1 .. Len(m), m[k].inuse
      PROVE  \E j \in 1 .. Len(l) : l[j].inuse /\ l[j] = m[k]
  <2>1. k # i
    BY <1>1, <1>2
  <2>2. k \in 1 .. Len(l) /\ k + 1 \in 1 .. Len(l)
    BY <1>0
  <2>3. CASE k < i
    BY <1>1, <1>2, <2>2, <2>3
  <2>4. CASE k > i
    BY <1>1, <1>2, <2>2, <2>4
  <2>5. QED
    BY <1>0, <2>1, <2>3, <2>4
<1>3. ASSUME NEW j \in 1 .. Len(l), l[j].inuse
      PROVE  \E k \in 1 .. Len(m) : m[k].inuse /\ m[k] = l[j]
  <2>1. j # i /\ j # i + 1
    BY <1>3
  <2>2. CASE j < i
    <3>1. j \in 1 .. Len(m) /\ m[j] = l[j]
      BY <1>0, <1>1, <2>2
    <3>2. QED
      BY <1>3, <3>1
  <2>3. CASE j > i + 1
    <3>1. j - 1 \in 1 .. Len(m) /\ j - 1 > i /\ (j - 1) + 1 = j
      BY <1>0, <2>3
    <3>2. m[j - 1] = l[j]
      BY <1>1, <3>1
    <3>3. QED
      BY <1>3, <3>1, <3>2
  <2>4. QED
    BY <1>0, <2>1, <2>2, <2>3
<1>4. ASSUME NEW r \in RegionsInUse(m)
      PROVE  r \in RegionsInUse(l)
  <2>1. PICK k \in 1 .. Len(m) : m[k].inuse /\ r = RegionOf(m[k])
    BY DEF RegionsInUse
  <2>2. QED
    BY <1>2, <2>1, Zenon DEF RegionsInUse
<1>5. ASSUME NEW r \in RegionsInUse(l)
      PROVE  r \in RegionsInUse(m)
  <2>1. PICK j \in 1 .. Len(l) : l[j].inuse /\ r = RegionOf(l[j])
    BY DEF RegionsInUse
  <2>2. QED
    BY <1>3, <2>1, Zenon DEF RegionsInUse
<1>6. QED
  BY <1>4, <1>5, Zenon

-----------------------------------------------------------------------------
(* Giving out an entry.                                                      *)

\* m is l with entry i cut to n bytes and in use, followed by what is left of
\* it if it was longer.
IsTake(l, m, i, n) ==
  /\ m \in Seq(Entry)
  /\ \/ /\ l[i].length = n
        /\ Len(m) = Len(l)
        /\ \A k \in 1 .. Len(l) : k # i => m[k] = l[k]
     \/ /\ l[i].length > n
        /\ Len(m) = Len(l) + 1
        /\ \A k \in 1 .. Len(l) + 1 : k < i => m[k] = l[k]
        /\ \A k \in 1 .. Len(l) + 1 : k > i + 1 => m[k] = l[k - 1]
        /\ m[i + 1] = [start |-> l[i].start + n, length |-> l[i].length - n,
                       inuse |-> FALSE]
  /\ m[i] = [start |-> l[i].start, length |-> n, inuse |-> TRUE]

\* Take does what IsTake says.
LEMMA TakeIsTake ==
  ASSUME NEW l \in Seq(Entry), NEW i \in 1 .. Len(l), NEW n \in Nat \ {0},
         Fits(l[i], n)
  PROVE  IsTake(l, Take(l, i, n), i, n)
<1> DEFINE e  == [start |-> l[i].start, length |-> n, inuse |-> TRUE]
           f  == [start |-> l[i].start + n, length |-> l[i].length - n,
                  inuse |-> FALSE]
           l1 == [l EXCEPT ![i] = e]
           l2 == entry_create(l1, i + 1, f)
<1>0. l[i].start \in Nat /\ l[i].length \in Nat /\ Len(l) \in Nat
  <2>1. Len(l) \in Nat
    OBVIOUS
  <2>2. QED
    BY <2>1, EntryFields, Zenon
<1>1. e \in Entry
  <2>1. n \in Nat /\ n > 0 /\ TRUE \in BOOLEAN
    OBVIOUS
  <2>2. QED
    BY <1>0, <2>1, EntryMade, Zenon
<1>2. l[i].length >= n
  BY DEF Fits
<1>3. Take(l, i, n) = IF l[i].length = n THEN l1 ELSE l2
  BY DEF Take
<1>e. /\ e = [start |-> l[i].start, length |-> n, inuse |-> TRUE]
      /\ f = [start |-> l[i].start + n, length |-> l[i].length - n, inuse |-> FALSE]
  OBVIOUS
<1> HIDE DEF e
<1>4. /\ l1 \in Seq(Entry) /\ Len(l1) = Len(l)
      /\ \A k \in 1 .. Len(l) : l1[k] = IF k = i THEN e ELSE l[k]
  BY <1>1, ReplaceElements
<1> HIDE DEF l1, f
<1>5. CASE l[i].length = n
  <2>1. Take(l, i, n) = l1
    BY <1>3, <1>5
  <2>2. l1[i] = e /\ \A k \in 1 .. Len(l) : k # i => l1[k] = l[k]
    BY <1>4
  <2>3. QED
    BY <1>4, <1>5, <2>1, <2>2, <1>e DEF IsTake
<1>6. CASE l[i].length > n
  <2>1. Take(l, i, n) = l2
    BY <1>0, <1>3, <1>6
  <2>2. f \in Entry
    <3>1. l[i].start + n \in Nat /\ l[i].length - n \in Nat /\ l[i].length - n > 0
      BY <1>0, <1>6
    <3>2. QED
      BY <3>1, EntryMade, <1>e, Zenon
  <2>3. i + 1 \in 1 .. Len(l1) + 1
    BY <1>0, <1>4
  <2>4. /\ l2 \in Seq(Entry) /\ Len(l2) = Len(l1) + 1
        /\ \A k \in 1 .. Len(l1) + 1 : k < i + 1 => l2[k] = l1[k]
        /\ l2[i + 1] = f
        /\ \A k \in 1 .. Len(l1) + 1 : k > i + 1 => l2[k] = l1[k - 1]
    <3>1. l1 \in Seq(Entry)
      BY <1>4
    <3>2. IsInsert(Entry, l1, l2, i + 1, f)
      BY <2>2, <2>3, <3>1, CreateElements
    <3>3. QED
      BY <3>2 DEF IsInsert
  <2> HIDE DEF l2
  <2>5. l2[i] = e /\ l2[i + 1] = f
    BY <1>0, <1>4, <2>3, <2>4
  <2>6. /\ \A k \in 1 .. Len(l) + 1 : k < i => l2[k] = l[k]
        /\ \A k \in 1 .. Len(l) + 1 : k > i + 1 => l2[k] = l[k - 1]
    <3> SUFFICES ASSUME NEW k \in 1 .. Len(l) + 1
                 PROVE  (k < i => l2[k] = l[k]) /\ (k > i + 1 => l2[k] = l[k - 1])
      OBVIOUS
    <3>1. CASE k < i
      <4>1. k \in 1 .. Len(l) /\ l1[k] = l[k]
        BY <1>0, <1>4, <3>1
      <4>2. QED
        BY <1>0, <1>4, <2>4, <3>1, <4>1
    <3>2. CASE k > i + 1
      <4>1. k - 1 \in 1 .. Len(l) /\ l1[k - 1] = l[k - 1]
        BY <1>0, <1>4, <3>2
      <4>2. QED
        BY <1>0, <1>4, <2>4, <3>2, <4>1
    <3>3. QED
      BY <3>1, <3>2
  <2>7. Len(l2) = Len(l) + 1
    BY <1>4, <2>4
  <2>8. QED
    BY <1>6, <2>1, <2>4, <2>5, <2>6, <2>7, <1>e, Zenon DEF IsTake
<1>7. QED
  BY <1>0, <1>2, <1>5, <1>6

\* Every entry of the list after Take lies within an entry of the list before:
\* its own, or the one it was cut from.
LEMMA TakeWithin ==
  ASSUME NEW l \in Seq(Entry), NEW i \in 1 .. Len(l), NEW n \in Nat \ {0},
         NEW m, IsTake(l, m, i, n), NEW k \in 1 .. Len(m)
  PROVE  \E a \in 1 .. Len(l) :
           /\ \/ a = k /\ k <= i
              \/ a = k /\ k > i /\ Len(m) = Len(l)
              \/ a = k - 1 /\ k > i /\ Len(m) = Len(l) + 1
           /\ l[a].start <= m[k].start
           /\ m[k].start + m[k].length <= l[a].start + l[a].length
           /\ a # i => m[k] = l[a]
<1>0. Len(l) \in Nat /\ Len(m) \in Nat /\ n \in Nat
  BY DEF IsTake
<1>1. \A j \in 1 .. Len(l) : l[j].start \in Nat /\ l[j].length \in Nat
  BY EntryFields, Zenon
<1>2. l[i].length >= n
  BY <1>0, <1>1 DEF IsTake
<1>3. m[i].start = l[i].start /\ m[i].length = n
  BY DEF IsTake
<1>4. CASE Len(m) = Len(l)
  <2>1. \A j \in 1 .. Len(l) : j # i => m[j] = l[j]
    BY <1>0, <1>4 DEF IsTake
  <2>2. CASE k = i
    BY <1>0, <1>1, <1>2, <1>3, <2>2
  <2>3. CASE k # i
    BY <1>0, <1>1, <1>4, <2>1, <2>3
  <2>4. QED
    BY <2>2, <2>3
<1>5. CASE Len(m) = Len(l) + 1
  <2>0. Len(m) # Len(l)
    BY <1>0, <1>5
  <2>1. /\ \A j \in 1 .. Len(l) + 1 : j < i => m[j] = l[j]
        /\ \A j \in 1 .. Len(l) + 1 : j > i + 1 => m[j] = l[j - 1]
    BY <2>0, Zenon DEF IsTake
  <2>2. m[i + 1].start = l[i].start + n /\ m[i + 1].length = l[i].length - n
    BY <2>0 DEF IsTake
  <2>3. CASE k < i
    <3>1. k \in 1 .. Len(l) /\ m[k] = l[k] /\ k <= i
      BY <1>0, <1>5, <2>1, <2>3
    <3>2. l[k].start \in Nat /\ l[k].length \in Nat
      BY <1>1, <3>1
    <3>3. QED
      BY <3>1, <3>2
  <2>4. CASE k = i
    BY <1>0, <1>1, <1>2, <1>3, <2>4
  <2>5. CASE k = i + 1
    <3>1. i = k - 1 /\ k > i
      BY <2>5
    <3>2. l[i].start <= m[k].start
      BY <1>0, <1>1, <2>2, <2>5
    <3>3. m[k].start + m[k].length <= l[i].start + l[i].length
      BY <1>0, <1>1, <2>2, <2>5
    <3>4. QED
      BY <1>5, <3>1, <3>2, <3>3
  <2>6. CASE k > i + 1
    <3>1. k - 1 \in 1 .. Len(l) /\ m[k] = l[k - 1] /\ k > i
      BY <1>0, <1>5, <2>1, <2>6
    <3>2. l[k - 1].start \in Nat /\ l[k - 1].length \in Nat
      BY <1>1, <3>1
    <3>3. QED
      BY <1>5, <3>1, <3>2
  <2>7. QED
    BY <1>0, <2>3, <2>4, <2>5, <2>6
<1>6. QED
  BY <1>4, <1>5 DEF IsTake

\* Taking an entry keeps the list ordered.
LEMMA TakeOrdered ==
  ASSUME NEW l \in Seq(Entry), NEW i \in 1 .. Len(l), NEW n \in Nat \ {0},
         NEW m, IsTake(l, m, i, n), NEW sz \in Nat, IsOrdered(l, sz)
  PROVE  IsOrdered(m, sz)
<1>0. Len(l) \in Nat /\ m \in Seq(Entry) /\ Len(m) \in Nat
  BY DEF IsTake
<1>1. \A j \in 1 .. Len(l) : l[j].start \in Nat /\ l[j].length \in Nat
  BY EntryFields, Zenon
<1>2. \A j \in 1 .. Len(m) : m[j].start \in Nat /\ m[j].length \in Nat
  BY <1>0, EntryFields, Zenon
<1>3. /\ l[1].start = 0
      /\ \A j, k \in 1 .. Len(l) : j < k => l[j].start + l[j].length <= l[k].start
      /\ \A k \in 1 .. Len(l) : l[k].start + l[k].length <= sz
  BY DEF IsOrdered
<1>4. \A k \in 1 .. Len(m) : \E a \in 1 .. Len(l) :
           /\ \/ a = k /\ k <= i
              \/ a = k /\ k > i /\ Len(m) = Len(l)
              \/ a = k - 1 /\ k > i /\ Len(m) = Len(l) + 1
           /\ l[a].start <= m[k].start
           /\ m[k].start + m[k].length <= l[a].start + l[a].length
  BY TakeWithin, Zenon
<1>5. Len(m) = Len(l) + 1 => m[i].start + m[i].length <= m[i + 1].start
  <2>1. m[i].start = l[i].start /\ m[i].length = n
    BY DEF IsTake
  <2>2. Len(m) = Len(l) + 1 => m[i + 1].start = l[i].start + n
    BY <1>0 DEF IsTake
  <2>3. QED
    BY <1>1, <2>1, <2>2
<1>6. m[1].start = 0
  <2>1. CASE i = 1
    BY <1>3, <2>1 DEF IsTake
  <2>2. CASE i # 1
    <3>1. 1 \in 1 .. Len(l) /\ 1 \in 1 .. Len(l) + 1 /\ 1 < i
      BY <1>0, <2>2
    <3>2. m[1] = l[1]
      BY <2>2, <3>1 DEF IsTake
    <3>3. QED
      BY <1>3, <3>2
  <2>3. QED
    BY <2>1, <2>2
<1>7. ASSUME NEW k \in 1 .. Len(m)
      PROVE  m[k].start + m[k].length <= sz
  <2>1. PICK a \in 1 .. Len(l) :
          m[k].start + m[k].length <= l[a].start + l[a].length
    BY <1>4
  <2>2. /\ l[a].start \in Nat /\ l[a].length \in Nat
        /\ m[k].start \in Nat /\ m[k].length \in Nat
        /\ l[a].start + l[a].length <= sz
    BY <1>1, <1>2, <1>3
  <2>3. QED
    BY <2>1, <2>2
<1>8. ASSUME NEW j \in 1 .. Len(m), NEW k \in 1 .. Len(m), j < k
      PROVE  m[j].start + m[j].length <= m[k].start
  <2>1. PICK a \in 1 .. Len(l) :
           /\ \/ a = j /\ j <= i
              \/ a = j /\ j > i /\ Len(m) = Len(l)
              \/ a = j - 1 /\ j > i /\ Len(m) = Len(l) + 1
           /\ m[j].start + m[j].length <= l[a].start + l[a].length
    BY <1>4
  <2>2. PICK b \in 1 .. Len(l) :
           /\ \/ b = k /\ k <= i
              \/ b = k /\ k > i /\ Len(m) = Len(l)
              \/ b = k - 1 /\ k > i /\ Len(m) = Len(l) + 1
           /\ l[b].start <= m[k].start
    BY <1>4, Zenon
  <2>3. CASE a < b
    <3>1. l[a].start + l[a].length <= l[b].start
      BY <1>3, <2>3
    <3>2. /\ l[a].start \in Nat /\ l[a].length \in Nat /\ l[b].start \in Nat
          /\ m[j].start \in Nat /\ m[j].length \in Nat /\ m[k].start \in Nat
      BY <1>1, <1>2
    <3>3. /\ m[j].start + m[j].length <= l[a].start + l[a].length
          /\ l[b].start <= m[k].start
      BY <2>1, <2>2
    <3>4. QED
      BY <3>1, <3>2, <3>3, SumChain, Zenon
  <2>4. CASE ~(a < b)
    <3>1. j = i /\ k = i + 1 /\ Len(m) = Len(l) + 1
      BY <1>0, <1>8, <2>1, <2>2, <2>4
    <3>2. QED
      BY <1>5, <3>1
  <2>5. QED
    BY <2>3, <2>4
<1>9. QED
  BY <1>6, <1>7, <1>8, Zenon DEF IsOrdered

\* Taking a free entry adds its first n bytes to the regions in use.
LEMMA TakeRegions ==
  ASSUME NEW l \in Seq(Entry), NEW i \in 1 .. Len(l), NEW n \in Nat \ {0},
         NEW m, IsTake(l, m, i, n), ~l[i].inuse
  PROVE  RegionsInUse(m) = RegionsInUse(l) \cup {[start |-> l[i].start, length |-> n]}
<1> DEFINE r == [start |-> l[i].start, length |-> n]
<1>0. Len(l) \in Nat /\ Len(m) \in Nat
  BY DEF IsTake
<1>1. i \in 1 .. Len(m) /\ m[i].inuse /\ RegionOf(m[i]) = r
  <2>1. i \in 1 .. Len(m)
    BY <1>0 DEF IsTake
  <2>2. QED
    BY <2>1 DEF IsTake, RegionOf
<1>2. ASSUME NEW k \in 1 .. Len(m), m[k].inuse, k # i
      PROVE  \E a \in 1 .. Len(l) : l[a].inuse /\ l[a] = m[k]
  <2>1. PICK a \in 1 .. Len(l) :
           /\ \/ a = k /\ k <= i
              \/ a = k /\ k > i /\ Len(m) = Len(l)
              \/ a = k - 1 /\ k > i /\ Len(m) = Len(l) + 1
           /\ l[a].start <= m[k].start
           /\ m[k].start + m[k].length <= l[a].start + l[a].length
           /\ a # i => m[k] = l[a]
    BY TakeWithin, Zenon
  <2>2. CASE a = i
    <3>1. k = i + 1 /\ Len(m) = Len(l) + 1
      BY <1>0, <1>2, <2>1, <2>2
    <3>2. ~m[i + 1].inuse
      BY <1>0, <3>1 DEF IsTake
    <3>3. QED
      BY <1>2, <3>1, <3>2
  <2>3. QED
    BY <1>2, <2>1, <2>2
<1>3. ASSUME NEW a \in 1 .. Len(l), l[a].inuse
      PROVE  \E k \in 1 .. Len(m) : m[k].inuse /\ m[k] = l[a]
  <2>1. a # i
    BY <1>3
  <2>2. CASE Len(m) = Len(l)
    <3>1. a \in 1 .. Len(m) /\ m[a] = l[a]
      BY <1>0, <2>1, <2>2 DEF IsTake
    <3>2. QED
      BY <1>3, <3>1
  <2>3. CASE Len(m) = Len(l) + 1 /\ a < i
    <3>1. a \in 1 .. Len(l) + 1
      BY <1>0
    <3>2. m[a] = l[a]
      BY <1>0, <2>3, <3>1 DEF IsTake
    <3>3. QED
      BY <1>3, <2>3, <3>1, <3>2
  <2>4. CASE Len(m) = Len(l) + 1 /\ a > i
    <3>1. a + 1 \in 1 .. Len(l) + 1 /\ a + 1 > i + 1 /\ (a + 1) - 1 = a
      BY <1>0, <2>4
    <3>2. \A k \in 1 .. Len(l) + 1 : k > i + 1 => m[k] = l[k - 1]
      BY <1>0, <2>4 DEF IsTake
    <3>3. m[a + 1] = l[a]
      BY <3>1, <3>2
    <3>4. QED
      BY <1>3, <2>4, <3>1, <3>3
  <2>5. QED
    BY <1>0, <2>1, <2>2, <2>3, <2>4 DEF IsTake
<1> HIDE DEF r
<1>4. ASSUME NEW s \in RegionsInUse(m)
      PROVE  s \in RegionsInUse(l) \cup {r}
  <2>1. PICK k \in 1 .. Len(m) : m[k].inuse /\ s = RegionOf(m[k])
    BY DEF RegionsInUse
  <2>2. CASE k = i
    BY <1>1, <2>1, <2>2
  <2>3. CASE k # i
    <3>1. PICK a \in 1 .. Len(l) : l[a].inuse /\ l[a] = m[k]
      BY <1>2, <2>1, <2>3
    <3>2. s \in RegionsInUse(l)
      BY <2>1, <3>1 DEF RegionsInUse
    <3>3. QED
      BY <3>2
  <2>4. QED
    BY <2>2, <2>3
<1>5. ASSUME NEW s \in RegionsInUse(l) \cup {r}
      PROVE  s \in RegionsInUse(m)
  <2>1. CASE s = r
    BY <1>1, <2>1 DEF RegionsInUse
  <2>2. CASE s \in RegionsInUse(l)
    <3>1. PICK a \in 1 .. Len(l) : l[a].inuse /\ s = RegionOf(l[a])
      BY <2>2 DEF RegionsInUse
    <3>2. PICK k \in 1 .. Len(m) : m[k].inuse /\ m[k] = l[a]
      BY <1>3, <3>1
    <3>3. QED
      BY <3>1, <3>2 DEF RegionsInUse
  <2>3. QED
    BY <2>1, <2>2
<1>6. QED
  BY <1>4, <1>5 DEF r

\* Taking a free entry leaves no two free entries next to each other: what was
\* cut off is followed by an entry in use.
LEMMA TakeNoAdjacentFree ==
  ASSUME NEW l \in Seq(Entry), NEW i \in 1 .. Len(l), NEW n \in Nat \ {0},
         NEW m, IsTake(l, m, i, n), ~l[i].inuse, HasNoAdjacentFree(l)
  PROVE  HasNoAdjacentFree(m)
<1>0. Len(l) \in Nat /\ Len(m) \in Nat
  BY DEF IsTake
<1>1. \A k \in 1 .. Len(l) - 1 : l[k].inuse \/ l[k + 1].inuse
  BY DEF HasNoAdjacentFree
<1>2. m[i].inuse
  BY DEF IsTake
<1> SUFFICES ASSUME NEW k \in 1 .. Len(m) - 1
             PROVE  m[k].inuse \/ m[k + 1].inuse
  BY DEF HasNoAdjacentFree
<1>3. CASE k = i \/ k + 1 = i
  BY <1>2, <1>3
<1>4. CASE k # i /\ k + 1 # i /\ Len(m) = Len(l)
  <2>1. k \in 1 .. Len(l) /\ k + 1 \in 1 .. Len(l) /\ k \in 1 .. Len(l) - 1
    BY <1>0, <1>4
  <2>2. \A j \in 1 .. Len(l) : j # i => m[j] = l[j]
    BY <1>0, <1>4 DEF IsTake
  <2>3. m[k] = l[k] /\ m[k + 1] = l[k + 1]
    BY <1>4, <2>1, <2>2
  <2>4. QED
    BY <1>1, <2>1, <2>3
<1>5. CASE Len(m) = Len(l) + 1 /\ k + 1 < i
  <2>1. k \in 1 .. Len(l) + 1 /\ k + 1 \in 1 .. Len(l) + 1 /\ k \in 1 .. Len(l) - 1
    BY <1>0, <1>5
  <2>2. \A j \in 1 .. Len(l) + 1 : j < i => m[j] = l[j]
    BY <1>0, <1>5 DEF IsTake
  <2>3. m[k] = l[k] /\ m[k + 1] = l[k + 1]
    BY <1>5, <2>1, <2>2
  <2>4. QED
    BY <1>1, <2>1, <2>3
<1>6. CASE Len(m) = Len(l) + 1 /\ k > i
  <2>1. k + 1 \in 1 .. Len(l) + 1 /\ k + 1 > i + 1 /\ (k + 1) - 1 = k
    BY <1>0, <1>6
  <2>2. \A j \in 1 .. Len(l) + 1 : j > i + 1 => m[j] = l[j - 1]
    BY <1>0, <1>6 DEF IsTake
  <2>3. m[k + 1] = l[k]
    BY <2>1, <2>2
  <2>4. k - 1 \in 1 .. Len(l) - 1 /\ (k - 1) + 1 = k
    BY <1>0, <1>6
  <2>5. l[k - 1].inuse \/ l[k].inuse
    BY <1>1, <2>4
  <2>6. CASE k = i + 1
    <3>1. k - 1 = i
      BY <2>6
    <3>2. QED
      BY <2>3, <2>5, <3>1
  <2>7. CASE k > i + 1
    <3>1. m[k] = l[k - 1]
      BY <1>0, <1>6, <2>2, <2>7
    <3>2. QED
      BY <2>3, <2>5, <3>1
  <2>8. QED
    BY <1>6, <2>6, <2>7
<1>7. QED
  BY <1>0, <1>3, <1>4, <1>5, <1>6 DEF IsTake

\* Everything Take does to a well-formed list.
LEMMA TakeKeepsList ==
  ASSUME NEW l \in Seq(Entry), NEW i \in 1 .. Len(l), NEW n \in Nat \ {0},
         NEW sz \in Nat, Fits(l[i], n), IsOrdered(l, sz), HasNoAdjacentFree(l)
  PROVE  /\ Take(l, i, n) \in Seq(Entry) /\ Len(Take(l, i, n)) > 0
         /\ IsOrdered(Take(l, i, n), sz)
         /\ HasNoAdjacentFree(Take(l, i, n))
         /\ RegionsInUse(Take(l, i, n)) =
              RegionsInUse(l) \cup {[start |-> l[i].start, length |-> n]}
<1> DEFINE m == Take(l, i, n)
<1>1. IsTake(l, m, i, n)
  BY TakeIsTake
<1>2. ~l[i].inuse
  BY DEF Fits
<1> HIDE DEF m
<1>3. m \in Seq(Entry) /\ Len(m) > 0
  BY <1>1 DEF IsTake
<1>4. IsOrdered(m, sz)
  BY <1>1, TakeOrdered, Zenon
<1>5. HasNoAdjacentFree(m)
  BY <1>1, <1>2, TakeNoAdjacentFree, Zenon
<1>6. RegionsInUse(m) = RegionsInUse(l) \cup {[start |-> l[i].start, length |-> n]}
  BY <1>1, <1>2, TakeRegions
<1>7. QED
  BY <1>3, <1>4, <1>5, <1>6 DEF m

\* Everything Extend does to a well-formed list.
LEMMA ExtendKeepsList ==
  ASSUME NEW l \in Seq(Entry), Len(l) > 0, NEW sz \in Nat, NEW at \in Nat,
         at >= sz, NEW n \in Nat \ {0}, IsOrdered(l, sz), HasNoAdjacentFree(l)
  PROVE  /\ Extend(l, at, n) \in Seq(Entry) /\ Len(Extend(l, at, n)) > 0
         /\ IsOrdered(Extend(l, at, n), at + n)
         /\ HasNoAdjacentFree(Extend(l, at, n))
         /\ RegionsInUse(Extend(l, at, n)) =
              RegionsInUse(l) \cup {[start |-> at, length |-> n]}
<1> DEFINE e == [start |-> at, length |-> n, inuse |-> TRUE]
           m == Append(l, e)
           r == [start |-> at, length |-> n]
<1>0. Len(l) \in Nat /\ n \in Nat /\ n > 0
  OBVIOUS
<1>1. e \in Entry /\ e.start = at /\ e.length = n /\ e.inuse /\ RegionOf(e) = r
  <2>1. e \in Entry
    BY <1>0, EntryMade, Zenon
  <2>2. QED
    BY <2>1 DEF RegionOf
<1>2. Extend(l, at, n) = m
  BY DEF Extend
<1> HIDE DEF e, r
<1>3. /\ m \in Seq(Entry) /\ Len(m) = Len(l) + 1
      /\ \A k \in 1 .. Len(l) : m[k] = l[k]
      /\ m[Len(l) + 1] = e
  BY <1>1, AppendProperties
<1> HIDE DEF m
<1>4. \A k \in 1 .. Len(l) : l[k].start \in Nat /\ l[k].length \in Nat
  BY EntryFields, Zenon
<1>5. IsOrdered(m, at + n)
  <2>1. /\ l[1].start = 0
        /\ \A j, k \in 1 .. Len(l) : j < k => l[j].start + l[j].length <= l[k].start
        /\ \A k \in 1 .. Len(l) : l[k].start + l[k].length <= sz
    BY DEF IsOrdered
  <2>2. m[1].start = 0
    BY <1>0, <1>3, <2>1
  <2>3. \A k \in 1 .. Len(l) : l[k].start + l[k].length <= at
    BY <1>4, <2>1
  <2>4. ASSUME NEW j \in 1 .. Len(m), NEW k \in 1 .. Len(m), j < k
        PROVE  m[j].start + m[j].length <= m[k].start
    <3>1. j \in 1 .. Len(l) /\ m[j] = l[j]
      BY <1>0, <1>3, <2>4
    <3>2. CASE k = Len(l) + 1
      BY <1>1, <1>3, <2>3, <3>1, <3>2
    <3>3. CASE k # Len(l) + 1
      <4>1. k \in 1 .. Len(l) /\ m[k] = l[k]
        BY <1>0, <1>3, <3>3
      <4>2. QED
        BY <2>1, <2>4, <3>1, <4>1
    <3>4. QED
      BY <3>2, <3>3
  <2>5. ASSUME NEW k \in 1 .. Len(m)
        PROVE  m[k].start + m[k].length <= at + n
    <3>1. CASE k = Len(l) + 1
      BY <1>0, <1>1, <1>3, <3>1
    <3>2. CASE k # Len(l) + 1
      <4>1. k \in 1 .. Len(l) /\ m[k] = l[k]
        BY <1>0, <1>3, <3>2
      <4>2. l[k].start + l[k].length <= at /\ l[k].start \in Nat /\ l[k].length \in Nat
        BY <1>4, <2>3, <4>1
      <4>3. QED
        BY <1>0, <4>1, <4>2
    <3>3. QED
      BY <3>1, <3>2
  <2>6. QED
    BY <2>2, <2>4, <2>5, Zenon DEF IsOrdered
<1>6. HasNoAdjacentFree(m)
  <2> SUFFICES ASSUME NEW k \in 1 .. Len(m) - 1
               PROVE  m[k].inuse \/ m[k + 1].inuse
    BY DEF HasNoAdjacentFree
  <2>1. CASE k = Len(l)
    BY <1>1, <1>3, <2>1
  <2>2. CASE k # Len(l)
    <3>1. k \in 1 .. Len(l) - 1 /\ k \in 1 .. Len(l) /\ k + 1 \in 1 .. Len(l)
      BY <1>0, <1>3, <2>2
    <3>2. l[k].inuse \/ l[k + 1].inuse
      BY <3>1 DEF HasNoAdjacentFree
    <3>3. QED
      BY <1>3, <3>1, <3>2
  <2>3. QED
    BY <2>1, <2>2
<1>7. RegionsInUse(m) = RegionsInUse(l) \cup {r}
  <2>1. Len(l) + 1 \in 1 .. Len(m) /\ m[Len(l) + 1].inuse
        /\ RegionOf(m[Len(l) + 1]) = r
    BY <1>0, <1>1, <1>3
  <2>2. \A k \in 1 .. Len(l) : k \in 1 .. Len(m) /\ m[k] = l[k]
    BY <1>0, <1>3
  <2>3. \A k \in 1 .. Len(m) : k = Len(l) + 1 \/ k \in 1 .. Len(l)
    BY <1>0, <1>3
  <2>4. ASSUME NEW s \in RegionsInUse(m)
        PROVE  s \in RegionsInUse(l) \cup {r}
    <3>1. PICK k \in 1 .. Len(m) : m[k].inuse /\ s = RegionOf(m[k])
      BY DEF RegionsInUse
    <3>2. CASE k = Len(l) + 1
      BY <2>1, <3>1, <3>2
    <3>3. CASE k \in 1 .. Len(l)
      BY <2>2, <3>1, <3>3 DEF RegionsInUse
    <3>4. QED
      BY <2>3, <3>2, <3>3
  <2>5. ASSUME NEW s \in RegionsInUse(l) \cup {r}
        PROVE  s \in RegionsInUse(m)
    <3>1. CASE s = r
      BY <2>1, <3>1 DEF RegionsInUse
    <3>2. CASE s \in RegionsInUse(l)
      BY <2>2, <3>2 DEF RegionsInUse
    <3>3. QED
      BY <3>1, <3>2
  <2>6. QED
    BY <2>4, <2>5
<1>8. Len(m) > 0
  BY <1>0, <1>3
<1>9. QED
  BY <1>2, <1>3, <1>5, <1>6, <1>7, <1>8 DEF r

-----------------------------------------------------------------------------
(* Releasing an entry.                                                       *)

\* m is l with entry i marked free.
IsReleased(l, m, i) ==
  /\ m \in Seq(Entry)
  /\ Len(m) = Len(l)
  /\ \A k \in 1 .. Len(l) : k # i => m[k] = l[k]
  /\ m[i] = [start |-> l[i].start, length |-> l[i].length, inuse |-> FALSE]

\* Released does what IsReleased says.
LEMMA ReleasedIsReleased ==
  ASSUME NEW l \in Seq(Entry), NEW i \in 1 .. Len(l)
  PROVE  IsReleased(l, Released(l, i), i)
<1> DEFINE e == [start |-> l[i].start, length |-> l[i].length, inuse |-> FALSE]
           m == [l EXCEPT ![i] = e]
<1>1. e \in Entry
  BY EntryFields, EntryMade, Zenon
<1>2. Released(l, i) = m
  BY DEF Released
<1>e. e = [start |-> l[i].start, length |-> l[i].length, inuse |-> FALSE]
  OBVIOUS
<1> HIDE DEF e
<1>3. /\ m \in Seq(Entry) /\ Len(m) = Len(l)
      /\ \A k \in 1 .. Len(l) : m[k] = IF k = i THEN e ELSE l[k]
  BY <1>1, ReplaceElements
<1> HIDE DEF m
<1>4. m[i] = e /\ \A k \in 1 .. Len(l) : k # i => m[k] = l[k]
  BY <1>3
<1>5. QED
  BY <1>2, <1>3, <1>4, <1>e DEF IsReleased

\* Releasing an entry keeps the list ordered.
LEMMA ReleasedOrdered ==
  ASSUME NEW l \in Seq(Entry), NEW i \in 1 .. Len(l), NEW m,
         IsReleased(l, m, i), NEW sz \in Nat, IsOrdered(l, sz)
  PROVE  IsOrdered(m, sz)
<1>1. \A k \in 1 .. Len(l) : m[k].start = l[k].start /\ m[k].length = l[k].length
  BY DEF IsReleased
<1>2. Len(m) = Len(l) /\ 1 \in 1 .. Len(l)
  BY DEF IsReleased
<1>3. QED
  BY <1>1, <1>2 DEF IsOrdered

\* In an ordered list two entries do not start at the same offset.
LEMMA StartsDiffer ==
  ASSUME NEW l \in Seq(Entry), NEW sz \in Nat, IsOrdered(l, sz),
         NEW i \in 1 .. Len(l), NEW j \in 1 .. Len(l), i # j
  PROVE  l[i].start # l[j].start
<1>1. /\ l[i].start \in Nat /\ l[i].length \in Nat /\ l[i].length > 0
      /\ l[j].start \in Nat /\ l[j].length \in Nat /\ l[j].length > 0
  BY EntryFields, Zenon
<1>2. CASE i < j
  <2>1. l[i].start + l[i].length <= l[j].start
    BY <1>2 DEF IsOrdered
  <2>2. QED
    BY <1>1, <2>1
<1>3. CASE j < i
  <2>1. l[j].start + l[j].length <= l[i].start
    BY <1>3 DEF IsOrdered
  <2>2. QED
    BY <1>1, <2>1
<1>4. QED
  BY <1>2, <1>3

\* Releasing an entry in use takes exactly its region from the regions in use.
LEMMA ReleasedRegions ==
  ASSUME NEW l \in Seq(Entry), NEW i \in 1 .. Len(l), NEW m,
         IsReleased(l, m, i), NEW sz \in Nat, IsOrdered(l, sz)
  PROVE  RegionsInUse(m) = RegionsInUse(l) \ {RegionOf(l[i])}
<1>1. Len(m) = Len(l) /\ ~m[i].inuse
  BY DEF IsReleased
<1>2. \A k \in 1 .. Len(l) : k # i => m[k] = l[k]
  BY DEF IsReleased
<1>3. \A k \in 1 .. Len(l) : k # i => l[k].start # l[i].start
  BY StartsDiffer
<1>4. ASSUME NEW s \in RegionsInUse(m)
      PROVE  s \in RegionsInUse(l) \ {RegionOf(l[i])}
  <2>1. PICK k \in 1 .. Len(m) : m[k].inuse /\ s = RegionOf(m[k])
    BY DEF RegionsInUse
  <2>2. k # i /\ k \in 1 .. Len(l) /\ m[k] = l[k]
    BY <1>1, <1>2, <2>1
  <2>3. s \in RegionsInUse(l)
    BY <2>1, <2>2 DEF RegionsInUse
  <2>4. s.start = l[k].start /\ RegionOf(l[i]).start = l[i].start
    BY <2>1, <2>2 DEF RegionOf
  <2>5. QED
    BY <1>3, <2>2, <2>3, <2>4
<1>5. ASSUME NEW s \in RegionsInUse(l) \ {RegionOf(l[i])}
      PROVE  s \in RegionsInUse(m)
  <2>1. PICK k \in 1 .. Len(l) : l[k].inuse /\ s = RegionOf(l[k])
    BY DEF RegionsInUse
  <2>2. k # i
    BY <2>1
  <2>3. k \in 1 .. Len(m) /\ m[k].inuse /\ s = RegionOf(m[k])
    BY <1>1, <1>2, <2>1, <2>2
  <2>4. QED
    BY <2>3 DEF RegionsInUse
<1>6. QED
  BY <1>4, <1>5

\* What is said of a list once an entry of it is free: the entry before i and
\* the entry after it may be free too, no other two neighbours are.
PairsOKBut(l, X) ==
  \A k \in 1 .. Len(l) - 1 : k \in X \/ l[k].inuse \/ l[k + 1].inuse

\* Joining i with i + 1 leaves at most the pairs before and after the join to
\* look at, and those are in order when they were before.
LEMMA JoinPairs ==
  ASSUME NEW l \in Seq(Entry), NEW m, NEW i \in 1 .. Len(l) - 1, NEW X,
         ~l[i].inuse, ~l[i + 1].inuse, IsJoin(l, m, i),
         PairsOKBut(l, {i} \cup X), X \subseteq {i + 1}
  PROVE  \A k \in 1 .. Len(m) - 1 :
           (k = i /\ i + 1 \in X) \/ m[k].inuse \/ m[k + 1].inuse
<1>0. Len(l) \in Nat /\ Len(m) = Len(l) - 1
  BY DEF IsJoin
<1>1. /\ \A k \in 1 .. Len(m) : k < i => m[k] = l[k]
      /\ \A k \in 1 .. Len(m) : k > i => m[k] = l[k + 1]
  BY DEF IsJoin
<1>2. \A k \in 1 .. Len(l) - 1 :
        k # i /\ k \notin X => l[k].inuse \/ l[k + 1].inuse
  BY DEF PairsOKBut
<1> SUFFICES ASSUME NEW k \in 1 .. Len(m) - 1, ~(k = i /\ i + 1 \in X)
             PROVE  m[k].inuse \/ m[k + 1].inuse
  OBVIOUS
<1>3. k \in 1 .. Len(m) /\ k + 1 \in 1 .. Len(m) /\ k \in 1 .. Len(l) - 1
      /\ k + 1 \in 1 .. Len(l) - 1 /\ (k + 1) + 1 = k + 2
  BY <1>0
<1>4. CASE k + 1 < i
  <2>1. m[k] = l[k] /\ m[k + 1] = l[k + 1] /\ k # i /\ k \notin X
    BY <1>1, <1>3, <1>4
  <2>2. QED
    BY <1>2, <1>3, <2>1
<1>5. CASE k + 1 = i
  <2>1. m[k] = l[k] /\ k # i /\ k \notin X
    BY <1>1, <1>3, <1>5
  <2>2. l[k].inuse
    BY <1>2, <1>3, <1>5, <2>1
  <2>3. QED
    BY <2>1, <2>2
<1>6. CASE k = i
  <2>1. m[k + 1] = l[k + 2] /\ k + 1 # i /\ k + 1 \notin X
    BY <1>1, <1>3, <1>6
  <2>2. l[k + 2].inuse
    BY <1>2, <1>3, <1>6, <2>1
  <2>3. QED
    BY <2>1, <2>2
<1>7. CASE k > i
  <2>1. m[k] = l[k + 1]
    BY <1>1, <1>3, <1>7
  <2>2. k + 1 > i /\ k + 1 # i /\ k + 1 # i + 1
    BY <1>3, <1>7
  <2>3. m[k + 1] = l[k + 2]
    BY <1>1, <1>3, <2>2
  <2>4. QED
    BY <1>2, <1>3, <2>1, <2>2, <2>3
<1>8. QED
  BY <1>3, <1>4, <1>5, <1>6, <1>7

\* What pfs_channel_free leaves is well formed and has the same regions in use.
WellJoined(l, m, sz) ==
  /\ m \in Seq(Entry) /\ Len(m) > 0
  /\ IsOrdered(m, sz)
  /\ HasNoAdjacentFree(m)
  /\ RegionsInUse(m) = RegionsInUse(l)

\* The second half of pfs_channel_free: joining with the entry after.
LEMMA CoalesceNextKeepsList ==
  ASSUME NEW l \in Seq(Entry), NEW i \in 1 .. Len(l), NEW sz \in Nat,
         IsOrdered(l, sz), ~l[i].inuse, PairsOKBut(l, {i})
  PROVE  WellJoined(l, CoalesceNext(l, i), sz)
<1>0. Len(l) \in Nat
  OBVIOUS
<1>1. CASE MergesNext(l, i)
  <2> DEFINE m == MergeNext(l, i)
  <2>1. i < Len(l) /\ ~l[i + 1].inuse /\ IsJoin(l, m, i)
    BY <1>1, MergeNextIsJoin, Zenon
  <2>2. CoalesceNext(l, i) = m
    BY <1>1 DEF CoalesceNext
  <2> HIDE DEF m
  <2>3. i \in 1 .. Len(l) - 1
    BY <1>0, <2>1
  <2>4. IsOrdered(m, sz)
    BY <2>1, <2>3, JoinOrdered, Zenon
  <2>5. RegionsInUse(m) = RegionsInUse(l)
    BY <2>1, <2>3, JoinRegions, Zenon
  <2>6. \A k \in 1 .. Len(m) - 1 :
          (k = i /\ i + 1 \in {}) \/ m[k].inuse \/ m[k + 1].inuse
    <3>1. {i} = {i} \cup {} /\ {} \subseteq {i + 1}
      OBVIOUS
    <3>2. PairsOKBut(l, {i} \cup {})
      BY <3>1
    <3>3. QED
      BY <2>1, <2>3, <3>1, <3>2, JoinPairs, Zenon
  <2>7. HasNoAdjacentFree(m)
    BY <2>6 DEF HasNoAdjacentFree
  <2>8. m \in Seq(Entry) /\ Len(m) > 0
    <3>1. m \in Seq(Entry) /\ Len(m) = Len(l) - 1
      BY <2>1 DEF IsJoin
    <3>2. QED
      BY <1>0, <2>3, <3>1
  <2>9. QED
    BY <2>2, <2>4, <2>5, <2>7, <2>8 DEF WellJoined
<1>2. CASE ~MergesNext(l, i)
  <2>1. CoalesceNext(l, i) = l
    BY <1>2 DEF CoalesceNext
  <2>2. i < Len(l) => l[i + 1].inuse
    <3> SUFFICES ASSUME i < Len(l) PROVE l[i + 1].inuse
      OBVIOUS
    <3>1. i + 1 \in 1 .. Len(l) /\ i < i + 1 /\ Next_(l, i) = i + 1
      BY <1>0 DEF Next_
    <3>2. l[i].start + l[i].length <= l[i + 1].start
      BY <3>1 DEF IsOrdered
    <3>3. /\ l[i].start \in Nat /\ l[i].length \in Nat /\ l[i].length > 0
          /\ l[i + 1].start \in Nat
      BY <3>1, EntryFields, Zenon
    <3>4. l[i + 1].start > l[i].start
      BY <3>2, <3>3
    <3>5. QED
      BY <1>2, <3>1, <3>4 DEF MergesNext
  <2>3. HasNoAdjacentFree(l)
    BY <1>0, <2>2 DEF HasNoAdjacentFree, PairsOKBut
  <2>4. Len(l) > 0
    BY <1>0
  <2>5. QED
    BY <2>1, <2>3, <2>4 DEF WellJoined
<1>3. QED
  BY <1>1, <1>2

\* pfs_channel_free, once the entry is marked free.
LEMMA CoalesceKeepsList ==
  ASSUME NEW l \in Seq(Entry), NEW i \in 1 .. Len(l), NEW sz \in Nat,
         IsOrdered(l, sz), ~l[i].inuse, PairsOKBut(l, {i - 1, i})
  PROVE  WellJoined(l, Coalesce(l, i), sz)
<1>0. Len(l) \in Nat
  OBVIOUS
<1>1. CASE MergesPrev(l, i)
  <2> DEFINE m == MergePrev(l, i)
             j == i - 1
  <2>1. i > 1 /\ ~l[j].inuse /\ IsJoin(l, m, j)
    BY <1>1, MergePrevIsJoin, Zenon
  <2>2. Coalesce(l, i) = CoalesceNext(m, j)
    BY <1>1 DEF Coalesce
  <2>3. j \in 1 .. Len(l) - 1 /\ j + 1 = i
    BY <1>0, <2>1
  <2> HIDE DEF m, j
  <2>4. IsOrdered(m, sz)
    BY <2>1, <2>3, JoinOrdered, Zenon
  <2>5. ~l[j + 1].inuse
    BY <2>3
  <2>6. RegionsInUse(m) = RegionsInUse(l)
    BY <2>1, <2>3, <2>5, JoinRegions, Zenon
  <2>7. PairsOKBut(m, {j})
    <3>1. {i - 1, i} = {j} \cup {j + 1}
      BY <2>3
    <3>2. PairsOKBut(l, {j} \cup {j + 1}) /\ {j + 1} \subseteq {j + 1}
      BY <3>1, Zenon
    <3>3. \A k \in 1 .. Len(m) - 1 :
            (k = j /\ j + 1 \in {j + 1}) \/ m[k].inuse \/ m[k + 1].inuse
      BY <2>1, <2>3, <2>5, <3>2, JoinPairs, Zenon
    <3>4. QED
      BY <3>3 DEF PairsOKBut
  <2>8. m \in Seq(Entry) /\ Len(m) = Len(l) - 1 /\ ~m[j].inuse
    BY <2>1 DEF IsJoin
  <2>9. j \in 1 .. Len(m)
    BY <1>0, <2>3, <2>8
  <2>10. WellJoined(m, CoalesceNext(m, j), sz)
    BY <2>4, <2>7, <2>8, <2>9, CoalesceNextKeepsList, Zenon
  <2>11. QED
    BY <2>2, <2>6, <2>10 DEF WellJoined
<1>2. CASE ~MergesPrev(l, i)
  <2>1. Coalesce(l, i) = CoalesceNext(l, i)
    BY <1>2 DEF Coalesce
  <2>2. i > 1 => l[i - 1].inuse
    <3> SUFFICES ASSUME i > 1 PROVE l[i - 1].inuse
      OBVIOUS
    <3>1. i - 1 \in 1 .. Len(l) /\ i - 1 < i /\ Prev(l, i) = i - 1
      BY <1>0 DEF Prev
    <3>2. l[i - 1].start + l[i - 1].length <= l[i].start
      BY <3>1 DEF IsOrdered
    <3>3. /\ l[i - 1].start \in Nat /\ l[i - 1].length \in Nat
          /\ l[i - 1].length > 0 /\ l[i].start \in Nat
      BY <3>1, EntryFields, Zenon
    <3>4. l[i - 1].start < l[i].start
      BY <3>2, <3>3
    <3>5. QED
      BY <1>2, <3>1, <3>4 DEF MergesPrev
  <2>3. PairsOKBut(l, {i})
    BY <1>0, <2>2 DEF PairsOKBut
  <2>4. WellJoined(l, CoalesceNext(l, i), sz)
    BY <2>3, CoalesceNextKeepsList, Zenon
  <2>5. QED
    BY <2>1, <2>4
<1>3. QED
  BY <1>1, <1>2

\* Everything pfs_channel_free does to a well-formed list.
LEMMA FreeAtKeepsList ==
  ASSUME NEW l \in Seq(Entry), NEW i \in 1 .. Len(l), NEW sz \in Nat,
         IsOrdered(l, sz), HasNoAdjacentFree(l)
  PROVE  /\ FreeAt(l, i) \in Seq(Entry) /\ Len(FreeAt(l, i)) > 0
         /\ IsOrdered(FreeAt(l, i), sz)
         /\ HasNoAdjacentFree(FreeAt(l, i))
         /\ RegionsInUse(FreeAt(l, i)) = RegionsInUse(l) \ {RegionOf(l[i])}
<1> DEFINE m == Released(l, i)
<1>1. IsReleased(l, m, i)
  BY ReleasedIsReleased, Zenon
<1>2. FreeAt(l, i) = Coalesce(m, i)
  BY DEF FreeAt
<1> HIDE DEF m
<1>3. IsOrdered(m, sz)
  BY <1>1, ReleasedOrdered, Zenon
<1>4. RegionsInUse(m) = RegionsInUse(l) \ {RegionOf(l[i])}
  BY <1>1, ReleasedRegions, Zenon
<1>5. m \in Seq(Entry) /\ i \in 1 .. Len(m) /\ ~m[i].inuse
  BY <1>1 DEF IsReleased
<1>6. PairsOKBut(m, {i - 1, i})
  <2>1. Len(m) = Len(l) /\ Len(l) \in Nat
    BY <1>1 DEF IsReleased
  <2>2. \A k \in 1 .. Len(l) : k # i => m[k] = l[k]
    BY <1>1 DEF IsReleased
  <2> SUFFICES ASSUME NEW k \in 1 .. Len(m) - 1, k # i - 1, k # i
               PROVE  m[k].inuse \/ m[k + 1].inuse
    BY DEF PairsOKBut
  <2>3. k \in 1 .. Len(l) /\ k + 1 \in 1 .. Len(l) /\ k + 1 # i
    BY <2>1
  <2>4. m[k] = l[k] /\ m[k + 1] = l[k + 1]
    BY <2>2, <2>3
  <2>5. l[k].inuse \/ l[k + 1].inuse
    BY <2>1 DEF HasNoAdjacentFree
  <2>6. QED
    BY <2>4, <2>5
<1>7. WellJoined(m, Coalesce(m, i), sz)
  BY <1>3, <1>5, <1>6, CoalesceKeepsList, Zenon
<1>8. QED
  BY <1>2, <1>4, <1>7 DEF WellJoined

-----------------------------------------------------------------------------
(* Page alignment.                                                           *)

OnPage(x) == x % PageSize = 0

EntriesOnPage(l) == \A k \in 1 .. Len(l) : OnPage(l[k].start) /\ OnPage(l[k].length)

\* What lies on a page boundary is a multiple of the page size, and the other way.
LEMMA OnPageQuotient ==
  ASSUME NEW x \in Nat, OnPage(x)
  PROVE  \E q \in Nat : x = PageSize * q
<1>1. PageSize \in Nat \ {0}
  BY PageSizeAssumption
<1>2. x = PageSize * (x \div PageSize) /\ x \div PageSize \in Nat
  BY <1>1 DEF OnPage
<1>3. QED
  BY <1>2

LEMMA MultipleOnPage ==
  ASSUME NEW q \in Nat
  PROVE  OnPage(PageSize * q)
BY PageSizeAssumption DEF OnPage

\* Sums, differences and multiples of page boundaries are page boundaries.
LEMMA SumOnPage ==
  ASSUME NEW x \in Nat, NEW y \in Nat, OnPage(x), OnPage(y)
  PROVE  OnPage(x + y)
<1>0. PageSize \in Nat
  BY PageSizeAssumption
<1>1. PICK q \in Nat : x = PageSize * q
  BY OnPageQuotient
<1>2. PICK r \in Nat : y = PageSize * r
  BY OnPageQuotient
<1>3. x + y = PageSize * (q + r) /\ q + r \in Nat
  BY <1>0, <1>1, <1>2
<1>4. QED
  BY <1>3, MultipleOnPage

LEMMA DifferenceOnPage ==
  ASSUME NEW x \in Nat, NEW y \in Nat, y <= x, OnPage(x), OnPage(y)
  PROVE  OnPage(x - y)
<1>0. PageSize \in Nat \ {0}
  BY PageSizeAssumption
<1>1. PICK q \in Nat : x = PageSize * q
  BY OnPageQuotient
<1>2. PICK r \in Nat : y = PageSize * r
  BY OnPageQuotient
<1>3. r <= q
  BY <1>0, <1>1, <1>2
<1>4. x - y = PageSize * (q - r) /\ q - r \in Nat
  BY <1>0, <1>1, <1>2, <1>3
<1>5. QED
  BY <1>4, MultipleOnPage

LEMMA TimesOnPage ==
  ASSUME NEW x \in Nat, NEW y \in Nat, OnPage(x)
  PROVE  OnPage(y * x)
<1>0. PageSize \in Nat
  BY PageSizeAssumption
<1>1. PICK q \in Nat : x = PageSize * q
  BY OnPageQuotient
<1>2. y * x = PageSize * (y * q) /\ y * q \in Nat
  BY <1>0, <1>1
<1>3. QED
  BY <1>2, MultipleOnPage

\* round_up rounds to a page boundary.
LEMMA RoundUpOnPage ==
  ASSUME NEW x \in Nat
  PROVE  OnPage(round_up(x))
<1> DEFINE q == x \div PageSize
<1>1. PageSize \in Nat \ {0}
  BY PageSizeAssumption
<1>2. q \in Nat /\ q + 1 \in Nat
  BY <1>1
<1>3. OnPage(PageSize * (q + 1))
  BY <1>2, MultipleOnPage
<1>4. OnPage(PageSize)
  BY <1>1 DEF OnPage
<1> HIDE DEF q
<1>5. \/ round_up(x) = PageSize * (q + 1)
      \/ round_up(x) = PageSize
      \/ round_up(x) = x /\ x % PageSize = 0
  BY DEF round_up, q
<1>6. QED
  BY <1>3, <1>4, <1>5 DEF OnPage

\* Taking a whole number of pages from an entry leaves the list aligned.
LEMMA TakeOnPage ==
  ASSUME NEW l \in Seq(Entry), NEW i \in 1 .. Len(l), NEW n \in Nat \ {0},
         Fits(l[i], n), OnPage(n), EntriesOnPage(l)
  PROVE  EntriesOnPage(Take(l, i, n))
<1> DEFINE m == Take(l, i, n)
<1>1. IsTake(l, m, i, n)
  BY TakeIsTake, Zenon
<1> HIDE DEF m
<1>2. /\ l[i].start \in Nat /\ l[i].length \in Nat /\ n <= l[i].length
      /\ OnPage(l[i].start) /\ OnPage(l[i].length)
  BY EntryFields, Zenon DEF Fits, EntriesOnPage
<1>3. OnPage(l[i].start + n) /\ OnPage(l[i].length - n)
  BY <1>2, SumOnPage, DifferenceOnPage, Zenon
<1> SUFFICES ASSUME NEW k \in 1 .. Len(m)
             PROVE  OnPage(m[k].start) /\ OnPage(m[k].length)
  BY DEF EntriesOnPage, m
<1>4. Len(l) \in Nat
  OBVIOUS
<1>5. CASE k = i
  BY <1>1, <1>2, <1>5 DEF IsTake
<1>6. CASE k # i /\ Len(m) = Len(l)
  BY <1>1, <1>4, <1>6 DEF IsTake, EntriesOnPage
<1>7. CASE k # i /\ Len(m) = Len(l) + 1
  <2>1. \/ k < i /\ k \in 1 .. Len(l) /\ m[k] = l[k]
        \/ k > i + 1 /\ k - 1 \in 1 .. Len(l) /\ m[k] = l[k - 1]
        \/ m[k] = [start |-> l[i].start + n, length |-> l[i].length - n, inuse |-> FALSE]
    BY <1>1, <1>4, <1>7 DEF IsTake
  <2>2. QED
    BY <1>3, <2>1 DEF EntriesOnPage
<1>8. QED
  BY <1>1, <1>5, <1>6, <1>7 DEF IsTake

\* So does extending the list at a page boundary.
LEMMA ExtendOnPage ==
  ASSUME NEW l \in Seq(Entry), NEW at \in Nat, NEW n \in Nat \ {0},
         OnPage(at), OnPage(n), EntriesOnPage(l)
  PROVE  EntriesOnPage(Extend(l, at, n))
<1> DEFINE e == [start |-> at, length |-> n, inuse |-> TRUE]
<1>1. e.start = at /\ e.length = n
  OBVIOUS
<1>2. Extend(l, at, n) = Append(l, e)
  BY DEF Extend
<1> HIDE DEF e
<1>3. /\ Len(Append(l, e)) = Len(l) + 1 /\ Append(l, e)[Len(l) + 1] = e
      /\ \A k \in 1 .. Len(l) : Append(l, e)[k] = l[k]
  OBVIOUS
<1>4. QED
  BY <1>1, <1>2, <1>3 DEF EntriesOnPage

\* Joining two aligned neighbours gives an aligned entry.
LEMMA JoinOnPage ==
  ASSUME NEW l \in Seq(Entry), NEW m, NEW i \in 1 .. Len(l) - 1,
         IsJoin(l, m, i), EntriesOnPage(l)
  PROVE  EntriesOnPage(m)
<1>1. Len(l) \in Nat /\ Len(m) = Len(l) - 1 /\ i + 1 \in 1 .. Len(l) /\ i \in 1 .. Len(l)
  BY DEF IsJoin
<1>2. /\ OnPage(l[i].start) /\ OnPage(l[i].length) /\ OnPage(l[i + 1].length)
      /\ l[i].length \in Nat /\ l[i + 1].length \in Nat
  BY <1>1, EntryFields, Zenon DEF EntriesOnPage
<1>3. OnPage(l[i].length + l[i + 1].length)
  BY <1>2, SumOnPage, Zenon
<1> SUFFICES ASSUME NEW k \in 1 .. Len(m)
             PROVE  OnPage(m[k].start) /\ OnPage(m[k].length)
  BY DEF EntriesOnPage
<1>4. CASE k = i
  BY <1>2, <1>3, <1>4 DEF IsJoin
<1>5. CASE k < i
  <2>1. m[k] = l[k] /\ k \in 1 .. Len(l)
    BY <1>1, <1>5 DEF IsJoin
  <2>2. QED
    BY <2>1 DEF EntriesOnPage
<1>6. CASE k > i
  <2>1. m[k] = l[k + 1] /\ k + 1 \in 1 .. Len(l)
    BY <1>1, <1>6 DEF IsJoin
  <2>2. QED
    BY <2>1 DEF EntriesOnPage
<1>7. QED
  BY <1>1, <1>4, <1>5, <1>6

LEMMA CoalesceNextOnPage ==
  ASSUME NEW l \in Seq(Entry), NEW i \in 1 .. Len(l), NEW sz \in Nat,
         IsOrdered(l, sz), EntriesOnPage(l)
  PROVE  EntriesOnPage(CoalesceNext(l, i))
<1>1. CASE MergesNext(l, i)
  <2>1. i < Len(l) /\ IsJoin(l, MergeNext(l, i), i)
    BY <1>1, MergeNextIsJoin, Zenon
  <2>2. i \in 1 .. Len(l) - 1
    BY <2>1
  <2>3. EntriesOnPage(MergeNext(l, i))
    BY <2>1, <2>2, JoinOnPage, Zenon
  <2>4. QED
    BY <1>1, <2>3 DEF CoalesceNext
<1>2. QED
  BY <1>1 DEF CoalesceNext

\* A release keeps the list aligned.
LEMMA FreeAtOnPage ==
  ASSUME NEW l \in Seq(Entry), NEW i \in 1 .. Len(l), NEW sz \in Nat,
         IsOrdered(l, sz), EntriesOnPage(l)
  PROVE  EntriesOnPage(FreeAt(l, i))
<1> DEFINE m == Released(l, i)
           j == i - 1
           p == MergePrev(m, i)
<1>1. IsReleased(l, m, i)
  BY ReleasedIsReleased, Zenon
<1>2. FreeAt(l, i) = Coalesce(m, i)
  BY DEF FreeAt
<1> HIDE DEF m
<1>3. m \in Seq(Entry) /\ i \in 1 .. Len(m) /\ IsOrdered(m, sz)
  BY <1>1, ReleasedOrdered, Zenon DEF IsReleased
<1>4. EntriesOnPage(m)
  BY <1>1 DEF IsReleased, EntriesOnPage
<1>5. CASE MergesPrev(m, i)
  <2>1. i > 1 /\ IsJoin(m, p, j)
    BY <1>3, <1>5, MergePrevIsJoin, Zenon
  <2>2. j \in 1 .. Len(m) - 1
    BY <1>3, <2>1
  <2>3. Coalesce(m, i) = CoalesceNext(p, j)
    BY <1>5 DEF Coalesce
  <2> HIDE DEF p, j
  <2>4. p \in Seq(Entry) /\ j \in 1 .. Len(p)
    BY <1>3, <2>1, <2>2 DEF IsJoin
  <2>5. EntriesOnPage(p) /\ IsOrdered(p, sz)
    BY <1>3, <1>4, <2>1, <2>2, JoinOnPage, JoinOrdered, Zenon
  <2>6. QED
    BY <1>2, <2>3, <2>4, <2>5, CoalesceNextOnPage, Zenon
<1>6. CASE ~MergesPrev(m, i)
  <2>1. Coalesce(m, i) = CoalesceNext(m, i)
    BY <1>6 DEF Coalesce
  <2>2. QED
    BY <1>2, <1>3, <1>4, <2>1, CoalesceNextOnPage, Zenon
<1>7. QED
  BY <1>5, <1>6

-----------------------------------------------------------------------------
(* Room that is left.                                                        *)

\* n free bytes in a row lie in one entry when no two free entries are
\* neighbours: the byte after a free entry belongs to an entry in use or to none.
LEMMA RowInOneEntry ==
  ASSUME NEW l \in Seq(Entry), NEW sz \in Nat, IsOrdered(l, sz),
         HasNoAdjacentFree(l), NEW n \in Nat \ {0}, NEW at \in Nat,
         \A b \in at .. at + n - 1 : \E i \in 1 .. Len(l) :
           ~l[i].inuse /\ l[i].start <= b /\ b < l[i].start + l[i].length
  PROVE  HasFit(l, n)
<1>0. Len(l) \in Nat
  OBVIOUS
<1>1. at \in at .. at + n - 1
  OBVIOUS
<1>2. PICK i \in 1 .. Len(l) :
        ~l[i].inuse /\ l[i].start <= at /\ at < l[i].start + l[i].length
  BY <1>1
<1> DEFINE e == l[i].start + l[i].length
<1>3. l[i].start \in Nat /\ l[i].length \in Nat /\ e \in Nat
  <2>1. l[i].start \in Nat /\ l[i].length \in Nat
    BY EntryFields, Zenon
  <2>2. QED
    BY <2>1
<1>4. CASE at + n <= e
  <2>1. l[i].length >= n
    BY <1>2, <1>3, <1>4
  <2>2. QED
    BY <1>2, <2>1 DEF HasFit, Fits
<1>5. CASE at + n > e
  <2>1. e \in at .. at + n - 1
    BY <1>2, <1>3, <1>5
  <2>2. PICK j \in 1 .. Len(l) :
          ~l[j].inuse /\ l[j].start <= e /\ e < l[j].start + l[j].length
    BY <2>1, Zenon
  <2>3. /\ l[j].start \in Nat /\ l[j].length \in Nat
    BY EntryFields, Zenon
  <2>4. i < j
    <3>1. i # j
      BY <2>2, <1>3
    <3>2. j < i => l[j].start + l[j].length <= l[i].start
      BY DEF IsOrdered
    <3>3. ~(j < i)
      BY <1>2, <1>3, <2>2, <2>3, <3>2
    <3>4. QED
      BY <3>1, <3>3
  <2>5. i + 1 \in 1 .. Len(l) /\ i \in 1 .. Len(l) - 1
    BY <1>0, <2>4
  <2>6. l[i + 1].inuse
    BY <1>2, <2>5 DEF HasNoAdjacentFree
  <2>7. i + 1 < j
    BY <2>2, <2>4, <2>6
  <2>8. /\ l[i + 1].start \in Nat /\ l[i + 1].length \in Nat /\ l[i + 1].length > 0
    BY <2>5, EntryFields, Zenon
  <2>9. e <= l[i + 1].start
    BY <2>5 DEF IsOrdered
  <2>10. l[i + 1].start + l[i + 1].length <= l[j].start
    BY <2>5, <2>7 DEF IsOrdered
  <2>11. QED
    BY <1>3, <2>2, <2>3, <2>8, <2>9, <2>10
<1>6. QED
  BY <1>3, <1>4, <1>5

-----------------------------------------------------------------------------
(* The invariant.                                                            *)

\* The four facts support each other: the order of the entries makes starts
\* unique, so that a release finds the entry of its region; the absence of
\* neighbouring free entries is kept only by a release that finds it so.
Inv == TypeOK /\ Ordered /\ HeldIsInUse /\ NoAdjacentFree

LEMMA InitInv ==
  ASSUME ChannelInit
  PROVE  Inv
<1> DEFINE e == [start |-> 0, length |-> InitSize, inuse |-> FALSE]
<1>1. e \in Entry /\ list = <<e>> /\ size = InitSize /\ held = {} /\ size \in Nat
  <2>1. InitSize \in Nat /\ InitSize > 0
    BY SizeAssumption
  <2>2. e \in Entry
    BY <2>1, EntryMade, Zenon
  <2>3. QED
    BY <2>1, <2>2 DEF ChannelInit
<1>2. e.start = 0 /\ e.length = InitSize /\ ~e.inuse
  OBVIOUS
<1> HIDE DEF e
<1>3. list \in Seq(Entry) /\ Len(list) = 1 /\ list[1] = e
  BY <1>1
<1>4. TypeOK
  BY <1>1, <1>3 DEF TypeOK
<1>5. Ordered
  BY <1>1, <1>2, <1>3 DEF Ordered, IsOrdered
<1>6. HeldIsInUse
  <2>1. \A k \in 1 .. Len(list) : ~list[k].inuse
    BY <1>2, <1>3
  <2>2. RegionsInUse(list) = {}
    BY <2>1 DEF RegionsInUse
  <2>3. QED
    BY <1>1, <2>2 DEF HeldIsInUse
<1>7. NoAdjacentFree
  BY <1>3 DEF NoAdjacentFree, HasNoAdjacentFree
<1>8. QED
  BY <1>4, <1>5, <1>6, <1>7 DEF Inv

\* An allocation from a free entry keeps the invariant.
LEMMA AllocFitInv ==
  ASSUME Inv, NEW n \in Nat \ {0}, AllocFit(n)
  PROVE  Inv'
<1>1. /\ list \in Seq(Entry) /\ size \in Nat
      /\ held \subseteq [start : Nat, length : Nat \ {0}]
      /\ IsOrdered(list, size) /\ HasNoAdjacentFree(list)
      /\ held = RegionsInUse(list)
  BY DEF Inv, TypeOK, Ordered, HeldIsInUse, NoAdjacentFree
<1>2. PICK i \in 1 .. Len(list) :
        /\ Fits(list[i], n)
        /\ list' = Take(list, i, n)
        /\ held' = held \cup {[start |-> list[i].start, length |-> n]}
        /\ size' = size
  BY DEF AllocFit, IsFirstFit
<1>3. /\ list' \in Seq(Entry) /\ Len(list') > 0
      /\ IsOrdered(list', size)
      /\ HasNoAdjacentFree(list')
      /\ RegionsInUse(list') =
           RegionsInUse(list) \cup {[start |-> list[i].start, length |-> n]}
  BY <1>1, <1>2, TakeKeepsList
<1>4. list[i].start \in Nat
  BY <1>1, EntryFields, Zenon
<1>5. TypeOK'
  BY <1>1, <1>2, <1>3, <1>4 DEF TypeOK
<1>6. Ordered' /\ NoAdjacentFree'
  BY <1>2, <1>3 DEF Ordered, NoAdjacentFree
<1>7. HeldIsInUse'
  BY <1>1, <1>2, <1>3 DEF HeldIsInUse
<1>8. QED
  BY <1>5, <1>6, <1>7 DEF Inv

\* An allocation that extends the file, with bytes lost on the way or not,
\* keeps the invariant.
LEMMA AllocExpandInv ==
  ASSUME Inv, NEW n \in Nat \ {0}, AllocExpand(n)
  PROVE  Inv'
<1>1. /\ list \in Seq(Entry) /\ Len(list) > 0 /\ size \in Nat
      /\ held \subseteq [start : Nat, length : Nat \ {0}]
      /\ IsOrdered(list, size) /\ HasNoAdjacentFree(list)
      /\ held = RegionsInUse(list)
  BY DEF Inv, TypeOK, Ordered, HeldIsInUse, NoAdjacentFree
<1>2. PICK lost \in {k * n : k \in 0 .. MaxSize} :
        /\ list' = Extend(list, size + lost, n)
        /\ size' = size + lost + n
        /\ held' = held \cup {[start |-> size + lost, length |-> n]}
  BY DEF AllocExpand
<1>3. lost \in Nat
  <2>1. PICK k \in 0 .. MaxSize : lost = k * n
    OBVIOUS
  <2>2. k \in Nat /\ n \in Nat
    BY SizeAssumption
  <2>3. QED
    BY <2>1, <2>2, NatTimes, Zenon
<1> DEFINE at == size + lost
<1>4. at \in Nat /\ at >= size /\ at + n \in Nat
  BY <1>1, <1>3
<1>5. list' = Extend(list, at, n) /\ size' = at + n
      /\ held' = held \cup {[start |-> at, length |-> n]}
  BY <1>2
<1> HIDE DEF at
<1>6. /\ list' \in Seq(Entry) /\ Len(list') > 0
      /\ IsOrdered(list', at + n)
      /\ HasNoAdjacentFree(list')
      /\ RegionsInUse(list') = RegionsInUse(list) \cup {[start |-> at, length |-> n]}
  BY <1>1, <1>4, <1>5, ExtendKeepsList
<1>7. TypeOK'
  BY <1>1, <1>4, <1>5, <1>6 DEF TypeOK
<1>8. Ordered' /\ NoAdjacentFree'
  BY <1>5, <1>6 DEF Ordered, NoAdjacentFree
<1>9. HeldIsInUse'
  BY <1>1, <1>5, <1>6 DEF HeldIsInUse
<1>10. QED
  BY <1>7, <1>8, <1>9 DEF Inv

\* A failed allocation keeps the invariant: at most the file has grown.
LEMMA AllocFailInv ==
  ASSUME Inv, NEW n \in Nat \ {0}, AllocFail(n)
  PROVE  Inv'
<1>1. /\ list \in Seq(Entry) /\ Len(list) > 0 /\ size \in Nat
      /\ IsOrdered(list, size)
  BY DEF Inv, TypeOK, Ordered
<1>2. PICK lost \in {k * n : k \in 0 .. MaxSize} : size' = size + lost
  BY DEF AllocFail
<1>3. lost \in Nat
  <2>1. PICK k \in 0 .. MaxSize : lost = k * n
    OBVIOUS
  <2>2. k \in Nat /\ n \in Nat
    BY SizeAssumption
  <2>3. QED
    BY <2>1, <2>2, NatTimes, Zenon
<1>4. list' = list /\ held' = held
  BY DEF AllocFail
<1>5. size' \in Nat /\ size' >= size
  BY <1>1, <1>2, <1>3
<1>6. IsOrdered(list, size')
  <2>1. \A k \in 1 .. Len(list) : list[k].start \in Nat /\ list[k].length \in Nat
    BY <1>1, EntryFields, Zenon
  <2>2. \A k \in 1 .. Len(list) : list[k].start + list[k].length <= size'
    BY <1>1, <1>5, <2>1 DEF IsOrdered
  <2>3. QED
    BY <1>1, <2>2 DEF IsOrdered
<1>7. TypeOK'
  BY <1>4, <1>5 DEF Inv, TypeOK
<1>8. Ordered'
  BY <1>4, <1>6 DEF Ordered
<1>9. HeldIsInUse' /\ NoAdjacentFree'
  BY <1>4 DEF Inv, HeldIsInUse, NoAdjacentFree
<1>10. QED
  BY <1>7, <1>8, <1>9 DEF Inv

\* A region that is held is the region of an entry, and the release of its start
\* finds that entry and no other.
LEMMA HeldIsAt ==
  ASSUME Inv, NEW r \in held, NEW i \in 1 .. Len(list), IsAt(list, r.start, i)
  PROVE  r = RegionOf(list[i])
<1>1. list \in Seq(Entry) /\ size \in Nat /\ IsOrdered(list, size)
      /\ held = RegionsInUse(list)
  BY DEF Inv, TypeOK, Ordered, HeldIsInUse
<1>2. PICK j \in 1 .. Len(list) : r = RegionOf(list[j])
  BY <1>1 DEF RegionsInUse
<1>3. list[i].start = list[j].start
  BY <1>2 DEF IsAt, RegionOf
<1>4. i = j
  BY <1>1, <1>3, StartsDiffer, Zenon
<1>5. QED
  BY <1>2, <1>4

\* Somebody who holds a region finds an entry to release.
LEMMA HeldIsFound ==
  ASSUME Inv, NEW r \in held
  PROVE  \E i \in 1 .. Len(list) : IsAt(list, r.start, i)
<1>1. list \in Seq(Entry) /\ size \in Nat /\ IsOrdered(list, size)
      /\ held = RegionsInUse(list)
  BY DEF Inv, TypeOK, Ordered, HeldIsInUse
<1>2. PICK i \in 1 .. Len(list) : r = RegionOf(list[i])
  BY <1>1 DEF RegionsInUse
<1>3. list[i].start = r.start
  BY <1>2 DEF RegionOf
<1>4. ASSUME NEW j \in 1 .. i - 1
      PROVE  list[j].start # r.start
  <2>1. j \in 1 .. Len(list) /\ j # i
    BY <1>1
  <2>2. QED
    BY <1>1, <1>3, <2>1, StartsDiffer
<1>5. QED
  BY <1>3, <1>4 DEF IsAt

\* A release by a holder keeps the invariant.
LEMMA FreeInv ==
  ASSUME Inv, NEW r \in held, pfs_channel_free(r)
  PROVE  Inv'
<1>1. /\ list \in Seq(Entry) /\ size \in Nat
      /\ held \subseteq [start : Nat, length : Nat \ {0}]
      /\ IsOrdered(list, size) /\ HasNoAdjacentFree(list)
      /\ held = RegionsInUse(list)
  BY DEF Inv, TypeOK, Ordered, HeldIsInUse, NoAdjacentFree
<1>2. PICK i \in 1 .. Len(list) : IsAt(list, r.start, i) /\ list' = FreeAt(list, i)
  BY HeldIsFound DEF pfs_channel_free
<1>3. held' = held \ {r} /\ size' = size
  BY DEF pfs_channel_free
<1>4. r = RegionOf(list[i])
  BY <1>2, HeldIsAt
<1>5. /\ list' \in Seq(Entry) /\ Len(list') > 0
      /\ IsOrdered(list', size)
      /\ HasNoAdjacentFree(list')
      /\ RegionsInUse(list') = RegionsInUse(list) \ {RegionOf(list[i])}
  BY <1>1, <1>2, FreeAtKeepsList
<1>6. TypeOK'
  BY <1>1, <1>3, <1>5 DEF TypeOK
<1>7. Ordered' /\ NoAdjacentFree'
  BY <1>3, <1>5 DEF Ordered, NoAdjacentFree
<1>8. HeldIsInUse'
  BY <1>1, <1>3, <1>4, <1>5 DEF HeldIsInUse
<1>9. QED
  BY <1>6, <1>7, <1>8 DEF Inv

\* Every step keeps the invariant.
LEMMA NextInv ==
  ASSUME Inv, [ChannelNext]_channelVars
  PROVE  Inv'
<1>1. CASE UNCHANGED channelVars
  BY <1>1 DEF channelVars, Inv, TypeOK, Ordered, HeldIsInUse, NoAdjacentFree
<1>2. ASSUME NEW length \in Lengths, pfs_channel_alloc(length)
      PROVE  Inv'
  <2> DEFINE n == round_up(length)
  <2>1. n \in Nat \ {0}
    <3>1. length \in Nat
      BY SizeAssumption
    <3>2. QED
      BY <3>1, RoundUpPositive
  <2>2. AllocFit(n) \/ AllocNoMemory(n) \/ AllocExpand(n) \/ AllocFail(n)
    BY <1>2 DEF pfs_channel_alloc
  <2> HIDE DEF n
  <2>3. CASE AllocFit(n)
    BY <2>1, <2>3, AllocFitInv
  <2>4. CASE AllocNoMemory(n)
    BY <2>4 DEF AllocNoMemory, channelVars, Inv, TypeOK, Ordered, HeldIsInUse, NoAdjacentFree
  <2>5. CASE AllocExpand(n)
    BY <2>1, <2>5, AllocExpandInv
  <2>6. CASE AllocFail(n)
    BY <2>1, <2>6, AllocFailInv
  <2>7. QED
    BY <2>2, <2>3, <2>4, <2>5, <2>6
<1>3. ASSUME NEW r \in held, pfs_channel_free(r)
      PROVE  Inv'
  BY <1>3, FreeInv
<1>4. QED
  BY <1>1, <1>2, <1>3 DEF ChannelNext

\* The list of the channel stays well formed, ordered and fully joined, and
\* its entries in use are exactly the regions callers hold.
THEOREM InvHolds == ChannelSpec => []Inv
<1>1. ChannelInit => Inv
  BY InitInv
<1>2. Inv /\ [ChannelNext]_channelVars => Inv'
  BY NextInv
<1>3. QED
  BY <1>1, <1>2, PTL DEF ChannelSpec

\* The variables keep their types.
THEOREM TypeCorrect == ChannelSpec => []TypeOK
BY InvHolds, PTL DEF Inv

\* The entries stay one after the other inside the file.
THEOREM ListStaysOrdered == ChannelSpec => []Ordered
BY InvHolds, PTL DEF Inv

\* pfs_channel_alloc and pfs_channel_free keep the entries in use equal to the
\* regions callers hold, so a release never touches somebody else's bytes.
THEOREM HeldStaysInUse == ChannelSpec => []HeldIsInUse
BY InvHolds, PTL DEF Inv

\* pfs_channel_free joins all there is to join.
THEOREM FreeStaysJoined == ChannelSpec => []NoAdjacentFree
BY InvHolds, PTL DEF Inv

-----------------------------------------------------------------------------
(* Alignment.                                                                *)

\* PageAligned in the terms of the lemmas on lists.
LEMMA AlignedIsOnPage == PageAligned <=> OnPage(size) /\ EntriesOnPage(list)
BY DEF PageAligned, OnPage, EntriesOnPage

\* A number of times a length of whole pages is a natural on a page boundary.
LEMMA LostOnPage ==
  ASSUME NEW n \in Nat, OnPage(n), NEW lost \in {k * n : k \in 0 .. MaxSize}
  PROVE  lost \in Nat /\ OnPage(lost)
<1>1. PICK k \in 0 .. MaxSize : lost = k * n
  OBVIOUS
<1>2. k \in Nat
  BY SizeAssumption
<1>3. k * n \in Nat
  BY <1>2, NatTimes, Zenon
<1>4. OnPage(k * n)
  BY <1>2, TimesOnPage
<1>5. QED
  BY <1>1, <1>3, <1>4

\* Every step keeps the channel aligned: round_up makes every request a whole
\* number of pages, and splitting, joining and extending only add and subtract.
LEMMA NextAligned ==
  ASSUME Inv, PageAligned, [ChannelNext]_channelVars
  PROVE  PageAligned'
<1>0. /\ list \in Seq(Entry) /\ size \in Nat /\ IsOrdered(list, size)
      /\ OnPage(size) /\ EntriesOnPage(list)
  BY AlignedIsOnPage DEF Inv, TypeOK, Ordered
<1> SUFFICES OnPage(size') /\ EntriesOnPage(list')
  BY DEF PageAligned, OnPage, EntriesOnPage
<1>1. CASE UNCHANGED channelVars
  BY <1>0, <1>1 DEF channelVars
<1>2. ASSUME NEW length \in Lengths, pfs_channel_alloc(length)
      PROVE  OnPage(size') /\ EntriesOnPage(list')
  <2> DEFINE n == round_up(length)
  <2>1. n \in Nat \ {0} /\ OnPage(n)
    <3>1. length \in Nat
      BY SizeAssumption
    <3>2. QED
      BY <3>1, RoundUpPositive, RoundUpOnPage
  <2>2. AllocFit(n) \/ AllocNoMemory(n) \/ AllocExpand(n) \/ AllocFail(n)
    BY <1>2 DEF pfs_channel_alloc
  <2> HIDE DEF n
  <2>3. CASE AllocFit(n)
    <3>1. PICK i \in 1 .. Len(list) :
            Fits(list[i], n) /\ list' = Take(list, i, n) /\ size' = size
      BY <2>3 DEF AllocFit, IsFirstFit
    <3>2. EntriesOnPage(Take(list, i, n))
      BY <1>0, <2>1, <3>1, TakeOnPage
    <3>3. QED
      BY <1>0, <3>1, <3>2
  <2>4. CASE AllocNoMemory(n)
    BY <1>0, <2>4 DEF AllocNoMemory, channelVars
  <2>5. CASE AllocExpand(n)
    <3>1. PICK lost \in {k * n : k \in 0 .. MaxSize} :
            list' = Extend(list, size + lost, n) /\ size' = size + lost + n
      BY <2>5 DEF AllocExpand
    <3>2. lost \in Nat /\ OnPage(lost) /\ n \in Nat
      BY <2>1, LostOnPage
    <3>3. size + lost \in Nat /\ OnPage(size + lost)
      BY <1>0, <3>2, SumOnPage
    <3>4. OnPage(size + lost + n)
      BY <2>1, <3>2, <3>3, SumOnPage
    <3>5. EntriesOnPage(Extend(list, size + lost, n))
      BY <1>0, <2>1, <3>3, ExtendOnPage
    <3>6. QED
      BY <3>1, <3>4, <3>5
  <2>6. CASE AllocFail(n)
    <3>1. PICK lost \in {k * n : k \in 0 .. MaxSize} : size' = size + lost
      BY <2>6 DEF AllocFail
    <3>2. lost \in Nat /\ OnPage(lost)
      BY <2>1, LostOnPage
    <3>3. OnPage(size + lost)
      BY <1>0, <3>2, SumOnPage
    <3>4. list' = list
      BY <2>6 DEF AllocFail
    <3>5. QED
      BY <1>0, <3>1, <3>3, <3>4
  <2>7. QED
    BY <2>2, <2>3, <2>4, <2>5, <2>6
<1>3. ASSUME NEW r \in held, pfs_channel_free(r)
      PROVE  OnPage(size') /\ EntriesOnPage(list')
  <2>1. size' = size
    BY <1>3 DEF pfs_channel_free
  <2>2. list' = list \/ \E i \in 1 .. Len(list) : list' = FreeAt(list, i)
    BY <1>3 DEF pfs_channel_free
  <2>3. \A i \in 1 .. Len(list) : EntriesOnPage(FreeAt(list, i))
    BY <1>0, FreeAtOnPage
  <2>4. QED
    BY <1>0, <2>1, <2>2, <2>3
<1>4. QED
  BY <1>1, <1>2, <1>3 DEF ChannelNext

\* The list of pfs_channel.c stays sound: typed, in order, with its free
\* neighbours joined, and with every offset, length and the size of the file on
\* a page boundary, however allocations and releases interleave.
THEOREM ListStaysSound == ChannelSpec => []ListSound
<1>1. ChannelInit => PageAligned
  <2> SUFFICES ASSUME ChannelInit PROVE PageAligned
    OBVIOUS
  <2>1. InitSize \in Nat /\ InitSize % PageSize = 0 /\ 0 % PageSize = 0
    BY SizeAssumption, PageSizeAssumption
  <2>2. size = InitSize /\ Len(list) = 1 /\ list[1].start = 0 /\ list[1].length = InitSize
    BY DEF ChannelInit
  <2>3. QED
    BY <2>1, <2>2 DEF PageAligned
<1>2. Inv /\ PageAligned /\ [ChannelNext]_channelVars => PageAligned'
  BY NextAligned
<1>3. Inv /\ PageAligned => ListSound
  BY DEF Inv, ListSound
<1>4. QED
  BY <1>1, <1>2, <1>3, InvHolds, PTL DEF ChannelSpec

-----------------------------------------------------------------------------
(* Growth.                                                                   *)

\* The file grows in a step only because no run of free bytes was long enough.
LEMMA NextGrowsWhenFull ==
  ASSUME Inv, ChannelNext
  PROVE  /\ size' >= size
         /\ size' # size =>
              \A r \in held' \ held : \A at \in 0 .. size :
                ~(at .. at + r.length - 1 \subseteq FreeBytes)
<1>0. /\ list \in Seq(Entry) /\ size \in Nat /\ IsOrdered(list, size)
      /\ HasNoAdjacentFree(list)
  BY DEF Inv, TypeOK, Ordered, NoAdjacentFree
<1>1. ASSUME NEW r \in held, pfs_channel_free(r)
      PROVE  size' = size
  BY <1>1 DEF pfs_channel_free
<1>2. ASSUME NEW n \in Nat \ {0}, ~HasFit(list, n), NEW at \in 0 .. size,
             at .. at + n - 1 \subseteq FreeBytes
      PROVE  FALSE
  <2>1. ASSUME NEW b \in at .. at + n - 1
        PROVE  \E i \in 1 .. Len(list) :
                 /\ ~list[i].inuse
                 /\ list[i].start <= b /\ b < list[i].start + list[i].length
    <3>1. b \in FreeBytes
      BY <1>2
    <3>2. PICK i \in 1 .. Len(list) :
            ~list[i].inuse /\ b \in list[i].start .. list[i].start + list[i].length - 1
      BY <3>1 DEF FreeBytes
    <3>3. list[i].start \in Nat /\ list[i].length \in Nat
      BY <1>0, EntryFields, Zenon
    <3>4. list[i].start <= b /\ b < list[i].start + list[i].length
      BY <3>2, <3>3
    <3>5. QED
      BY <3>2, <3>4
  <2>2. at \in Nat
    BY <1>0
  <2>3. HasFit(list, n)
    BY <1>0, <2>1, <2>2, RowInOneEntry, Zenon
  <2>4. QED
    BY <1>2, <2>3
<1>3. ASSUME NEW length \in Lengths, pfs_channel_alloc(length)
      PROVE  /\ size' >= size
             /\ size' # size =>
                  \A r \in held' \ held : \A at \in 0 .. size :
                    ~(at .. at + r.length - 1 \subseteq FreeBytes)
  <2> DEFINE n == round_up(length)
  <2>1. n \in Nat \ {0}
    <3>1. length \in Nat
      BY SizeAssumption
    <3>2. QED
      BY <3>1, RoundUpPositive
  <2>2. AllocFit(n) \/ AllocNoMemory(n) \/ AllocExpand(n) \/ AllocFail(n)
    BY <1>3 DEF pfs_channel_alloc
  <2> HIDE DEF n
  <2>3. CASE AllocFit(n) \/ AllocNoMemory(n)
    BY <1>0, <2>3 DEF AllocFit, AllocNoMemory, channelVars
  <2>4. \A lost \in {k * n : k \in 0 .. MaxSize} : lost \in Nat
    <3>1. \A k \in 0 .. MaxSize : k \in Nat
      BY SizeAssumption
    <3>2. n \in Nat
      BY <2>1
    <3>3. QED
      BY <3>1, <3>2, NatTimes, Zenon
  <2>5. CASE AllocExpand(n)
    <3>1. PICK lost \in {k * n : k \in 0 .. MaxSize} :
            /\ size' = size + lost + n
            /\ held' = held \cup {[start |-> size + lost, length |-> n]}
      BY <2>5 DEF AllocExpand
    <3>2. ~HasFit(list, n)
      BY <2>5 DEF AllocExpand
    <3>3. size' >= size
      BY <1>0, <2>1, <2>4, <3>1
    <3>4. \A r \in held' \ held : r.length = n
      BY <3>1
    <3>5. QED
      BY <1>2, <2>1, <3>2, <3>3, <3>4
  <2>6. CASE AllocFail(n)
    <3>1. PICK lost \in {k * n : k \in 0 .. MaxSize} : size' = size + lost
      BY <2>6 DEF AllocFail
    <3>2. size' >= size
      <4>1. lost \in Nat
        BY <2>4
      <4>2. QED
        BY <1>0, <3>1, <4>1
    <3>3. held' = held
      BY <2>6 DEF AllocFail
    <3>4. QED
      BY <3>2, <3>3
  <2>7. QED
    BY <2>2, <2>3, <2>5, <2>6
<1>4. QED
  BY <1>0, <1>1, <1>3 DEF ChannelNext

\* pfs_channel_alloc extends the file only when no run of free bytes in it is as
\* long as the request: first fit finds any room that splitting and joining left.
THEOREM GrowthIsNeeded == ChannelSpec => GrowsOnlyWhenFull
<1>1. Inv /\ [ChannelNext]_channelVars =>
        [/\ size' >= size
         /\ size' # size =>
              \A r \in held' \ held : \A at \in 0 .. size :
                ~(at .. at + r.length - 1 \subseteq FreeBytes)]_channelVars
  BY NextGrowsWhenFull
<1>2. QED
  BY <1>1, InvHolds, PTL DEF ChannelSpec, GrowsOnlyWhenFull

-----------------------------------------------------------------------------
(* Refinement.                                                               *)

\* Two entries of an ordered list overlap in no byte, and neither do parts of
\* them.
LEMMA PartsDisjoint ==
  ASSUME NEW l \in Seq(Entry), NEW sz \in Nat, IsOrdered(l, sz),
         NEW i \in 1 .. Len(l), NEW j \in 1 .. Len(l), i # j,
         NEW n \in Nat, n <= l[i].length
  PROVE  Promise!Disjoint([start |-> l[i].start, length |-> n], RegionOf(l[j]))
<1>1. /\ l[i].start \in Nat /\ l[i].length \in Nat
      /\ l[j].start \in Nat /\ l[j].length \in Nat
  BY EntryFields, Zenon
<1>2. CASE i < j
  <2>1. l[i].start + l[i].length <= l[j].start
    BY <1>2 DEF IsOrdered
  <2>2. l[i].start + n <= l[j].start
    BY <1>1, <2>1
  <2>3. QED
    BY <2>2 DEF Promise!Disjoint, RegionOf
<1>3. CASE j < i
  <2>1. l[j].start + l[j].length <= l[i].start
    BY <1>3 DEF IsOrdered
  <2>2. QED
    BY <2>1 DEF Promise!Disjoint, RegionOf
<1>4. QED
  BY <1>2, <1>3

\* An allocation of the list is an allocation of the abstract channel.
LEMMA AllocFitImplements ==
  ASSUME Inv, NEW n \in Nat \ {0}, AllocFit(n)
  PROVE  Promise!Alloc
<1>1. /\ list \in Seq(Entry) /\ size \in Nat /\ IsOrdered(list, size)
      /\ held = RegionsInUse(list)
  BY DEF Inv, TypeOK, Ordered, HeldIsInUse
<1>2. PICK i \in 1 .. Len(list) :
        /\ Fits(list[i], n)
        /\ held' = held \cup {[start |-> list[i].start, length |-> n]}
        /\ size' = size
  BY DEF AllocFit, IsFirstFit
<1> DEFINE r == [start |-> list[i].start, length |-> n]
<1>3. /\ list[i].start \in Nat /\ list[i].length \in Nat
      /\ ~list[i].inuse /\ n <= list[i].length
  BY <1>1, <1>2, EntryFields, Zenon DEF Fits
<1>4. r \in held' /\ r \in Promise!Region /\ held' = held \cup {r}
  BY <1>2, <1>3 DEF Promise!Region
<1>5. r.start + r.length <= size'
  <2>1. list[i].start + list[i].length <= size
    BY <1>1 DEF IsOrdered
  <2>2. list[i].start + n <= size
    BY <1>1, <1>3, <2>1
  <2>3. QED
    BY <1>2, <2>2
<1>6. ASSUME NEW s \in held
      PROVE  Promise!Disjoint(r, s)
  <2>1. PICK j \in 1 .. Len(list) : list[j].inuse /\ s = RegionOf(list[j])
    BY <1>1 DEF RegionsInUse
  <2>2. i # j
    BY <1>3, <2>1
  <2>3. n \in Nat
    OBVIOUS
  <2>4. Promise!Disjoint(r, RegionOf(list[j]))
    BY <1>1, <1>3, <2>2, <2>3, PartsDisjoint, Zenon
  <2>5. QED
    BY <2>1, <2>4
<1> HIDE DEF r
<1>7. size' \in Nat /\ size' >= size
  BY <1>1, <1>2
<1>8. QED
  BY <1>4, <1>5, <1>6, <1>7, Zenon DEF Promise!Alloc

\* So is one that extends the file.
LEMMA AllocExpandImplements ==
  ASSUME Inv, NEW n \in Nat \ {0}, AllocExpand(n)
  PROVE  Promise!Alloc
<1>1. /\ list \in Seq(Entry) /\ size \in Nat /\ IsOrdered(list, size)
      /\ held = RegionsInUse(list)
  BY DEF Inv, TypeOK, Ordered, HeldIsInUse
<1>2. PICK lost \in {k * n : k \in 0 .. MaxSize} :
        /\ size' = size + lost + n
        /\ held' = held \cup {[start |-> size + lost, length |-> n]}
  BY DEF AllocExpand
<1>3. lost \in Nat
  <2>1. PICK k \in 0 .. MaxSize : lost = k * n
    OBVIOUS
  <2>2. k \in Nat /\ n \in Nat
    BY SizeAssumption
  <2>3. QED
    BY <2>1, <2>2, NatTimes, Zenon
<1> DEFINE r == [start |-> size + lost, length |-> n]
<1>4. size + lost \in Nat /\ size <= size + lost
  BY <1>1, <1>3
<1>5. r \in held' /\ r \in Promise!Region /\ held' = held \cup {r}
  BY <1>2, <1>4 DEF Promise!Region
<1>6. r.start + r.length <= size' /\ size' \in Nat /\ size' >= size
  BY <1>1, <1>2, <1>3
<1>7. ASSUME NEW s \in held
      PROVE  Promise!Disjoint(r, s)
  <2>1. PICK j \in 1 .. Len(list) : s = RegionOf(list[j])
    BY <1>1 DEF RegionsInUse
  <2>2. list[j].start \in Nat /\ list[j].length \in Nat
    BY <1>1, EntryFields, Zenon
  <2>3. list[j].start + list[j].length <= size
    BY <1>1 DEF IsOrdered
  <2>4. list[j].start + list[j].length <= size + lost
    BY <1>1, <1>3, <2>2, <2>3
  <2>5. QED
    BY <2>1, <2>4 DEF Promise!Disjoint, RegionOf
<1> HIDE DEF r
<1>8. QED
  BY <1>5, <1>6, <1>7, Zenon DEF Promise!Alloc

\* A failed allocation at most grows the abstract file.
LEMMA AllocFailImplements ==
  ASSUME Inv, NEW n \in Nat \ {0}, AllocFail(n)
  PROVE  Promise!Alloc
<1>1. PICK lost \in {k * n : k \in 0 .. MaxSize} : size' = size + lost
  BY DEF AllocFail
<1>2. lost \in Nat
  <2>1. PICK k \in 0 .. MaxSize : lost = k * n
    OBVIOUS
  <2>2. k \in Nat /\ n \in Nat
    BY SizeAssumption
  <2>3. QED
    BY <2>1, <2>2, NatTimes, Zenon
<1>3. size' \in Nat /\ size' >= size
  BY <1>1, <1>2 DEF Inv, TypeOK
<1>4. held' = held
  BY DEF AllocFail
<1>5. QED
  BY <1>3, <1>4 DEF Promise!Alloc

\* The list keeps what the channel promises its callers: allocations are
\* disjoint from everything held and inside the file, and no call disturbs the
\* region of another caller.
THEOREM ListImplementsChannel == ChannelSpec => ImplementsAbs
<1>1. ChannelInit => Promise!Init
  <2> SUFFICES ASSUME ChannelInit PROVE Promise!Init
    OBVIOUS
  <2>1. size \in Nat /\ held = {}
    BY SizeAssumption DEF ChannelInit
  <2>2. QED
    BY <2>1 DEF Promise!Init
<1>2. Inv /\ [ChannelNext]_channelVars => [Promise!Next]_<<size, held>>
  <2> SUFFICES ASSUME Inv, [ChannelNext]_channelVars
               PROVE  Promise!Next \/ UNCHANGED <<size, held>>
    OBVIOUS
  <2>1. CASE UNCHANGED channelVars
    BY <2>1 DEF channelVars
  <2>2. ASSUME NEW length \in Lengths, pfs_channel_alloc(length)
        PROVE  Promise!Next \/ UNCHANGED <<size, held>>
    <3> DEFINE n == round_up(length)
    <3>1. n \in Nat \ {0}
      <4>1. length \in Nat
        BY SizeAssumption
      <4>2. QED
        BY <4>1, RoundUpPositive
    <3>2. AllocFit(n) \/ AllocNoMemory(n) \/ AllocExpand(n) \/ AllocFail(n)
      BY <2>2 DEF pfs_channel_alloc
    <3> HIDE DEF n
    <3>3. CASE AllocNoMemory(n)
      BY <3>3 DEF AllocNoMemory, channelVars
    <3>4. CASE AllocFit(n) \/ AllocExpand(n) \/ AllocFail(n)
      <4>1. Promise!Alloc
        BY <3>1, <3>4, AllocFitImplements, AllocExpandImplements, AllocFailImplements
      <4>2. QED
        BY <4>1 DEF Promise!Next
    <3>5. QED
      BY <3>2, <3>3, <3>4
  <2>3. ASSUME NEW r \in held, pfs_channel_free(r)
        PROVE  Promise!Next
    BY <2>3 DEF pfs_channel_free, Promise!Next, Promise!Free
  <2>4. QED
    BY <2>1, <2>2, <2>3 DEF ChannelNext
<1>3. QED
  BY <1>1, <1>2, InvHolds, PTL DEF ChannelSpec, ImplementsAbs, Promise!Spec

=============================================================================
