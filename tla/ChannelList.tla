----------------------------- MODULE ChannelList -----------------------------
(***************************************************************************)
(* The block list of the I/O channel (parrot/src/pfs_channel.c).           *)
(*                                                                         *)
(* The channel is one temporary file, mapped by Murphy and opened by every *)
(* traced process, through which the data of reads and writes is passed.   *)
(* pfs_channel.c keeps a circular doubly linked list of entries (start,    *)
(* length, inuse).  A list is modelled here as the sequence of its entries *)
(* from `head' on; e->next of the last entry and e->prev of the first one  *)
(* wrap around as they do in the code.                                     *)
(*                                                                         *)
(* The operators are pure: Channel and Dispatch apply them to their state. *)
(***************************************************************************)
EXTENDS Integers, Sequences

CONSTANT PageSize    \* sysconf(_SC_PAGE_SIZE)

ASSUME PageSizeAssumption == PageSize \in Nat \ {0}

\* struct entry, without the links that the sequence order stands for.
Entry == [start : Nat, length : Nat \ {0}, inuse : BOOLEAN]

\* Mutants of round_up: without the minimum of one page; rounding by adding a
\* page to the length instead of rounding to the next multiple.
round_up_noMinimum(x) ==
  IF x % PageSize # 0 THEN PageSize * ((x \div PageSize) + 1) ELSE x

round_up_addPage(x) ==
  IF x % PageSize # 0 \/ x = 0 THEN x + PageSize ELSE x

\* The smallest positive multiple of the page size that is at least x.
round_up(x) ==
  LET y == IF x % PageSize # 0 THEN PageSize * ((x \div PageSize) + 1) ELSE x
  IN  IF y <= 0 THEN PageSize ELSE y

\* e->prev and e->next, as positions in the circular list.
Prev(l, i) == IF i = 1 THEN Len(l) ELSE i - 1
Next_(l, i) == IF i = Len(l) THEN 1 ELSE i + 1

\* Linking an entry in so that it is the i-th, and unlinking the i-th.
entry_create(l, i, e) == SubSeq(l, 1, i - 1) \o <<e>> \o SubSeq(l, i, Len(l))
entry_delete(l, i) == SubSeq(l, 1, i - 1) \o SubSeq(l, i + 1, Len(l))

-----------------------------------------------------------------------------
\* pfs_channel_alloc

\* Mutant of Fits: an entry of exactly n bytes is passed over.
FitsStrictly(e, n) == ~e.inuse /\ e.length > n

Fits(e, n) == ~e.inuse /\ e.length >= n

\* The first entry, from head on, that the search loop stops at.
IsFirstFit(l, n, i) ==
  /\ i \in 1 .. Len(l)
  /\ Fits(l[i], n)
  /\ \A j \in 1 .. i - 1 : ~Fits(l[j], n)

HasFit(l, n) == \E i \in 1 .. Len(l) : Fits(l[i], n)

\* Mutant of Take: the entry that is split off is linked in on the wrong side.
TakeLinkBefore(l, i, n) ==
  LET e     == l[i]
      taken == [start |-> e.start, length |-> n, inuse |-> TRUE]
      rest  == [start |-> e.start + n, length |-> e.length - n, inuse |-> FALSE]
      l1    == [l EXCEPT ![i] = taken]
  IN  IF e.length = n THEN l1 ELSE entry_create(l1, i, rest)

\* Take entry i for n bytes: whole when it is exactly n long, otherwise its
\* first n bytes, the rest becoming a free entry that follows it.
Take(l, i, n) ==
  LET e     == l[i]
      taken == [start |-> e.start, length |-> n, inuse |-> TRUE]
      rest  == [start |-> e.start + n, length |-> e.length - n, inuse |-> FALSE]
      l1    == [l EXCEPT ![i] = taken]
  IN  IF e.length = n THEN l1 ELSE entry_create(l1, i + 1, rest)

\* The channel grown by an entry of n bytes at offset at, which the recursive
\* call of pfs_channel_alloc takes at once.
Extend(l, at, n) ==
  Append(l, [start |-> at, length |-> n, inuse |-> TRUE])

-----------------------------------------------------------------------------
\* pfs_channel_free

\* Join entry i with the free entry before it.
MergesPrev(l, i) ==
  l[Prev(l, i)].start < l[i].start /\ ~l[Prev(l, i)].inuse

MergePrev(l, i) ==
  LET p == l[Prev(l, i)]
  IN  entry_delete([l EXCEPT ![Prev(l, i)] = [start  |-> p.start,
                                          length |-> p.length + l[i].length,
                                          inuse  |-> p.inuse]], i)

\* Mutant of MergesNext: the next entry is not tested for being in use.
MergesNextAlways(l, i) == l[Next_(l, i)].start > l[i].start

\* Join entry i with the free entry after it.
MergesNext(l, i) ==
  l[Next_(l, i)].start > l[i].start /\ ~l[Next_(l, i)].inuse

MergeNext(l, i) ==
  LET n == l[Next_(l, i)]
  IN  entry_delete([l EXCEPT ![Next_(l, i)] = [start  |-> l[i].start,
                                           length |-> n.length + l[i].length,
                                           inuse  |-> n.inuse]], i)

CoalesceNext(l, i) == IF MergesNext(l, i) THEN MergeNext(l, i) ELSE l

\* Mutant of Coalesce: an entry joined with the one before it is not joined
\* with the one after it as well.
CoalesceOnce(l, i) ==
  IF MergesPrev(l, i) THEN MergePrev(l, i) ELSE CoalesceNext(l, i)

Coalesce(l, i) ==
  IF MergesPrev(l, i) THEN CoalesceNext(MergePrev(l, i), i - 1)
                      ELSE CoalesceNext(l, i)

\* pfs_channel_free(start) looks at starts only: it releases whatever entry
\* begins there, in use or not, and does nothing when there is none.
IsAt(l, s, i) ==
  i \in 1 .. Len(l) /\ l[i].start = s /\ \A j \in 1 .. i - 1 : l[j].start # s

Released(l, i) ==
  [l EXCEPT ![i] = [start |-> l[i].start, length |-> l[i].length, inuse |-> FALSE]]

FreeAt(l, i) == Coalesce(Released(l, i), i)

-----------------------------------------------------------------------------
\* What a list has to satisfy, for the properties of the modules that use it.

RegionOf(e) == [start |-> e.start, length |-> e.length]

RegionsInUse(l) == {RegionOf(l[i]) : i \in {j \in 1 .. Len(l) : l[j].inuse}}

\* head is the entry at offset 0, every entry ends before every later one
\* begins, and none reaches past the end of a file of sz bytes.
IsOrdered(l, sz) ==
  /\ l[1].start = 0
  /\ \A i, j \in 1 .. Len(l) : i < j => l[i].start + l[i].length <= l[j].start
  /\ \A i \in 1 .. Len(l) : l[i].start + l[i].length <= sz

HasNoAdjacentFree(l) ==
  \A i \in 1 .. Len(l) - 1 : l[i].inuse \/ l[i + 1].inuse

=============================================================================
