------------------------------- MODULE Channel -------------------------------
(***************************************************************************)
(* The allocator of the I/O channel (parrot/src/pfs_channel.c) with        *)
(* callers that release exactly what they were given.  Dispatch.tla models *)
(* the real callers.                                                       *)
(***************************************************************************)
EXTENDS ChannelList

CONSTANTS
  InitSize,   \* size given to pfs_channel_init
  MaxSize,    \* bound of the model: the channel never grows past it
  Lengths     \* lengths callers ask for

\* main calls pfs_channel_init with a whole number of megabytes, which is a
\* whole number of pages.
ASSUME SizeAssumption ==
  /\ InitSize \in Nat \ {0} /\ InitSize % PageSize = 0
  /\ MaxSize \in Nat
  /\ Lengths \subseteq Nat

VARIABLES
  list,    \* the circular list from `head' on
  size,    \* channel_size
  held     \* regions given to callers and not released yet

channelVars == <<list, size, held>>

\* pfs_channel_init
ChannelInit ==
  /\ list = <<[start |-> 0, length |-> InitSize, inuse |-> FALSE]>>
  /\ size = InitSize
  /\ held = {}

\* pfs_channel_alloc, when the search finds an entry.
AllocFit(n) ==
  \E i \in 1 .. Len(list) :
    /\ IsFirstFit(list, n, i)
    /\ list' = Take(list, i, n)
    /\ held' = held \cup {[start |-> list[i].start, length |-> n]}
    /\ UNCHANGED size

\* The same, but malloc of the entry that splits the found one fails.
AllocNoMemory(n) ==
  /\ \E i \in 1 .. Len(list) : IsFirstFit(list, n, i) /\ list[i].length > n
  /\ UNCHANGED channelVars

\* Mutant of AllocExpand: channel_size is not brought up to date.
AllocExpandOldSize(n) ==
  /\ ~HasFit(list, n)
  /\ \E lost \in {k * n : k \in 0 .. MaxSize} :
       /\ size + lost + n <= MaxSize
       /\ list' = Extend(list, size + lost, n)
       /\ size' = size + lost
       /\ held' = held \cup {[start |-> size + lost, length |-> n]}

\* No entry fits, and the file is extended.  The result of entry_create is not
\* tested: each time its malloc fails the n bytes are lost, since channel_size
\* grows all the same, and the recursive call extends the file once more.
AllocExpand(n) ==
  /\ ~HasFit(list, n)
  /\ \E lost \in {k * n : k \in 0 .. MaxSize} :
       /\ size + lost + n <= MaxSize
       /\ list' = Extend(list, size + lost, n)
       /\ size' = size + lost + n
       /\ held' = held \cup {[start |-> size + lost, length |-> n]}

\* No entry fits, and ftruncate64 or mremap fails, at once or after extensions
\* whose entry was lost.
AllocFail(n) ==
  /\ ~HasFit(list, n)
  /\ \E lost \in {k * n : k \in 0 .. MaxSize} :
       /\ size + lost <= MaxSize
       /\ size' = size + lost
  /\ UNCHANGED <<list, held>>

pfs_channel_alloc(length) ==
  LET n == round_up(length)
  IN  AllocFit(n) \/ AllocNoMemory(n) \/ AllocExpand(n) \/ AllocFail(n)

\* pfs_channel_free(r.start), by the caller that holds r.
pfs_channel_free(r) ==
  /\ held' = held \ {r}
  /\ \/ \E i \in 1 .. Len(list) :
          IsAt(list, r.start, i) /\ list' = FreeAt(list, i)
     \/ ~(\E i \in 1 .. Len(list) : IsAt(list, r.start, i)) /\ UNCHANGED list
  /\ UNCHANGED size

ChannelNext ==
  \/ \E length \in Lengths : pfs_channel_alloc(length)
  \/ \E r \in held : pfs_channel_free(r)

ChannelSpec == ChannelInit /\ [][ChannelNext]_channelVars

-----------------------------------------------------------------------------
\* The variables have their types, and the list is never empty.
TypeOK ==
  /\ list \in Seq(Entry) /\ Len(list) > 0
  /\ size \in Nat
  /\ held \subseteq [start : Nat, length : Nat \ {0}]

\* The entries lie one after the other inside the file: head is the one at
\* offset 0, and no entry reaches into the next one or past the end.  The
\* neighbour tests of pfs_channel_free (e->prev->start < e->start) and the
\* choice of `tail' in pfs_channel_alloc rely on this order.
Ordered == IsOrdered(list, size)

\* The entries in use are exactly the regions callers hold, byte for byte:
\* no release of one region frees, moves or resizes another.
HeldIsInUse == held = RegionsInUse(list)

\* pfs_channel_free joins a released entry with its free neighbours, so no two
\* free entries are ever next to each other, however calls interleave.
NoAdjacentFree == HasNoAdjacentFree(list)

\* Every offset, length and the size of the file stay multiples of the page
\* size: the mapped files that share the channel need page-aligned regions.
PageAligned ==
  /\ size % PageSize = 0
  /\ \A i \in 1 .. Len(list) :
       list[i].start % PageSize = 0 /\ list[i].length % PageSize = 0

\* However calls interleave, the list of pfs_channel.c is sound: typed, in
\* order, aligned, and with its free neighbours joined.
ListSound == TypeOK /\ Ordered /\ NoAdjacentFree /\ PageAligned

\* The file never shrinks, and it grows for an allocation only when no n
\* consecutive free bytes are left in it, whatever was split and joined before:
\* first fit and coalescing together never miss room that is there.
FreeBytes ==
  UNION {list[i].start .. list[i].start + list[i].length - 1 :
           i \in {j \in 1 .. Len(list) : ~list[j].inuse}}

GrowsOnlyWhenFull ==
  [][/\ size' >= size
     /\ size' # size =>
          \A r \in held' \ held : \A at \in 0 .. size :
            ~(at .. at + r.length - 1 \subseteq FreeBytes)]_channelVars

\* The list implements the promise made to callers.
Promise == INSTANCE ChannelAbs
ImplementsAbs == Promise!Spec

=============================================================================
