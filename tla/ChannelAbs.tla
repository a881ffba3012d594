----------------------------- MODULE ChannelAbs ------------------------------
(***************************************************************************)
(* What the I/O channel promises its callers, without the list: a growing  *)
(* file of which callers own regions.  An allocation gives out a region    *)
(* inside the file that overlaps no region already given out, and neither  *)
(* an allocation nor a release moves, resizes or drops another region.     *)
(***************************************************************************)
EXTENDS Integers

VARIABLES
  size,    \* length of the channel file
  held     \* regions owned by callers

Region == [start : Nat, length : Nat \ {0}]

Disjoint(r, s) ==
  r.start + r.length <= s.start \/ s.start + s.length <= r.start

Init == size \in Nat /\ held = {}

Alloc ==
  /\ size' \in Nat /\ size' >= size
  /\ \/ UNCHANGED held
     \/ \E r \in held' :
          /\ r \in Region
          /\ r.start + r.length <= size'
          /\ \A s \in held : Disjoint(r, s)
          /\ held' = held \cup {r}

Free == \E r \in held : held' = held \ {r} /\ UNCHANGED size

Next == Alloc \/ Free

Spec == Init /\ [][Next]_<<size, held>>

=============================================================================
