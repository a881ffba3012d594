----------------------------- MODULE FdTableAbs -----------------------------
(***************************************************************************)
(* What the descriptors promise to the traced processes, without counts.   *)
(* A process uses a space of descriptors, alone or with others.  A         *)
(* descriptor names an open file, which has a position that all its        *)
(* descriptors share and which exists as long as some descriptor names it. *)
(***************************************************************************)
EXTENDS Integers

CONSTANTS Procs, Tables, Fds, Objs, Null, Gone

VARIABLES
  space,     \* space -> descriptor -> open file
  keep,      \* space -> descriptors that survive an exec
  position,  \* open file -> its position
  dir,       \* space -> working directory
  uses       \* process -> space

absvars == <<space, keep, position, dir, uses>>

Named(sp) == {sp[t][fd] : t \in Tables, fd \in Fds} \ {Null}
Lowest(sp, t, from) ==
  CHOOSE fd \in Fds : /\ fd >= from /\ sp[t][fd] = Null
                      /\ \A g \in Fds : g >= from /\ sp[t][g] = Null => fd <= g
HasFree(sp, t, from) == \E fd \in Fds : fd >= from /\ sp[t][fd] = Null

(* Open files exist just as long as they are named; one that stays keeps   *)
(* its position.                                                           *)
FilesFollow ==
  \A o \in Objs :
    /\ o \in Named(space') <=> position'[o] # Gone
    /\ o \in Named(space) \cap Named(space') => position'[o] = position[o]

(* New open files, one or two, at the lowest free descriptors.             *)
Fills(t, S) ==
  /\ \A fd \in S : \A g \in 0 .. fd : g \in S \/ space[t][g] # Null
  /\ \A fd \in Fds \ S : space'[t][fd] = space[t][fd]
  /\ \A fd \in S : /\ space[t][fd] = Null
                   /\ space'[t][fd] \in Objs \ Named(space)
                   /\ \A g \in S : g # fd => space'[t][g] # space'[t][fd]

Opens(t) ==
  /\ \E fd, g \in Fds : Fills(t, {fd, g})
  /\ \A s \in Tables \ {t} : space'[s] = space[s] /\ keep'[s] = keep[s]
  /\ keep[t] \subseteq keep'[t]
  /\ FilesFollow
  /\ UNCHANGED <<dir, uses>>

(* Some descriptors are given up; all that an exec finds marked, or one.   *)
Closes(t, S) ==
  /\ space' = [space EXCEPT ![t] = [fd \in Fds |-> IF fd \in S THEN Null ELSE @[fd]]]
  /\ keep' = [keep EXCEPT ![t] = @ \cup S]
  /\ FilesFollow
  /\ UNCHANGED <<dir, uses>>

(* nfd comes to name what ofd names.                                       *)
Dups(t, ofd, nfd) ==
  /\ space[t][ofd] # Null
  /\ space' = [space EXCEPT ![t][nfd] = space[t][ofd]]
  /\ keep' = [keep EXCEPT ![t] = @ \cup {nfd}]
  /\ FilesFollow
  /\ UNCHANGED <<dir, uses>>

DupsLowest(t) ==
  \E from, ofd \in Fds : HasFree(space, t, from) /\ Dups(t, ofd, Lowest(space, t, from))

(* A position moves only through a descriptor of the space.                *)
Moves(t) ==
  /\ \E fd \in Fds :
       /\ space[t][fd] # Null
       /\ position' = [position EXCEPT ![space[t][fd]] = position'[space[t][fd]]]
       /\ position'[space[t][fd]] \in Nat
  /\ UNCHANGED <<space, keep, dir, uses>>

Marks(t) ==
  /\ \E fd \in Fds : \E S \in SUBSET {fd} : keep' = [keep EXCEPT ![t] = (@ \ {fd}) \cup S]
  /\ UNCHANGED <<space, position, dir, uses>>

GoesTo(t) ==
  /\ \A s \in Tables \ {t} : dir'[s] = dir[s]
  /\ UNCHANGED <<space, keep, position, uses>>

(* A new process has a copy of the space, or uses it too.                  *)
Copies(p) ==
  /\ \E q \in Procs, t \in Tables :
       /\ uses[q] = Null /\ \A r \in Procs : uses[r] # t
       /\ uses' = [uses EXCEPT ![q] = t]
       /\ space' = [space EXCEPT ![t] = space[uses[p]]]
       /\ keep' = [keep EXCEPT ![t] = keep[uses[p]]]
       /\ dir' = [dir EXCEPT ![t] = dir[uses[p]]]
  /\ UNCHANGED position

Joins(p) ==
  /\ \E q \in Procs : uses[q] = Null /\ uses' = [uses EXCEPT ![q] = uses[p]]
  /\ UNCHANGED <<space, keep, position, dir>>

(* A process leaves; with the last one the descriptors of a space go.      *)
Leaves(p) ==
  LET S == IF \E q \in Procs \ {p} : uses[q] = uses[p] THEN {} ELSE Fds
  IN  /\ uses' = [uses EXCEPT ![p] = Null]
      /\ space' = [space EXCEPT ![uses[p]] =
                     [fd \in Fds |-> IF fd \in S THEN Null ELSE @[fd]]]
      /\ keep' = [keep EXCEPT ![uses[p]] = @ \cup S]
      /\ FilesFollow
      /\ UNCHANGED dir

AbsInit ==
  /\ \A o \in Objs : o \in Named(space) <=> position[o] # Gone
  /\ \A t \in Tables : keep[t] = Fds
  /\ \A t \in Tables : (\A p \in Procs : uses[p] # t) => \A fd \in Fds : space[t][fd] = Null

AbsNext ==
  \E p \in Procs :
    /\ uses[p] # Null
    /\ LET t == uses[p]
       IN  \/ Opens(t) \/ DupsLowest(t) \/ Moves(t) \/ Marks(t) \/ GoesTo(t)
           \/ \E fd \in Fds : Closes(t, {fd}) \/ \E g \in Fds : Dups(t, fd, g)
           \/ Closes(t, Fds \ keep[t])
           \/ Copies(p) \/ Joins(p) \/ Leaves(p)

AbsSpec == AbsInit /\ [][AbsNext]_absvars
============================================================================
