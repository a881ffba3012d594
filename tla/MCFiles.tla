------------------------------ MODULE MCFiles ------------------------------
(* FileCache and Grow for TLC.  Each behaviour is one of one of them; the  *)
(* other one stays where it began.                                         *)
EXTENDS FileCache, Grow

CONSTANTS m, n

Setting(session, murphys, writers, flags, faults) ==
  [session |-> session, murphys |-> murphys, writers |-> writers, flags |-> flags,
   faults |-> faults]

Reads == Setting(FALSE, {m, n}, {}, {}, {"crash", "error"})
Crowd == Setting(FALSE, Murphys, {}, {}, {})
Retries == Setting(FALSE, {m, n}, {}, {}, {"inconsistent"})
Sessions == Setting(TRUE, {m}, {m}, {"read", "create"}, {"error", "unlink"})
Writes == Setting(FALSE, {m, n}, {m}, {"create", "trunc"}, {})
Rivals == Setting(FALSE, {m, n}, {m, n}, {"create"}, {"error", "unlink"})
Changes == Setting(FALSE, {m, n}, {}, {}, {"changes"})

Sound == {Reads, Crowd, Retries, Sessions, Writes, Rivals, Changes}

GrowSound == {{}, {"changes", "lost"}, {"two"}, {"two", "changes"}, {"changes", "lost", "unchecked"}}

VARIABLE part
allVars == <<vars, growVars, part>>

(* The part that is not looked at is in one fixed state.                   *)
Still == CHOOSE s \in Settings : TRUE
QuietInit ==
  /\ Init /\ setting = Still /\ remote = None
QuietGrow ==
  /\ GrowInit /\ events = {} /\ listing = Absent

AllInit ==
  \/ part = "cache" /\ Init /\ QuietGrow
  \/ part = "grow" /\ QuietInit /\ GrowInit

AllNext ==
  \/ part = "cache" /\ Next /\ UNCHANGED <<growVars, part>>
  \/ part = "grow" /\ GrowNext /\ UNCHANGED <<vars, part>>

(* The fairness of the part that is not looked at holds where it began.    *)
AllSpec == AllInit /\ [][AllNext]_allVars /\ Fairness /\ GrowFairness

(* Every open of a file comes to an end, through the cache or in a GROW    *)
(* tree, whatever pfs_file_cache.cc and pfs_service_grow.cc wait for.      *)
OpensEnd == OpenReturns /\ GrowOpenEnds
============================================================================
