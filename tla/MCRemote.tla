------------------------------ MODULE MCRemote ------------------------------
(* ChirpReli, ChirpAlloc and WorkQueue for TLC.  Each behaviour is one of    *)
(* one of them; the others stay where they began.  The servers of ChirpAlloc *)
(* are interchangeable; no liveness is claimed of them.                      *)
EXTENDS MCChirp, ChirpAlloc, MCWorkQueue

Writing == {"open", "pwrite", "ftruncate", "mkalloc"}
Removing == {"open", "pwrite", "unlink"}
Moving == {"rename", "putfile", "mkalloc"}
Making == {"putfile", "mkalloc", "rmdir"}
Plain == {"putfile", "truncate", "mkdir", "rmdir"}
AllMixes == {Writing, Removing, Moving, Making, Plain}

ServerSymmetry == Permutations(Servers)

VARIABLE part
allVars == <<chirpVars, allocVars, wqVars, part>>

QuietReli == ChInit /\ chset = (CHOOSE x \in ChirpSettings: TRUE) /\ server.name = 0
QuietAlloc == AlInit /\ mix = Writing

QuietQueue == WqInit /\ wq = Rejects

AllInit ==
  \/ part = "reli" /\ ChInit /\ QuietAlloc /\ QuietQueue
  \/ part = "alloc" /\ QuietReli /\ AlInit /\ QuietQueue
  \/ part = "queue" /\ QuietReli /\ QuietAlloc /\ WqInit
AllNext ==
  \/ part = "reli" /\ ChNext /\ UNCHANGED <<allocVars, wqVars, part>>
  \/ part = "alloc" /\ AlNext /\ UNCHANGED <<chirpVars, wqVars, part>>
  \/ part = "queue" /\ WqNext /\ UNCHANGED <<chirpVars, allocVars, part>>
(* The fairness of a part that is not looked at holds where it began.        *)
AllSpec == /\ AllInit /\ [][AllNext]_allVars
           /\ ChFairness /\ WqRunning
           /\ \A w \in Workers : WF_wqVars(part = "queue" /\ Connect(w))
=============================================================================
