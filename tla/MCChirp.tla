------------------------------ MODULE MCChirp ------------------------------
(* Settings of ChirpReli for TLC.                                           *)
EXTENDS ChirpReli

Lossy == [giveup |-> FALSE, failing |-> FALSE, replaced |-> FALSE, serials |-> 3,
          values |-> {1, 2}]
Slow == [Lossy EXCEPT !.giveup = TRUE, !.serials = 2, !.values = {1}]
Failing == [Lossy EXCEPT !.failing = TRUE, !.serials = 2, !.values = {1}]
Replaced == [Lossy EXCEPT !.replaced = TRUE, !.serials = 2, !.values = {1}]
AllSettings == {Lossy, Slow, Failing, Replaced}
OnlyFailing == {Failing}
=============================================================================
