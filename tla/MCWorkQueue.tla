---------------------------- MODULE MCWorkQueue ----------------------------
(* WorkQueue for TLC.                                                      *)
EXTENDS WorkQueue, TLC

CONSTANTS t1, t2, f1, f2, w1, w2

Setting(input, keep, schedule, reject, events) ==
  [input |-> input, keep |-> keep, schedule |-> schedule, reject |-> reject, faults |-> events]

Both(x) == [k \in Tasks |-> x]

Breaks == Setting(Both({f1}), Both({f1, Out}), "fcfs", {}, {"crash"})
Spaces == Setting(Both({f1}), Both({Out}), "rand", {}, {"space", "idle"})
Caches == Setting((t1 :> {f1} @@ t2 :> {f1, f2}), Both({f1, Out}), "files", {}, {"changes"})
Fails == Setting(Both({}), Both({}), "time", {}, {"fail", "link"})
Aborts == Setting(Both({f1}), Both({f1}), "fcfs", {}, {"aborted", "shut"})
Rejects == Setting(Both({f1}), Both({f1}), "fcfs", {w2}, {})
Vanishes == Setting((t1 :> {f1} @@ t2 :> {}), Both({f1}), "fcfs", {}, {"vanishes"})

WqSound == {Breaks, Spaces, Caches, Fails, Aborts, Rejects}
WqMissing == {Vanishes}
============================================================================
