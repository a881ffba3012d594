--------------------------- MODULE MCProcessTree ---------------------------
(* ProcessTree for TLC: a root and the pids a and b that it, or one that   *)
(* it created, may create.                                                 *)
EXTENDS ProcessTree, TLC

CONSTANTS a, b

Setting(ops, faults, calls) == [ops |-> ops, faults |-> faults, calls |-> calls]

ForkAndWait == Setting({"fork", "wait"}, {}, 3)
ForkAndPoll == Setting({"fork", "wait", "wait_nohang"}, {}, 2)
Threads == Setting({"thread", "exit"}, {}, 3)
Kills == Setting({"fork", "wait"}, {"sigkill"}, 2)
Handlers == Setting({"fork", "wait", "sigaction"}, {}, 2)
Refusals == Setting({"fork", "wait"}, {"clone_fails"}, 2)

AllSound == {ForkAndWait, ForkAndPoll, Threads, Kills, Handlers, Refusals}
Refused == {Setting({"fork"}, {"clone_fails"}, 2)}

(* The kernel may hand out a and b in either order.                        *)
Symmetry == Permutations({a, b})
============================================================================
