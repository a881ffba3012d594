----------------------------- MODULE MCDispatch -----------------------------
(* Dispatch for TLC: two processes that share the channel and the files.   *)
EXTENDS Dispatch, TLC

Setting(ops, lengths, bytes, gremlins, faults) ==
  [ops |-> ops, lengths |-> lengths, bytes |-> bytes, gremlins |-> gremlins,
   faults |-> faults]

Both == {"read", "write"}

Shortened == Setting(Both, {1, 3}, 2,
                     {"readless", "readone_s", "readone", "writeless", "writeone_s", "writeone"}, {})
Files == Setting(Both, {0, 2}, 2, {}, {"eof", "epipe", "nonblocking"})
Interrupted == Setting(Both, {2}, 2, {}, {"signals"})
Refused == Setting(Both, {1}, 1, Refusing, {"full"})
Failing == Setting(Both, {0, 1}, 1, {"readone"}, {"eio", "nonblocking"})
WriteZero == Setting({"write"}, {2}, 2, {"writezero"}, {})

Sound == {Shortened, Files, Interrupted, Refused, Failing}
Lazy == {WriteZero}

Symmetry == Permutations(Procs)
============================================================================
