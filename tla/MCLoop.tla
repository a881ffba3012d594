------------------------------- MODULE MCLoop -------------------------------
(* ProcessTree and PollSleep, the two views of Murphy's main loop, for TLC.  *)
(* Each behaviour is one of one of them; the other stays where it began.     *)
EXTENDS MCProcessTree, PollSleep

Waiting(ops, sets, timeouts, faults, calls, traffic) ==
  [ops |-> ops, sets |-> sets, timeouts |-> timeouts, faults |-> faults,
   calls |-> calls, traffic |-> traffic]

Selects == Waiting({"select"}, {{1}}, {0, 2}, {}, 3, 0)
Shared == Waiting({"select"}, {{1, 2}}, {4}, {}, 2, 1)
Closes == Waiting({"select", "close"}, {{1}}, {2, Forever}, {}, 2, 1)
Signals == Waiting({"select"}, {{1}}, {2}, {"signals"}, 3, 1)

Sleeps == {Selects, Shared, Closes, Signals}

VARIABLE part
allVars == <<vars, psVars, part>>

AllInit ==
  /\ Init /\ PsInit /\ part \in {"tree", "sleep"}
  /\ part = "tree" => psset = Selects
  /\ part = "sleep" => setting = Refusals

(* The clock has reached its bound, or Murphy has given up.                  *)
SleepOver == part = "sleep" /\ (clock = MaxTime \/ fatal) /\ UNCHANGED allVars

AllNext ==
  \/ part = "tree" /\ Next /\ UNCHANGED <<psVars, part>>
  \/ part = "sleep" /\ PsNext /\ UNCHANGED <<vars, part>>
  \/ SleepOver

(* Fairness of ProcessTree and of PollSleep, each for its own behaviours.    *)
AllFairness ==
  /\ \A p \in Pids : WF_vars(part = "tree" /\ handle_event(p))
  /\ WF_vars(part = "tree" /\ exit_group_loop)
  /\ WF_vars(part = "tree" /\ LoopEnds)
  /\ \A p \in Pids : /\ WF_vars(part = "tree" /\ MakesCall(p))
                     /\ WF_vars(part = "tree" /\ KernelRuns(p))
                     /\ WF_vars(part = "tree" /\ DeliverSignal(p))
  /\ []<>(part = "tree" \/ Asleep \/ fatal) \/ []<><<MurphyRuns>>_psVars
  /\ WF_psVars(\E p \in Procs : KernelAnswers(p))
  /\ SF_psVars(Tick)

AllSpec == AllInit /\ [][AllNext]_allVars /\ AllFairness
=============================================================================
