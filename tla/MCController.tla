---------------------------- MODULE MCController ----------------------------
(* Campaigns of Controller for TLC.                                        *)
EXTENDS Controller

Line(g, percent, seed, constraint) ==
  [name |-> <<"", g>>, percent |-> percent, seed |-> seed, constraint |-> constraint]

\* Config files of one line, and of two, for one gremlin or for the default.
PlainFiles ==
  {<<Line("eintr", 50, 0, c)>> : c \in {"none", "once"}} \cup
  {<<Line("eintr", 100, 0, "first")>>, <<Line("default", 50, 3, "none")>>}

BothFiles ==
  {<<Line("eintr", 100, 0, c), Line("readone", 100, 0, "once")>> : c \in {"none", "first"}}

SeedFiles ==
  {<<Line("eintr", 50, 0, "once"), Line("readone", 50, 3, "none")>>,
   <<Line("default", 50, 2, "none"), Line("eintr", 50, 0, "first")>>}

\* The file is empty, or sets a gremlin, or sets it twice.
OtherFiles ==
  {<<>>, <<Line("eintr", 100, 0, "undefined")>>,
   <<Line("eintr", 100, 0, "false"), Line("eintr", 101, 0, "none")>>,
   <<Line("eintr", 100, 0, "early")>>, <<Line("eintr", 50, 0, "unparsable")>>,
   <<Line("default", 100, 0, "first"), Line("readone", 0, 0, "none")>>}

\* A line that turns the gremlin on, off, out of range, badly or in part.
UpdateLines ==
  {Line("eintr", 100, 0, "none"), Line("eintr", 0, 0, "none"),
   Line("eintr", 101, 0, "once"), Line("eintr", 0, 0, "unparsable"),
   Line("default", 100, 0, "none")}

\* Replay with option -a: one gremlin, fair and unfair percentages.
Replayed ==
  [mode |-> "replay", attach |-> TRUE, gremlins |-> {"eintr"}, files |-> PlainFiles,
   lines |-> {}, controls |-> {}, calls |-> 2, randoms |-> {20, 80}, seeds |-> 3]

\* The same with two gremlins.
ReplayedBoth ==
  [Replayed EXCEPT !.gremlins = Gremlins, !.files = BothFiles, !.randoms = {20}]

\* A second run with the same seeds and no log.
Rerun == [Replayed EXCEPT !.mode = "rerun", !.attach = FALSE, !.files = SeedFiles]

\* One run, with config files of all kinds.
Configured ==
  [mode |-> "none", attach |-> FALSE, gremlins |-> Gremlins, files |-> OtherFiles,
   lines |-> {}, controls |-> {}, calls |-> 3, randoms |-> {20}, seeds |-> 4]

\* Replay of a program that uses the control paths.
Controlled ==
  [Replayed EXCEPT !.attach = FALSE, !.files = {<<Line("eintr", 100, 0, "first")>>},
                   !.lines = {Line("eintr", 0, 0, "none"), Line("eintr", 0, 0, "unparsable")},
                   !.controls = AllControls, !.randoms = {20}, !.seeds = 8]

\* The configuration changes while the program runs.
Reconfigured ==
  [Configured EXCEPT !.gremlins = {"eintr"}, !.lines = UpdateLines,
                     !.controls = {"update-config"}, !.calls = 2, !.seeds = 12]

Reproducible == {Replayed, ReplayedBoth, Rerun, Configured, Controlled}
Updated == {Reconfigured}
TracedSymmetry == Permutations(Traced)
=============================================================================
