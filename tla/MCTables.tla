------------------------------ MODULE MCTables -----------------------------
(* FdTable, Channel and Controller for TLC.  Each behaviour is one of one   *)
(* of them; the others stay where they began.  The channel has pages of two *)
(* bytes, six of them at first and at most nine, and requests of zero bytes, *)
(* of part of a page, of a page and a bit, and of three pages.              *)
EXTENDS FdTable, Channel, MCController

Setting(ops, sizes, appends, objs) ==
  [ops |-> ops, sizes |-> sizes, appends |-> appends, objs |-> objs]

Sharing == Setting({"open", "close", "close fails", "dup2", "fork", "share", "exit"},
                   {0}, {FALSE}, {1, 2})
Marked == Setting({"setfd", "dup", "fork", "exec"}, {0}, {FALSE}, {1})
Reopened == Setting({"open", "setfd", "dup2", "exec"}, {0}, {FALSE}, {1, 2})
Positions == Setting({"open", "read", "write", "lseek", "fork"}, {1}, BOOLEAN, {1, 2})
Anywhere == Setting({"open", "read", "pread", "write", "dup"}, {0, 1}, {FALSE}, {1, 2})
Streams == Setting({"pipe", "read", "pread", "write", "dup2"}, {0}, {FALSE}, {1, 2, 3})
Accepts == Setting({"accept", "pipe", "read", "write", "close", "dupfd", "exec"},
                   {0}, {FALSE}, {1, 2, 3})
Directories == Setting({"chdir", "fork", "share", "exit", "dup"}, {0}, {FALSE}, {1})

Sound == {Sharing, Marked, Reopened, Positions, Anywhere, Streams, Accepts, Directories}

VARIABLE part
allVars == <<vars, channelVars, ctVars, part>>

Quiet == setting = Directories
QuietController ==
  /\ campaign = Rerun
  /\ file = CHOOSE f \in SeedFiles : TRUE
  /\ rand = [n \in 1 .. Rerun.seeds |-> [c \in 0 .. Rerun.calls - 1 |-> 20]]

AllInit ==
  \/ part = "table" /\ Init /\ ChannelInit /\ QuietController /\ CtInit
  \/ part = "channel" /\ Quiet /\ Init /\ ChannelInit /\ QuietController /\ CtInit
  \/ part = "controller" /\ Quiet /\ Init /\ ChannelInit /\ CtInit
AllNext ==
  \/ part = "table" /\ Next /\ UNCHANGED <<channelVars, ctVars, part>>
  \/ part = "channel" /\ ChannelNext /\ UNCHANGED <<vars, ctVars, part>>
  \/ part = "controller" /\ CtNext /\ UNCHANGED <<vars, channelVars, part>>
AllSpec == AllInit /\ [][AllNext]_allVars
============================================================================
