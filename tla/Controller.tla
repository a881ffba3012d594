----------------------------- MODULE Controller -----------------------------
(***************************************************************************)
(* The gremlin controller (controller.cc) and the run-time control calls   *)
(* that drive it (the "/Murphy/" branch of decode_syscall): the config     *)
(* table, one gremlin_entry per gremlin and process, the activation log,   *)
(* the replay of that log, and the bail function.                          *)
(*                                                                         *)
(* A behaviour is up to two runs of Murphy.  The first run records; the    *)
(* second one starts from nothing but the same config file and, if the     *)
(* mode is "replay", the log of the first.  The program may do something   *)
(* else in the second run: its processes are created in another order,     *)
(* interleave, make other calls, and wait at other times.                  *)
(*                                                                         *)
(* A call consults one gremlin, or is a mkdir of a control path.  A call   *)
(* that waits is decoded again, and its gremlin asked again, each time its *)
(* process is woken.  rand_r is a fixed function from the seed and the     *)
(* number of draws to a number.  A classad constraint is one of a few      *)
(* representative expressions.                                             *)
(***************************************************************************)
EXTENDS Naturals, Sequences, FiniteSets, TLC

CONSTANTS Traced,       \* the traced processes
          Gremlins,    \* the gremlins
          Campaigns     \* the campaigns considered

(***************************************************************************)
(* A campaign is a record of                                                *)
(*   mode      what the second run is: "replay", "rerun" or "none"         *)
(*   attach    gremlin_replay_gdb: the second run has option -a            *)
(*   gremlins  the gremlins that the calls consult                         *)
(*   files     the config files, each a sequence of lines                  *)
(*   lines     the lines that update the configuration at run time         *)
(*   controls  the control operations that the program uses                *)
(*   calls     bound on the times a call of one process is decoded         *)
(*   randoms   the numbers that rand_r may return, modulo 100              *)
(*   seeds     bound on the seeds                                          *)
(***************************************************************************)
AllControls == {"update-config", "suspend", "suspend-and-debug"}

Constraints == {"none", "true", "false", "undefined", "first", "once", "early",
                "unparsable"}

\* A line "gremlin:percent:seed:constraint".  The name is a pair: the text that
\* precedes the gremlin's name in it (none, in a config file) and that name.
LineType == [name : {"", "date-config/"} \X (Gremlins \cup {"default"}),
             percent : Nat, seed : Nat, constraint : Constraints]

ASSUME ConstantsAssumption ==
  /\ IsFiniteSet(Traced) /\ Traced # {}
  /\ Campaigns # {}
  /\ \A s \in Campaigns :
       /\ s.mode \in {"replay", "rerun", "none"}
       /\ s.attach \in BOOLEAN
       /\ s.gremlins \subseteq Gremlins
       /\ s.lines \subseteq LineType
       /\ \A f \in s.files : \A i \in DOMAIN f : f[i] \in LineType
       /\ s.controls \subseteq AllControls
       /\ s.calls \in Nat
       /\ s.randoms \subseteq 0 .. 99 /\ s.randoms # {}
       /\ s.seeds \in Nat \ {0}

VARIABLES
  campaign,               \* the campaign of this behaviour; it never changes
  phase,                 \* which run of Murphy this is
  file,                  \* the config file
  rand,                  \* rand_r: seed and number of the draw to a number
  num_entries,           \* the counter in gremlin_config_entry()
  objects,               \* the gremlin_config_entry objects, by address
  gremlin_config_table,  \* name to address
  gremlin_table,         \* gremlin and process to gremlin_entry
  log,                   \* the activation log of the first run
  gremlin_replay_table,  \* gremlin and childnum to gremlin_replay_entry
  childnum,              \* of each process, in the order of creation; or 0
  decoded,               \* how often a call of the process was decoded
  syscall_count,         \* pfs_syscall_count
  state,                 \* of each process: user, kernel or WAITREAD
  bail_func,             \* what Murphy does at the next exit of a call
  stopped,               \* the process that Murphy stopped before it left
  first, second,         \* history: the decisions of the two runs, in order,
                         \* for each gremlin and childnum
  given                  \* history: the lines the program gave, as it wrote them

ctVars == <<campaign, phase, file, rand, num_entries, objects, gremlin_config_table,
          gremlin_table, log, gremlin_replay_table, childnum, decoded,
          syscall_count, state, bail_func, stopped, first, second, given>>

configs == <<num_entries, objects, gremlin_config_table>>

None == <<>>   \* no process
-----------------------------------------------------------------------------
(***************************************************************************)
(* The configuration                                                       *)
(***************************************************************************)
\* gremlin_config_entry(): the n-th one made gets the seed n.
gremlin_config_entry(n) == [percent_on |-> 0, seed |-> n, constraint |-> "none"]

\* The line is complete and its constraint, if there is one, can be parsed.
Parses(line) == line.constraint # "unparsable"

\* process_config_line, on a line that parses.  A field that is missing or out
\* of range leaves the entry as it is.
process_config_line(line, entry) ==
  [percent_on |-> IF line.percent < 101 THEN line.percent ELSE entry.percent_on,
   seed       |-> IF line.seed > 0 THEN line.seed ELSE entry.seed,
   constraint |-> IF line.constraint # "none" THEN line.constraint
                                              ELSE entry.constraint]

DefaultName == <<"", "default">>

\* controller::init: an entry for the default, then one for each line that
\* parses; a later line of the same name takes the place of an earlier one.
\* One more entry is made than lines are read.
init(f) ==
  LET good    == SelectSeq(f, Parses)
      named   == <<DefaultName>> \o [i \in DOMAIN good |-> good[i].name]
      Latest(n) == CHOOSE i \in DOMAIN named :
                     named[i] = n /\ \A j \in DOMAIN named : named[j] = n => j <= i
  IN [num     |-> Len(good) + 2,
      objects |-> <<gremlin_config_entry(1)>> \o
                  [i \in DOMAIN good |->
                     process_config_line(good[i], gremlin_config_entry(i + 1))],
      table   |-> [n \in {named[i] : i \in DOMAIN named} |-> Latest(n)]]

\* setconfig: write to the entry of that name, or make one.  An entry made for
\* a line that does not parse is deleted again, but it was counted.
setconfig(line) ==
  LET known == line.name \in DOMAIN gremlin_config_table
      at    == gremlin_config_table[line.name]
      fresh == gremlin_config_entry(num_entries + 1)
  IN /\ num_entries' = IF known THEN num_entries ELSE num_entries + 1
     /\ objects' = IF ~Parses(line) THEN objects
                   ELSE IF known
                   THEN [objects EXCEPT ![at] = process_config_line(line, @)]
                   ELSE Append(objects, process_config_line(line, fresh))
     /\ gremlin_config_table' =
          IF Parses(line) /\ ~known
          THEN (line.name :> Len(objects) + 1) @@ gremlin_config_table
          ELSE gremlin_config_table

\* The update-config control: the line starts at the third character of
\* "update-config/<line>".
UpdateConfig(line) ==
  setconfig([line EXCEPT !.name = <<"date-config/", line.name[2]>>])
-----------------------------------------------------------------------------
(***************************************************************************)
(* The decision                                                            *)
(***************************************************************************)
\* What a constraint evaluates to, for the InvokedCount, EvilCount and
\* SyscallCount in the ad: "first" reads InvokedCount == 0, "once" reads
\* EvilCount == 0, "early" reads SyscallCount <= 1, and "undefined" names an
\* attribute that the ad does not have.
Verdict(constraint, invoked, evil, count) ==
  LET Holds == CASE constraint = "first" -> invoked = 0
                 [] constraint = "once"  -> evil = 0
                 [] constraint = "early" -> count <= 1
                 [] OTHER                -> constraint # "false"
  IN IF constraint = "undefined" THEN "undefined"
     ELSE IF Holds THEN "true" ELSE "false"


\* EvaluateAttrBool leaves evalResult alone, and so true, when the value is not
\* a boolean.
ConstraintHolds(config, entry, count) ==
  Verdict(config.constraint, entry.thissys_counter, entry.evil_counter, count)
    # "false"

\* gremlin_entry().  The seed of the code is the pair of seed and draws here.
gremlin_entry == [config |-> 0, seed_initialized |-> FALSE, seed |-> 0,
                  draws |-> 0, thissys_counter |-> 0, evil_counter |-> 0]

\* The key of gremlin_table, "name.pid.childnum".
EntryKey(g, p) == <<g, p>>

\* The entry of the gremlin in the process, its config and its seed filled in.
\* Only a config of the gremlin's own name is kept in the entry.
Prepared(key, g) ==
  LET entry == IF key \in DOMAIN gremlin_table THEN gremlin_table[key]
                                               ELSE gremlin_entry
      own   == <<"", g>> \in DOMAIN gremlin_config_table
      at    == IF entry.config # 0 THEN entry.config
               ELSE gremlin_config_table[IF own THEN <<"", g>> ELSE DefaultName]
  IN [at    |-> at,
      entry |-> [entry EXCEPT
                   !.config = IF own \/ @ # 0 THEN at ELSE 0,
                   !.seed = IF entry.seed_initialized THEN @ ELSE objects[at].seed,
                   !.seed_initialized = TRUE]]

\* The percentage: a number is drawn only if it can make a difference.
Draws(config) == config.percent_on \notin {0, 100}

PercentSays(config, entry) ==
  \/ config.percent_on = 100
  \/ Draws(config) /\ rand[entry.seed][entry.draws] < config.percent_on

\* The key of gremlin_replay_table, "name.childnum".
ReplayKey(g, p) == <<g, childnum[p]>>

\* Mutant: an activation of the log is used at the next question.
ReplaySays_next(key, entry) == key \in DOMAIN gremlin_replay_table

\* The replay: the next activation of this gremlin and childnum in the log is at
\* this invocation.
ReplaySays(key, entry) ==
  /\ key \in DOMAIN gremlin_replay_table
  /\ LET r == gremlin_replay_table[key]
     IN entry.thissys_counter = r.invoked_index[r.current_entry + 1]

Replaying == phase = "second" /\ campaign.mode = "replay"

\* Mutant: the replay is over as soon as one entry is used up.
Consumed_anyEntry(key) ==
  LET r    == gremlin_replay_table[key]
      done == r.current_entry + 1 = Len(r.invoked_index)
  IN /\ gremlin_replay_table' =
          IF done THEN [k \in DOMAIN gremlin_replay_table \ {key} |-> gremlin_replay_table[k]]
          ELSE [gremlin_replay_table EXCEPT ![key].current_entry = @ + 1]
     /\ IF campaign.attach /\ done
        THEN bail_func' = "gdb"
        ELSE UNCHANGED bail_func

\* Step to the next activation; remove an entry that is used up; when that was
\* the last one and option -a is given, ask for gdb.
Consumed(key) ==
  LET r    == gremlin_replay_table[key]
      done == r.current_entry + 1 = Len(r.invoked_index)
  IN /\ gremlin_replay_table' =
          IF done THEN [k \in DOMAIN gremlin_replay_table \ {key} |-> gremlin_replay_table[k]]
          ELSE [gremlin_replay_table EXCEPT ![key].current_entry = @ + 1]
     /\ IF campaign.attach /\ done /\ DOMAIN gremlin_replay_table = {key}
        THEN bail_func' = "gdb"
        ELSE UNCHANGED bail_func

\* write_log_entry.  The log of the second run is another file.
write_log_entry(g, p, entry) ==
  log' = IF phase = "first"
         THEN Append(log, [gname |-> g, child |-> childnum[p], invoked |-> entry.thissys_counter])
         ELSE log

\* A decision, in the run's history.
Decided(k, evil) ==
  IF phase = "first"
  THEN first' = [first EXCEPT ![k] = Append(@, evil)] /\ UNCHANGED second
  ELSE second' = [second EXCEPT ![k] = Append(@, evil)] /\ UNCHANGED first

\* doevil, for gremlin g in process p.
doevil(g, p) ==
  LET key    == EntryKey(g, p)
      ready  == Prepared(key, g)
      entry  == ready.entry
      config == objects[ready.at]
      again  == ReplayKey(g, p)
      chosen == IF Replaying THEN ReplaySays(again, entry)
                             ELSE PercentSays(config, entry)
      evil   == chosen /\ ConstraintHolds(config, entry, syscall_count + 1)
      drawn  == IF ~Replaying /\ Draws(config) THEN 1 ELSE 0
  IN /\ IF Replaying /\ chosen
        THEN Consumed(again)
        ELSE UNCHANGED <<gremlin_replay_table, bail_func>>
     /\ IF evil THEN write_log_entry(g, p, entry) ELSE UNCHANGED log
     /\ gremlin_table' =
          (key :> [entry EXCEPT !.draws = @ + drawn,
                                !.thissys_counter = @ + 1,
                                !.evil_counter = IF evil THEN @ + 1 ELSE @])
          @@ gremlin_table
     /\ Decided(again, evil)
     /\ UNCHANGED <<configs, given>>
-----------------------------------------------------------------------------
(***************************************************************************)
(* The calls of the processes                                              *)
(***************************************************************************)
\* pfs_process_create: every process gets the next childnum, whoever made it.
CreateProcess(p) ==
  /\ childnum[p] = 0 /\ stopped = None
  /\ childnum' = [childnum EXCEPT
                    ![p] = Cardinality({q \in Traced : childnum[q] # 0}) + 1]
  /\ UNCHANGED <<campaign, phase, file, rand, configs, gremlin_table, log,
                 gremlin_replay_table, decoded, syscall_count, state, bail_func,
                 stopped, first, second, given>>

\* A call of the process is decoded, entering.
Decode(p) ==
  /\ stopped = None
  /\ decoded[p] < campaign.calls
  /\ decoded' = [decoded EXCEPT ![p] = @ + 1]
  /\ syscall_count' = syscall_count + 1
  /\ UNCHANGED <<campaign, phase, file, rand, childnum, stopped>>

\* decode_syscall, entering: a call that consults gremlin g.  It is a new call,
\* or one that has waited; it waits now, or not.
EnterCall(p, g) ==
  /\ childnum[p] # 0
  /\ state[p] \in {<<"user">>, <<"waitread", g>>}
  /\ Decode(p)
  /\ doevil(g, p)
  /\ \E s \in {<<"kernel">>, <<"waitread", g>>} : state' = [state EXCEPT ![p] = s]

\* suspend_and_bail and suspend_and_gdb.
Suspend(f) == bail_func' = f /\ UNCHANGED <<configs, given>>

\* controller_setconfig, with a line that the program sends.
Configure(line) ==
  /\ UpdateConfig(line)
  /\ given' = IF phase = "first" THEN Append(given, line) ELSE given
  /\ UNCHANGED bail_func

\* decode_syscall, entering: mkdir of a control path.
EnterControl(p) ==
  /\ childnum[p] # 0
  /\ state[p] = <<"user">>
  /\ Decode(p)
  /\ \/ "update-config" \in campaign.controls /\ \E line \in campaign.lines : Configure(line)
     \/ "suspend" \in campaign.controls /\ Suspend("bail")
     \/ "suspend-and-debug" \in campaign.controls /\ Suspend("gdb")
  /\ state' = [state EXCEPT ![p] = <<"kernel">>]
  /\ UNCHANGED <<gremlin_table, gremlin_replay_table, log, first, second>>

\* decode_syscall, leaving: Murphy stops this process and exits, if it is to
\* bail out.
LeaveCall(p) ==
  /\ state[p] = <<"kernel">> /\ stopped = None
  /\ state' = [state EXCEPT ![p] = <<"user">>]
  /\ stopped' = IF bail_func = "none" THEN None ELSE p
  /\ UNCHANGED <<campaign, phase, file, rand, configs, gremlin_table, log,
                 gremlin_replay_table, childnum, decoded, syscall_count,
                 bail_func, first, second, given>>

\* read_log: one entry for each gremlin and childnum of the log, with its
\* activations in order.
read_log(l) ==
  LET Key(i) == <<l[i].gname, l[i].child>>
  IN [k \in {Key(i) : i \in DOMAIN l} |->
        LET mine == SelectSeq(l, LAMBDA e : <<e.gname, e.child>> = k)
        IN [current_entry |-> 0,
            invoked_index |-> [i \in DOMAIN mine |-> mine[i].invoked]]]

\* The first run ends, at any time, and the second one starts.
StartSecond ==
  /\ phase = "first" /\ campaign.mode # "none"
  /\ phase' = "second"
  /\ num_entries' = init(file).num
  /\ objects' = init(file).objects
  /\ gremlin_config_table' = init(file).table
  /\ gremlin_table' = <<>>
  /\ gremlin_replay_table' = IF campaign.mode = "replay" THEN read_log(log) ELSE <<>>
  /\ childnum' = [p \in Traced |-> 0]
  /\ decoded' = [p \in Traced |-> 0]
  /\ syscall_count' = 0
  /\ state' = [p \in Traced |-> <<"user">>]
  /\ bail_func' = "none" /\ stopped' = None
  /\ UNCHANGED <<campaign, file, rand, log, first, second, given>>

ReplayKeys == Gremlins \X (1 .. Cardinality(Traced))

CtInit ==
  /\ campaign \in Campaigns
  /\ phase = "first"
  /\ file \in campaign.files
  /\ rand \in [1 .. campaign.seeds -> [0 .. campaign.calls - 1 -> campaign.randoms]]
  /\ num_entries = init(file).num
  /\ objects = init(file).objects
  /\ gremlin_config_table = init(file).table
  /\ gremlin_table = <<>>
  /\ log = <<>>
  /\ gremlin_replay_table = <<>>
  /\ childnum = [p \in Traced |-> 0]
  /\ decoded = [p \in Traced |-> 0]
  /\ syscall_count = 0
  /\ state = [p \in Traced |-> <<"user">>]
  /\ bail_func = "none" /\ stopped = None
  /\ first = [k \in ReplayKeys |-> <<>>]
  /\ second = [k \in ReplayKeys |-> <<>>]
  /\ given = <<>>

CtNext ==
  \/ \E p \in Traced : \/ CreateProcess(p)
                      \/ \E g \in campaign.gremlins : EnterCall(p, g)
                      \/ EnterControl(p)
                      \/ LeaveCall(p)
  \/ StartSecond

CtSpec == CtInit /\ [][CtNext]_ctVars
-----------------------------------------------------------------------------

(***************************************************************************)
(* Properties                                                              *)
(***************************************************************************)
Counter == [config : Nat, seed_initialized : BOOLEAN, seed : 0 .. campaign.seeds,
            draws : 0 .. campaign.calls, thissys_counter : 0 .. campaign.calls,
            evil_counter : 0 .. campaign.calls]

\* The tables hold what their types say; a config that an entry has kept, or
\* that the table names, is the address of an object (controller.cc keeps raw
\* pointers to both).
CtTypeOK ==
  /\ phase \in {"first", "second"}
  /\ \A i \in DOMAIN objects :
       objects[i] \in [percent_on : 0 .. 100, seed : 1 .. campaign.seeds,
                       constraint : Constraints \ {"unparsable"}]
  /\ \A n \in DOMAIN gremlin_config_table :
       gremlin_config_table[n] \in DOMAIN objects
  /\ \A k \in DOMAIN gremlin_table :
       /\ gremlin_table[k] \in Counter
       /\ gremlin_table[k].config \in {0} \cup DOMAIN objects
  /\ \A k \in DOMAIN gremlin_replay_table :
       gremlin_replay_table[k].current_entry
         < Len(gremlin_replay_table[k].invoked_index)
  /\ \A p, q \in Traced : childnum[p] = childnum[q] => p = q \/ childnum[p] = 0
  /\ state \in [Traced -> {<<"user">>, <<"kernel">>} \cup {<<"waitread", g>> : g \in Gremlins}]
  /\ bail_func \in {"none", "bail", "gdb"}

\* The second run reproduces the first: however processes are created, interleave,
\* wait and call in it, the i-th question about a gremlin for the process of a
\* childnum gets the answer that it got in the first run, if it was asked there.
\* That is so when the second run replays the log of the first ("-r",
\* controller.cc:447-483), where questions beyond the first run's get no, and when
\* it only has the same config file and so the same seeds (438-443, 491).
\* Whether the i-th question is about the same call of the same process is not
\* up to the controller: a waiting call is asked about again when it is woken
\* (pfs_dispatch64.cc:3324), and childnum is a global count (pfs_process.cc:109).
Reproduces ==
  \A k \in ReplayKeys : \A i \in DOMAIN second[k] :
    IF i \in DOMAIN first[k] THEN second[k][i] = first[k][i]
                             ELSE Replaying => ~second[k][i]

Activations(h) == {<<k, i>> \in ReplayKeys \X (1 .. campaign.calls) :
                     i \in DOMAIN h[k] /\ h[k][i]}

\* With option -a, Murphy goes to gdb when the replay of the log is complete
\* (controller.cc:472-482): not before the last activation of the log has
\* happened again, and no later, though the gremlins and processes of the log
\* come to their last activations in any order.
AttachesWhenReplayed ==
  Replaying /\ campaign.attach =>
    (bail_func = "gdb" <=>
       log # <<>> /\ Activations(second) = Activations(first))

\* A question about gremlin g for process p is answered in the first run.
Asks(p, g) == LET k == ReplayKey(g, p)
              IN childnum[p] # 0 /\ Len(first'[k]) > Len(first[k])

EvilDone(p, g) == LET h == first'[ReplayKey(g, p)] IN h[Len(h)]

\* The lines about a name in a sequence of them.
About(ls, n) == SelectSeq(ls, LAMBDA l : l.name = n /\ Parses(l))

\* The field that a sequence of lines sets, from the last one that sets it.
LastSet(ls, Sets(_), Field(_), none) ==
  LET those == SelectSeq(ls, Sets)
  IN IF those = <<>> THEN none ELSE Field(those[Len(those)])

\* What the user has said of a gremlin: the last line of its name in the file,
\* then the lines given at run time.
Said(n) ==
  LET inFile == About(file, n)
  IN (IF inFile = <<>> THEN <<>> ELSE <<inFile[Len(inFile)]>>) \o About(given, n)

SaidOf(g) == IF Said(<<"", g>>) # <<>> THEN Said(<<"", g>>) ELSE Said(DefaultName)

PercentOf(g) ==
  LastSet(SaidOf(g), LAMBDA l : l.percent < 101, LAMBDA l : l.percent, 0)

ConstraintOf(g) ==
  LastSet(SaidOf(g), LAMBDA l : l.constraint # "none",
          LAMBDA l : l.constraint, "none")

\* What the constraint of gremlin g says to the question for process p, from the
\* history of the answers.
Should(g, p) ==
  LET earlier == first[ReplayKey(g, p)]
  IN Verdict(ConstraintOf(g), Len(earlier),
             Len(SelectSeq(earlier, LAMBDA evil : evil)), syscall_count + 1)

Obeyed(p, g) ==
  /\ EvilDone(p, g) => PercentOf(g) # 0 /\ Should(g, p) # "false"
  /\ PercentOf(g) = 100 /\ Should(g, p) # "false" => EvilDone(p, g)


\* The controller decides by the configuration as the user last set it, in the
\* file or by a mkdir of /Murphy/update-config/<config-entry> (src/README.md:83).
\* It is false of the code: the line handed to controller_setconfig starts inside
\* the word "update-config" (pfs_dispatch64.cc:1150).
ConfigObeyed ==
  [][\A p \in Traced, g \in Gremlins : Asks(p, g) => Obeyed(p, g)]_ctVars
=============================================================================
