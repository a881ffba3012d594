----------------------------- MODULE WorkQueue -----------------------------
(***************************************************************************)
(* The work queue of dttools: the master of work_queue.c, which an         *)
(* application calls, and the workers of work_queue_worker.c, with the TCP *)
(* connections between them.  A worker that loses its connection makes a   *)
(* new one while the master may not have noticed yet, so that the master   *)
(* knows workers by their connections (links).                             *)
(*                                                                         *)
(* A task has input files, each cached at the worker or not, and one       *)
(* output file.  A file is known by its version, which is what stat shows  *)
(* of it, its time of modification and its size; version 0 is no file.     *)
(* Time, and with it everything that takes too long, is left to chance.    *)
(***************************************************************************)
EXTENDS Integers, Sequences, FiniteSets

CONSTANTS
  Workers,      \* worker processes
  Tasks,        \* tasks of the application
  Files,        \* input files
  Out,          \* the name of the output file
  NLinks,       \* bound: connections at one time
  MaxFaults,    \* bound: what goes wrong
  AbortMin,     \* tasks to be complete before slow workers are aborted
  WqSettings,   \* the settings considered
  NoTask, NoWorker

Links == 1 .. NLinks

(* A setting is a record of                                                *)
(*   input      the input files of each task                               *)
(*   keep       the files that each task wants cached (WORK_QUEUE_CACHE)   *)
(*   schedule   worker_selection_algorithm                                 *)
(*   reject     the workers that prefer other masters (exclusive mode)     *)
(*   faults     what may go wrong: the "link" fails while the master uses  *)
(*              it, the worker "crashes", has no "space", gets no line in  *)
(*              time ("idle"); commands "fail"; an input file "changes" or *)
(*              "vanishes"; slow workers are "aborted"; workers are "shut" *)
(*              down                                                       *)
WqFaults == {"link", "crash", "space", "idle", "fail", "changes", "vanishes",
             "aborted", "shut"}

ASSUME WqAssumption ==
  /\ NLinks \in Nat /\ MaxFaults \in Nat /\ AbortMin \in Nat
  /\ Out \notin Files /\ NoTask \notin Tasks /\ NoWorker \notin Workers
  /\ \A s \in WqSettings :
       /\ s.input \in [Tasks -> SUBSET Files] /\ s.keep \in [Tasks -> SUBSET (Files \cup {Out})]
       /\ s.schedule \in {"fcfs", "files", "time", "rand"}
       /\ s.reject \subseteq Workers /\ s.faults \subseteq WqFaults

VARIABLES
  master,   \* the program counter of the master, the application's included
  tosubmit, \* tasks that the application has not submitted
  ready,    \* ready_list
  complete, \* complete_list
  returned, \* tasks that work_queue_wait returned
  result,   \* the result of each task, as a set of flags
  local,    \* the versions of the files at the master
  wstate,   \* the state of the worker at each link; NONE when there is none
  current,  \* its current_task
  files,    \* its current_files: the versions the master thinks are there
  did,      \* is its total_tasks_complete more than 0
  instate,  \* workers_in_state
  todo,     \* the links that link_poll found, still to be handled
  wire,     \* the connections
  worker,   \* the worker processes
  faults,   \* the number of things that went wrong
  wq        \* the setting of this run; it never changes

queueVars == <<tosubmit, ready, complete, returned, result, local>>
tableVars == <<wstate, current, files, did, instate>>
wqVars == <<master, queueVars, tableVars, todo, wire, worker, faults, wq>>

NoFiles == [f \in Files \cup {Out} |-> 0]
NoWire == [worker |-> NoWorker, tow |-> <<>>, tom |-> <<>>,
           accepted |-> FALSE, mclosed |-> FALSE, wclosed |-> FALSE]
NoWork == [pc |-> "off", link |-> 0, box |-> NoFiles, task |-> NoTask, need |-> NoFiles]

States == {"INIT", "READY", "BUSY"}
Range(s) == {s[i] : i \in DOMAIN s}
Connected == {l \in Links : wstate[l] # "NONE"}

Fault(f) == f \in wq.faults /\ faults < MaxFaults /\ faults' = faults + 1

(* A connection that both ends have closed is gone.                        *)
Gone(c) == IF c.wclosed /\ c.mclosed THEN NoWire ELSE c

---------------------------------------------------------------------------
(* The worker table.  A queue is a record of what remove_worker and        *)
(* change_worker_state change.                                             *)

Queue == [ready |-> ready, complete |-> complete, result |-> result, wstate |-> wstate,
          current |-> current, files |-> files, did |-> did, instate |-> instate, wire |-> wire]

SetQueue(q) ==
  /\ ready' = q.ready /\ complete' = q.complete /\ result' = q.result
  /\ wstate' = q.wstate /\ current' = q.current /\ files' = q.files /\ did' = q.did
  /\ instate' = q.instate /\ wire' = q.wire

(* NONE is not counted: nobody reads its count.                            *)
change_worker_state(q, l, s) ==
  [q EXCEPT !.wstate[l] = s,
            !.instate = [x \in States |-> q.instate[x] - (IF x = q.wstate[l] THEN 1 ELSE 0)
                                                       + (IF x = s THEN 1 ELSE 0)]]

Final == {"OUTPUT_MISSING", "FUNCTION_FAIL"}

PutBack_both(q, t) == [q EXCEPT !.result[t] = {}, !.ready = <<t>> \o @, !.complete = <<t>> \o @]

(* The task of a worker that is removed: it is complete if it failed for   *)
(* good, and else it is the next to be tried again.                        *)
PutBack(q, t) ==
  IF q.result[t] \cap Final # {}
  THEN [q EXCEPT !.complete = <<t>> \o @]
  ELSE [q EXCEPT !.result[t] = {}, !.ready = <<t>> \o @]

remove_worker_uncounted(q, l) ==
  LET t == q.current[l]
      r == IF t = NoTask THEN q ELSE PutBack(q, t)
  IN  [r EXCEPT !.current[l] = NoTask, !.files[l] = NoFiles, !.did[l] = FALSE, !.wstate[l] = "NONE",
                !.wire[l] = Gone([@ EXCEPT !.mclosed = TRUE])]

remove_worker(q, l) ==
  LET t == q.current[l]
      r == IF t = NoTask THEN q ELSE PutBack(q, t)
  IN  change_worker_state(
        [r EXCEPT !.current[l] = NoTask, !.files[l] = NoFiles, !.did[l] = FALSE,
                  !.wire[l] = Gone([@ EXCEPT !.mclosed = TRUE])], l, "NONE")

---------------------------------------------------------------------------
(* Sending a task.                                                         *)

(* put_file: what is not there, or not this version.  A version is a       *)
(* modification time and a size, so a change of neither makes none.        *)
Missing(q, l, t) == {f \in wq.input[t] : q.files[l][f] # local[f]}

Cached_any(q, l, t) ==
  [f \in Files \cup {Out} |-> IF f \in wq.input[t] THEN local[f] ELSE q.files[l][f]]

(* The files that are thought to be there when the task was sent.          *)
Cached(q, l, t) ==
  [f \in Files \cup {Out} |->
     IF f \in wq.input[t] /\ f \in wq.keep[t] THEN local[f]
     ELSE IF f \in Missing(q, l, t) THEN 0 ELSE q.files[l][f]]

(* The messages: the files in some order, then the command.                *)
Messages(q, l, t, order) ==
  [i \in 1 .. Len(order) |-> [op |-> "put", file |-> order[i], version |-> local[order[i]],
                              task |-> NoTask, need |-> NoFiles]]
  \o <<[op |-> "work", file |-> Out, version |-> 0, task |-> t,
        need |-> [f \in Files \cup {Out} |-> IF f \in wq.input[t] THEN local[f] ELSE 0]]>>

Orders(S) == {o \in [1 .. Cardinality(S) -> S] : Range(o) = S}

(* start_task_on_worker when the task could be sent.                       *)
Sent(q, l) ==
  LET t == Head(q.ready)
      r == [q EXCEPT !.ready = Tail(@), !.current[l] = t]
  IN  {change_worker_state([r EXCEPT !.files[l] = Cached(q, l, t),
                                     !.wire[l].tow = @ \o Messages(q, l, t, o)], l, "BUSY")
         : o \in Orders(Missing(q, l, t))}

(* ... and when it could not: INPUT_FAIL.                                  *)
NotSent(q, l) ==
  LET t == Head(q.ready)
      r == [q EXCEPT !.ready = Tail(@), !.current[l] = t, !.result[t] = @ \cup {"INPUT_FAIL"}]
  IN  remove_worker(r, l)

(* send_input_files: every input file of the task exists.                  *)
InputsExist(t) == \A f \in wq.input[t] : local[f] # 0

start_task_on_worker(q, l) ==
  IF q.ready = <<>> THEN SetQueue(q) /\ UNCHANGED faults
  ELSE \/ /\ InputsExist(Head(q.ready))
          /\ \E r \in Sent(q, l) : SetQueue(r) /\ UNCHANGED faults
       \/ /\ ~InputsExist(Head(q.ready)) \/ q.wire[l].wclosed
          /\ SetQueue(NotSent(q, l)) /\ UNCHANGED faults
       \/ SetQueue(NotSent(q, l)) /\ Fault("link")

---------------------------------------------------------------------------
(* The application.                                                        *)

work_queue_submit(t) ==
  /\ master = "app" /\ t \in tosubmit
  /\ tosubmit' = tosubmit \ {t}
  /\ ready' = Append(ready, t)
  /\ result' = [result EXCEPT ![t] = {}]
  /\ UNCHANGED <<master, complete, returned, local, tableVars, todo, wire, worker, faults, wq>>

work_queue_wait ==
  /\ master = "app" /\ (ready \o complete # <<>> \/ instate["BUSY"] > 0)
  /\ master' = "top"
  /\ UNCHANGED <<queueVars, tableVars, todo, wire, worker, faults, wq>>

LocalChanges(f) ==
  /\ master = "app" /\ local[f] = 1
  /\ \/ Fault("changes") /\ local' = [local EXCEPT ![f] = 2]
     \/ Fault("vanishes") /\ local' = [local EXCEPT ![f] = 0]
  /\ UNCHANGED <<master, tosubmit, ready, complete, returned, result, tableVars, todo, wire,
                 worker, wq>>

(* work_queue_shut_down_workers of one worker.                             *)
work_queue_shut_down_workers(l) ==
  /\ master = "app" /\ l \in Connected /\ Fault("shut")
  /\ LET told == [Queue EXCEPT !.wire[l].tow =
                    Append(@, [op |-> "exit", file |-> Out, version |-> 0, task |-> NoTask,
                               need |-> NoFiles])]
     IN  SetQueue(remove_worker(told, l))
  /\ UNCHANGED <<master, tosubmit, returned, local, todo, worker, wq>>

---------------------------------------------------------------------------
(* work_queue_wait.                                                        *)

Top ==
  /\ master = "top"
  /\ IF complete # <<>>
     THEN /\ returned' = returned \cup {Head(complete)}
          /\ complete' = Tail(complete)
          /\ master' = "app"
     ELSE /\ master' = IF instate["BUSY"] = 0 /\ ready = <<>> THEN "app" ELSE "start"
          /\ UNCHANGED <<returned, complete>>
  /\ UNCHANGED <<tosubmit, ready, result, local, tableVars, todo, wire, worker, faults, wq>>

CachedFor(l, t) == Cardinality({f \in wq.input[t] \cap wq.keep[t] : files[l][f] # 0})

find_best_worker_any(t) == Connected

(* find_best_worker: those that the algorithm may take, whatever the order *)
(* of the table.                                                           *)
find_best_worker(t) ==
  LET able == {l \in Links : wstate[l] = "READY"}
  IN  CASE wq.schedule = "files" -> {l \in able : \A k \in able : CachedFor(k, t) <= CachedFor(l, t)}
        [] wq.schedule = "time" /\ (\E l \in able : did[l]) -> {l \in able : did[l]}
        [] OTHER -> able

(* start_tasks: one turn of its loop.                                      *)
StartTasks ==
  /\ master = "start"
  /\ IF ready = <<>> \/ find_best_worker(Head(ready)) = {}
     THEN master' = "poll" /\ UNCHANGED <<ready, complete, result, tableVars, wire, faults>>
     ELSE /\ UNCHANGED master
          /\ \E l \in find_best_worker(Head(ready)) : start_task_on_worker(Queue, l)
  /\ UNCHANGED <<tosubmit, returned, local, todo, worker, wq>>

Readable == {l \in Connected : wire[l].tom # <<>> \/ wire[l].wclosed}
Pending == {l \in Links : wire[l].worker # NoWorker /\ ~wire[l].accepted}

(* link_poll.                                                              *)
Poll ==
  /\ master = "poll" /\ Readable \cup Pending # {}
  /\ todo' = Readable
  /\ master' = IF Pending = {} THEN "handle" ELSE "accept"
  /\ UNCHANGED <<queueVars, tableVars, wire, worker, faults, wq>>

(* As many workers as possible are accepted.                               *)
add_worker(l) ==
  /\ master = "accept" /\ l \in Pending
  /\ SetQueue(change_worker_state([Queue EXCEPT !.wire[l].accepted = TRUE], l, "INIT"))
  /\ master' = IF Pending = {l} THEN "handle" ELSE "accept"
  /\ UNCHANGED <<tosubmit, returned, local, todo, worker, faults, wq>>

Received(q, l) == [q EXCEPT !.wire[l].tom = Tail(@)]

TooMany_asMany(q) == Cardinality(Connected) >= Len(q.ready) + q.instate["BUSY"]

(* More workers than needed are connected.                                 *)
TooMany(q) == Cardinality(Connected) > Len(q.ready) + q.instate["BUSY"]

HandleReady(l) ==
  LET q == Received(Queue, l)
  IN  /\ SetQueue(IF TooMany(q) \/ wire[l].worker \in wq.reject THEN remove_worker(q, l)
                 ELSE IF wstate[l] = "INIT" THEN change_worker_state(q, l, "READY") ELSE q)
      /\ UNCHANGED faults

Unlinks(q, l, t) ==
  {f \in wq.input[t] \cup {Out} : f \notin wq.keep[t]}

UnlinkMessages(order) ==
  [i \in 1 .. Len(order) |-> [op |-> "unlink", file |-> order[i], version |-> 0, task |-> NoTask,
                              need |-> NoFiles]]

(* get_output_item: the worker answers that there is no output.            *)
get_output_item(l) ==
  IF worker[wire[l].worker].box[Out] = 0 THEN {"OUTPUT_MISSING"} ELSE {}

(* get_output_files: an output that was fetched and may be kept is thought *)
(* to be there from now on.                                                *)
get_output_files(q, l, t) ==
  IF Out \in wq.keep[t] /\ "OUTPUT_MISSING" \notin q.result[t]
  THEN [q.files[l] EXCEPT ![Out] = 1] ELSE q.files[l]

(* The output was fetched, or found to be missing: the task is complete    *)
(* and the worker gets the next one.                                       *)
Completed(q, l, order) ==
  LET t == q.current[l]
  IN  change_worker_state(
        [q EXCEPT !.complete = <<t>> \o @, !.current[l] = NoTask, !.did[l] = TRUE,
                  !.files[l] = get_output_files(q, l, t),
                  !.wire[l].tow = @ \o UnlinkMessages(order)], l, "READY")

HandleResult(l) ==
  LET m == Head(wire[l].tom)
      t == current[l]
      status == IF m.version = 0 THEN {} ELSE {"FUNCTION_FAIL"}
      q == [Received(Queue, l) EXCEPT !.result[t] = @ \cup status]
  IN  \/ /\ ~wire[l].wclosed
         /\ \E o \in Orders(Unlinks(q, l, t)) :
              start_task_on_worker(Completed([q EXCEPT !.result[t] = @ \cup get_output_item(l)], l, o), l)
      \/ /\ SetQueue(remove_worker([q EXCEPT !.result[t] = @ \cup {"LINK_FAIL", "OUTPUT_FAIL"}], l))
         /\ IF wire[l].wclosed THEN UNCHANGED faults ELSE Fault("link")
      \/ /\ SetQueue(remove_worker(Received(Queue, l), l))
         /\ Fault("link")

HandleLine(l) ==
  /\ master = "handle" /\ l \in todo
  /\ \/ wire[l].tom = <<>> /\ SetQueue(remove_worker(Queue, l)) /\ UNCHANGED faults
     \/ wire[l].tom # <<>> /\ Head(wire[l].tom).op = "ready" /\ HandleReady(l)
     \/ wire[l].tom # <<>> /\ Head(wire[l].tom).op = "result" /\ HandleResult(l)
  /\ UNCHANGED <<master, tosubmit, returned, local, worker, wq>>

handle_worker_again(l) == HandleLine(l) /\ UNCHANGED todo

handle_worker(l) == HandleLine(l) /\ todo' = todo \ {l}

(* abort_slow_workers: any that is busy may have run for too long.         *)
abort_slow_workers(l) ==
  /\ master = "handle" /\ todo = {}
  /\ Cardinality(returned) + Len(complete) >= AbortMin /\ wstate[l] = "BUSY" /\ Fault("aborted")
  /\ SetQueue(remove_worker(Queue, l))
  /\ UNCHANGED <<master, tosubmit, returned, local, todo, worker, wq>>

Handled ==
  /\ master = "handle" /\ todo = {}
  /\ master' = "top"
  /\ UNCHANGED <<queueVars, tableVars, todo, wire, worker, faults, wq>>

---------------------------------------------------------------------------
(* The worker.                                                             *)

(* The worker connects, for the first time or again: the master may still  *)
(* think that the old connection is there.                                 *)
Connect(w) ==
  /\ worker[w].pc = "off"
  /\ \E l \in Links :
       /\ wire[l] = NoWire /\ \A k \in 1 .. l - 1 : wire[k] # NoWire
       /\ wire' = [wire EXCEPT ![l] = [NoWire EXCEPT !.worker = w,
                     !.tom = <<[op |-> "ready", version |-> 0, task |-> NoTask]>>]]
       /\ worker' = [worker EXCEPT ![w].pc = "up", ![w].link = l]
  /\ UNCHANGED <<master, queueVars, tableVars, todo, faults, wq>>

(* recover: the sandbox is emptied.                                        *)
Recover(w, c) ==
  /\ wire' = [wire EXCEPT ![worker[w].link] = Gone([c EXCEPT !.wclosed = TRUE])]
  /\ worker' = [worker EXCEPT ![w] = NoWork]

(* One line from the master.                                               *)
ReadLine(w) ==
  LET l == worker[w].link
      m == Head(wire[l].tow)
      c == [wire[l] EXCEPT !.tow = Tail(@)]
      box == worker[w].box
  IN  /\ worker[w].pc = "up" /\ wire[l].tow # <<>>
      /\ \/ /\ m.op = "put"
            /\ \/ /\ worker' = [worker EXCEPT ![w].box[m.file] = m.version]
                  /\ wire' = [wire EXCEPT ![l] = c]
                  /\ UNCHANGED faults
               \/ Recover(w, c) /\ Fault("space")
         \/ /\ m.op = "unlink" /\ UNCHANGED faults
            /\ IF box[m.file] # 0
               THEN /\ worker' = [worker EXCEPT ![w].box[m.file] = 0]
                    /\ wire' = [wire EXCEPT ![l] = c]
               ELSE Recover(w, c)
         \/ /\ m.op = "work" /\ UNCHANGED faults
            /\ worker' = [worker EXCEPT ![w].pc = "run", ![w].task = m.task, ![w].need = m.need]
            /\ wire' = [wire EXCEPT ![l] = c]
         \/ /\ m.op = "exit" /\ UNCHANGED faults
            /\ wire' = [wire EXCEPT ![l] = Gone([c EXCEPT !.wclosed = TRUE])]
            /\ worker' = [worker EXCEPT ![w] = [NoWork EXCEPT !.pc = "exited"]]
      /\ UNCHANGED <<master, queueVars, tableVars, todo, wq>>

(* The command ends, with its output or without.                           *)
RunCommand(w) ==
  LET l == worker[w].link
  IN  /\ worker[w].pc = "run"
      /\ \E status \in 0 .. 1, out \in 0 .. 1 :
           /\ IF status = 1 \/ out = 0 THEN Fault("fail") ELSE UNCHANGED faults
           /\ worker' = [worker EXCEPT ![w] = [@ EXCEPT !.pc = "up", !.task = NoTask, !.need = NoFiles,
                                                        !.box[Out] = out]]
           /\ wire' = [wire EXCEPT ![l].tom = IF wire[l].mclosed THEN @ ELSE
                         Append(@, [op |-> "result", version |-> status, task |-> worker[w].task])]
      /\ UNCHANGED <<master, queueVars, tableVars, todo, wq>>

(* The end of the connection, or no line in time.                          *)
NoLine(w) ==
  /\ worker[w].pc = "up"
  /\ \/ wire[worker[w].link].mclosed /\ UNCHANGED faults
     \/ wire[worker[w].link].tow = <<>> /\ Fault("idle")
  /\ Recover(w, wire[worker[w].link])
  /\ UNCHANGED <<master, queueVars, tableVars, todo, wq>>

(* The worker dies; another one is started in its place.                   *)
WorkerDies(w) ==
  /\ worker[w].pc \in {"up", "run"} /\ Fault("crash")
  /\ wire' = [wire EXCEPT ![worker[w].link] = Gone([@ EXCEPT !.wclosed = TRUE])]
  /\ worker' = [worker EXCEPT ![w] = NoWork]
  /\ UNCHANGED <<master, queueVars, tableVars, todo, wq>>

---------------------------------------------------------------------------
WqInit ==
  /\ wq \in WqSettings
  /\ master = "app" /\ tosubmit = Tasks
  /\ ready = <<>> /\ complete = <<>> /\ returned = {}
  /\ result = [t \in Tasks |-> {}]
  /\ local = [f \in Files |-> 1]
  /\ wstate = [l \in Links |-> "NONE"] /\ current = [l \in Links |-> NoTask]
  /\ files = [l \in Links |-> NoFiles] /\ did = [l \in Links |-> FALSE]
  /\ instate = [s \in States |-> 0]
  /\ todo = {} /\ wire = [l \in Links |-> NoWire]
  /\ worker = [w \in Workers |-> NoWork]
  /\ faults = 0

MasterRuns ==
  \/ Top \/ StartTasks \/ Poll \/ Handled
  \/ \E l \in Links : add_worker(l) \/ handle_worker(l)

WorkerRuns(w) == Connect(w) \/ ReadLine(w) \/ RunCommand(w) \/ NoLine(w)

WqNext ==
  \/ \E t \in Tasks : work_queue_submit(t)
  \/ work_queue_wait
  \/ MasterRuns
  \/ \E w \in Workers : WorkerRuns(w) \/ WorkerDies(w)
  \/ \E l \in Links : abort_slow_workers(l) \/ work_queue_shut_down_workers(l)
  \/ \E f \in Files : LocalChanges(f)

(* The application goes on waiting, the master and the workers run: weak   *)
(* fairness of each, with the states that have such a step spelt out.  A   *)
(* worker comes back in the end.                                           *)
MasterAwake ==
  IF master = "app" THEN ready \o complete # <<>> \/ instate["BUSY"] > 0
  ELSE master = "poll" => Readable \cup Pending # {}
WorkerAwake(w) ==
  \/ worker[w].pc = "run"
  \/ worker[w].pc = "up" /\ (wire[worker[w].link].tow # <<>> \/ wire[worker[w].link].mclosed)

WqRunning ==
  /\ []<>~MasterAwake \/ []<><<MasterRuns \/ work_queue_wait>>_wqVars
  /\ \A w \in Workers : []<>~WorkerAwake(w) \/ []<><<WorkerRuns(w)>>_wqVars

WqFairness == WqRunning /\ \A w \in Workers : WF_wqVars(Connect(w))

WqSpec == WqInit /\ [][WqNext]_wqVars
WqFairSpec == WqSpec /\ WqFairness

---------------------------------------------------------------------------
(* Properties.                                                             *)

(* The types of the variables.                                             *)
WqTypeOK ==
  /\ master \in {"app", "top", "start", "poll", "accept", "handle"}
  /\ tosubmit \subseteq Tasks /\ returned \subseteq Tasks
  /\ Range(ready) \cup Range(complete) \subseteq Tasks
  /\ todo \subseteq Connected
  /\ \A l \in Links : /\ wstate[l] \in States \cup {"NONE"} /\ current[l] \in Tasks \cup {NoTask}
                      /\ wire[l].worker \in Workers \cup {NoWorker}
  /\ \A w \in Workers : worker[w].pc \in {"off", "up", "run", "exited"}
  /\ faults \in 0 .. MaxFaults

(* A task that was submitted is at one place: waiting, with one worker,    *)
(* complete or returned, whatever happened to the workers that had it: no  *)
(* task is lost, and none is returned twice.                               *)
TaskAtOnePlace ==
  \A t \in Tasks \ tosubmit :
    Cardinality({<<"ready", i>> : i \in {j \in DOMAIN ready : ready[j] = t}}
      \cup {<<"complete", i>> : i \in {j \in DOMAIN complete : complete[j] = t}}
      \cup {<<"current", l>> : l \in {k \in Links : current[k] = t}}
      \cup {<<"returned", 0>> : x \in returned \cap {t}}) = 1

(* workers_in_state counts the workers, and the busy ones are those that   *)
(* have a task: it decides which workers are rejected and when             *)
(* work_queue_wait has nothing to wait for.                                *)
StatesCounted ==
  /\ \A s \in States : instate[s] = Cardinality({l \in Links : wstate[l] = s})
  /\ \A l \in Links : (wstate[l] = "BUSY") <=> (current[l] # NoTask)

(* The queue is sound: typed, with every task at one place and every       *)
(* worker counted once.                                                    *)
QueueSound == WqTypeOK /\ TaskAtOnePlace /\ StatesCounted

(* A result carries no task: that the master takes it for the worker's     *)
(* current one is right, however many connections the worker had.          *)
ResultIsOfCurrentTask ==
  \A l \in Connected :
    /\ \A i \in DOMAIN wire[l].tom :
         wire[l].tom[i].op = "result" => wire[l].tom[i].task = current[l]
    /\ LET w == wire[l].worker
       IN  worker[w].pc = "run" /\ worker[w].link = l => worker[w].task = current[l]

(* Tasks agree on which files are cached.                                  *)
Agreed == \A t, u \in Tasks : wq.input[t] \cap wq.input[u] \cap wq.keep[t] \subseteq wq.keep[u]

(* A command runs with the version of each input file that the master saw  *)
(* when it sent the task, though it sends only those that it thinks are    *)
(* not there; as long as all tasks agree on what is cached.                *)
InputsPresent ==
  Agreed => \A w \in Workers :
    worker[w].pc = "run" => \A f \in wq.input[worker[w].task] : worker[w].box[f] = worker[w].need[f]

(* A worker connects before the master has dealt with what reached it.  It *)
(* sleeps for 5 seconds before (work_queue_worker.c:790), but nothing says *)
(* that a turn of the master's loop takes less.                            *)
Hurries ==
  /\ \E w \in Workers : worker[w].pc = "off" /\ worker'[w].pc = "up"
  /\ Readable \cup todo # {} \/ master \notin {"poll", "app"}

(* Every task that is submitted is returned in the end: again and again    *)
(* all that were submitted are returned, however often workers fail and    *)
(* come back meanwhile, if the input files exist.  That is so unless       *)
(* workers hurry for ever: two workers that are one too many may take      *)
(* turns at being rejected (work_queue.c:595).  (Workers must not be told  *)
(* to exit; and one that is rejected for its name is counted while others  *)
(* come, which may be rejected again and again for its sake.)              *)
TasksReturn ==
  \/ []<>((wq.reject = {} /\ {"shut", "vanishes"} \cap wq.faults = {}) =>
             Tasks \ tosubmit \subseteq returned)
  \/ []<><<Hurries>>_wqVars

(* A task with a missing input file comes back too: work_queue.h:89 has    *)
(* "missing input file" among the results of a task.  It is false of the   *)
(* code: remove_worker resets the result and makes the task the next to be *)
(* tried (work_queue.c:1084), so every worker that is ready is removed.    *)
MissingInputReturned ==
  \A t \in Tasks :
    (t \notin tosubmit /\ \E f \in wq.input[t] : local[f] = 0) ~> (t \in returned)
============================================================================
