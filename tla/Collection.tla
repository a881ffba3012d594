----------------------------- MODULE Collection -----------------------------
(***************************************************************************)
(* The persistent collection of the ClassAd library: a table of ads, a tree *)
(* of views over it, transactions, and a log file from which a new process  *)
(* reads the collection back (collectionBase.cpp, transaction.cpp,          *)
(* collection.cpp, view.cpp), with caching off, its default.                *)
(*                                                                         *)
(* An ad is [m, p]: m says whether the constraint "m" of a view accepts it, *)
(* p is the value that a partitioned view is divided by.  Rank only orders  *)
(* the members of a view and is left out.  UpdateClassAd and ModifyClassAd  *)
(* differ in the form of the ad they take; both overwrite attributes.       *)
(***************************************************************************)
EXTENDS Integers, Sequences, FiniteSets, FiniteSetsExt, SequencesExt

CONSTANTS AdKeys,       \* the keys of the ads
          XNames,       \* names of transactions
          SubNames,     \* names of sub views
          Stores        \* the settings: the kinds of calls, the keys, names, ads,
                        \* updates and definitions of views they use, the faults, and
                        \* maxlog and maxops, bounds on the length of the log and of
                        \* a transaction

VARIABLES store,        \* the setting of this behaviour
          w             \* the collection and its log
collVars == <<store, w>>

NoName == ""
Torn == [op |-> "torn"]                     \* a line of the log that does not parse
Empty == [x \in {} |-> 0]
Without(f, x) == [y \in DOMAIN f \ {x} |-> f[y]]
With(f, x, e) == [y \in DOMAIN f \cup {x} |-> IF y = x THEN e ELSE f[y]]

NewView(parent, cons, part) ==
  [parent |-> parent, cons |-> cons, part |-> part, members |-> {}, parts |-> Empty]
Root == NewView(NoName, "true", FALSE)

(* A process that has just made its collection.  "up" becomes "down" when   *)
(* the process ends, "failed" when InitializeFromLog returned false, and    *)
(* "spoilt" when a view lists a key twice, after which the model stops.     *)
(* History: "may" are the contents a restart may find, "harm" what has been *)
(* done to the log or to memory that the log does not repeat, "off" that    *)
(* the views are known not to follow the table.  "fp" is log_fp: open, null *)
(* or, after a TruncateLog that failed, a file that has been closed.        *)
Made(log, synced, may, harm) ==
  [up |-> "up", ads |-> Empty, views |-> [v \in {"root"} |-> Root], xact |-> Empty,
   cur |-> NoName, log |-> log, synced |-> synced, fp |-> "open", ret |-> "ok",
   may |-> may, harm |-> harm, off |-> FALSE]

Defs(x) == [v \in DOMAIN x.views |->
              <<x.views[v].parent, x.views[v].cons, x.views[v].part>>]
Contents(x) == <<x.ads, Defs(x)>>

CoInit ==
  /\ store \in Stores
  /\ LET new == Made(<<>>, 0, {}, {}) IN w = [new EXCEPT !.may = {Contents(new)}]

Gone(x) == [Made(x.log, x.synced, x.may, x.harm) EXCEPT !.up = "down"]
Ends(x, how) == [x EXCEPT !.up = IF @ = "up" THEN how ELSE @]

-----------------------------------------------------------------------------
(* Views *)

Accepts(view, ad) == view.cons = "true" \/ ad.m = 1
makePartitionSignature(ad) == ad.p
SubViews(x, v) == {c \in DOMAIN x.views: x.views[c].parent = v}
PartOf(view, s) == IF s \in DOMAIN view.parts THEN view.parts[s] ELSE {}
Listed(view, key, ad) ==
  key \in view.members \/ (view.part /\ key \in PartOf(view, makePartitionSignature(ad)))
IntoPart(view, key, ad) ==
  LET s == makePartitionSignature(ad) IN
    IF view.part THEN [view EXCEPT !.parts = With(@, s, PartOf(view, s) \cup {key})] ELSE view

(* The ad enters view v, its sub views and its partition.                   *)
RECURSIVE ClassAdInserted(_, _, _, _)
ClassAdInserted(x, v, key, ad) ==
  LET view == x.views[v]
      below == FoldSet(LAMBDA c, y: ClassAdInserted(y, c, key, ad), x, SubViews(x, v))
  IN CASE ~Accepts(view, ad) -> x
       [] Accepts(view, ad) /\ Listed(view, key, ad) -> Ends(x, "spoilt")
       [] OTHER -> [below EXCEPT
                      !.views[v] = [IntoPart(@, key, ad) EXCEPT !.members = @ \cup {key}]]

ClassAdDeleted_here(x, v, key, ad) ==      \* mutant: the sub views keep the ad
  LET view == x.views[v]
      s == makePartitionSignature(ad)
  IN IF key \notin view.members THEN x
     ELSE [x EXCEPT !.views[v].members = @ \ {key},
                    !.views[v].parts = IF view.part THEN With(@, s, PartOf(view, s) \ {key}) ELSE @]

(* The ad leaves view v.  The partition it is taken from is the one of the  *)
(* ad it is called with; without such a partition the process ends.         *)
RECURSIVE ClassAdDeleted(_, _, _, _)
ClassAdDeleted(x, v, key, ad) ==
  LET view == x.views[v]
      s == makePartitionSignature(ad)
      below == FoldSet(LAMBDA c, y: ClassAdDeleted(y, c, key, ad), x, SubViews(x, v))
      out == [below EXCEPT !.views[v].members = @ \ {key}]
  IN CASE key \notin view.members -> x
       [] key \in view.members /\ ~view.part -> out
       [] key \in view.members /\ view.part /\ s \in DOMAIN view.parts ->
            [out EXCEPT !.views[v].parts[s] = @ \ {key}]
       [] OTHER -> Ends(out, "down")

(* The ad was "old" and is now "mad" (ClassAdPreModify notes the partition  *)
(* of the old one in every view).  A partition that keeps the ad is not     *)
(* told of the change.  A view that the ad leaves deletes it by its new     *)
(* value, and so from the wrong partition if that has changed too.          *)
RECURSIVE ClassAdModified(_, _, _, _, _)
ClassAdModified(x, v, key, mad, old) ==
  LET view == x.views[v]
      from == makePartitionSignature(old)
      moves == view.part /\ from # makePartitionSignature(mad)
      left == [view EXCEPT !.parts[from] = @ \ {key}]
      into == PartOf(view, makePartitionSignature(mad))
      moved == CASE ~moves -> x
                 [] moves /\ key \in into -> Ends(x, "spoilt")
                 [] OTHER -> [x EXCEPT !.views[v] = IntoPart(left, key, mad)]
      member == key \in view.members
  IN CASE member /\ Accepts(view, mad) /\ moves /\ from \notin DOMAIN view.parts -> Ends(x, "down")
       [] member /\ Accepts(view, mad) /\ (moves => from \in DOMAIN view.parts) ->
            FoldSet(LAMBDA c, y: ClassAdModified(y, c, key, mad, old), moved, SubViews(x, v))
       [] ~member /\ Accepts(view, mad) -> ClassAdInserted(x, v, key, mad)
       [] member /\ ~Accepts(view, mad) -> ClassAdDeleted(x, v, key, mad)
       [] OTHER -> x

InsertSubordinateView(x, name, parent, cons, part) ==
  LET new == [x EXCEPT !.views = With(@, name, NewView(parent, cons, part))] IN
    FoldSet(LAMBDA k, y: ClassAdInserted(y, name, k, x.ads[k]), new, x.views[parent].members)

SetPartitionExprs_later(x, v, part) ==     \* mutant: the members are not divided again
  [x EXCEPT !.views[v].part = part, !.views[v].parts = Empty]
SetPartitionExprs(x, v, part) ==
  LET view == [x.views[v] EXCEPT !.part = part, !.parts = Empty]
  IN [x EXCEPT !.views[v] =
        FoldSet(LAMBDA k, y: IntoPart(y, k, x.ads[k]), view, view.members)]

(* A sub view goes; a partition goes if it is empty, and otherwise has its  *)
(* settings reset.                                                          *)
DeleteChildView(x, name, s) ==
  IF s = {} THEN [x EXCEPT !.views = Without(@, name)]
  ELSE [x EXCEPT !.views[name].parts =
          [t \in {u \in DOMAIN @: u \notin s \/ @[u] # {}} |-> @[t]]]

-----------------------------------------------------------------------------
(* Operations on ads, views and transactions: played when a transaction is  *)
(* committed and when the log is read.  Each returns the collection with    *)
(* "ret" set to "ok" or "fail".                                             *)

AdRec(op, x, key, ad) == [op |-> op, x |-> x, key |-> key, ad |-> ad]
Done(x) == [x EXCEPT !.ret = "ok"]
Fails(x) == [x EXCEPT !.ret = "fail"]

Overwrite(ad, update) == [a \in DOMAIN ad |-> IF a \in DOMAIN update THEN update[a] ELSE ad[a]]

Removed(x, key) ==
  LET y == ClassAdDeleted(x, "root", key, x.ads[key]) IN [y EXCEPT !.ads = Without(@, key)]
Added(x, key, ad) ==
  LET y == IF key \in DOMAIN x.ads THEN Removed(x, key) ELSE x
  IN [ClassAdInserted(y, "root", key, ad) EXCEPT !.ads = With(@, key, ad)]

RECURSIVE Belongs(_, _, _)
Belongs(x, v, ad) ==
  /\ Accepts(x.views[v], ad)
  /\ x.views[v].parent # NoName => Belongs(x, x.views[v].parent, ad)

(* History: the ad leaves a partitioned view with a new value of p, and so  *)
(* stays in its old partition.                                              *)
Strays(x, key, ad) ==
  \E v \in DOMAIN x.views: /\ x.views[v].part /\ key \in x.views[v].members
                           /\ x.ads[key].p # ad.p /\ ~Belongs(x, v, ad)
Changed(x, key, ad) ==
  [ClassAdModified(x, "root", key, ad, x.ads[key]) EXCEPT
     !.ads[key] = ad, !.off = @ \/ Strays(x, key, ad)]

PlayClassAdOp(x, r) ==
  CASE r.op = "add" -> Done(Added(x, r.key, r.ad))
    [] r.op # "add" /\ r.key \notin DOMAIN x.ads -> Fails(x)
    [] r.op \in {"update", "modify"} /\ r.key \in DOMAIN x.ads ->
         Done(Changed(x, r.key, Overwrite(x.ads[r.key], r.ad)))
    [] r.op = "remove" /\ r.key \in DOMAIN x.ads -> Done(Removed(x, r.key))

(* Deleting a view that has views below it frees those twice; the model     *)
(* has no outcome for that, see DeleteView.                                 *)
PlayViewOp(x, r) ==
  CASE r.op = "subview" /\ r.parent \in DOMAIN x.views /\ r.name \notin DOMAIN x.views ->
         Done(InsertSubordinateView(x, r.name, r.parent, r.cons, r.part))
    [] r.op = "delview" /\ r.name \in DOMAIN x.views /\ r.sig \subseteq DOMAIN x.views[r.name].parts
         /\ (r.sig = {} => r.name # "root") ->
         Done(DeleteChildView(x, r.name, r.sig))
    [] r.op = "setview" /\ r.name \in DOMAIN x.views -> Done(SetPartitionExprs(x, r.name, r.part))
    [] OTHER -> Fails(x)                    \* a "partition" record has no representative

(* ServerTransaction::Commit.  The operations are played in order, each     *)
(* with a backup of the ad it is going to change; when one fails, those     *)
(* before it are undone, the first one first.                               *)
NoAd == [m |-> 0, p |-> 0, none |-> TRUE]
Backup(x, key) == IF key \in DOMAIN x.ads THEN x.ads[key] ELSE NoAd

Played(p, r) ==
  IF p.x.ret = "fail" THEN p
  ELSE LET next == PlayClassAdOp(p.x, r) IN
         [x |-> next,
          backups |-> IF next.ret = "ok" THEN Append(p.backups, Backup(p.x, r.key)) ELSE p.backups]
Play(x, ops) == FoldLeft(Played, [x |-> Done(x), backups |-> <<>>], ops)

UndoOne_table(x, r, backup) ==             \* mutant: the views are not told
  IF r.op # "remove" /\ backup = NoAd THEN [x EXCEPT !.ads = Without(@, r.key)]
  ELSE [x EXCEPT !.ads = With(@, r.key, backup)]
UndoOne(x, r, backup) ==
  CASE r.op = "remove" ->
         [ClassAdInserted(x, "root", r.key, backup) EXCEPT !.ads = With(@, r.key, backup)]
    [] r.op # "remove" /\ r.key \notin DOMAIN x.ads -> Ends(x, "down")
    [] r.op # "remove" /\ r.key \in DOMAIN x.ads /\ backup = NoAd -> Removed(x, r.key)
    [] OTHER -> Changed(x, r.key, backup)

Undo(played, ops) ==
  FoldLeft(LAMBDA x, i: UndoOne(x, ops[i], played.backups[i]), played.x,
           [i \in 1..Len(played.backups) |-> i])

Ended(played, ops) == IF played.x.ret = "ok" THEN played.x ELSE Fails(Undo(played, ops))
Commit(x, ops) == Ended(Play(x, ops), ops)

Repeats(ops) == \E i, j \in 1..Len(ops): i < j /\ ops[i].key = ops[j].key
UndoesTwice(x, ops) == Repeats(SubSeq(ops, 1, Len(Play(x, ops).backups)))

-----------------------------------------------------------------------------
(* Reading the log back.  "committed" is the null entry that the table of   *)
(* transactions keeps for a name after its commit has been read.            *)

committed == <<Torn>>
Active(x, t) == t \in DOMAIN x.xact /\ x.xact[t] # committed

PlayXactionOp(x, r) ==
  CASE r.op = "open" /\ r.x \notin DOMAIN x.xact -> Done([x EXCEPT !.xact = With(@, r.x, <<>>)])
    [] r.op = "commit" /\ Active(x, r.x) ->
         LET y == Commit(x, x.xact[r.x])
         IN [y EXCEPT !.xact = IF y.ret = "ok" THEN With(@, r.x, committed) ELSE Without(@, r.x)]
    [] OTHER -> Fails(x)

OperateInRecoveryMode_atOnce(x, r) ==      \* mutant: operations of a transaction are played at once
  CASE r.op \in {"open", "commit"} -> PlayXactionOp(x, r)
    [] r.op \in {"subview", "delview", "setview", "partition"} -> PlayViewOp(x, r)
    [] OTHER -> PlayClassAdOp(x, r)
OperateInRecoveryMode(x, r) ==
  CASE r.op \in {"open", "commit"} -> PlayXactionOp(x, r)
    [] r.op \in {"subview", "delview", "setview", "partition"} -> PlayViewOp(x, r)
    [] r.op \in {"add", "update", "modify", "remove"} /\ r.x = NoName -> PlayClassAdOp(x, r)
    [] r.op \in {"add", "update", "modify", "remove"} /\ r.x # NoName ->
         IF Active(x, r.x) THEN Done([x EXCEPT !.xact[r.x] = Append(@, r)]) ELSE Fails(x)

(* The lines up to the first one that does not parse, or the end.           *)
Readable(log) ==
  LET torn == {i \in 1..Len(log): log[i] = Torn}
  IN IF torn = {} THEN log ELSE SubSeq(log, 1, Min(torn) - 1)

ReadLogFile(x) ==
  FoldLeft(LAMBDA y, r: IF y.ret = "ok" THEN OperateInRecoveryMode(y, r) ELSE y,
           x, Readable(x.log))

InitializeFromLog(x) == ReadLogFile(Made(x.log, x.synced, x.may, x.harm))

-----------------------------------------------------------------------------
(* Writing the log.  Of the records "recs" the first o.c reach the file,    *)
(* then perhaps a part of the next one; the writer then goes on ("ok"),     *)
(* has seen the error ("false") or is gone ("dies").  A record written      *)
(* behind a torn line ends up on that line or after it.  With no file       *)
(* nothing is written and nothing is said; using a closed one is undefined, *)
(* and here fails or ends the process.                                      *)

FileOutcomes(n, sync) ==
  {[c |-> n, torn |-> FALSE, fate |-> "ok"]}
  \cup (IF "crash" \in store.faults
        THEN {o \in [c: 0..n, torn: BOOLEAN, fate: {"dies"}]: o.torn => o.c < n} ELSE {})
  \cup (IF "full" \in store.faults
        THEN [c: {0, n}, torn: {FALSE}, fate: {"false"}] ELSE {})
  \cup (IF "full" \in store.faults /\ ~sync
        THEN [c: {0, n - 1}, torn: {FALSE}, fate: {"ok"}] ELSE {})
Outcomes(n, sync) ==
  CASE w.fp = "open" -> FileOutcomes(n, sync)
    [] w.fp = "null" -> [c: {0}, torn: {FALSE}, fate: {"ok"}]
    [] w.fp = "freed" -> [c: {0}, torn: {FALSE}, fate: {"false", "dies"}]

Reopened(x, recs) ==
  \E i \in 1..Len(recs), j \in 1..Len(x.log):
     recs[i].op = "open" /\ x.log[j].op = "open" /\ x.log[j].x = recs[i].x

Written(x, recs, o) ==
  [x EXCEPT !.log = @ \o SubSeq(recs, 1, o.c) \o (IF o.torn THEN <<Torn>> ELSE <<>>),
            !.harm = @ \cup (IF \E j \in 1..Len(x.log): x.log[j] = Torn THEN {"torn"} ELSE {})
                       \cup (IF Reopened(x, recs) THEN {"reopened"} ELSE {})]

(* WriteLogEntry and ServerTransaction::Log: x is the collection after the  *)
(* operation.  WriteLogEntry also calls fsync; Log does not, and does not   *)
(* look at what fflush returns.                                             *)
Logged(x, recs, sync, o) ==
  LET y == Written(x, recs, o)
      known == [y EXCEPT !.may = IF sync THEN {Contents(x)} ELSE @ \cup {Contents(x)},
                         !.synced = IF sync THEN Len(y.log) ELSE @]
  IN CASE x.up # "up" -> x
       [] x.up = "up" /\ o.fate = "ok" /\ o.c = Len(recs) -> Done(known)
       [] x.up = "up" /\ o.fate = "ok" /\ o.c < Len(recs) -> Done([y EXCEPT !.harm = @ \cup {"unlogged"}])
       [] x.up = "up" /\ o.fate = "false" -> Fails([y EXCEPT !.harm = @ \cup {"unlogged"}])
       [] x.up = "up" /\ o.fate = "dies" -> Gone([y EXCEPT !.may = @ \cup {Contents(x)}])

WriteLogEntry(x, r, o) == Logged(x, <<r>>, TRUE, o)
Log(x, t, ops, o) ==
  Logged(x, <<[op |-> "open", x |-> t]>> \o ops \o <<[op |-> "commit", x |-> t]>>, FALSE, o)

-----------------------------------------------------------------------------
(* The interface *)

Room(n) == Len(w.log) + n <= store.maxlog
Calls(kind) == w.up = "up" /\ kind \in store.kinds /\ UNCHANGED store
Direct == w.cur = NoName

(* With a current transaction the operation is only noted in it.            *)
Noted(r) ==
  /\ w.cur # NoName
  /\ w' = IF w.cur \in DOMAIN w.xact
          THEN Done([w EXCEPT !.xact[w.cur] = Append(@, r)]) ELSE Fails(w)
  /\ \A t \in DOMAIN w'.xact: Len(w'.xact[t]) <= store.maxops

(* When the record cannot be written the new ad is taken out again and the  *)
(* old one goes back to the table, not to the views.                        *)
AddClassAd_NoTransaction(key, ad, o) ==
  LET had == key \in DOMAIN w.ads
      y == Added(w, key, ad)
      z == WriteLogEntry(y, AdRec("add", NoName, key, ad), o)
      undone == Removed(z, key)
  IN IF o.fate # "false" THEN z
     ELSE IF had THEN [undone EXCEPT !.ads = With(@, key, w.ads[key]), !.off = TRUE] ELSE undone

AddClassAd ==
  /\ Calls("add")
  /\ \E key \in store.keys, ad \in store.ads:
       \/ Noted(AdRec("add", w.cur, key, ad))
       \/ /\ Direct /\ Room(1)
          /\ \E o \in Outcomes(1, TRUE): w' = AddClassAd_NoTransaction(key, ad, o)

(* Adding the very ad that is there only writes a record; if that fails the *)
(* ad leaves the collection.                                                *)
AddSameClassAd ==
  /\ Calls("same") /\ Direct /\ Room(1)
  /\ \E key \in DOMAIN w.ads, o \in Outcomes(1, TRUE):
       LET y == WriteLogEntry(w, AdRec("add", NoName, key, w.ads[key]), o)
       IN w' = IF o.fate = "false" THEN Removed(y, key) ELSE y

(* UpdateClassAd and ModifyClassAd keep the change when it is not logged.   *)
UpdateClassAd ==
  \E op \in {"update", "modify"}, key \in store.keys, update \in store.updates:
    /\ Calls(op)
    /\ \/ Noted(AdRec(op, w.cur, key, update))
       \/ Direct /\ key \notin DOMAIN w.ads /\ w' = Fails(w)
       \/ /\ Direct /\ key \in DOMAIN w.ads /\ Room(1)
          /\ \E o \in Outcomes(1, TRUE):
               w' = WriteLogEntry(Changed(w, key, Overwrite(w.ads[key], update)),
                                  AdRec(op, NoName, key, update), o)

RemoveClassAd ==
  /\ Calls("remove")
  /\ \E key \in store.keys:
       \/ Noted(AdRec("remove", w.cur, key, NoAd))
       \/ Direct /\ key \notin DOMAIN w.ads /\ w' = Done(w)
       \/ /\ Direct /\ key \in DOMAIN w.ads /\ Room(1)
          /\ \E o \in Outcomes(1, TRUE):
               w' = WriteLogEntry(Removed(w, key), AdRec("remove", NoName, key, NoAd), o)

(* Operations on views are written first and then played; one that is       *)
(* refused has its record in the log all the same.                          *)
ViewOp(r) ==
  /\ Room(1)
  /\ \E o \in Outcomes(1, TRUE):
       LET after == PlayViewOp(w, r)
           y == WriteLogEntry(after, r, o)
       IN w' = CASE o.fate = "false" -> WriteLogEntry(w, r, o)
                 [] o.fate # "false" /\ after.ret = "ok" -> y
                 [] OTHER -> Fails([y EXCEPT !.harm = @ \cup {"refused"}])

CreateSubView ==
  /\ Calls("subview")
  /\ \E name \in store.subs, parent \in {"root"} \cup store.subs, def \in store.defs:
       /\ name # parent
       /\ ViewOp([op |-> "subview", name |-> name, parent |-> parent,
                  cons |-> def.cons, part |-> def.part])

(* Not for a view with views below it, which frees those twice.             *)
DeleteView ==
  /\ Calls("delview")
  /\ \E name \in {"root"} \cup store.subs, sig \in {{}, {0}, {1}}:
       /\ (name \in DOMAIN w.views /\ name # "root" /\ sig = {}) =>
            (SubViews(w, name) = {} /\ w.views[name].parts = Empty)
       /\ ViewOp([op |-> "delview", name |-> name, sig |-> sig])

(* SetViewInfo with the constraint that the view already has.               *)
SetViewInfo ==
  /\ Calls("setview")
  /\ \E name \in {"root"} \cup store.subs, part \in BOOLEAN:
       ViewOp([op |-> "setview", name |-> name, part |-> part])

OpenTransaction ==
  /\ Calls("xact")
  /\ \E t \in store.names:
       w' = IF t \in DOMAIN w.xact THEN Fails(w)
            ELSE Done([w EXCEPT !.xact = With(@, t, <<>>), !.cur = t])

(* The transaction stays the current one.                                   *)
CommitTransaction(t, o) ==
  LET ops == w.xact[t]
      y == [Commit(w, ops) EXCEPT !.xact = Without(@, t)]
  IN CASE ops = committed -> Ends(w, "down")
       [] ops # committed /\ y.up = "up" /\ y.ret = "fail" ->
            [y EXCEPT !.ret = "undone",
                      !.harm = @ \cup (IF UndoesTwice(w, ops) THEN {"undo"} ELSE {}),
                      !.off = @ \/ UndoesTwice(w, ops)]
       [] OTHER -> Log(y, t, ops, o)

CloseTransaction ==
  /\ Calls("xact")
  /\ \E t \in store.names:
       \/ t \notin DOMAIN w.xact /\ w' = Fails(w)
       \/ t \in DOMAIN w.xact /\ w' = Done([w EXCEPT !.xact = Without(@, t)])
       \/ /\ t \in DOMAIN w.xact
          /\ Room(Len(w.xact[t]) + 2) \/ (Active(w, t) /\ Commit(w, w.xact[t]).ret = "fail")
          /\ \E o \in Outcomes(Len(w.xact[t]) + 2, FALSE): w' = CommitTransaction(t, o)

SetCurrentTransaction ==
  /\ Calls("xact")
  /\ \E t \in store.names \cup {NoName}:
       w' = IF t = NoName \/ Active(w, t) THEN Done([w EXCEPT !.cur = t]) ELSE Fails(w)

RECURSIVE LogViews(_, _)
LogViews(x, v) ==
  LET view == x.views[v]
      own == IF v = "root" THEN <<>>
             ELSE <<[op |-> "subview", name |-> v, parent |-> view.parent,
                     cons |-> view.cons, part |-> view.part]>>
      parts == [i \in 1..Cardinality(DOMAIN view.parts) |-> [op |-> "partition"]]
  IN FoldSet(LAMBDA c, log: log \o LogViews(x, c), own, SubViews(x, v)) \o parts

LogState_ads(x) ==                         \* mutant: the views are not written
  FoldSet(LAMBDA k, log: Append(log, AdRec("add", NoName, k, x.ads[k])), <<>>, DOMAIN x.ads)
LogState(x) ==
  FoldSet(LAMBDA k, log: Append(log, AdRec("add", NoName, k, x.ads[k])),
          LogViews(x, "root"), DOMAIN x.ads)

(* The state is written to a file of its own, which then replaces the log.  *)
(* Any of the steps may fail: writing that file, renaming it (the old log   *)
(* has been closed by then) or opening it again as the log.  A log that is  *)
(* not open cannot be closed: the process ends, with its log as it was.     *)
TruncateLog ==
  /\ Calls("truncate") /\ Len(LogState(w)) <= store.maxlog
  /\ LET log == LogState(w)
         lost == w.views["root"].part \/ \E i \in 1..Len(log): log[i].op = "partition"
         renamed == [w EXCEPT !.log = log, !.synced = Len(log), !.may = {Contents(w)},
                              !.harm = IF lost THEN {"truncated"} ELSE {}]
     IN \/ w.fp = "open" /\ w' = Done(renamed)
        \/ w.fp # "open" /\ w' = Gone(w)
        \/ "full" \in store.faults /\ w' = Fails(w)
        \/ w.fp = "open" /\ "full" \in store.faults /\ w' = Fails([w EXCEPT !.fp = "freed"])
        \/ w.fp = "open" /\ "full" \in store.faults /\ w' = Fails([renamed EXCEPT !.fp = "null"])

GetClassAd == w.up = "up" /\ UNCHANGED collVars

Crash ==
  /\ w.up = "spoilt" \/ (w.up = "up" /\ "crash" \in store.faults)
  /\ w' = Gone(w) /\ UNCHANGED store

(* What was not synced may be gone, from any byte on.                       *)
PowerCut ==
  /\ w.up # "failed" /\ "power" \in store.faults /\ UNCHANGED store
  /\ \E c \in w.synced..Len(w.log), torn \in BOOLEAN:
       /\ torn => c < Len(w.log)
       /\ LET log == SubSeq(w.log, 1, c) \o (IF torn THEN <<Torn>> ELSE <<>>)
          IN w' = Gone([w EXCEPT !.log = log, !.synced = Len(log)])

Restart ==
  /\ w.up \in {"down", "failed"} /\ UNCHANGED store
  /\ \E y \in {InitializeFromLog(w)}:
       w' = IF y.ret = "ok" THEN [y EXCEPT !.may = IF y.synced = Len(y.log) THEN {Contents(y)}
                                                   ELSE @ \cup {Contents(y)}]
            ELSE [w EXCEPT !.up = "failed"]

CoNext ==
  \/ AddClassAd \/ AddSameClassAd \/ UpdateClassAd \/ RemoveClassAd
  \/ CreateSubView \/ DeleteView \/ SetViewInfo
  \/ OpenTransaction \/ CloseTransaction \/ SetCurrentTransaction
  \/ TruncateLog \/ GetClassAd \/ Crash \/ PowerCut \/ Restart

CoSpec == CoInit /\ [][CoNext]_collVars

-----------------------------------------------------------------------------
CollectionTypeOK ==
  /\ w.up \in {"up", "down", "failed", "spoilt"}
  /\ DOMAIN w.ads \subseteq AdKeys /\ DOMAIN w.xact \subseteq XNames
  /\ "root" \in DOMAIN w.views /\ DOMAIN w.views \subseteq {"root"} \cup SubNames
  /\ w.cur \in XNames \cup {NoName} /\ w.synced \in 0..Len(w.log) /\ Len(w.log) <= store.maxlog + 1

(* Every view lists exactly the ads that its constraint and those of the    *)
(* views above it accept, and a partitioned view has each of them in the    *)
(* partition of its value, whatever has been added, changed, moved, removed *)
(* or undone, and after a restart.  Three things break this, and after them *)
(* a view still never lists an ad that the table does not have (the         *)
(* "internal error" of InsertSubordinateView and SetPartitionExprs): an add *)
(* in place of an ad that could not be logged, the undoing of two           *)
(* operations on one key, and a change that takes an ad out of a            *)
(* partitioned view and gives it another value for the partition as well,   *)
(* which leaves it in the old partition (or, without a partition of the new *)
(* value, ends the process).                                                *)
ViewsFollow ==
  CollectionTypeOK /\
  (w.up = "up" =>
     \A v \in DOMAIN w.views:
       LET view == w.views[v] IN
         /\ view.members \subseteq DOMAIN w.ads
         /\ ~w.off => /\ view.members = {k \in DOMAIN w.ads: Belongs(w, v, w.ads[k])}
                      /\ \A s \in DOMAIN view.parts \cup {0, 1}:
                           PartOf(view, s) = {k \in view.members: view.part /\ w.ads[k].p = s})

(* The log mirrors the collection: read back now, it gives the ads and the  *)
(* views in memory, without the operations of open transactions; and after  *)
(* a crash in the middle of an operation or of writing a transaction, or a  *)
(* loss of power, it gives the contents before or after that operation.     *)
(* This is so until one of these: a transaction name is used again in one   *)
(* log, an operation on views is refused, a record follows a torn line, a   *)
(* write fails, two operations on one key are undone, or a partitioned view *)
(* is truncated; truncating the log otherwise makes it good again.          *)
Recovers ==
  w.harm = {} /\ w.up # "spoilt" =>
    \A y \in {InitializeFromLog(w)}:
      /\ w.up # "failed" /\ y.ret = "ok" /\ y.up = "up"
      /\ Contents(y) \in (IF w.up = "up" THEN {Contents(w)} ELSE w.may)

(* A commit that fails at one of its operations leaves the table and the    *)
(* views as they were (those that were right), sub views and partitions     *)
(* included, when the operations before the failed one are of different     *)
(* keys and undoing them moves no ad out of a partitioned view with another *)
(* value.  Two operations of one key are undone in the wrong order.         *)
Filled(view) == {<<s, view.parts[s]>>: s \in {t \in DOMAIN view.parts: view.parts[t] # {}}}
FailedCommitRestores ==
  [][\A t \in DOMAIN w.xact \ DOMAIN w'.xact:
       w'.ret = "undone" /\ ~UndoesTwice(w, w.xact[t]) =>
         /\ w'.ads = w.ads /\ DOMAIN w'.views = DOMAIN w.views
         /\ w'.off \/ \A v \in DOMAIN w.views:
                        /\ w'.views[v].members = w.views[v].members
                        /\ Filled(w'.views[v]) = Filled(w.views[v])]_collVars

(* InitializeFromLog reads the collection back from the log that the        *)
(* library itself has written: it never refuses it.                         *)
ReadsBack == w.up # "failed"
=============================================================================
