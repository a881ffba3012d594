------------------------------ MODULE MCStore ------------------------------
(* Settings of Collection for TLC.                                          *)
EXTENDS Collection

Ad(m, p) == [m |-> m, p |-> p]
One(a, e) == [b \in {a} |-> e]
Accepting(part) == [cons |-> "m", part |-> part]

Journal == [kinds |-> {"add", "xact"}, keys |-> AdKeys, names |-> {"t"}, subs |-> {},
            ads |-> {Ad(1, 0)}, updates |-> {}, defs |-> {}, faults |-> {"crash", "power"},
            maxlog |-> 4, maxops |-> 2]
Paired == [Journal EXCEPT !.kinds = {"add", "xact"}, !.names = XNames,
                          !.keys = {CHOOSE k \in AdKeys: TRUE}, !.faults = {"crash"}, !.maxlog = 6, !.maxops = 1]
Undoing == [Journal EXCEPT !.kinds = {"add", "update", "remove", "xact", "setview"},
                           !.updates = {One("m", 0), One("p", 1)}, !.faults = {}]
Unwinding == [Journal EXCEPT !.kinds = {"add", "update", "remove", "xact", "subview"},
                             !.subs = {"v"}, !.defs = {Accepting(TRUE)}, !.maxlog = 3, !.maxops = 3,
                             !.updates = {Ad(0, 1)}, !.faults = {}]
Viewing == [Journal EXCEPT !.kinds = {"add", "update", "remove", "subview", "setview", "delview"},
                           !.subs = SubNames, !.ads = {Ad(1, 0), Ad(0, 1)},
                           !.updates = {One("m", 0), One("m", 1), One("p", 1), Ad(0, 1), Ad(1, 0)},
                           !.defs = {Accepting(FALSE), Accepting(TRUE)}, !.faults = {}]
Full == [Journal EXCEPT !.kinds = {"add", "same", "modify", "xact"},
                        !.updates = {One("m", 0)}, !.faults = {"full"}, !.maxlog = 3, !.maxops = 1]
Truncating == [Journal EXCEPT !.kinds = {"add", "subview", "setview", "truncate"},
                              !.subs = {"v"}, !.defs = {Accepting(FALSE), Accepting(TRUE)},
                              !.faults = {"crash"}, !.maxlog = 3]
Rewriting == [Full EXCEPT !.kinds = {"add", "modify", "truncate"}, !.faults = {"full"}]

OnlyPaired == {Paired}
AllStores == {Journal, Paired, Undoing, Unwinding, Viewing, Full, Truncating, Rewriting}
StoreSymmetry == Permutations(AdKeys)
=============================================================================
