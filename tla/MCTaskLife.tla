----------------------------- MODULE MCTaskLife -----------------------------
EXTENDS TaskLife

Base == [kinds |-> {"tied"}, preds |-> {}, openers |-> {}, cancels |-> FALSE,
         tasks |-> 3, parts |-> 1]

(* Tied tasks with dependences; task groups one in another; a cancelled     *)
(* group; untied tasks in two parts; tied and untied tasks; proxy tasks.    *)
Dependences == [Base EXCEPT !.preds = {"tied"}]
Groups      == [Base EXCEPT !.openers = {1, 3}]
Cancelled   == [Base EXCEPT !.openers = {1}, !.cancels = TRUE]
Parts       == [Base EXCEPT !.kinds = {"untied"}, !.parts = 2, !.tasks = 2]
Mixed       == [Base EXCEPT !.kinds = {"tied", "untied"}]
Proxies     == [Base EXCEPT !.kinds = {"tied", "proxy"}, !.openers = {1}, !.cancels = TRUE,
                            !.tasks = 2]

MCMasters  == {1}
MCPrograms == {Dependences, Groups, Cancelled, Parts, Mixed, Proxies}

(* A tied task that depends on a proxy task, or mixed tasks, while both     *)
(* threads create tasks.                                                    *)
MCBothMasters   == {1, 2}
MCOtherPrograms == {Mixed, [Base EXCEPT !.kinds = {"tied", "proxy"}, !.preds = {"proxy"}]}
=============================================================================
