-------------------------- MODULE MCRuntimeLifecycle --------------------------
(* RuntimeLifecycle with two tasks, two displays of the first and one of   *)
(* the second, and three extensions that miss a callback each way.         *)
EXTENDS RuntimeLifecycle

CONSTANTS t1, t2, d1, d2, d3

MCTasks == {t1, t2}
MCDisplays == {d1, d2, d3}
MCDisplayOwner == [d \in MCDisplays |-> IF d = d3 THEN t2 ELSE t1]
MCHooks == <<{"install", "before_frame", "destroy"}, {"before_frame"}, {"install", "destroy"}>>
=============================================================================
