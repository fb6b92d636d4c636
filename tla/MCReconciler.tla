---------------------------- MODULE MCReconciler ----------------------------
(***************************************************************************)
(* Reconciler for three pageservers and a shard that has one secondary     *)
(* location, in scenarios that differ in which events may happen.          *)
(***************************************************************************)
EXTENDS Reconciler, TLC

CONSTANTS p1, p2, p3

Only(E) == [e \in Events |-> IF e \in E THEN 1 ELSE 0]
Twice(x, E) == [Only(E) EXCEPT ![x] = 2]

\* One pageserver is lost while an operator or the controller's restart
\* interferes, or two are; calls and notifications may fail as well.
Scenarios == {Only({"move", "crash", "io", "notify"}),
              Only({"move", "cut", "io", "notify"}),
              Only({"cut", "crash", "io", "notify"}),
              Only({"move", "crash", "io", "ctl"}),
              Only({"move", "cut", "io", "ctl"}),
              Only({"move", "io", "notify", "ctl"}),
              Twice("crash", {"io"}),
              Twice("move", {"io", "notify"})}

\* The operator moves the shard away and back while a pageserver is cut off.
ThereAndBack == {Twice("move", {"cut"})}

\* The shard fails over, the controller is restarted and the operator moves the
\* shard.
FailOverAndMove == {Only({"move", "cut", "ctl"})}
=============================================================================
