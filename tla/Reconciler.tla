----------------------------- MODULE Reconciler -----------------------------
(***************************************************************************)
(* How the storage controller brings the locations of one tenant shard to  *)
(* where it wants them, with policy Attached(Secondaries): reconcilers     *)
(* work on a snapshot of what the controller has observed, one after the   *)
(* other, while pageservers disappear, restart and come back, intents      *)
(* change, and results wait to be applied.                                 *)
(*                                                                         *)
(*   db       the shard's row: its generation, and the node it is for      *)
(*   loc      the location on each pageserver, which survives a restart    *)
(*   link     what the controller can do with each pageserver; one that    *)
(*            is "asking" has had its re-attach committed to the database  *)
(*   issued   the generation which that re-attach has given to the node,   *)
(*            0 if none                                                    *)
(*   compute  the pageserver that the compute has been told to use         *)
(*   ctl      the TenantShard in the controller's memory, and how it sees  *)
(*            the pageservers                                              *)
(*   tasks    the reconciler that runs, the one that waits for it to end,  *)
(*            and the results still to be applied                          *)
(*   budget   how many faults and operator requests may still happen       *)
(***************************************************************************)
EXTENDS Integers, Sequences, FiniteSets

CONSTANTS
    Nodes,          \* the pageservers
    First,          \* where the shard is attached at the start
    Second,         \* where it has secondary locations at the start
    Secondaries,    \* how many secondary locations the policy asks for
    Budgets         \* bound: events of each kind, one of these records

VARIABLES db, loc, link, issued, compute, ctl, tasks, budget

vars == <<db, loc, link, issued, compute, ctl, tasks, budget>>

Events == {"cut", "crash", "io", "notify", "move", "ctl"}

ASSUME BoundsAssumption ==
    /\ First \in Nodes /\ Second \subseteq Nodes \ {First}
    /\ Secondaries \in {0, 1} /\ Cardinality(Second) = Secondaries
    /\ Budgets \subseteq [Events -> Nat]

\* LocationConfig; generation 0 stands for None.
Conf(mode, gen) == [mode |-> mode, gen |-> gen]
Absent  == Conf("absent", 0)
Unknown == Conf("unknown", 0)
Secondary == Conf("secondary", 0)
AttachedModes == {"single", "multi", "stale"}
Attached(c) == c.mode \in AttachedModes

Spend(e) == budget[e] > 0 /\ budget' = [budget EXCEPT ![e] = @ - 1]

Larger(a, b) == IF a > b THEN a ELSE b

NoTask == [pc |-> "none"]
NoTasks == [run |-> NoTask, wait |-> NoTask, done |-> <<>>]

Active(c) == {n \in Nodes : c.avail[n] = "active"}

Init ==
    /\ db = [gen |-> 1, node |-> First]
    /\ loc = [n \in Nodes |-> IF n = First THEN Conf("single", 1)
                              ELSE IF n \in Second THEN Secondary ELSE Absent]
    /\ link = [n \in Nodes |-> "up"]
    /\ issued = [n \in Nodes |-> 0]
    /\ compute = First
    /\ ctl = [gen |-> 1, att |-> First, sec |-> Second, obs |-> loc, pending |-> FALSE,
              moved |-> FALSE, avail |-> [n \in Nodes |-> "active"]]
    /\ tasks = NoTasks
    /\ budget \in Budgets

-----------------------------------------------------------------------------
(* The controller's TenantShard, and when a reconciler is spawned.         *)

\* TenantShard::dirty and get_reconcile_needed
Needed(c) ==
    LET wanted(n) == IF n = c.att THEN Conf("single", c.gen)
                     ELSE IF n \in c.sec THEN Secondary ELSE Absent
    IN  \/ \E n \in Active(c) : c.obs[n] # wanted(n)
        \/ c.pending

\* There is a ReconcilerHandle: it is of a task, or of one whose result waits.
InProgress(k) ==
    \/ k.wait # NoTask
    \/ k.run # NoTask /\ k.run.cur
    \/ \E i \in DOMAIN k.done : k.done[i].cur

NewTask(c) ==
    [pc |-> "refresh", gen |-> c.gen, att |-> c.att, sec |-> c.sec,
     detach |-> {n \in Nodes \ ({c.att} \cup c.sec) : c.obs[n] # Absent},
     obs |-> c.obs, original |-> c.obs, nodes |-> Active(c), must |-> c.pending,
     cur |-> TRUE, unnotified |-> FALSE, failed |-> FALSE, origin |-> c.att, todo |-> {}]

\* TenantShard::spawn_reconciler: the new task cancels the one before and waits
\* for it; a task that was waiting itself has done nothing and never will.
Spawned(k, t) ==
    LET outdated == [i \in DOMAIN k.done |-> [k.done[i] EXCEPT !.cur = FALSE]]
    IN  IF k.run = NoTask THEN [run |-> t, wait |-> NoTask, done |-> outdated]
        ELSE [run |-> [k.run EXCEPT !.cur = FALSE], wait |-> t, done |-> outdated]

\* Service::maybe_reconcile_shard: a reconciler for the present intent is not
\* doubled.
MaybeReconcile(c, k) ==
    IF Needed(c) /\ (c.moved \/ ~InProgress(k))
    THEN /\ tasks' = Spawned(k, NewTask(c))
         /\ ctl' = [c EXCEPT !.moved = FALSE]
    ELSE /\ tasks' = k
         /\ ctl' = [c EXCEPT !.moved = @ /\ InProgress(k)]

\* Service::reconcile_all, which the background task repeats.
ReconcileAll ==
    /\ Needed(ctl) /\ (ctl.moved \/ ~InProgress(tasks))
    /\ MaybeReconcile(ctl, tasks)
    /\ UNCHANGED <<db, loc, link, issued, compute, budget>>

\* pop_secondary makes room for the node that is demoted.
WithRoom(S) ==
    LET room == IF Secondaries = 0 THEN Cardinality(S) ELSE Secondaries - 1
        kept == IF Cardinality(S) < room THEN Cardinality(S) ELSE room
    IN  {K \in SUBSET S : Cardinality(K) = kept}

\* Service::tenant_shard_migrate_immediate
MoveIntent(n) ==
    /\ n # ctl.att /\ ctl.avail[n] = "active"
    /\ Spend("move")
    /\ \E kept \in WithRoom(ctl.sec \ {n}) :
          LET sec == IF Secondaries > 0 THEN kept \cup {ctl.att} ELSE kept
          IN  MaybeReconcile([ctl EXCEPT !.att = n, !.sec = sec, !.moved = TRUE], tasks)
    /\ UNCHANGED <<db, loc, link, issued, compute>>

-----------------------------------------------------------------------------
(* What becomes of a reconciler.                                           *)

\* Mutant of Result: a notification is repeated only by a task that fails too.
ResultNotifiedOnce(t) ==
    [ok |-> ~t.failed, gen |-> t.gen, cur |-> t.cur, pending |-> t.failed /\ t.must,
     changed |-> {n \in Nodes : t.obs[n] # t.original[n]}, obs |-> t.obs]

\* TenantShard::reconcile: the result has what changed in the observed state.
Result(t) ==
    [ok |-> ~t.failed, gen |-> t.gen, cur |-> t.cur,
     pending |-> t.unnotified \/ (t.failed /\ t.must),
     changed |-> {n \in Nodes : t.obs[n] # t.original[n]}, obs |-> t.obs]

Continue(t) == tasks' = [tasks EXCEPT !.run = t]

Finish(t) == tasks' = [run |-> tasks.wait, wait |-> NoTask,
                       done |-> Append(tasks.done, Result(t))]

Fail(t) == Finish([t EXCEPT !.failed = TRUE])

\* What a delta means for the observed state.  A node that is not available
\* now is uncertain, and so is a location that was deleted by a reconciler
\* which failed, and one that is of an older generation than is known.
Observe(c, r, n) ==
    LET new == r.obs[n]
        old == c.obs[n]
    IN  IF n \notin r.changed THEN old
        ELSE IF \/ c.avail[n] # "active"
                \/ ~r.ok /\ new = Absent
                \/ new.gen # 0 /\ old.gen > new.gen
             THEN Unknown
        ELSE new

\* Service::process_result and TenantShard::apply_observed_deltas
ProcessResult ==
    /\ tasks.done # <<>>
    /\ LET r == Head(tasks.done)
           k == [tasks EXCEPT !.done = Tail(@)]
       IN  /\ tasks' = k
           /\ ctl' = [ctl EXCEPT !.gen = Larger(@, r.gen),
                                 !.pending = r.pending,
                                 !.obs = [n \in Nodes |-> Observe(ctl, r, n)],
                                 !.moved = @ /\ InProgress(k)]
    /\ UNCHANGED <<db, loc, link, issued, compute, budget>>

-----------------------------------------------------------------------------
(* Calls of the running reconciler to pageservers.                         *)

run == tasks.run

\* Node::is_available, of the copy that the reconciler has: the node was
\* active when it was spawned and its token has not fired.
Reaches(n) == n \in run.nodes /\ link[n] = "up"

\* TenantManager::upsert_location refuses an older generation.
Accepts(n, c) == Attached(c) /\ Attached(loc[n]) => loc[n].gen <= c.gen

\* Mutant of Unsure: the observation from before the call is kept.
StillSure(t, n) == t

\* A call that is about to be made leaves its outcome uncertain until it returns.
Unsure(t, n) == [t EXCEPT !.obs[n] = Unknown]

\* Reconciler::location_config, to n, for c.  A call that does not succeed may
\* have been carried out all the same.
LocationConfig(n, c, ok) ==
    LET apply == loc' = [loc EXCEPT ![n] = c]
    IN  \/ ok /\ Reaches(n) /\ Accepts(n, c) /\ apply /\ UNCHANGED budget
        \/ ~ok /\ Reaches(n) /\ Accepts(n, c) /\ Spend("io") /\ (apply \/ UNCHANGED loc)
        \/ ~ok /\ Reaches(n) /\ ~Accepts(n, c) /\ UNCHANGED <<loc, budget>>
        \/ /\ ~ok /\ ~Reaches(n) /\ UNCHANGED budget
           /\ (link[n] = "up" /\ Accepts(n, c) /\ apply) \/ UNCHANGED loc

\* The step of a live migration, or of an attachment, that makes this call: the
\* task fails with it.
Call(n, c, pc) ==
    \E ok \in BOOLEAN :
        /\ LocationConfig(n, c, ok)
        /\ IF ok THEN Continue([run EXCEPT !.obs[n] = c, !.pc = pc]) ELSE Fail(Unsure(run, n))

\* Reconciler::compute_notify.  The call that fails may have had its effect.
Notify(ok) ==
    \/ ok /\ compute' = run.att /\ UNCHANGED budget
    \/ ~ok /\ Spend("notify") /\ compute' \in {compute, run.att}

Unnotified(t) == [t EXCEPT !.unnotified = TRUE]

\* Mutants of IncrementGeneration: the new generation is not saved, or there is
\* none.
IncrementInMemory(pc) ==
    /\ db' = [db EXCEPT !.node = run.att]
    /\ Continue([run EXCEPT !.gen = db.gen + 1, !.pc = pc])
SameGeneration(pc) ==
    /\ db' = [db EXCEPT !.node = run.att]
    /\ Continue([run EXCEPT !.gen = db.gen, !.pc = pc])

\* Persistence::increment_generation
IncrementGeneration(pc) ==
    /\ db' = [gen |-> db.gen + 1, node |-> run.att]
    /\ Continue([run EXCEPT !.gen = db.gen + 1, !.pc = pc])

GoTo(t, pc) == Continue([t EXCEPT !.pc = pc])

-----------------------------------------------------------------------------
(* Reconciler::reconcile, step by step.                                    *)

\* maybe_live_migrate looks for a node to migrate from.
Origins(t) == IF Attached(t.obs[t.att]) \/ t.obs[t.att] = Unknown THEN {}
              ELSE {n \in t.nodes \ {t.att} : t.obs[n].mode = "single"}

Refreshed(t) ==
    IF Origins(t) = {} THEN GoTo(t, "attach")
    ELSE \E n \in Origins(t) : Continue([t EXCEPT !.pc = "stale", !.origin = n])

\* maybe_refresh_observed: an uncertain location is read before it is attached.
\* The pageserver may answer that it cannot tell, as another call is still at work
\* there; then the task goes on all the same.
Refresh ==
    /\ run.pc = "refresh"
    /\ IF run.obs[run.att] # Unknown THEN Refreshed(run) /\ UNCHANGED budget
       ELSE \/ /\ Reaches(run.att)
               /\ Refreshed([run EXCEPT !.obs[run.att] = loc[run.att]]) /\ UNCHANGED budget
            \/ Reaches(run.att) /\ Spend("io") /\ (Refreshed(run) \/ Fail(run))
            \/ ~Reaches(run.att) /\ Fail(run) /\ UNCHANGED budget
    /\ UNCHANGED <<db, loc, link, issued, compute, ctl>>

\* live_migrate
MakeStale ==
    /\ run.pc = "stale"
    /\ Call(run.origin, Conf("stale", run.gen), "increment")
    /\ UNCHANGED <<db, link, issued, compute, ctl>>

\* get_lsns has no answer.
LsnsFail ==
    /\ run.pc = "increment"
    /\ IF link[run.origin] = "up" THEN Spend("io") ELSE UNCHANGED budget
    /\ Fail(run)
    /\ UNCHANGED <<db, loc, link, issued, compute, ctl>>

IncrementForMigration ==
    /\ run.pc = "increment"
    /\ IncrementGeneration("multi")
    /\ UNCHANGED <<loc, link, issued, compute, ctl, budget>>

MakeMulti ==
    /\ run.pc = "multi"
    /\ Call(run.att, Conf("multi", run.gen), "await")
    /\ UNCHANGED <<db, link, issued, compute, ctl>>

\* await_lsn asks until the new location has caught up, whatever happens.
AwaitLsn ==
    /\ run.pc = "await"
    /\ link[run.att] = "up" /\ Attached(loc[run.att])
    /\ GoTo(run, "notify")
    /\ UNCHANGED <<db, loc, link, issued, compute, ctl, budget>>

\* Mutant of OriginIsGone: the origin is demoted although the compute may still
\* use it.
OriginIsNotWanted == TRUE

\* compute_notify_blocking: on an error it goes on if the origin is of no use
\* any more, tries again if it may be, and gives up if the error is fatal.
OriginIsGone ==
    run.origin \notin run.nodes \/ (link[run.origin] = "up" /\ ~Attached(loc[run.origin]))

NotifyBlocking ==
    /\ run.pc = "notify"
    /\ \/ Notify(TRUE) /\ GoTo(run, "demote")
       \/ /\ Notify(FALSE)
          /\ \/ Fail(Unnotified(run))
             \/ GoTo(Unnotified(run), IF OriginIsGone THEN "demote" ELSE "notify")
    /\ UNCHANGED <<db, loc, link, issued, ctl>>

DemoteOrigin ==
    /\ run.pc = "demote"
    /\ Call(run.origin, Secondary, "single")
    /\ UNCHANGED <<db, link, issued, compute, ctl>>

MakeSingle ==
    /\ run.pc = "single"
    /\ Call(run.att, Conf("single", run.gen), "attach")
    /\ UNCHANGED <<db, link, issued, compute, ctl>>

\* The general case: an attached location that is as wanted is left alone, any
\* other is attached again in a new generation.
AsWanted(t) == t.obs[t.att] = Conf("single", t.gen)

IncrementToAttach ==
    /\ run.pc = "attach" /\ ~AsWanted(run)
    /\ IncrementGeneration("configure")
    /\ UNCHANGED <<loc, link, issued, compute, ctl, budget>>

Configure ==
    /\ run.pc = "configure"
    /\ Call(run.att, Conf("single", run.gen), "attach")
    /\ UNCHANGED <<db, link, issued, compute, ctl>>

\* The other locations to change; a secondary on a node that is not available
\* is given up for now.
WithChanges(t) ==
    LET wrong == {n \in t.sec : t.obs[n] # Secondary}
    IN  [t EXCEPT !.pc = "changes",
                  !.todo = (wrong \cap t.nodes) \cup t.detach,
                  !.obs = [n \in Nodes |-> IF n \in wrong \ t.nodes THEN Unknown ELSE @[n]]]

NotifyAttached ==
    /\ run.pc = "attach" /\ AsWanted(run)
    /\ \/ Notify(TRUE) /\ Continue(WithChanges(run))
       \/ Notify(FALSE) /\ Fail(Unnotified(run))
    /\ UNCHANGED <<db, loc, link, issued, ctl>>

\* Secondaries are configured and superfluous locations detached, each whether
\* or not the others have worked.
ApplyChange(n) ==
    /\ run.pc = "changes" /\ n \in run.todo
    /\ LET rest == [run EXCEPT !.todo = @ \ {n}]
           wanted == IF n \in run.sec THEN Secondary ELSE Absent
       IN  \/ /\ n \in run.nodes /\ LocationConfig(n, wanted, TRUE)
              /\ Continue([rest EXCEPT !.obs[n] = wanted])
           \/ /\ n \in run.nodes /\ LocationConfig(n, wanted, FALSE)
              /\ Continue([Unsure(rest, n) EXCEPT !.failed = TRUE])
           \/ /\ n \notin run.nodes
              /\ Continue(Unsure(rest, n))
              /\ UNCHANGED <<loc, budget>>
    /\ UNCHANGED <<db, link, issued, compute, ctl>>

\* TenantShard::reconcile repeats a notification that is pending.
EndReconcile ==
    /\ run.pc = "changes" /\ run.todo = {}
    /\ \/ /\ run.must /\ ~run.failed
          /\ \/ Notify(TRUE) /\ Finish(run)
             \/ Notify(FALSE) /\ Finish(Unnotified(run))
       \/ /\ ~(run.must /\ ~run.failed)
          /\ Finish(run) /\ UNCHANGED <<compute, budget>>
    /\ UNCHANGED <<db, loc, link, issued, ctl>>

\* The waiting task has cancelled this one, which may go on for a while: the
\* token is looked at where the task waits or is about to call.
CancelTask ==
    /\ tasks.wait # NoTask
    /\ \/ /\ run.pc \in {"refresh", "increment", "await"} \/ (run.pc = "changes" /\ run.todo # {})
          /\ Fail(run) /\ UNCHANGED compute
       \/ /\ run.pc \in {"stale", "multi", "demote", "single", "configure"}
          /\ LET n == IF run.pc \in {"stale", "demote"} THEN run.origin ELSE run.att
             IN  Fail(Unsure(run, n))
          /\ UNCHANGED compute
       \/ /\ run.pc = "notify" \/ (run.pc = "attach" /\ AsWanted(run))
          /\ compute' \in {compute, run.att}
          /\ Fail(Unnotified(run))
    /\ UNCHANGED <<db, loc, link, issued, ctl, budget>>

-----------------------------------------------------------------------------
(* Availability of pageservers.                                            *)

\* Node::set_availability fires the token that copies of an active node share.
TokenFired(k, n) ==
    LET without(t) == IF t = NoTask THEN t ELSE [t EXCEPT !.nodes = @ \ {n}]
    IN  [k EXCEPT !.run = without(@), !.wait = without(@)]

\* TenantShard::schedule, for a shard that has no attached location: a node
\* that has a secondary location is preferred.
AttachChoices(c, sec) ==
    IF sec \cap Active(c) # {} THEN sec \cap Active(c) ELSE Active(c) \ sec

\* handle_node_availability_transition, ToOffline, after heartbeats have been
\* missed for long enough.
NodeOffline(n) ==
    /\ link[n] # "up" /\ ctl.avail[n] # "offline"
    /\ LET c == [ctl EXCEPT !.avail[n] = "offline",
                            !.obs[n] = IF @ = Absent THEN Absent ELSE Unknown]
           k == TokenFired(tasks, n)
       IN  IF c.att = n /\ Active(c) # {}
           THEN \E m \in AttachChoices(c, c.sec) :
                   MaybeReconcile([c EXCEPT !.att = m, !.sec = (@ \cup {n}) \ {m},
                                            !.moved = TRUE], k)
           ELSE ctl' = c /\ tasks' = k
    /\ UNCHANGED <<db, loc, link, issued, compute, budget>>

\* node_activate_reconcile and the ToActive transition: what the node reports
\* and does not agree with the observed state is uncertain.
NodeActive(n) ==
    /\ link[n] = "up" /\ ctl.avail[n] # "active"
    /\ LET c == [ctl EXCEPT !.avail[n] = "active",
                            !.obs[n] = IF loc[n] \in {Absent, @} THEN @ ELSE Unknown]
       IN  IF ~InProgress(tasks) /\ c.obs[n] = Unknown THEN MaybeReconcile(c, tasks)
           ELSE ctl' = c /\ UNCHANGED tasks
    /\ UNCHANGED <<db, loc, link, issued, compute, budget>>

-----------------------------------------------------------------------------
(* Faults, and what pageservers and the controller do after a restart.     *)

Cut(n) ==
    /\ link[n] = "up" /\ Spend("cut")
    /\ link' = [link EXCEPT ![n] = "cut"]
    /\ UNCHANGED <<db, loc, issued, compute, ctl, tasks>>

Heal(n) ==
    /\ link[n] = "cut"
    /\ link' = [link EXCEPT ![n] = "up"]
    /\ UNCHANGED <<db, loc, issued, compute, ctl, tasks, budget>>

Crash(n) ==
    /\ link[n] \in {"up", "cut"} /\ Spend("crash")
    /\ link' = [link EXCEPT ![n] = "down"]
    /\ UNCHANGED <<db, loc, issued, compute, ctl, tasks>>

\* Persistence::re_attach
ReAttach(n) ==
    /\ link[n] = "down"
    /\ link' = [link EXCEPT ![n] = "asking"]
    /\ IF db.node = n THEN /\ db' = [db EXCEPT !.gen = @ + 1]
                           /\ issued' = [issued EXCEPT ![n] = db.gen + 1]
       ELSE UNCHANGED <<db, issued>>
    /\ UNCHANGED <<loc, compute, ctl, tasks, budget>>

\* init_tenant_mgr: only a location that is on disk can be started.
Started(n) ==
    IF loc[n] = Absent THEN Absent
    ELSE IF issued[n] # 0 THEN Conf("single", issued[n])
    ELSE IF n \in ctl.sec THEN Secondary ELSE Absent

\* The rest of Service::re_attach.  The answer reaches the pageserver, or it is
\* lost and the pageserver asks again.
ReAttachAnswer(n) ==
    /\ link[n] = "asking"
    /\ LET g == issued[n]
           seen(o) == IF g = 0 THEN o
                      ELSE IF o \in {Absent, Unknown} THEN Unknown ELSE Conf(o.mode, g)
       IN  ctl' = [ctl EXCEPT !.gen = Larger(@, g), !.obs[n] = seen(@),
                              !.avail[n] = "warming"]
    /\ tasks' = TokenFired(tasks, n)
    /\ issued' = [issued EXCEPT ![n] = 0]
    /\ \/ /\ loc' = [loc EXCEPT ![n] = Started(n)]
          /\ link' = [link EXCEPT ![n] = "up"]
          /\ UNCHANGED budget
       \/ /\ Spend("io")
          /\ link' = [link EXCEPT ![n] = "down"]
          /\ UNCHANGED loc
    /\ UNCHANGED <<db, compute>>

\* Service::startup_reconcile: the observed state is what reachable pageservers
\* report, and the intent is taken from it; the newest attached location wins.
\* A compute notification that fails is left pending.
ControllerRestart ==
    LET up == {n \in Nodes : link[n] = "up"}
        newest == {n \in up : /\ Attached(loc[n])
                              /\ \A m \in up : Attached(loc[m]) => loc[m].gen <= loc[n].gen}
        c0 == [gen |-> db.gen, att |-> First, sec |-> {}, pending |-> FALSE, moved |-> FALSE,
               obs |-> [n \in Nodes |-> IF n \in up THEN loc[n] ELSE Absent],
               avail |-> [n \in Nodes |-> IF n \in up THEN "active" ELSE "offline"]]
        found == {n \in up : loc[n] # Absent}
    IN  /\ up # {} /\ budget["ctl"] > 0
        /\ \E att \in IF newest # {} THEN newest ELSE AttachChoices(c0, found) :
           \E more \in IF found \subseteq {att} /\ Secondaries = 1 /\ up # {att}
                       THEN {{n} : n \in up \ {att}} ELSE {{}} :
              LET c == [c0 EXCEPT !.att = att, !.sec = (found \ {att}) \cup more]
                  notified == att \in newest /\ Cardinality(c.sec) >= Secondaries
              IN  \/ /\ budget' = [budget EXCEPT !["ctl"] = @ - 1]
                     /\ compute' = IF notified THEN att ELSE compute
                     /\ MaybeReconcile(c, NoTasks)
                  \/ /\ notified /\ budget["notify"] > 0
                     /\ budget' = [budget EXCEPT !["ctl"] = @ - 1, !["notify"] = @ - 1]
                     /\ compute' \in {compute, att}
                     /\ MaybeReconcile([c EXCEPT !.pending = TRUE], NoTasks)
        /\ link' = [n \in Nodes |-> IF link[n] = "asking" THEN "down" ELSE link[n]]
        /\ issued' = [n \in Nodes |-> 0]
        /\ UNCHANGED <<db, loc>>

-----------------------------------------------------------------------------
TaskStep ==
    \/ Refresh \/ MakeStale \/ LsnsFail \/ IncrementForMigration \/ MakeMulti
    \/ AwaitLsn \/ NotifyBlocking \/ DemoteOrigin \/ MakeSingle
    \/ IncrementToAttach \/ Configure \/ NotifyAttached \/ EndReconcile
    \/ \E n \in Nodes : ApplyChange(n)

Next ==
    \/ TaskStep \/ CancelTask
    \/ ReconcileAll \/ ProcessResult \/ ControllerRestart
    \/ \E n \in Nodes :
          \/ MoveIntent(n) \/ NodeOffline(n) \/ NodeActive(n)
          \/ Cut(n) \/ Heal(n) \/ Crash(n) \/ ReAttach(n) \/ ReAttachAnswer(n)

Spec == Init /\ [][Next]_vars

(***************************************************************************)
(* Tasks run, results are taken from the channel, the background loop and  *)
(* the heartbeats go on; pageservers restart and partitions end.           *)
(***************************************************************************)
Fairness ==
    /\ WF_vars(TaskStep) /\ WF_vars(CancelTask)
    /\ WF_vars(ReconcileAll) /\ WF_vars(ProcessResult)
    /\ \A n \in Nodes :
          /\ WF_vars(NodeOffline(n)) /\ WF_vars(NodeActive(n)) /\ WF_vars(Heal(n))
          /\ WF_vars(ReAttach(n)) /\ WF_vars(ReAttachAnswer(n))

FairSpec == Spec /\ Fairness

-----------------------------------------------------------------------------
Locations == [mode : AttachedModes \cup {"absent", "secondary"}, gen : 0..db.gen]

TypeOK ==
    /\ db.gen \in Nat /\ db.node \in Nodes
    /\ loc \in [Nodes -> Locations]
    /\ link \in [Nodes -> {"up", "cut", "down", "asking"}]
    /\ issued \in [Nodes -> 0..db.gen]
    /\ compute \in Nodes
    /\ ctl.gen \in 1..db.gen /\ ctl.att \in Nodes \ ctl.sec /\ ctl.sec \subseteq Nodes
    /\ ctl.avail \in [Nodes -> {"active", "warming", "offline"}]
    /\ budget \in [Events -> Nat]

(***************************************************************************)
(* Two locations that may both write and delete in remote storage never    *)
(* have the same generation, whatever reconcilers, re-attaches and         *)
(* restarts of the controller do at the same time.                         *)
(***************************************************************************)
WritersAreExclusive ==
    \A m, n \in Nodes :
        m # n /\ {loc[m].mode, loc[n].mode} \subseteq {"single", "multi"}
            => loc[m].gen # loc[n].gen

ClaimOf(n, g) == [node |-> n, gen |-> g]

\* The steps of a reconciler that has been given a generation to attach with.
Attaching == {"multi", "await", "notify", "demote", "single", "configure"}

\* A location writes in its generation, a re-attach has given one to a node, or
\* a reconciler is going to attach with one.  A stale location is not to write;
\* what its generation is, is the subject of AttachmentsAreDistinct.
Claims ==
    {ClaimOf(n, loc[n].gen) : n \in {m \in Nodes : loc[m].mode \in {"single", "multi"}}}
    \cup {ClaimOf(n, issued[n]) : n \in {m \in Nodes : issued[m] # 0}}
    \cup IF run.pc \in Attaching THEN {ClaimOf(run.att, run.gen)} ELSE {}

Contract == INSTANCE Generations WITH last <- db.gen, claims <- Claims

(***************************************************************************)
(* The controller gives every generation to one pageserver only, once: a   *)
(* reconciler that was overtaken, a re-attach whose answer is lost and a   *)
(* controller that starts again never bring an old one back into use.      *)
(***************************************************************************)
GenerationsAreGivenOnce == Contract!Spec

(***************************************************************************)
(* No reconciler takes the shard away from the pageserver that the compute *)
(* uses, while the controller takes that pageserver for available.         *)
(***************************************************************************)
ComputeKeepsItsPageserver ==
    [][compute' = compute /\ Attached(loc[compute]) =>
          \/ Attached(loc'[compute])
          \/ ctl.avail[compute] # "active" \/ link[compute] # "up"
          \/ tasks.run # NoTask /\ compute \notin run.nodes]_vars

\* What the controller works for.
Settled ==
    /\ loc[ctl.att] = Conf("single", db.gen)
    /\ compute = ctl.att
    /\ \A n \in Nodes \ {ctl.att} : ~Attached(loc[n])

(***************************************************************************)
(* In the scenarios of its run, the controller does not believe wrongly    *)
(* that there is nothing to do: when no reconciler is at work and none is  *)
(* needed, every pageserver that it can use has the location it is meant   *)
(* to have.  The README names the scenarios in which this fails.           *)
(***************************************************************************)
CleanIsSettled ==
    tasks = NoTasks /\ ~Needed(ctl) =>
        \A n \in Active(ctl) :
            link[n] = "up" =>
                IF n = ctl.att THEN loc[n] = Conf("single", db.gen) /\ compute = n
                ELSE loc[n] = IF n \in ctl.sec THEN Secondary ELSE Absent

(***************************************************************************)
(* In the scenarios of its run, after the last fault, the shard ends up    *)
(* attached once, in the newest generation, where the controller wants it, *)
(* and the compute knows.  The README names the scenarios in which it does *)
(* not.                                                                    *)
(***************************************************************************)
Converges == <>[]Settled

(***************************************************************************)
(* Service::process_result keeps a failed notification "on the shard so    *)
(* that a future maybe_reconcile will try again": there is always one to   *)
(* come while the compute does not know where the shard is.                *)
(***************************************************************************)
UnnotifiedIsRemembered ==
    tasks = NoTasks /\ ~Needed(ctl) /\ Attached(ctl.obs[ctl.att]) => compute = ctl.att

(***************************************************************************)
(* docs/rfcs/025-generation-numbers.md: "If two pageservers have the same  *)
(* tenant attached, the attachments are guaranteed to have different       *)
(* generation numbers, because the generation would increment while        *)
(* attaching the second one."                                              *)
(***************************************************************************)
AttachmentsAreDistinct ==
    \A m, n \in Nodes :
        m # n /\ Attached(loc[m]) /\ Attached(loc[n]) => loc[m].gen # loc[n].gen
=============================================================================
