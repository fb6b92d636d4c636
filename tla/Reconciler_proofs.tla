-------------------------- MODULE Reconciler_proofs --------------------------
(***************************************************************************)
(* Proofs about Reconciler: its types, that two locations which may write  *)
(* to remote storage never have the same generation, that generations are  *)
(* given out as Generations says, and that no reconciler takes away the    *)
(* location that the compute uses.                                         *)
(***************************************************************************)
EXTENDS Reconciler, TLAPS

LocModes == AttachedModes \cup {"absent", "secondary"}
LocType == [mode : LocModes, gen : Nat]
ObsType == [mode : LocModes \cup {"unknown"}, gen : Nat]

Steps == Attaching \cup {"refresh", "stale", "increment", "attach", "changes"}

TaskType ==
    [pc : Steps, gen : Nat, att : Nodes, sec : SUBSET Nodes, detach : SUBSET Nodes,
     obs : [Nodes -> ObsType], original : [Nodes -> ObsType], nodes : SUBSET Nodes,
     must : BOOLEAN, cur : BOOLEAN, unnotified : BOOLEAN, failed : BOOLEAN,
     origin : Nodes, todo : SUBSET Nodes]

\* A task that waits has done nothing yet.
WaitType == {t \in TaskType : t.pc = "refresh"}

ResultType ==
    [ok : BOOLEAN, gen : Nat, cur : BOOLEAN, pending : BOOLEAN, changed : SUBSET Nodes,
     obs : [Nodes -> ObsType]]

TasksType ==
    [run : TaskType \cup {NoTask}, wait : WaitType \cup {NoTask}, done : Seq(ResultType)]

CtlType ==
    [gen : Nat \ {0}, att : Nodes, sec : SUBSET Nodes, obs : [Nodes -> ObsType],
     pending : BOOLEAN, moved : BOOLEAN, avail : [Nodes -> {"active", "warming", "offline"}]]

Types ==
    /\ db \in [gen : Nat \ {0}, node : Nodes]
    /\ loc \in [Nodes -> LocType]
    /\ link \in [Nodes -> {"up", "cut", "down", "asking"}]
    /\ issued \in [Nodes -> Nat]
    /\ compute \in Nodes
    /\ ctl \in CtlType /\ ctl.att \notin ctl.sec
    /\ tasks \in TasksType
    /\ budget \in [Events -> Nat]

TaskGens(k, g) ==
    /\ k.run # NoTask => k.run.gen <= g
    /\ k.wait # NoTask => k.wait.gen <= g
    /\ \A i \in DOMAIN k.done : k.done[i].gen <= g

\* No generation is in use that the database has not given out.
GensAreIssued ==
    /\ \A n \in Nodes : loc[n].gen <= db.gen /\ issued[n] <= db.gen
    /\ ctl.gen <= db.gen
    /\ TaskGens(tasks, db.gen)

TypeInv == Types /\ GensAreIssued

\* n writes in generation g, or has been given it by re-attach, or a
\* reconciler is about to attach it there.
Claim(n, g) ==
    \/ loc[n].mode \in {"single", "multi"} /\ loc[n].gen = g
    \/ issued[n] = g /\ g # 0
    \/ tasks.run.pc \in Attaching /\ tasks.run.att = n /\ tasks.run.gen = g

\* No two nodes have a claim to one generation.
ClaimsAreExclusive == \A m, n \in Nodes, g \in Nat : Claim(m, g) /\ Claim(n, g) => m = n

\* A step adds at most a claim to the next generation, which it gives out.
OneNewClaim ==
    /\ db'.gen \in {db.gen, db.gen + 1}
    /\ \E x \in Nodes : \A n \in Nodes, g \in Nat :
          Claim(n, g)' => Claim(n, g) \/ (n = x /\ g = db'.gen /\ g = db.gen + 1)

Migrating == {"stale", "increment", "multi", "await", "notify", "demote"}

\* What a task t has made sure of, when the compute uses c and the locations
\* are l, before it takes a location away: the compute has left the origin of
\* a migration, or there is nothing that it could use there.
Careful(t, c, l) ==
    /\ t.att \notin t.sec \cup t.detach
    /\ t.pc \in Migrating => t.origin # t.att
    /\ t.pc = "demote" => c # t.origin \/ t.origin \notin t.nodes \/ ~Attached(l[t.origin])
    /\ t.pc = "changes" => c = t.att /\ t.att \notin t.todo

CarefulTasks(k, c, l) ==
    /\ k.run # NoTask => Careful(k.run, c, l)
    /\ k.wait # NoTask => Careful(k.wait, c, l)

CareInv == CarefulTasks(tasks, compute, loc)

\* A step that leaves the tasks k keeps them careful.
CareKept(k) == CareInv => CarefulTasks(k, compute', loc')

-----------------------------------------------------------------------------
(* The operators keep the types.                                           *)

\* The modes and the four locations that have names.
LEMMA ConfType ==
    /\ Absent \in LocType /\ Secondary \in LocType /\ Unknown \in ObsType
    /\ LocType \subseteq ObsType
    /\ \A mode \in LocModes, g \in Nat : Conf(mode, g) \in LocType
  BY DEF Absent, Secondary, Unknown, Conf, LocType, ObsType, LocModes, AttachedModes

\* NoTask is not a task: it has no step to take.
LEMMA NoTaskType ==
    /\ NoTask \notin TaskType
    /\ NoTask.pc = "none"
    /\ \A t \in TaskType \cup {NoTask} : t.pc # "none" => t \in TaskType
  BY DEF NoTask, TaskType, Steps, Attaching

\* A new task of the controller waits, and has the controller's generation.
LEMMA NewTaskType ==
  ASSUME NEW c \in CtlType
  PROVE  NewTask(c) \in WaitType /\ NewTask(c).gen = c.gen /\ NewTask(c) # NoTask
  <1>1. NewTask(c) \in TaskType
    BY DEF CtlType, NewTask, TaskType, Active, Steps
  <1> QED
    BY <1>1, NoTaskType DEF NewTask, WaitType

\* The result of a task.
LEMMA ResultTyped ==
  ASSUME NEW t \in TaskType
  PROVE  Result(t) \in ResultType /\ Result(t).gen = t.gen
  BY DEF TaskType, Result, ResultType

\* The generations of results.
LEMMA ResultGens ==
  ASSUME NEW q \in Seq(ResultType)
  PROVE  \A i \in DOMAIN q : q[i].gen \in Nat
  <1>1. \A i \in DOMAIN q : q[i] \in ResultType
    OBVIOUS
  <1>2. \A r \in ResultType : r.gen \in Nat
    BY DEF ResultType
  <1> QED
    BY <1>1, <1>2

\* The task u is t at another step, or having observed something else.
Keeps(t, u) == u \in TaskType /\ u.gen = t.gen /\ u.att = t.att

\* What is done to a task between two of its steps.
LEMMA TaskUpdates ==
  ASSUME NEW t \in TaskType, NEW n \in Nodes, NEW c \in ObsType, NEW pc \in Steps
  PROVE  /\ Keeps(t, Unsure(t, n)) /\ Unsure(t, n).pc = t.pc
         /\ Keeps(t, Unnotified(t)) /\ Unnotified(t).pc = t.pc
         /\ Keeps(t, [t EXCEPT !.pc = pc]) /\ [t EXCEPT !.pc = pc].pc = pc
         /\ Keeps(t, [t EXCEPT !.obs[n] = c]) /\ [t EXCEPT !.obs[n] = c].pc = t.pc
         /\ Keeps(t, [t EXCEPT !.obs[n] = c, !.pc = pc])
         /\ [t EXCEPT !.obs[n] = c, !.pc = pc].pc = pc
         /\ Keeps(t, [t EXCEPT !.pc = pc, !.origin = n])
         /\ [t EXCEPT !.pc = pc, !.origin = n].pc = pc
  <1> USE DEF Keeps, TaskType
  <1>1. Keeps(t, Unsure(t, n)) /\ Unsure(t, n).pc = t.pc
    BY ConfType DEF Unsure
  <1>2. Keeps(t, Unnotified(t)) /\ Unnotified(t).pc = t.pc
    BY DEF Unnotified
  <1>3. Keeps(t, [t EXCEPT !.pc = pc]) /\ [t EXCEPT !.pc = pc].pc = pc
    OBVIOUS
  <1>4. Keeps(t, [t EXCEPT !.obs[n] = c]) /\ [t EXCEPT !.obs[n] = c].pc = t.pc
    OBVIOUS
  <1>5. /\ Keeps(t, [t EXCEPT !.obs[n] = c, !.pc = pc])
        /\ [t EXCEPT !.obs[n] = c, !.pc = pc].pc = pc
    OBVIOUS
  <1>6. /\ Keeps(t, [t EXCEPT !.pc = pc, !.origin = n])
        /\ [t EXCEPT !.pc = pc, !.origin = n].pc = pc
    OBVIOUS
  <1> QED
    BY <1>1, <1>2, <1>3, <1>4, <1>5, <1>6

\* Marks that others set in a task.
LEMMA TaskMarks ==
  ASSUME NEW t \in TaskType, NEW n \in Nodes
  PROVE  /\ Keeps(t, [t EXCEPT !.failed = TRUE]) /\ [t EXCEPT !.failed = TRUE].pc = t.pc
         /\ Keeps(t, [t EXCEPT !.cur = FALSE]) /\ [t EXCEPT !.cur = FALSE].pc = t.pc
         /\ Keeps(t, [t EXCEPT !.nodes = @ \ {n}]) /\ [t EXCEPT !.nodes = @ \ {n}].pc = t.pc
         /\ Keeps(t, [t EXCEPT !.todo = @ \ {n}]) /\ [t EXCEPT !.todo = @ \ {n}].pc = t.pc
  <1> USE DEF Keeps, TaskType
  <1>1. Keeps(t, [t EXCEPT !.failed = TRUE]) /\ [t EXCEPT !.failed = TRUE].pc = t.pc
    OBVIOUS
  <1>2. Keeps(t, [t EXCEPT !.cur = FALSE]) /\ [t EXCEPT !.cur = FALSE].pc = t.pc
    OBVIOUS
  <1>3. Keeps(t, [t EXCEPT !.nodes = @ \ {n}]) /\ [t EXCEPT !.nodes = @ \ {n}].pc = t.pc
    OBVIOUS
  <1>4. Keeps(t, [t EXCEPT !.todo = @ \ {n}]) /\ [t EXCEPT !.todo = @ \ {n}].pc = t.pc
    OBVIOUS
  <1> QED
    BY <1>1, <1>2, <1>3, <1>4

\* Keeping is transitive.
LEMMA KeepsTwice ==
  ASSUME NEW t, NEW u, NEW v, Keeps(t, u), Keeps(u, v)
  PROVE  Keeps(t, v)
  BY DEF Keeps

\* The task of the last step is replaced by t, or by the one that waits.
LEMMA TasksAfter ==
  ASSUME TypeInv, NEW t \in TaskType, db'.gen \in Nat, db.gen <= db'.gen, t.gen <= db'.gen,
         Continue(t) \/ Finish(t)
  PROVE  /\ tasks' \in TasksType /\ TaskGens(tasks', db'.gen)
         /\ tasks'.run.pc \in Attaching => tasks'.run = t
  <1> USE DEF TypeInv, Types, GensAreIssued
  <1>1. /\ tasks.run \in TaskType \cup {NoTask} /\ tasks.wait \in WaitType \cup {NoTask}
        /\ tasks.done \in Seq(ResultType)
    BY DEF TasksType
  <1>2. \A u \in TaskType \cup {NoTask} : u # NoTask => u.gen \in Nat
    BY DEF TaskType
  <1>3. \A i \in DOMAIN tasks.done : tasks.done[i].gen \in Nat
    BY <1>1, ResultGens
  <1>4. CASE Continue(t)
    <2>1. tasks' = [run |-> t, wait |-> tasks.wait, done |-> tasks.done]
      BY <1>4 DEF Continue, TasksType
    <2>2. tasks' \in TasksType
      BY <1>1, <2>1 DEF TasksType
    <2>3. TaskGens(tasks', db'.gen)
      BY <1>1, <1>2, <1>3, <2>1 DEF TaskGens, WaitType, TypeInv, Types
    <2> QED
      BY <2>1, <2>2, <2>3
  <1>5. CASE Finish(t)
    <2>1. tasks' = [run |-> tasks.wait, wait |-> NoTask, done |-> Append(tasks.done, Result(t))]
      BY <1>5 DEF Finish
    <2>2. Append(tasks.done, Result(t)) \in Seq(ResultType)
      BY <1>1, ResultTyped
    <2>3. tasks' \in TasksType
      BY <1>1, <2>1, <2>2 DEF TasksType, WaitType
    <2>4. \A i \in DOMAIN tasks'.done : tasks'.done[i].gen <= db'.gen
      BY <1>1, <1>3, <2>1, ResultTyped DEF TaskGens
    <2>5. TaskGens(tasks', db'.gen)
      BY <1>1, <1>2, <2>1, <2>4 DEF TaskGens, WaitType
    <2>6. tasks'.run.pc \notin Attaching
      BY <1>1, <2>1, NoTaskType DEF WaitType, Attaching
    <2> QED
      BY <2>3, <2>5, <2>6
  <1> QED
    BY <1>4, <1>5

\* What a step of the running task has to show.
LEMMA RunStep ==
  ASSUME TypeInv, run \in TaskType, NEW t, Keeps(run, t), Continue(t) \/ Finish(t),
         t.pc \in Attaching => run.pc \in Attaching,
         loc' \in [Nodes -> LocType],
         \A n \in Nodes : \/ loc'[n] = loc[n]
                          \/ /\ loc'[n].gen <= db.gen
                             /\ loc'[n].mode \in {"single", "multi"} => Claim(n, loc'[n].gen),
         compute' \in Nodes, budget' \in [Events -> Nat], UNCHANGED <<db, link, issued, ctl>>
  PROVE  TypeInv' /\ OneNewClaim
  <1> USE DEF TypeInv, Types, GensAreIssued, Keeps
  <1>1. run.gen \in Nat /\ run # NoTask
    BY NoTaskType DEF TaskType
  <1>2. t.gen <= db'.gen /\ db.gen \in Nat /\ db' = db
    BY <1>1 DEF TaskGens, run
  <1>3. /\ tasks' \in TasksType /\ TaskGens(tasks', db'.gen)
        /\ tasks'.run.pc \in Attaching => tasks'.run = t
    BY <1>2, TasksAfter
  <1>4. \A n \in Nodes : loc'[n].gen <= db.gen
    OBVIOUS
  <1>5. TypeInv'
    BY <1>2, <1>3, <1>4
  <1>6. \A n \in Nodes, g \in Nat : Claim(n, g)' => Claim(n, g)
    BY <1>3 DEF Claim, run
  <1> QED
    BY <1>5, <1>6 DEF OneNewClaim

\* A budget that is spent remains one.
LEMMA SpendType ==
  ASSUME TypeInv, NEW e \in Events, Spend(e)
  PROVE  budget' \in [Events -> Nat]
  BY DEF TypeInv, Types, Spend

\* location_config changes one location, if any.
LEMMA LocationConfigType ==
  ASSUME TypeInv, NEW n \in Nodes, NEW c \in LocType, NEW ok \in BOOLEAN,
         LocationConfig(n, c, ok)
  PROVE  /\ budget' \in [Events -> Nat]
         /\ loc' = loc \/ loc' = [loc EXCEPT ![n] = c]
  BY SpendType DEF LocationConfig, Events, TypeInv, Types

\* A step that is one call and ends, or goes on at pc.
LEMMA CallStep ==
  ASSUME TypeInv, run \in TaskType, NEW n \in Nodes, NEW c \in LocType, NEW pc \in Steps,
         c.gen <= db.gen, Call(n, c, pc),
         c.mode \in {"single", "multi"} =>
             run.pc \in Attaching /\ n = run.att /\ c.gen = run.gen,
         pc \in Attaching => run.pc \in Attaching,
         UNCHANGED <<db, link, issued, compute, ctl>>
  PROVE  TypeInv' /\ OneNewClaim
  <1> USE DEF TypeInv, Types
  <1>1. PICK ok \in BOOLEAN :
           /\ LocationConfig(n, c, ok)
           /\ IF ok THEN Continue([run EXCEPT !.obs[n] = c, !.pc = pc])
                    ELSE Fail(Unsure(run, n))
    BY DEF Call
  <1>2. budget' \in [Events -> Nat] /\ (loc' = loc \/ loc' = [loc EXCEPT ![n] = c])
    BY <1>1, LocationConfigType
  <1>3. /\ loc' \in [Nodes -> LocType]
        /\ \A m \in Nodes : \/ loc'[m] = loc[m]
                            \/ /\ loc'[m].gen <= db.gen
                               /\ loc'[m].mode \in {"single", "multi"} => Claim(m, loc'[m].gen)
    BY <1>2 DEF Claim, run
  <1>4. CASE ok
    <2> DEFINE t == [run EXCEPT !.obs[n] = c, !.pc = pc]
    <2>1. Keeps(run, t) /\ t.pc = pc
      BY ConfType DEF Keeps, TaskType
    <2>2. Continue(t)
      BY <1>1, <1>4
    <2> HIDE DEF t
    <2> QED
      BY <1>2, <1>3, <2>1, <2>2, RunStep
  <1>5. CASE ~ok
    <2> DEFINE u == Unsure(run, n)
               t == [u EXCEPT !.failed = TRUE]
    <2>1. Keeps(run, u) /\ u.pc = run.pc
      BY ConfType, TaskUpdates
    <2>2. Finish(t)
      BY <1>1, <1>5 DEF Fail
    <2> HIDE DEF u
    <2>3. Keeps(u, t) /\ t.pc = u.pc
      BY <2>1, TaskMarks DEF Keeps
    <2> HIDE DEF t
    <2>4. Keeps(run, t) /\ t.pc = run.pc
      BY <2>1, <2>3, KeepsTwice
    <2> QED
      BY <1>2, <1>3, <2>2, <2>4, RunStep
  <1> QED
    BY <1>4, <1>5

-----------------------------------------------------------------------------
(* The controller's memory.                                                *)

\* A task that has done nothing yet has nothing to be sure of.
LEMMA WaitingIsCareful ==
  ASSUME NEW t \in WaitType, NEW c, NEW l, t.att \notin t.sec \cup t.detach
  PROVE  Careful(t, c, l)
  BY DEF WaitType, Careful, Migrating

\* A new task, and others once it is spawned.
LEMMA SpawnedIsCareful ==
  ASSUME NEW k \in TasksType, NEW d \in CtlType, d.att \notin d.sec, NEW c, NEW l,
         CarefulTasks(k, c, l)
  PROVE  CarefulTasks(Spawned(k, NewTask(d)), c, l)
  <1> DEFINE t == NewTask(d)
             r == [k.run EXCEPT !.cur = FALSE]
  <1>1. t \in WaitType /\ t.att \notin t.sec \cup t.detach
    BY NewTaskType DEF NewTask
  <1> HIDE DEF t
  <1>2. Careful(t, c, l)
    BY <1>1, WaitingIsCareful
  <1>3. CASE k.run = NoTask
    <2>1. Spawned(k, t).run = t /\ Spawned(k, t).wait = NoTask
      BY <1>3 DEF Spawned
    <2> QED
      BY <1>2, <2>1 DEF CarefulTasks, t
  <1>4. CASE k.run # NoTask
    <2>1. k.run \in TaskType
      BY <1>4 DEF TasksType
    <2>2. /\ r.pc = k.run.pc /\ r.att = k.run.att /\ r.sec = k.run.sec
          /\ r.detach = k.run.detach /\ r.origin = k.run.origin /\ r.nodes = k.run.nodes
          /\ r.todo = k.run.todo
      BY <2>1 DEF TaskType
    <2>3. Spawned(k, t).run = r /\ Spawned(k, t).wait = t
      BY <1>4 DEF Spawned
    <2> HIDE DEF r
    <2>4. Careful(r, c, l)
      BY <1>4, <2>2 DEF CarefulTasks, Careful
    <2> QED
      BY <1>2, <2>3, <2>4 DEF CarefulTasks, t
  <1> QED
    BY <1>3, <1>4

\* What maybe_reconcile leaves behind is careful.
LEMMA ReconcilingIsCareful ==
  ASSUME NEW k \in TasksType, NEW d \in CtlType, d.att \notin d.sec, MaybeReconcile(d, k),
         CareKept(k)
  PROVE  CareKept(tasks')
  <1>1. tasks' = Spawned(k, NewTask(d)) \/ tasks' = k
    BY DEF MaybeReconcile
  <1> QED
    BY <1>1, SpawnedIsCareful DEF CareKept

\* A token that fires tells the tasks that a node may not be what it was.
LEMMA FiredIsCareful ==
  ASSUME NEW k \in TasksType, NEW n \in Nodes, NEW c, NEW l, NEW m,
         \A x \in Nodes \ {n} : m[x] = l[x], CarefulTasks(k, c, l)
  PROVE  CarefulTasks(TokenFired(k, n), c, m)
  <1> DEFINE without(t) == IF t = NoTask THEN t ELSE [t EXCEPT !.nodes = @ \ {n}]
  <1>1. k.run \in TaskType \cup {NoTask} /\ k.wait \in TaskType \cup {NoTask}
    BY DEF TasksType, WaitType
  <1>2. TokenFired(k, n) = [k EXCEPT !.run = without(k.run), !.wait = without(k.wait)]
    BY Zenon DEF TokenFired
  <1>3. TokenFired(k, n).run = without(k.run) /\ TokenFired(k, n).wait = without(k.wait)
    BY <1>2 DEF TasksType
  <1>4. ASSUME NEW t \in TaskType, Careful(t, c, l) PROVE Careful(without(t), c, m)
    <2> DEFINE u == without(t)
    <2>1. /\ u.pc = t.pc /\ u.att = t.att /\ u.sec = t.sec /\ u.detach = t.detach
          /\ u.origin = t.origin /\ u.nodes = t.nodes \ {n} /\ u.todo = t.todo
          /\ t.origin \in Nodes
      BY NoTaskType DEF TaskType
    <2> HIDE DEF u
    <2>2. Careful(u, c, m)
      BY <1>4, <2>1 DEF Careful
    <2> QED
      BY <2>2 DEF u
  <1>5. without(NoTask) = NoTask
    OBVIOUS
  <1> HIDE DEF without
  <1> QED
    BY <1>1, <1>3, <1>4, <1>5 DEF CarefulTasks

\* The reconciler that runs in k is one of l, if it is attaching at all.
SameRun(k, l) ==
    k.run.pc \in Attaching =>
        l.run.pc \in Attaching /\ k.run.att = l.run.att /\ k.run.gen = l.run.gen

\* Spawning a reconciler leaves the running one at its step.
LEMMA SpawnedType ==
  ASSUME NEW k \in TasksType, NEW t \in WaitType, NEW g \in Nat, TaskGens(k, g), t.gen <= g
  PROVE  Spawned(k, t) \in TasksType /\ TaskGens(Spawned(k, t), g) /\ SameRun(Spawned(k, t), k)
  <1> DEFINE outdated == [i \in DOMAIN k.done |-> [k.done[i] EXCEPT !.cur = FALSE]]
  <1>1. /\ k.run \in TaskType \cup {NoTask} /\ k.wait \in WaitType \cup {NoTask}
        /\ k.done \in Seq(ResultType) /\ t \in TaskType /\ t # NoTask
    BY NoTaskType DEF TasksType, WaitType
  <1>2. \A r \in ResultType : /\ [r EXCEPT !.cur = FALSE] \in ResultType
                              /\ [r EXCEPT !.cur = FALSE].gen = r.gen
    BY DEF ResultType
  <1>3. DOMAIN k.done = 1..Len(k.done) /\ Len(k.done) \in Nat
        /\ \A i \in 1..Len(k.done) : k.done[i] \in ResultType
    BY <1>1
  <1>4. outdated \in Seq(ResultType)
    BY <1>2, <1>3
  <1>5. \A i \in DOMAIN outdated : outdated[i].gen <= g
    BY <1>2, <1>3 DEF TaskGens
  <1> HIDE DEF outdated
  <1>6. CASE k.run = NoTask
    <2>1. Spawned(k, t) = [run |-> t, wait |-> NoTask, done |-> outdated]
      BY <1>6 DEF Spawned, outdated
    <2>2. Spawned(k, t) \in TasksType
      BY <1>1, <1>4, <2>1 DEF TasksType
    <2>3. TaskGens(Spawned(k, t), g)
      BY <1>5, <2>1 DEF TaskGens
    <2>4. t.pc \notin Attaching
      BY DEF WaitType, Attaching
    <2> QED
      BY <2>1, <2>2, <2>3, <2>4 DEF SameRun
  <1>7. CASE k.run # NoTask
    <2> DEFINE r == [k.run EXCEPT !.cur = FALSE]
    <2>1. k.run \in TaskType
      BY <1>1, <1>7
    <2>2. Spawned(k, t) = [run |-> r, wait |-> t, done |-> outdated]
      BY <1>7 DEF Spawned, outdated
    <2>3. Keeps(k.run, r) /\ r.pc = k.run.pc
      BY <2>1 DEF Keeps, TaskType
    <2> HIDE DEF r
    <2>4. Spawned(k, t) \in TasksType
      BY <1>1, <1>4, <2>2, <2>3 DEF TasksType, Keeps
    <2>5. TaskGens(Spawned(k, t), g)
      BY <1>5, <1>7, <2>2, <2>3 DEF TaskGens, Keeps
    <2> QED
      BY <2>2, <2>3, <2>4, <2>5 DEF SameRun, Keeps
  <1> QED
    BY <1>6, <1>7

\* What maybe_reconcile does to the shard.
LEMMA Reconciling ==
  ASSUME NEW c \in CtlType, NEW k \in TasksType, NEW g \in Nat, c.gen <= g, TaskGens(k, g),
         MaybeReconcile(c, k)
  PROVE  /\ tasks' \in TasksType /\ TaskGens(tasks', g) /\ SameRun(tasks', k)
         /\ ctl' \in CtlType /\ ctl'.gen = c.gen /\ ctl'.att = c.att /\ ctl'.sec = c.sec
  <1>1. CASE Needed(c) /\ (c.moved \/ ~InProgress(k))
    <2>1. tasks' = Spawned(k, NewTask(c)) /\ ctl' = [c EXCEPT !.moved = FALSE]
      BY <1>1 DEF MaybeReconcile
    <2>2. tasks' \in TasksType /\ TaskGens(tasks', g) /\ SameRun(tasks', k)
      BY <2>1, NewTaskType, SpawnedType
    <2> QED
      BY <2>1, <2>2 DEF CtlType
  <1>2. CASE ~(Needed(c) /\ (c.moved \/ ~InProgress(k)))
    <2>1. tasks' = k /\ ctl' = [c EXCEPT !.moved = c.moved /\ InProgress(k)]
      BY <1>2 DEF MaybeReconcile
    <2>2. (c.moved /\ InProgress(k)) \in BOOLEAN
      OBVIOUS
    <2> QED
      BY <2>1, <2>2 DEF CtlType, SameRun
  <1> QED
    BY <1>1, <1>2

\* A token that fires takes a node out of the tasks' view.
LEMMA TokenFiredType ==
  ASSUME NEW k \in TasksType, NEW n \in Nodes, NEW g \in Nat, TaskGens(k, g)
  PROVE  /\ TokenFired(k, n) \in TasksType /\ TaskGens(TokenFired(k, n), g)
         /\ SameRun(TokenFired(k, n), k)
  <1> DEFINE without(t) == IF t = NoTask THEN t ELSE [t EXCEPT !.nodes = @ \ {n}]
  <1>1. /\ k.run \in TaskType \cup {NoTask} /\ k.wait \in WaitType \cup {NoTask}
        /\ k.done \in Seq(ResultType)
    BY DEF TasksType
  <1>2. TokenFired(k, n) = [k EXCEPT !.run = without(k.run), !.wait = without(k.wait)]
    BY Zenon DEF TokenFired
  <1>3. ASSUME NEW t \in TaskType PROVE Keeps(t, without(t)) /\ without(t).pc = t.pc
    BY NoTaskType DEF Keeps, TaskType
  <1>4. without(NoTask) = NoTask
    OBVIOUS
  <1> HIDE DEF without
  <1>5. without(k.run) \in TaskType \cup {NoTask} /\ without(k.wait) \in WaitType \cup {NoTask}
    BY <1>1, <1>3, <1>4 DEF WaitType, Keeps
  <1>6. /\ TokenFired(k, n) \in TasksType
        /\ TokenFired(k, n).run = without(k.run)
        /\ TokenFired(k, n).wait = without(k.wait)
        /\ TokenFired(k, n).done = k.done
    BY <1>2, <1>5 DEF TasksType
  <1>7. TaskGens(TokenFired(k, n), g)
    BY <1>1, <1>3, <1>4, <1>6 DEF TaskGens, WaitType, Keeps
  <1> QED
    BY <1>1, <1>3, <1>4, <1>6, <1>7, NoTaskType DEF SameRun, Keeps, Attaching

\* What a step in the controller's memory has to show.
LEMMA ControlStep ==
  ASSUME TypeInv, NEW c \in CtlType, c.att \notin c.sec, c.gen <= db.gen,
         NEW k \in TasksType, TaskGens(k, db.gen), SameRun(k, tasks), CareKept(k),
         MaybeReconcile(c, k) \/ (ctl' = c /\ tasks' = k),
         budget' \in [Events -> Nat], UNCHANGED <<db, loc, link, issued, compute>>
  PROVE  TypeInv' /\ OneNewClaim /\ CareKept(tasks')
  <1> USE DEF TypeInv, Types, GensAreIssued
  <1>1. /\ tasks' \in TasksType /\ TaskGens(tasks', db.gen) /\ SameRun(tasks', k)
        /\ ctl' \in CtlType /\ ctl'.gen = c.gen /\ ctl'.att = c.att /\ ctl'.sec = c.sec
    <2>1. CASE MaybeReconcile(c, k)
      BY <2>1, Reconciling
    <2>2. CASE ctl' = c /\ tasks' = k
      BY <2>2 DEF SameRun
    <2> QED
      BY <2>1, <2>2
  <1>2. TypeInv'
    BY <1>1
  <1>3. \A n \in Nodes, g \in Nat : Claim(n, g)' => Claim(n, g)
    BY <1>1 DEF Claim, SameRun
  <1>4. CareKept(tasks')
    BY ReconcilingIsCareful
  <1> QED
    BY <1>2, <1>3, <1>4 DEF OneNewClaim

-----------------------------------------------------------------------------
(* The steps of a reconciler.                                              *)

\* A step that changes no location.
LEMMA QuietStep ==
  ASSUME TypeInv, run \in TaskType, NEW t, Keeps(run, t),
         Continue(t) \/ Finish(t) \/ Fail(t), t.pc \in Attaching => run.pc \in Attaching,
         compute' \in Nodes, budget' \in [Events -> Nat], UNCHANGED <<db, loc, link, issued, ctl>>
  PROVE  TypeInv' /\ OneNewClaim
  <1>1. loc' \in [Nodes -> LocType] /\ \A n \in Nodes : loc'[n] = loc[n]
    BY DEF TypeInv, Types
  <1>2. CASE Continue(t) \/ Finish(t)
    BY <1>1, <1>2, RunStep
  <1>3. CASE Fail(t)
    <2> DEFINE u == [t EXCEPT !.failed = TRUE]
    <2>1. Finish(u)
      BY <1>3 DEF Fail
    <2>2. Keeps(t, u) /\ u.pc = t.pc
      BY TaskMarks DEF Keeps
    <2> HIDE DEF u
    <2>3. Keeps(run, u)
      BY <2>2, KeepsTwice
    <2> QED
      BY <1>1, <2>1, <2>2, <2>3, RunStep
  <1> QED
    BY <1>2, <1>3

\* After the refresh the task migrates or attaches.
LEMMA RefreshedStep ==
  ASSUME NEW t \in TaskType, Refreshed(t)
  PROVE  \E u : Keeps(t, u) /\ u.pc \notin Attaching /\ Continue(u)
  <1>1. CASE Origins(t) = {}
    <2>1. Continue([t EXCEPT !.pc = "attach"])
      BY <1>1 DEF Refreshed, GoTo
    <2>2. Keeps(t, [t EXCEPT !.pc = "attach"]) /\ [t EXCEPT !.pc = "attach"].pc = "attach"
      BY DEF Keeps, TaskType, Steps
    <2> QED
      BY <2>1, <2>2 DEF Attaching
  <1>2. CASE Origins(t) # {}
    <2>1. PICK n \in Origins(t) : Continue([t EXCEPT !.pc = "stale", !.origin = n])
      BY <1>2 DEF Refreshed
    <2>2. n \in Nodes
      BY DEF Origins, TaskType
    <2> DEFINE u == [t EXCEPT !.pc = "stale", !.origin = n]
    <2>3. Keeps(t, u) /\ u.pc = "stale"
      BY <2>2 DEF Keeps, TaskType, Steps
    <2> QED
      BY <2>1, <2>3 DEF Attaching
  <1> QED
    BY <1>1, <1>2

\* A notification.
LEMMA NotifyType ==
  ASSUME TypeInv, run \in TaskType, NEW ok \in BOOLEAN, Notify(ok)
  PROVE  compute' \in Nodes /\ budget' \in [Events -> Nat]
  BY SpendType DEF Notify, Events, TypeInv, Types, TaskType

\* The same task with another generation.
WithGen(t, g, pc) == [t EXCEPT !.gen = g, !.pc = pc]

\* It is a task of that generation, for the same node.
LEMMA WithGenType ==
  ASSUME NEW t \in TaskType, NEW g \in Nat, NEW pc \in Steps
  PROVE  WithGen(t, g, pc) \in TaskType /\ WithGen(t, g, pc).gen = g
         /\ WithGen(t, g, pc).att = t.att
  BY DEF TaskType, WithGen

\* increment_generation gives the running task a generation that nobody has.
LEMMA IncrementStep ==
  ASSUME TypeInv, run \in TaskType, NEW pc \in Attaching, IncrementGeneration(pc),
         UNCHANGED <<loc, link, issued, compute, ctl, budget>>
  PROVE  TypeInv' /\ OneNewClaim
  <1> USE DEF TypeInv, Types, GensAreIssued
  <1> DEFINE t == WithGen(run, db.gen + 1, pc)
  <1>1. db.gen \in Nat \ {0} /\ db' = [gen |-> db.gen + 1, node |-> run.att] /\ Continue(t)
    BY DEF IncrementGeneration, WithGen
  <1>2. t \in TaskType /\ t.gen = db.gen + 1 /\ t.att = run.att /\ run.att \in Nodes
    <2>1. db.gen + 1 \in Nat /\ pc \in Steps
      BY <1>1 DEF Steps
    <2>2. run.att \in Nodes
      BY DEF TaskType
    <2> QED
      BY <2>1, <2>2, WithGenType
  <1> HIDE DEF t
  <1>3. db'.gen = db.gen + 1 /\ db' \in [gen : Nat \ {0}, node : Nodes]
    BY <1>1, <1>2
  <1>4. /\ tasks' \in TasksType /\ TaskGens(tasks', db'.gen)
        /\ tasks'.run.pc \in Attaching => tasks'.run = t
    BY <1>1, <1>2, <1>3, TasksAfter
  <1>5. \A n \in Nodes : loc[n].gen \in Nat
    BY DEF LocType
  <1>6. ctl.gen \in Nat
    BY DEF CtlType
  <1>7. GensAreIssued'
    BY <1>1, <1>3, <1>4, <1>5, <1>6
  <1>8. Types'
    BY <1>3, <1>4
  <1>9. \A n \in Nodes, g \in Nat :
           Claim(n, g)' => Claim(n, g) \/ (n = run.att /\ g = db.gen + 1)
    BY <1>1, <1>2, <1>4 DEF Claim
  <1> QED
    BY <1>2, <1>3, <1>7, <1>8, <1>9 DEF OneNewClaim

\* The generation of a running task.
LEMMA RunType ==
  ASSUME TypeInv, run.pc # "none"
  PROVE  /\ run \in TaskType /\ run.gen \in Nat /\ run.gen <= db.gen
         /\ run.att \in Nodes /\ run.origin \in Nodes
  <1>1. run \in TaskType
    BY NoTaskType DEF TypeInv, Types, TasksType, run
  <1>2. run # NoTask
    BY NoTaskType
  <1>3. run.gen <= db.gen
    BY <1>2 DEF TypeInv, GensAreIssued, TaskGens, run
  <1> QED
    BY <1>1, <1>3 DEF TaskType

\* The configurations that reconcilers ask for.
LEMMA CallTypes ==
  ASSUME NEW g \in Nat
  PROVE  /\ \A mode \in {"stale", "multi", "single"} :
               /\ Conf(mode, g) \in LocType /\ Conf(mode, g).gen = g
               /\ Conf(mode, g).mode = mode
         /\ Secondary \in LocType /\ Secondary.gen = 0 /\ Secondary.mode = "secondary"
         /\ Absent \in LocType /\ Absent.gen = 0 /\ Absent.mode = "absent"
  BY DEF Conf, LocType, LocModes, AttachedModes, Secondary, Absent

\* Attaching the other locations, one at a time.
LEMMA ApplyChangeStep ==
  ASSUME TypeInv, NEW n \in Nodes, ApplyChange(n)
  PROVE  TypeInv' /\ OneNewClaim
  <1> DEFINE rest == [run EXCEPT !.todo = @ \ {n}]
             wanted == IF n \in run.sec THEN Secondary ELSE Absent
  <1>1. /\ run.pc = "changes" /\ UNCHANGED <<db, link, issued, compute, ctl>>
        /\ \/ LocationConfig(n, wanted, TRUE) /\ Continue([rest EXCEPT !.obs[n] = wanted])
           \/ /\ LocationConfig(n, wanted, FALSE)
              /\ Continue([Unsure(rest, n) EXCEPT !.failed = TRUE])
           \/ Continue(Unsure(rest, n)) /\ UNCHANGED <<loc, budget>>
    BY DEF ApplyChange
  <1>2. run \in TaskType /\ db.gen \in Nat /\ compute' \in Nodes
    BY <1>1, RunType DEF TypeInv, Types
  <1>3. wanted \in LocType /\ wanted \in ObsType /\ wanted.gen = 0
        /\ wanted.mode \notin {"single", "multi"}
    BY ConfType, CallTypes
  <1>4. Keeps(run, rest) /\ rest.pc = "changes"
    BY <1>1, <1>2 DEF Keeps, TaskType
  <1> HIDE DEF rest, wanted
  <1>5. rest \in TaskType
    BY <1>4 DEF Keeps
  <1>6. PICK t : Keeps(rest, t) /\ t.pc = rest.pc /\ Continue(t)
    <2>1. Keeps(rest, [rest EXCEPT !.obs[n] = wanted]) /\ [rest EXCEPT !.obs[n] = wanted].pc = rest.pc
      BY <1>3, <1>5 DEF Keeps, TaskType
    <2>2. Keeps(rest, Unsure(rest, n)) /\ Unsure(rest, n).pc = rest.pc
      BY <1>5, ConfType DEF Keeps, TaskType, Unsure
    <2>3. /\ Keeps(Unsure(rest, n), [Unsure(rest, n) EXCEPT !.failed = TRUE])
          /\ [Unsure(rest, n) EXCEPT !.failed = TRUE].pc = Unsure(rest, n).pc
      BY <2>2, TaskMarks DEF Keeps
    <2>4. Keeps(rest, [Unsure(rest, n) EXCEPT !.failed = TRUE])
      BY <2>2, <2>3, KeepsTwice
    <2> QED
      BY <1>1, <2>1, <2>2, <2>3, <2>4
  <1>7. Keeps(run, t) /\ t.pc \notin Attaching
    BY <1>4, <1>6, KeepsTwice DEF Attaching
  <1>8. budget' \in [Events -> Nat] /\ (loc' = loc \/ loc' = [loc EXCEPT ![n] = wanted])
    BY <1>1, <1>3, LocationConfigType DEF TypeInv, Types
  <1>9. /\ loc' \in [Nodes -> LocType]
        /\ \A m \in Nodes : \/ loc'[m] = loc[m]
                            \/ /\ loc'[m].gen <= db.gen
                               /\ loc'[m].mode \notin {"single", "multi"}
    BY <1>2, <1>3, <1>8 DEF TypeInv, Types
  <1> QED
    BY <1>1, <1>2, <1>6, <1>7, <1>8, <1>9, RunStep

\* The task that goes on to the other locations.
LEMMA WithChangesType ==
  ASSUME NEW t \in TaskType
  PROVE  Keeps(t, WithChanges(t)) /\ WithChanges(t).pc = "changes"
  <1> DEFINE wrong == {n \in t.sec : t.obs[n] # Secondary}
             obs == [n \in Nodes |-> IF n \in wrong \ t.nodes THEN Unknown ELSE t.obs[n]]
             todo == (wrong \cap t.nodes) \cup t.detach
  <1>1. WithChanges(t) = [t EXCEPT !.pc = "changes", !.todo = todo, !.obs = obs]
    BY Zenon DEF WithChanges
  <1>2. obs \in [Nodes -> ObsType] /\ todo \in SUBSET Nodes
    BY ConfType DEF TaskType
  <1> HIDE DEF obs, todo
  <1> QED
    BY <1>1, <1>2 DEF Keeps, TaskType, Steps

\* Every step of the running reconciler.
LEMMA TaskSteps ==
  ASSUME TypeInv, TaskStep
  PROVE  TypeInv' /\ OneNewClaim
  <1>0. budget \in [Events -> Nat] /\ compute \in Nodes /\ db.gen \in Nat
    BY DEF TypeInv, Types
  <1>1. CASE Refresh
    <2>1. /\ run.pc = "refresh" /\ UNCHANGED <<db, loc, link, issued, compute, ctl>>
          /\ \/ Refreshed(run) /\ (Spend("io") \/ UNCHANGED budget)
             \/ Refreshed([run EXCEPT !.obs[run.att] = loc[run.att]]) /\ UNCHANGED budget
             \/ Fail(run) /\ (Spend("io") \/ UNCHANGED budget)
      BY <1>1 DEF Refresh
    <2>2. run \in TaskType /\ run.att \in Nodes
      BY <2>1, RunType
    <2>3. compute' \in Nodes /\ budget' \in [Events -> Nat]
      BY <1>0, <2>1, SpendType DEF Events
    <2>4. CASE Fail(run)
      BY <2>1, <2>2, <2>3, <2>4, QuietStep DEF Keeps
    <2>5. ASSUME NEW t, Keeps(run, t), Refreshed(t) PROVE TypeInv' /\ OneNewClaim
      <3>1. PICK u : Keeps(t, u) /\ u.pc \notin Attaching /\ Continue(u)
        BY <2>5, RefreshedStep DEF Keeps
      <3>2. Keeps(run, u)
        BY <2>5, <3>1, KeepsTwice
      <3> QED
        BY <2>1, <2>2, <2>3, <3>1, <3>2, QuietStep
    <2>6. Keeps(run, run)
      BY <2>2 DEF Keeps
    <2>7. Keeps(run, [run EXCEPT !.obs[run.att] = loc[run.att]])
      <3>1. loc[run.att] \in ObsType
        BY <2>2, ConfType DEF TypeInv, Types
      <3> QED
        BY <2>2, <3>1 DEF Keeps, TaskType
    <2> QED
      BY <2>1, <2>4, <2>5, <2>6, <2>7
  <1>2. CASE MakeStale
    BY <1>2, RunType, CallTypes, CallStep DEF MakeStale, Attaching, Steps
  <1>3. CASE LsnsFail
    <2>1. /\ run.pc = "increment" /\ Fail(run) /\ (Spend("io") \/ UNCHANGED budget)
          /\ UNCHANGED <<db, loc, link, issued, compute, ctl>>
      BY <1>3 DEF LsnsFail
    <2>2. run \in TaskType /\ compute' \in Nodes /\ budget' \in [Events -> Nat]
      BY <1>0, <2>1, RunType, SpendType DEF Events
    <2> QED
      BY <2>1, <2>2, QuietStep DEF Keeps
  <1>4. CASE IncrementForMigration
    BY <1>4, RunType, IncrementStep DEF IncrementForMigration, Attaching
  <1>5. CASE MakeMulti
    BY <1>5, RunType, CallTypes, CallStep DEF MakeMulti, Attaching, Steps
  <1>6. CASE AwaitLsn
    <2>1. run.pc = "await" /\ Continue([run EXCEPT !.pc = "notify"])
      BY <1>6 DEF AwaitLsn, GoTo
    <2>2. run \in TaskType
      BY <2>1, RunType
    <2>3. Keeps(run, [run EXCEPT !.pc = "notify"])
      BY <2>2 DEF Keeps, TaskType, Steps, Attaching
    <2> QED
      BY <1>0, <1>6, <2>1, <2>2, <2>3, QuietStep DEF AwaitLsn, Attaching
  <1>7. CASE NotifyBlocking
    <2>1. /\ run.pc = "notify" /\ UNCHANGED <<db, loc, link, issued, ctl>>
          /\ Notify(TRUE) \/ Notify(FALSE)
          /\ \/ Continue([run EXCEPT !.pc = "demote"])
             \/ Fail(Unnotified(run))
             \/ \E pc \in {"demote", "notify"} : Continue([Unnotified(run) EXCEPT !.pc = pc])
      BY <1>7 DEF NotifyBlocking, GoTo
    <2>2. run \in TaskType /\ compute' \in Nodes /\ budget' \in [Events -> Nat]
      BY <2>1, RunType, NotifyType
    <2>3. Keeps(run, Unnotified(run)) /\ Unnotified(run).pc = run.pc
      BY <2>2 DEF Keeps, TaskType, Unnotified
    <2>4. ASSUME NEW t, Keeps(run, t), NEW pc \in {"demote", "notify"}
          PROVE  Keeps(run, [t EXCEPT !.pc = pc])
      BY <2>4 DEF Keeps, TaskType, Steps, Attaching
    <2>5. Keeps(run, run)
      BY <2>2 DEF Keeps
    <2>6. PICK t : Keeps(run, t) /\ (Continue(t) \/ Fail(t))
      BY <2>1, <2>3, <2>4, <2>5
    <2> QED
      BY <2>1, <2>2, <2>6, QuietStep DEF Attaching
  <1>8. CASE DemoteOrigin
    BY <1>0, <1>8, RunType, CallTypes, CallStep DEF DemoteOrigin, Attaching, Steps
  <1>9. CASE MakeSingle
    BY <1>9, RunType, CallTypes, CallStep DEF MakeSingle, Attaching, Steps
  <1>10. CASE IncrementToAttach
    BY <1>10, RunType, IncrementStep DEF IncrementToAttach, Attaching
  <1>11. CASE Configure
    BY <1>11, RunType, CallTypes, CallStep DEF Configure, Attaching, Steps
  <1>12. CASE NotifyAttached
    <2>1. /\ run.pc = "attach" /\ UNCHANGED <<db, loc, link, issued, ctl>>
          /\ Notify(TRUE) \/ Notify(FALSE)
          /\ Continue(WithChanges(run)) \/ Fail(Unnotified(run))
      BY <1>12 DEF NotifyAttached
    <2>2. run \in TaskType /\ compute' \in Nodes /\ budget' \in [Events -> Nat]
      BY <2>1, RunType, NotifyType
    <2>3. Keeps(run, Unnotified(run)) /\ Unnotified(run).pc = run.pc
      BY <2>2 DEF Keeps, TaskType, Unnotified
    <2>4. Keeps(run, WithChanges(run)) /\ WithChanges(run).pc = "changes"
      BY <2>2, WithChangesType
    <2> QED
      BY <2>1, <2>2, <2>3, <2>4, QuietStep DEF Attaching
  <1>13. CASE EndReconcile
    <2>1. /\ run.pc = "changes" /\ UNCHANGED <<db, loc, link, issued, ctl>>
          /\ Notify(TRUE) \/ Notify(FALSE) \/ UNCHANGED <<compute, budget>>
          /\ Finish(run) \/ Finish(Unnotified(run))
      BY <1>13 DEF EndReconcile
    <2>2. run \in TaskType /\ compute' \in Nodes /\ budget' \in [Events -> Nat]
      BY <1>0, <2>1, RunType, NotifyType
    <2>3. Keeps(run, Unnotified(run)) /\ Unnotified(run).pc = run.pc
      BY <2>2 DEF Keeps, TaskType, Unnotified
    <2> QED
      BY <2>1, <2>2, <2>3, QuietStep DEF Keeps
  <1>14. ASSUME NEW n \in Nodes, ApplyChange(n) PROVE TypeInv' /\ OneNewClaim
    BY <1>14, ApplyChangeStep
  <1> QED
    BY <1>1, <1>2, <1>3, <1>4, <1>5, <1>6, <1>7, <1>8, <1>9, <1>10, <1>11, <1>12, <1>13, <1>14
       DEF TaskStep

\* A cancelled reconciler fails where it is.
LEMMA CancelStep ==
  ASSUME TypeInv, CancelTask
  PROVE  TypeInv' /\ OneNewClaim
  <1>1. /\ run.pc # "none" /\ UNCHANGED <<db, loc, link, issued, ctl, budget>>
        /\ UNCHANGED compute \/ compute' \in {compute, run.att}
        /\ \/ Fail(run) \/ Fail(Unnotified(run))
           \/ \E n \in {run.origin, run.att} : Fail(Unsure(run, n))
    BY DEF CancelTask
  <1>2. /\ run \in TaskType /\ run.att \in Nodes /\ run.origin \in Nodes
        /\ compute' \in Nodes /\ budget' \in [Events -> Nat]
    BY <1>1, RunType DEF TypeInv, Types
  <1>3. Keeps(run, Unnotified(run)) /\ Unnotified(run).pc = run.pc
    BY <1>2 DEF Keeps, TaskType, Unnotified
  <1>4. ASSUME NEW n \in Nodes PROVE Keeps(run, Unsure(run, n)) /\ Unsure(run, n).pc = run.pc
    BY <1>2, ConfType DEF Keeps, TaskType, Unsure
  <1>5. Keeps(run, run)
    BY <1>2 DEF Keeps
  <1>6. PICK t : Keeps(run, t) /\ t.pc = run.pc /\ Fail(t)
    BY <1>1, <1>2, <1>3, <1>4, <1>5
  <1> QED
    BY <1>1, <1>2, <1>6, QuietStep

-----------------------------------------------------------------------------
(* The steps of the controller and of the pageservers.                     *)

\* A result raises the generation and changes the observed state.
LEMMA ResultStep ==
  ASSUME TypeInv, ProcessResult
  PROVE  TypeInv' /\ OneNewClaim /\ CareKept(tasks')
  <1> USE DEF TypeInv, Types, GensAreIssued
  <1> DEFINE r == Head(tasks.done)
             k == [tasks EXCEPT !.done = Tail(@)]
             obs == [n \in Nodes |-> Observe(ctl, r, n)]
             c == [ctl EXCEPT !.gen = Larger(@, r.gen), !.pending = r.pending, !.obs = obs,
                              !.moved = @ /\ InProgress(k)]
  <1>1. tasks.done # <<>> /\ tasks' = k /\ ctl' = c /\ UNCHANGED <<db, loc, link, issued, compute, budget>>
    BY DEF ProcessResult
  <1>2. tasks.done \in Seq(ResultType) /\ r = tasks.done[1] /\ 1 \in DOMAIN tasks.done
    BY <1>1 DEF TasksType
  <1>3. r \in ResultType /\ r.gen <= db.gen
    BY <1>2 DEF TaskGens
  <1>4. k \in TasksType /\ k.run = tasks.run /\ k.wait = tasks.wait /\ k.done = Tail(tasks.done)
    <2>1. Tail(tasks.done) \in Seq(ResultType)
      BY <1>1, <1>2
    <2> QED
      BY <2>1 DEF TasksType
  <1>5. \A i \in DOMAIN Tail(tasks.done) :
           i + 1 \in DOMAIN tasks.done /\ Tail(tasks.done)[i] = tasks.done[i + 1]
    BY <1>1, <1>2
  <1> HIDE DEF k
  <1>6. TaskGens(k, db.gen)
    BY <1>4, <1>5 DEF TaskGens
  <1>7. obs \in [Nodes -> ObsType]
    <2>1. \A n \in Nodes : ctl.obs[n] \in ObsType /\ r.obs[n] \in ObsType
      BY <1>3 DEF CtlType, ResultType
    <2>2. \A n \in Nodes : Observe(ctl, r, n) \in {ctl.obs[n], r.obs[n], Unknown}
      BY DEF Observe
    <2> QED
      BY <2>1, <2>2, ConfType
  <1>8. Larger(ctl.gen, r.gen) \in Nat \ {0} /\ Larger(ctl.gen, r.gen) <= db.gen
    BY <1>3 DEF Larger, CtlType, ResultType
  <1> HIDE DEF obs
  <1>9. c \in CtlType /\ c.gen = Larger(ctl.gen, r.gen) /\ c.att = ctl.att /\ c.sec = ctl.sec
    <2>1. (ctl.moved /\ InProgress(k)) \in BOOLEAN /\ r.pending \in BOOLEAN
      BY <1>3 DEF ResultType
    <2> QED
      BY <1>7, <1>8, <2>1 DEF CtlType
  <1> HIDE DEF c, r
  <1>10. c.att \notin c.sec /\ c.gen <= db.gen
    BY <1>8, <1>9
  <1>11. SameRun(k, tasks)
    BY <1>4 DEF SameRun
  <1>12. budget' \in [Events -> Nat]
    BY <1>1
  <1>13. CareKept(k)
    BY <1>1, <1>4 DEF CareKept, CareInv, CarefulTasks
  <1> QED
    BY <1>1, <1>4, <1>6, <1>9, <1>10, <1>11, <1>12, <1>13, ControlStep

\* The present tasks are what they are.
LEMMA SameTasks ==
  ASSUME UNCHANGED <<compute, loc>>
  PROVE  SameRun(tasks, tasks) /\ CareKept(tasks)
  BY DEF SameRun, CareKept, CareInv

\* An operator's request.
LEMMA MoveStep ==
  ASSUME TypeInv, NEW n \in Nodes, MoveIntent(n)
  PROVE  TypeInv' /\ OneNewClaim /\ CareKept(tasks')
  <1> USE DEF TypeInv, Types, GensAreIssued
  <1>1. PICK kept \in WithRoom(ctl.sec \ {n}) :
           LET sec == IF Secondaries > 0 THEN kept \cup {ctl.att} ELSE kept
           IN  MaybeReconcile([ctl EXCEPT !.att = n, !.sec = sec, !.moved = TRUE], tasks)
    BY DEF MoveIntent
  <1> DEFINE sec == IF Secondaries > 0 THEN kept \cup {ctl.att} ELSE kept
             c == [ctl EXCEPT !.att = n, !.sec = sec, !.moved = TRUE]
  <1>2. MaybeReconcile(c, tasks)
    BY <1>1
  <1>3. n # ctl.att /\ Spend("move") /\ UNCHANGED <<db, loc, link, issued, compute>>
    BY DEF MoveIntent
  <1>4. kept \subseteq ctl.sec \ {n}
    BY DEF WithRoom
  <1>5. sec \in SUBSET Nodes /\ n \notin sec
    BY <1>3, <1>4 DEF CtlType
  <1> HIDE DEF sec
  <1>6. c \in CtlType /\ c.gen = ctl.gen /\ c.att = n /\ c.sec = sec
    BY <1>5 DEF CtlType
  <1> HIDE DEF c
  <1>7. budget' \in [Events -> Nat]
    BY <1>3, SpendType DEF Events
  <1> QED
    BY <1>2, <1>3, <1>5, <1>6, <1>7, SameTasks, ControlStep

\* A node is taken for lost, and the shard fails over.
LEMMA OfflineStep ==
  ASSUME TypeInv, NEW n \in Nodes, NodeOffline(n)
  PROVE  TypeInv' /\ OneNewClaim /\ CareKept(tasks')
  <1> USE DEF TypeInv, Types, GensAreIssued
  <1> DEFINE o == IF ctl.obs[n] = Absent THEN Absent ELSE Unknown
             c == [ctl EXCEPT !.avail[n] = "offline", !.obs[n] = o]
             k == TokenFired(tasks, n)
             d(m) == [c EXCEPT !.att = m, !.sec = (@ \cup {n}) \ {m}, !.moved = TRUE]
  <1>1. /\ UNCHANGED <<db, loc, link, issued, compute, budget>>
        /\ \/ \E m \in AttachChoices(c, c.sec) : MaybeReconcile(d(m), k)
           \/ ctl' = c /\ tasks' = k
    BY DEF NodeOffline
  <1>2. o \in ObsType
    BY ConfType
  <1> HIDE DEF o
  <1>3. c \in CtlType /\ c.gen = ctl.gen /\ c.att = ctl.att /\ c.sec = ctl.sec
    BY <1>2 DEF CtlType
  <1> HIDE DEF c
  <1>4. k \in TasksType /\ TaskGens(k, db.gen) /\ SameRun(k, tasks)
    BY TokenFiredType
  <1>5. CareKept(k)
    BY <1>1, FiredIsCareful DEF CareKept, CareInv
  <1> HIDE DEF k
  <1>6. CASE ctl' = c /\ tasks' = k
    BY <1>1, <1>3, <1>4, <1>5, <1>6, ControlStep
  <1>7. ASSUME NEW m \in AttachChoices(c, c.sec), MaybeReconcile(d(m), k)
        PROVE  TypeInv' /\ OneNewClaim /\ CareKept(tasks')
    <2>1. m \in Nodes
      BY <1>3 DEF AttachChoices, Active, CtlType
    <2>2. d(m) \in CtlType /\ d(m).gen = ctl.gen /\ d(m).att = m /\ m \notin d(m).sec
      BY <1>3, <2>1 DEF CtlType
    <2> HIDE DEF d
    <2> QED
      BY <1>1, <1>4, <1>5, <1>7, <2>2, ControlStep
  <1> QED
    BY <1>1, <1>6, <1>7

\* A node is back, and what it reports is compared.
LEMMA ActiveStep ==
  ASSUME TypeInv, NEW n \in Nodes, NodeActive(n)
  PROVE  TypeInv' /\ OneNewClaim /\ CareKept(tasks')
  <1> USE DEF TypeInv, Types, GensAreIssued
  <1> DEFINE o == IF loc[n] \in {Absent, ctl.obs[n]} THEN ctl.obs[n] ELSE Unknown
             c == [ctl EXCEPT !.avail[n] = "active", !.obs[n] = o]
  <1>1. /\ UNCHANGED <<db, loc, link, issued, compute, budget>>
        /\ MaybeReconcile(c, tasks) \/ (ctl' = c /\ tasks' = tasks)
    BY DEF NodeActive
  <1>2. o \in ObsType
    BY ConfType DEF CtlType
  <1> HIDE DEF o
  <1>3. c \in CtlType /\ c.gen = ctl.gen /\ c.att = ctl.att /\ c.sec = ctl.sec
    BY <1>2 DEF CtlType
  <1> HIDE DEF c
  <1> QED
    BY <1>1, <1>3, SameTasks, ControlStep

\* The background loop.
LEMMA ReconcileAllStep ==
  ASSUME TypeInv, ReconcileAll
  PROVE  TypeInv' /\ OneNewClaim /\ CareKept(tasks')
  BY SameTasks, ControlStep DEF ReconcileAll, TypeInv, Types, GensAreIssued

\* What happens to the links.
LEMMA LinkStep ==
  ASSUME TypeInv, NEW n \in Nodes, Cut(n) \/ Heal(n) \/ Crash(n)
  PROVE  TypeInv' /\ OneNewClaim
  <1> USE DEF TypeInv, Types, GensAreIssued
  <1>1. /\ UNCHANGED <<db, loc, issued, compute, ctl, tasks>>
        /\ link' \in [Nodes -> {"up", "cut", "down", "asking"}]
    BY DEF Cut, Heal, Crash
  <1>2. budget' \in [Events -> Nat]
    BY SpendType DEF Cut, Heal, Crash, Events
  <1>3. \A m \in Nodes, g \in Nat : Claim(m, g)' => Claim(m, g)
    BY <1>1 DEF Claim
  <1> QED
    BY <1>1, <1>2, <1>3 DEF OneNewClaim

\* re_attach gives out a generation that nobody has.
LEMMA ReAttachStep ==
  ASSUME TypeInv, NEW n \in Nodes, ReAttach(n)
  PROVE  TypeInv' /\ OneNewClaim
  <1> USE DEF TypeInv, Types, GensAreIssued
  <1>1. /\ UNCHANGED <<loc, compute, ctl, tasks, budget>>
        /\ link' \in [Nodes -> {"up", "cut", "down", "asking"}]
        /\ db.gen \in Nat \ {0}
        /\ \/ db' = [db EXCEPT !.gen = @ + 1] /\ issued' = [issued EXCEPT ![n] = db.gen + 1]
           \/ UNCHANGED <<db, issued>>
    BY DEF ReAttach
  <1>2. /\ db' \in [gen : Nat \ {0}, node : Nodes] /\ db.gen <= db'.gen
        /\ issued' \in [Nodes -> Nat] /\ \A m \in Nodes : issued'[m] <= db'.gen
    BY <1>1
  <1>3. /\ tasks.run \in TaskType \cup {NoTask} /\ tasks.wait \in TaskType \cup {NoTask}
        /\ tasks.done \in Seq(ResultType)
    BY DEF TasksType, WaitType
  <1>4. \A t \in TaskType : t.gen \in Nat
    BY DEF TaskType
  <1>5. TaskGens(tasks, db'.gen)
    BY <1>1, <1>2, <1>3, <1>4, ResultGens DEF TaskGens
  <1>6. (\A m \in Nodes : loc[m].gen \in Nat) /\ ctl.gen \in Nat
    BY DEF LocType, CtlType
  <1>7. GensAreIssued'
    BY <1>1, <1>2, <1>5, <1>6
  <1>8. \A m \in Nodes, g \in Nat : Claim(m, g)' => Claim(m, g) \/ (m = n /\ g = db'.gen /\ g = db.gen + 1)
    BY <1>1 DEF Claim
  <1> QED
    BY <1>1, <1>2, <1>7, <1>8 DEF OneNewClaim

\* The location of the pageserver that starts is of the generation it was given.
LEMMA StartedType ==
  ASSUME TypeInv, NEW n \in Nodes
  PROVE  /\ Started(n) \in LocType /\ Started(n).gen <= db.gen
         /\ Started(n).mode \in {"single", "multi"} =>
               issued[n] # 0 /\ Started(n).gen = issued[n]
  <1>1. issued[n] \in Nat /\ issued[n] <= db.gen /\ db.gen \in Nat
    BY DEF TypeInv, Types, GensAreIssued
  <1> QED
    BY <1>1, CallTypes DEF Started

\* The pageserver has its answer, or has to ask again.
LEMMA AnswerStep ==
  ASSUME TypeInv, NEW n \in Nodes, ReAttachAnswer(n)
  PROVE  TypeInv' /\ OneNewClaim /\ CareKept(tasks')
  <1> USE DEF TypeInv, Types, GensAreIssued
  <1> DEFINE g == issued[n]
             o == IF g = 0 THEN ctl.obs[n]
                  ELSE IF ctl.obs[n] \in {Absent, Unknown} THEN Unknown
                  ELSE Conf(ctl.obs[n].mode, g)
             c == [ctl EXCEPT !.gen = Larger(@, g), !.obs[n] = o, !.avail[n] = "warming"]
  <1>1. /\ ctl' = c /\ tasks' = TokenFired(tasks, n) /\ issued' = [issued EXCEPT ![n] = 0]
        /\ UNCHANGED <<db, compute>>
        /\ \/ loc' = [loc EXCEPT ![n] = Started(n)]
           \/ UNCHANGED loc
    BY DEF ReAttachAnswer
  <1>2. budget' \in [Events -> Nat] /\ link' \in [Nodes -> {"up", "cut", "down", "asking"}]
    BY SpendType DEF ReAttachAnswer, Events
  <1>3. g \in Nat /\ g <= db.gen /\ issued' \in [Nodes -> Nat]
        /\ \A m \in Nodes : issued'[m] <= db.gen
    BY <1>1
  <1>4. o \in ObsType
    BY <1>3, ConfType DEF CtlType, Conf, ObsType
  <1>5. Larger(ctl.gen, g) \in Nat \ {0} /\ Larger(ctl.gen, g) <= db.gen
    BY <1>3 DEF Larger, CtlType
  <1> HIDE DEF o
  <1>6. c \in CtlType /\ c.gen = Larger(ctl.gen, g) /\ c.att = ctl.att /\ c.sec = ctl.sec
    BY <1>4, <1>5 DEF CtlType
  <1> HIDE DEF c
  <1>7. tasks' \in TasksType /\ TaskGens(tasks', db.gen) /\ SameRun(tasks', tasks)
    BY <1>1, TokenFiredType
  <1>8. /\ loc' \in [Nodes -> LocType] /\ \A m \in Nodes : loc'[m].gen <= db.gen
        /\ \A m \in Nodes : \/ loc'[m] = loc[m]
                            \/ /\ m = n
                               /\ loc'[m].mode \in {"single", "multi"} =>
                                     issued[m] # 0 /\ loc'[m].gen = issued[m]
    BY <1>1, StartedType
  <1>9. TypeInv'
    BY <1>1, <1>2, <1>3, <1>5, <1>6, <1>7, <1>8
  <1>10. \A m \in Nodes, h \in Nat : Claim(m, h)' => Claim(m, h)
    BY <1>1, <1>7, <1>8 DEF Claim, SameRun
  <1>11. CareKept(tasks')
    BY <1>1, FiredIsCareful DEF CareKept, CareInv
  <1> QED
    BY <1>1, <1>9, <1>10, <1>11 DEF OneNewClaim

\* The controller has no tasks when it starts, and reads its generation.
LEMMA RestartStep ==
  ASSUME TypeInv, ControllerRestart
  PROVE  TypeInv' /\ OneNewClaim /\ CareKept(tasks')
  <1> USE DEF TypeInv, Types, GensAreIssued
  <1> DEFINE
        up == {n \in Nodes : link[n] = "up"}
        newest == {n \in up : /\ Attached(loc[n])
                              /\ \A m \in up : Attached(loc[m]) => loc[m].gen <= loc[n].gen}
        c0 == [gen |-> db.gen, att |-> First, sec |-> {}, pending |-> FALSE, moved |-> FALSE,
               obs |-> [n \in Nodes |-> IF n \in up THEN loc[n] ELSE Absent],
               avail |-> [n \in Nodes |-> IF n \in up THEN "active" ELSE "offline"]]
        found == {n \in up : loc[n] # Absent}
        choices == IF newest # {} THEN newest ELSE AttachChoices(c0, found)
        mores(att) == IF found \subseteq {att} /\ Secondaries = 1 /\ up # {att}
                      THEN {{n} : n \in up \ {att}} ELSE {{}}
        c(att, more) == [c0 EXCEPT !.att = att, !.sec = (found \ {att}) \cup more]
        pend(d) == [d EXCEPT !.pending = TRUE]
        begins(att, more) ==
            /\ compute' \in {compute, att}
            /\ \/ MaybeReconcile(c(att, more), NoTasks)
               \/ MaybeReconcile(pend(c(att, more)), NoTasks)
            /\ budget["ctl"] > 0
            /\ \/ budget' = [budget EXCEPT !["ctl"] = @ - 1]
               \/ /\ budget["notify"] > 0
                  /\ budget' = [budget EXCEPT !["ctl"] = @ - 1, !["notify"] = @ - 1]
  <1>1. /\ link' = [n \in Nodes |-> IF link[n] = "asking" THEN "down" ELSE link[n]]
        /\ issued' = [n \in Nodes |-> 0] /\ UNCHANGED <<db, loc>>
    BY DEF ControllerRestart
  <1>2. PICK att \in choices : \E more \in mores(att) : begins(att, more)
    BY DEF ControllerRestart
  <1>3. PICK more \in mores(att) : begins(att, more)
    BY <1>2
  <1>4. c0 \in CtlType /\ c0.gen = db.gen
    BY ConfType, BoundsAssumption DEF CtlType
  <1>5. newest \subseteq Nodes /\ found \subseteq Nodes /\ up \subseteq Nodes
    OBVIOUS
  <1> HIDE DEF c0, found, newest, up
  <1>6. att \in Nodes /\ more \subseteq Nodes /\ att \notin more
    BY <1>4, <1>5 DEF AttachChoices, Active, CtlType
  <1>7. PICK d \in CtlType : /\ d.gen = db.gen /\ d.att \notin d.sec
                             /\ MaybeReconcile(d, NoTasks)
    <2>1. /\ c(att, more) \in CtlType /\ c(att, more).gen = db.gen
          /\ c(att, more).att \notin c(att, more).sec
      BY <1>4, <1>5, <1>6 DEF CtlType
    <2> HIDE DEF c
    <2>2. /\ pend(c(att, more)) \in CtlType /\ pend(c(att, more)).gen = db.gen
          /\ pend(c(att, more)).att \notin pend(c(att, more)).sec
      BY <2>1 DEF CtlType
    <2> QED
      BY <1>3, <2>1, <2>2
  <1>8. NoTasks \in TasksType /\ TaskGens(NoTasks, db.gen) /\ NoTasks.run = NoTask
    BY DEF NoTasks, TasksType, TaskGens
  <1>9. /\ tasks' \in TasksType /\ TaskGens(tasks', db.gen) /\ SameRun(tasks', NoTasks)
        /\ ctl' \in CtlType /\ ctl'.gen = db.gen /\ ctl'.att \notin ctl'.sec
    BY <1>7, <1>8, Reconciling
  <1>10. tasks'.run.pc \notin Attaching
    BY <1>8, <1>9, NoTaskType DEF SameRun, Attaching
  <1>11. budget' \in [Events -> Nat] /\ compute' \in Nodes
    BY <1>3, <1>6 DEF Events
  <1>12. TypeInv'
    BY <1>1, <1>9, <1>11
  <1>13. \A m \in Nodes, g \in Nat : Claim(m, g)' => Claim(m, g)
    BY <1>1, <1>10 DEF Claim
  <1>14. CareKept(tasks')
    <2>1. CareKept(NoTasks)
      BY DEF CareKept, CarefulTasks, NoTasks
    <2> QED
      BY <1>7, <1>8, <2>1, ReconcilingIsCareful
  <1> QED
    BY <1>1, <1>12, <1>13, <1>14, BoundsAssumption DEF OneNewClaim

-----------------------------------------------------------------------------
(* The theorems.                                                           *)

\* Every step keeps the types, and adds at most one claim.
LEMMA StepLemma ==
  ASSUME TypeInv, Next
  PROVE  TypeInv' /\ OneNewClaim
  BY TaskSteps, CancelStep, ReconcileAllStep, ResultStep, RestartStep, MoveStep, OfflineStep,
     ActiveStep, LinkStep, ReAttachStep, AnswerStep DEF Next

\* The types are inductive.
LEMMA TypeLemma == TypeInv /\ [Next]_vars => TypeInv'
  <1> SUFFICES ASSUME TypeInv, [Next]_vars PROVE TypeInv'
    OBVIOUS
  <1>1. CASE Next
    BY <1>1, StepLemma
  <1>2. CASE UNCHANGED vars
    BY <1>2 DEF vars, TypeInv, Types, GensAreIssued
  <1> QED
    BY <1>1, <1>2

\* The start.
LEMMA InitLemma ==
  ASSUME Init
  PROVE  TypeInv /\ ClaimsAreExclusive
  <1>1. /\ db = [gen |-> 1, node |-> First] /\ First \in Nodes /\ Second \subseteq Nodes \ {First}
        /\ issued = [n \in Nodes |-> 0] /\ compute = First
        /\ tasks = [run |-> NoTask, wait |-> NoTask, done |-> <<>>]
    BY BoundsAssumption DEF Init, NoTasks
  <1>2. /\ loc \in [Nodes -> LocType]
        /\ \A n \in Nodes : loc[n].gen <= 1 /\ (loc[n].mode \in {"single", "multi"} => n = First)
    <2>1. \A n \in Nodes : loc[n] = IF n = First THEN Conf("single", 1)
                                   ELSE IF n \in Second THEN Secondary ELSE Absent
      BY DEF Init
    <2>2. \A n \in Nodes : /\ loc[n] \in LocType /\ loc[n].gen <= 1
                           /\ loc[n].mode \in {"single", "multi"} => n = First
      BY <2>1, CallTypes
    <2> QED
      BY <2>2 DEF Init
  <1>3. loc \in [Nodes -> ObsType]
    BY <1>2, ConfType
  <1>4. ctl \in CtlType /\ ctl.att \notin ctl.sec /\ ctl.gen = 1
    BY <1>1, <1>3 DEF Init, CtlType
  <1>5. tasks \in TasksType /\ TaskGens(tasks, 1)
    BY <1>1 DEF TasksType, TaskGens
  <1>6. link \in [Nodes -> {"up", "cut", "down", "asking"}] /\ budget \in [Events -> Nat]
    BY BoundsAssumption DEF Init
  <1>7. TypeInv
    BY <1>1, <1>2, <1>4, <1>5, <1>6 DEF TypeInv, Types, GensAreIssued
  <1>8. \A n \in Nodes, g \in Nat : Claim(n, g) => n = First
    BY <1>1, <1>2, NoTaskType DEF Claim, Attaching
  <1> QED
    BY <1>7, <1>8 DEF ClaimsAreExclusive

\* A claim is to a generation that the database has given out.
LEMMA ClaimIsIssued ==
  ASSUME TypeInv, NEW n \in Nodes, NEW g \in Nat, Claim(n, g)
  PROVE  g <= db.gen
  <1>1. CASE tasks.run.pc \in Attaching /\ tasks.run.gen = g
    BY <1>1, RunType DEF run, Attaching
  <1>2. CASE loc[n].gen = g \/ issued[n] = g
    BY <1>2 DEF TypeInv, Types, GensAreIssued
  <1> QED
    BY <1>1, <1>2 DEF Claim

(***************************************************************************)
(* The types of Reconciler, for every number of pageservers and of faults: *)
(* in particular no location, and nothing that the controller remembers,   *)
(* is of a generation that the database has not given out, and a node      *)
(* is never meant to be attached and secondary at once.                    *)
(***************************************************************************)
THEOREM TypeCorrect == Spec => []TypeOK
<1>1. Init => TypeInv
  BY InitLemma
<1>2. TypeInv /\ [Next]_vars => TypeInv'
  BY TypeLemma
<1>3. TypeInv => TypeOK
  <2> SUFFICES ASSUME TypeInv PROVE TypeOK
    OBVIOUS
  <2> USE DEF TypeInv, Types, GensAreIssued
  <2>1. db.gen \in Nat /\ db.node \in Nodes
    OBVIOUS
  <2>2. \A n \in Nodes : loc[n] \in Locations
    BY DEF LocType, LocModes, Locations
  <2>3. loc \in [Nodes -> Locations]
    BY <2>2
  <2>4. issued \in [Nodes -> 0..db.gen]
    BY <2>1
  <2>5. /\ ctl.gen \in 1..db.gen /\ ctl.att \in Nodes \ ctl.sec /\ ctl.sec \subseteq Nodes
        /\ ctl.avail \in [Nodes -> {"active", "warming", "offline"}]
    BY <2>1 DEF CtlType
  <2> QED
    BY <2>1, <2>3, <2>4, <2>5 DEF TypeOK
<1> QED
  BY <1>1, <1>2, <1>3, PTL DEF Spec

(***************************************************************************)
(* Two locations that may write never have the same generation, for every  *)
(* number of pageservers, moves, crashes, lost calls and restarts.  By     *)
(* itself this is not inductive: a reconciler that has its generation, or  *)
(* a pageserver that has been answered, will write only later.             *)
(***************************************************************************)
THEOREM WritersCorrect == Spec => []WritersAreExclusive
<1>1. Init => TypeInv /\ ClaimsAreExclusive
  BY InitLemma
<1>2. TypeInv /\ ClaimsAreExclusive /\ [Next]_vars => (TypeInv /\ ClaimsAreExclusive)'
  <2> SUFFICES ASSUME TypeInv, ClaimsAreExclusive, [Next]_vars
               PROVE  TypeInv' /\ ClaimsAreExclusive'
    OBVIOUS
  <2>1. CASE Next
    <3>1. TypeInv' /\ OneNewClaim
      BY <2>1, StepLemma
    <3>2. PICK x \in Nodes : \A n \in Nodes, g \in Nat :
             Claim(n, g)' => Claim(n, g) \/ (n = x /\ g = db'.gen /\ g = db.gen + 1)
      BY <3>1 DEF OneNewClaim
    <3>3. ASSUME NEW m \in Nodes, NEW n \in Nodes, NEW g \in Nat, Claim(m, g)', Claim(n, g)'
          PROVE  m = n
      <4>1. db.gen \in Nat
        BY DEF TypeInv, Types
      <4>2. Claim(m, g) \/ (m = x /\ g = db'.gen /\ g = db.gen + 1)
        BY <3>2, <3>3
      <4>3. Claim(n, g) \/ (n = x /\ g = db'.gen /\ g = db.gen + 1)
        BY <3>2, <3>3
      <4>4. Claim(m, g) \/ Claim(n, g) => g # db.gen + 1
        BY <4>1, ClaimIsIssued
      <4> QED
        BY <4>2, <4>3, <4>4 DEF ClaimsAreExclusive
    <3> QED
      BY <3>1, <3>3 DEF ClaimsAreExclusive
  <2>2. CASE UNCHANGED vars
    BY <2>2 DEF vars, TypeInv, Types, GensAreIssued, ClaimsAreExclusive, Claim
  <2> QED
    BY <2>1, <2>2
<1>3. TypeInv /\ ClaimsAreExclusive => WritersAreExclusive
  <2> SUFFICES ASSUME TypeInv, ClaimsAreExclusive, NEW m \in Nodes, NEW n \in Nodes, m # n,
                      {loc[m].mode, loc[n].mode} \subseteq {"single", "multi"},
                      loc[m].gen = loc[n].gen
               PROVE  FALSE
    BY DEF WritersAreExclusive
  <2>1. loc[m].gen \in Nat
    BY DEF TypeInv, Types, LocType
  <2>2. Claim(m, loc[m].gen) /\ Claim(n, loc[m].gen)
    BY DEF Claim
  <2> QED
    BY <2>1, <2>2 DEF ClaimsAreExclusive
<1> QED
  BY <1>1, <1>2, <1>3, PTL DEF Spec

\* The claims of the contract are those of the proof.
ClaimsAgree ==
    /\ \A c \in Claims : c \in [node : Nodes, gen : Nat] /\ Claim(c.node, c.gen)
    /\ \A n \in Nodes, g \in Nat : Claim(n, g) => ClaimOf(n, g) \in Claims

\* They are, for well-typed states.
LEMMA ClaimsLemma == TypeInv => ClaimsAgree
  <1> SUFFICES ASSUME TypeInv PROVE ClaimsAgree
    OBVIOUS
  <1>1. /\ \A n \in Nodes : loc[n].gen \in Nat /\ issued[n] \in Nat
        /\ run.pc \in Attaching => run.att \in Nodes /\ run.gen \in Nat
    BY RunType DEF TypeInv, Types, LocType, Attaching
  <1>2. ASSUME NEW c \in Claims
        PROVE  c \in [node : Nodes, gen : Nat] /\ Claim(c.node, c.gen)
    BY <1>1 DEF Claims, Claim, ClaimOf, run
  <1>3. ASSUME NEW n \in Nodes, NEW g \in Nat, Claim(n, g)
        PROVE  ClaimOf(n, g) \in Claims
    BY <1>3 DEF Claims, Claim, run
  <1> QED
    BY <1>2, <1>3 DEF ClaimsAgree

(***************************************************************************)
(* The controller implements the contract of Generations, for every number *)
(* of pageservers, moves, crashes, lost calls and restarts: a step that    *)
(* adds a claim takes the next generation from the database, for one node. *)
(***************************************************************************)
THEOREM GenerationsCorrect == Spec => GenerationsAreGivenOnce
<1>1. Init => TypeInv
  BY InitLemma
<1>2. TypeInv /\ [Next]_vars => TypeInv'
  BY TypeLemma
<1>3. Init => Contract!Init
  <2> SUFFICES ASSUME Init PROVE Contract!Init
    OBVIOUS
  <2>1. /\ db.gen = 1 /\ First \in Nodes /\ Second \subseteq Nodes \ {First}
        /\ issued = [n \in Nodes |-> 0] /\ run = NoTask
    BY BoundsAssumption DEF Init, NoTasks, run
  <2>2. \A n \in Nodes : /\ loc[n].mode \in {"single", "multi"} <=> n = First
                         /\ n = First => loc[n].gen = 1
    BY <2>1 DEF Init, Conf, Secondary, Absent
  <2>3. Claims = {ClaimOf(First, 1)}
    BY <2>1, <2>2, NoTaskType DEF Claims, Attaching
  <2> QED
    BY <2>1, <2>3 DEF Contract!Init, Contract!ClaimOf, ClaimOf
<1>4. TypeInv' => ClaimsAgree'
  BY ClaimsLemma, PTL
<1>5. TypeInv /\ TypeInv' /\ [Next]_vars => [Contract!Next]_<<db.gen, Claims>>
  <2> SUFFICES ASSUME TypeInv, TypeInv', [Next]_vars
               PROVE  Contract!Next \/ UNCHANGED <<db.gen, Claims>>
    OBVIOUS
  <2>1. CASE Next
    <3>1. OneNewClaim
      BY <2>1, StepLemma
    <3>2. PICK x \in Nodes : \A n \in Nodes, g \in Nat :
             Claim(n, g)' => Claim(n, g) \/ (n = x /\ g = db'.gen /\ g = db.gen + 1)
      BY <3>1 DEF OneNewClaim
    <3>3. ASSUME NEW c \in Claims'
          PROVE  c \in Claims \/ (c = ClaimOf(x, db.gen + 1) /\ db'.gen = db.gen + 1)
      <4>1. c \in [node : Nodes, gen : Nat] /\ Claim(c.node, c.gen)'
        BY <1>4, <3>3 DEF ClaimsAgree
      <4>2. c = ClaimOf(c.node, c.gen)
        BY <4>1 DEF ClaimOf
      <4>3. Claim(c.node, c.gen) => c \in Claims
        BY <4>1, <4>2, ClaimsLemma DEF ClaimsAgree
      <4> QED
        BY <3>2, <4>1, <4>2, <4>3
    <3>4. CASE db'.gen = db.gen
      <4>1. db.gen \in Nat
        BY DEF TypeInv, Types
      <4>2. Claims' \subseteq Claims
        BY <3>3, <3>4, <4>1
      <4> QED
        BY <3>4, <4>2 DEF Contract!Next, Contract!Lapse
    <3>5. CASE db'.gen = db.gen + 1
      <4>1. Claims' \subseteq Claims \cup {ClaimOf(x, db.gen + 1)}
        BY <3>3
      <4> QED
        BY <3>5, <4>1 DEF Contract!Next, Contract!Issue, Contract!ClaimOf, ClaimOf
    <3> QED
      BY <3>1, <3>4, <3>5 DEF OneNewClaim
  <2>2. CASE UNCHANGED vars
    BY <2>2 DEF vars, Claims, run
  <2> QED
    BY <2>1, <2>2
<1> QED
  BY <1>1, <1>2, <1>3, <1>5, PTL DEF Spec, GenerationsAreGivenOnce, Contract!Spec

-----------------------------------------------------------------------------
(* The pageserver that the compute uses.                                   *)

\* A step that does not take away what the compute uses.
Spares ==
    compute' = compute /\ Attached(loc[compute]) =>
        \/ Attached(loc'[compute])
        \/ ctl.avail[compute] # "active" \/ link[compute] # "up"
        \/ tasks.run # NoTask /\ compute \notin run.nodes

\* What a step of the running task has to show.
LEMMA CarefulStep ==
  ASSUME TypeInv, CareInv, NEW t, \/ Continue(t) /\ Careful(t, compute', loc')
                                  \/ Finish(t)
                                  \/ Fail(t)
  PROVE  CareInv'
  <1>1. tasks.wait \in WaitType \cup {NoTask} /\ tasks \in TasksType
    BY DEF TypeInv, Types, TasksType
  <1>2. tasks.wait # NoTask => Careful(tasks.wait, compute', loc')
    <2> SUFFICES ASSUME tasks.wait # NoTask PROVE Careful(tasks.wait, compute', loc')
      OBVIOUS
    <2>1. tasks.wait \in WaitType
      BY <1>1
    <2>2. tasks.wait.att \notin tasks.wait.sec \cup tasks.wait.detach
      BY DEF CareInv, CarefulTasks, Careful
    <2> QED
      BY <2>1, <2>2, WaitingIsCareful
  <1>3. CASE Continue(t) /\ Careful(t, compute', loc')
    <2>1. tasks'.run = t /\ tasks'.wait = tasks.wait
      BY <1>1, <1>3 DEF Continue, TasksType
    <2> QED
      BY <1>2, <1>3, <2>1 DEF CareInv, CarefulTasks
  <1>4. CASE Finish(t) \/ Fail(t)
    <2>1. tasks'.run = tasks.wait /\ tasks'.wait = NoTask
      BY <1>4 DEF Finish, Fail
    <2> QED
      BY <1>2, <2>1 DEF CareInv, CarefulTasks
  <1> QED
    BY <1>3, <1>4

\* The running task is careful.
LEMMA RunIsCareful ==
  ASSUME TypeInv, CareInv, run.pc # "none"
  PROVE  run \in TaskType /\ Careful(run, compute, loc)
  <1>1. run # NoTask
    BY NoTaskType
  <1> QED
    BY <1>1, RunType DEF CareInv, CarefulTasks, run

\* A call for a location that stays attached.
LEMMA AttachingCall ==
  ASSUME TypeInv, CareInv, run.pc # "none", NEW n \in Nodes, NEW c \in LocType, Attached(c),
         NEW pc \in Steps \ {"demote", "changes"}, pc \in Migrating => run.pc \in Migrating,
         Call(n, c, pc), compute' = compute
  PROVE  CareInv' /\ Spares
  <1>1. run \in TaskType /\ Careful(run, compute, loc)
    BY RunIsCareful
  <1>2. PICK ok \in BOOLEAN :
           /\ LocationConfig(n, c, ok)
           /\ IF ok THEN Continue([run EXCEPT !.obs[n] = c, !.pc = pc])
                    ELSE Fail(Unsure(run, n))
    BY DEF Call
  <1>3. loc' = loc \/ loc' = [loc EXCEPT ![n] = c]
    BY <1>2, LocationConfigType
  <1>4. Spares
    BY <1>3 DEF Spares, TypeInv, Types
  <1>5. CASE ok
    <2> DEFINE t == [run EXCEPT !.obs[n] = c, !.pc = pc]
    <2>1. /\ t.pc = pc /\ t.att = run.att /\ t.sec = run.sec /\ t.detach = run.detach
          /\ t.origin = run.origin
      BY <1>1 DEF TaskType
    <2>2. Continue(t)
      BY <1>2, <1>5
    <2> HIDE DEF t
    <2>3. Careful(t, compute', loc')
      BY <1>1, <2>1 DEF Careful
    <2> QED
      BY <1>4, <2>2, <2>3, CarefulStep
  <1>6. CASE ~ok
    BY <1>2, <1>4, <1>6, CarefulStep
  <1> QED
    BY <1>5, <1>6

\* The origin is demoted only when the compute does not use it.
LEMMA DemoteSpares ==
  ASSUME TypeInv, CareInv, DemoteOrigin
  PROVE  CareInv' /\ Spares
  <1>1. run.pc = "demote" /\ Call(run.origin, Secondary, "single") /\ compute' = compute
    BY DEF DemoteOrigin
  <1>2. run \in TaskType /\ Careful(run, compute, loc) /\ run.origin \in Nodes /\ run # NoTask
    BY <1>1, RunIsCareful, RunType, NoTaskType
  <1>3. PICK ok \in BOOLEAN :
           /\ LocationConfig(run.origin, Secondary, ok)
           /\ IF ok THEN Continue([run EXCEPT !.obs[run.origin] = Secondary, !.pc = "single"])
                    ELSE Fail(Unsure(run, run.origin))
    BY <1>1 DEF Call
  <1>4. loc' = loc \/ loc' = [loc EXCEPT ![run.origin] = Secondary]
    BY <1>2, <1>3, LocationConfigType, ConfType
  <1>5. Spares
    <2> SUFFICES ASSUME Attached(loc[compute]), compute \in run.nodes, ~Attached(loc'[compute])
                 PROVE  FALSE
      BY <1>2 DEF Spares, run
    <2>1. compute = run.origin
      BY <1>4 DEF TypeInv, Types
    <2> QED
      BY <1>1, <1>2, <2>1 DEF Careful
  <1>6. CASE ok
    <2> DEFINE t == [run EXCEPT !.obs[run.origin] = Secondary, !.pc = "single"]
    <2>1. t.pc = "single" /\ t.att = run.att /\ t.sec = run.sec /\ t.detach = run.detach
      BY <1>2 DEF TaskType
    <2>2. Continue(t)
      BY <1>3, <1>6
    <2> HIDE DEF t
    <2>3. Careful(t, compute', loc')
      BY <1>2, <2>1 DEF Careful, Migrating
    <2> QED
      BY <1>5, <2>2, <2>3, CarefulStep
  <1>7. CASE ~ok
    BY <1>3, <1>5, <1>7, CarefulStep
  <1> QED
    BY <1>6, <1>7

\* What is given up at the end is not where the compute is.
LEMMA ChangeSpares ==
  ASSUME TypeInv, CareInv, NEW n \in Nodes, ApplyChange(n)
  PROVE  CareInv' /\ Spares
  <1> DEFINE rest == [run EXCEPT !.todo = @ \ {n}]
             wanted == IF n \in run.sec THEN Secondary ELSE Absent
  <1>1. /\ run.pc = "changes" /\ n \in run.todo /\ compute' = compute
        /\ \/ LocationConfig(n, wanted, TRUE) /\ Continue([rest EXCEPT !.obs[n] = wanted])
           \/ /\ LocationConfig(n, wanted, FALSE)
              /\ Continue([Unsure(rest, n) EXCEPT !.failed = TRUE])
           \/ Continue(Unsure(rest, n)) /\ UNCHANGED <<loc, budget>>
    BY DEF ApplyChange
  <1>2. run \in TaskType /\ Careful(run, compute, loc)
    BY <1>1, RunIsCareful
  <1>3. wanted \in LocType /\ wanted \in ObsType
    BY ConfType
  <1>4. /\ rest \in TaskType /\ rest.pc = "changes" /\ rest.att = run.att /\ rest.sec = run.sec
        /\ rest.detach = run.detach /\ rest.todo = run.todo \ {n}
    BY <1>1, <1>2 DEF TaskType
  <1> HIDE DEF rest, wanted
  <1>5. PICK t : /\ Continue(t) /\ t.pc = rest.pc /\ t.att = rest.att /\ t.sec = rest.sec
                 /\ t.detach = rest.detach /\ t.todo = rest.todo
    <2>1. CASE Continue([rest EXCEPT !.obs[n] = wanted])
      BY <1>4, <2>1 DEF TaskType
    <2>2. CASE Continue([Unsure(rest, n) EXCEPT !.failed = TRUE])
      <3> DEFINE u == Unsure(rest, n)
      <3>1. /\ u \in TaskType /\ u.pc = rest.pc /\ u.att = rest.att /\ u.sec = rest.sec
            /\ u.detach = rest.detach /\ u.todo = rest.todo
        BY <1>4, ConfType DEF TaskType, Unsure
      <3>2. Continue([u EXCEPT !.failed = TRUE])
        BY <2>2
      <3> HIDE DEF u
      <3> QED
        BY <3>1, <3>2 DEF TaskType
    <2>3. CASE Continue(Unsure(rest, n))
      BY <1>4, <2>3 DEF TaskType, Unsure
    <2> QED
      BY <1>1, <2>1, <2>2, <2>3
  <1>6. Careful(t, compute', loc')
    BY <1>1, <1>2, <1>4, <1>5 DEF Careful, Migrating
  <1>7. loc' = loc \/ loc' = [loc EXCEPT ![n] = wanted]
    BY <1>1, <1>3, LocationConfigType
  <1>8. compute # n
    BY <1>1, <1>2 DEF Careful
  <1>9. Spares
    BY <1>7, <1>8 DEF Spares, TypeInv, Types
  <1> QED
    BY <1>5, <1>6, <1>9, CarefulStep

\* A step of the running task that changes no location spares it.
LEMMA QuietSpares ==
  ASSUME UNCHANGED loc
  PROVE  Spares
  BY DEF Spares

\* After the refresh the task is at a step where it has nothing to be sure of.
LEMMA RefreshIsCareful ==
  ASSUME NEW t \in TaskType, t.att \notin t.sec \cup t.detach, Refreshed(t), NEW c, NEW l
  PROVE  \E u : Continue(u) /\ Careful(u, c, l)
  <1>1. CASE Origins(t) = {}
    <2> DEFINE u == [t EXCEPT !.pc = "attach"]
    <2>1. u.pc = "attach" /\ u.att = t.att /\ u.sec = t.sec /\ u.detach = t.detach
      BY DEF TaskType
    <2>2. Continue(u)
      BY <1>1 DEF Refreshed, GoTo
    <2> HIDE DEF u
    <2> QED
      BY <2>1, <2>2 DEF Careful, Migrating
  <1>2. CASE Origins(t) # {}
    <2>1. PICK n \in Origins(t) : Continue([t EXCEPT !.pc = "stale", !.origin = n])
      BY <1>2 DEF Refreshed
    <2>2. n # t.att
      BY DEF Origins
    <2> DEFINE u == [t EXCEPT !.pc = "stale", !.origin = n]
    <2>3. /\ u.pc = "stale" /\ u.att = t.att /\ u.sec = t.sec /\ u.detach = t.detach
          /\ u.origin = n
      BY DEF TaskType
    <2>4. Continue(u)
      BY <2>1
    <2> HIDE DEF u
    <2> QED
      BY <2>2, <2>3, <2>4 DEF Careful, Migrating
  <1> QED
    BY <1>1, <1>2

\* The task goes on at another step, with a new generation or not.
LEMMA MovedOn ==
  ASSUME NEW t \in TaskType, NEW c, NEW l, NEW pc \in Steps, NEW g,
         t.att \notin t.sec \cup t.detach, pc \in Migrating => t.origin # t.att,
         pc = "demote" => c # t.origin \/ t.origin \notin t.nodes \/ ~Attached(l[t.origin]),
         pc # "changes"
  PROVE  /\ Careful([t EXCEPT !.pc = pc], c, l)
         /\ Careful([t EXCEPT !.gen = g, !.pc = pc], c, l)
  <1>1. ASSUME NEW u, u.pc = pc, u.att = t.att, u.sec = t.sec, u.detach = t.detach,
               u.origin = t.origin, u.nodes = t.nodes
        PROVE  Careful(u, c, l)
    BY <1>1 DEF Careful
  <1> DEFINE u == [t EXCEPT !.pc = pc]
             v == [t EXCEPT !.gen = g, !.pc = pc]
  <1>2. /\ u.pc = pc /\ u.att = t.att /\ u.sec = t.sec /\ u.detach = t.detach
        /\ u.origin = t.origin /\ u.nodes = t.nodes
    BY DEF TaskType
  <1>3. /\ v.pc = pc /\ v.att = t.att /\ v.sec = t.sec /\ v.detach = t.detach
        /\ v.origin = t.origin /\ v.nodes = t.nodes
    BY DEF TaskType
  <1> HIDE DEF u, v
  <1>4. Careful(u, c, l) /\ Careful(v, c, l)
    BY <1>1, <1>2, <1>3
  <1> QED
    BY <1>4 DEF u, v

\* The origin is left for demotion only when the compute has been told, or the
\* origin is of no use.
LEMMA NotifyIsCareful ==
  ASSUME TypeInv, CareInv, NotifyBlocking
  PROVE  CareInv' /\ Spares
  <1>1. run.pc = "notify" /\ UNCHANGED loc
    BY DEF NotifyBlocking
  <1>2. run \in TaskType /\ Careful(run, compute, loc)
    BY <1>1, RunIsCareful
  <1>3. run.origin # run.att /\ run.att \notin run.sec \cup run.detach
    BY <1>1, <1>2 DEF Careful, Migrating
  <1> DEFINE u == Unnotified(run)
  <1>4. /\ u \in TaskType /\ u.att = run.att /\ u.sec = run.sec /\ u.detach = run.detach
        /\ u.origin = run.origin /\ u.nodes = run.nodes
    BY <1>2 DEF TaskType, Unnotified
  <1>5. CASE Notify(TRUE) /\ GoTo(run, "demote")
    <2>1. compute' = run.att
      BY <1>5 DEF Notify
    <2>2. Careful([run EXCEPT !.pc = "demote"], compute', loc')
      BY <1>2, <1>3, <2>1, MovedOn DEF Steps, Attaching
    <2> QED
      BY <1>1, <1>5, <2>2, CarefulStep, QuietSpares DEF GoTo
  <1>6. CASE Fail(u)
    BY <1>1, <1>6, CarefulStep, QuietSpares
  <1>7. CASE GoTo(u, IF OriginIsGone THEN "demote" ELSE "notify")
    <2> DEFINE pc == IF OriginIsGone THEN "demote" ELSE "notify"
    <2>1. pc = "demote" => run.origin \notin run.nodes \/ ~Attached(loc'[run.origin])
      BY <1>1 DEF OriginIsGone
    <2>2. pc \in Steps /\ pc # "changes"
      BY DEF Steps, Attaching
    <2>3. Continue([u EXCEPT !.pc = pc])
      BY <1>7 DEF GoTo
    <2> HIDE DEF pc, u
    <2>4. Careful([u EXCEPT !.pc = pc], compute', loc')
      BY <1>3, <1>4, <2>1, <2>2, MovedOn
    <2> QED
      BY <1>1, <2>3, <2>4, CarefulStep, QuietSpares
  <1> QED
    BY <1>5, <1>6, <1>7 DEF NotifyBlocking

\* Other locations are given up only when the compute has been told.
LEMMA AttachedIsCareful ==
  ASSUME TypeInv, CareInv, NotifyAttached
  PROVE  CareInv' /\ Spares
  <1>1. run.pc = "attach" /\ UNCHANGED loc
    BY DEF NotifyAttached
  <1>2. run \in TaskType /\ Careful(run, compute, loc)
    BY <1>1, RunIsCareful
  <1>3. CASE Notify(TRUE) /\ Continue(WithChanges(run))
    <2> DEFINE wrong == {n \in run.sec : run.obs[n] # Secondary}
               obs == [n \in Nodes |-> IF n \in wrong \ run.nodes THEN Unknown ELSE run.obs[n]]
               todo == (wrong \cap run.nodes) \cup run.detach
               t == WithChanges(run)
    <2>1. t = [run EXCEPT !.pc = "changes", !.todo = todo, !.obs = obs]
      BY Zenon DEF WithChanges
    <2>2. run.att \notin todo /\ run.att \notin run.sec \cup run.detach
      BY <1>2 DEF Careful
    <2> HIDE DEF obs, todo, t
    <2>3. /\ t.pc = "changes" /\ t.att = run.att /\ t.sec = run.sec /\ t.detach = run.detach
          /\ t.todo = todo
      BY <1>2, <2>1 DEF TaskType
    <2>4. compute' = run.att
      BY <1>3 DEF Notify
    <2>5. Careful(t, compute', loc')
      BY <2>2, <2>3, <2>4 DEF Careful, Migrating
    <2>6. Continue(t)
      BY <1>3 DEF t
    <2> QED
      BY <1>1, <2>5, <2>6, CarefulStep, QuietSpares
  <1>4. CASE Fail(Unnotified(run))
    BY <1>1, <1>4, CarefulStep, QuietSpares
  <1> QED
    BY <1>3, <1>4 DEF NotifyAttached

\* Every step of the running reconciler.
LEMMA TaskSpares ==
  ASSUME TypeInv, CareInv, TaskStep
  PROVE  CareInv' /\ Spares
  <1>1. CASE Refresh
    <2>1. /\ run.pc = "refresh" /\ UNCHANGED loc
          /\ \/ Refreshed(run) \/ Fail(run)
             \/ Refreshed([run EXCEPT !.obs[run.att] = loc[run.att]])
      BY <1>1 DEF Refresh
    <2>2. run \in TaskType /\ run.att \in Nodes /\ run.att \notin run.sec \cup run.detach
      BY <2>1, RunType, RunIsCareful DEF Careful
    <2> DEFINE t == [run EXCEPT !.obs[run.att] = loc[run.att]]
    <2>3. t \in TaskType /\ t.att \notin t.sec \cup t.detach
      <3>1. loc[run.att] \in ObsType
        BY <2>2, ConfType DEF TypeInv, Types
      <3> QED
        BY <2>2, <3>1 DEF TaskType
    <2>4. Refreshed(run) \/ Refreshed(t) \/ Fail(run)
      BY <2>1
    <2> HIDE DEF t
    <2>5. CASE Fail(run)
      BY <2>1, <2>5, CarefulStep, QuietSpares
    <2>6. CASE Refreshed(run) \/ Refreshed(t)
      <3>1. PICK u : Continue(u) /\ Careful(u, compute', loc')
        BY <2>2, <2>3, <2>6, RefreshIsCareful
      <3> QED
        BY <2>1, <3>1, CarefulStep, QuietSpares
    <2> QED
      BY <2>4, <2>5, <2>6
  <1>2. CASE MakeStale \/ MakeMulti \/ MakeSingle \/ Configure
    <2>1. run.pc \in {"stale", "multi", "single", "configure"}
      BY <1>2 DEF MakeStale, MakeMulti, MakeSingle, Configure
    <2>2. run.gen \in Nat /\ run.att \in Nodes /\ run.origin \in Nodes /\ run.pc # "none"
      BY <2>1, RunType
    <2>3. \A mode \in {"stale", "multi", "single"} :
             Conf(mode, run.gen) \in LocType /\ Attached(Conf(mode, run.gen))
      BY <2>2, CallTypes DEF Attached, AttachedModes
    <2>4. CASE MakeStale
      BY <2>2, <2>3, <2>4, AttachingCall DEF MakeStale, Migrating, Steps
    <2>5. CASE MakeMulti
      BY <2>2, <2>3, <2>5, AttachingCall DEF MakeMulti, Migrating, Steps, Attaching
    <2>6. CASE MakeSingle \/ Configure
      BY <2>2, <2>3, <2>6, AttachingCall DEF MakeSingle, Configure, Migrating, Steps
    <2> QED
      BY <1>2, <2>4, <2>5, <2>6
  <1>3. CASE LsnsFail \/ EndReconcile
    <2>1. UNCHANGED loc /\ \E t : Finish(t) \/ Fail(t)
      BY <1>3 DEF LsnsFail, EndReconcile
    <2> QED
      BY <2>1, CarefulStep, QuietSpares
  <1>4. CASE IncrementForMigration \/ IncrementToAttach \/ AwaitLsn
    <2>1. PICK pc \in {"multi", "configure", "notify"} :
             /\ run.pc \in {"increment", "attach", "await"} /\ UNCHANGED <<loc, compute>>
             /\ pc \in Migrating => run.pc \in Migrating
             /\ \/ Continue([run EXCEPT !.pc = pc])
                \/ Continue([run EXCEPT !.gen = db.gen + 1, !.pc = pc])
      BY <1>4 DEF IncrementForMigration, IncrementToAttach, AwaitLsn, IncrementGeneration, GoTo,
                  Migrating
    <2>2. run \in TaskType /\ Careful(run, compute, loc)
      BY <2>1, RunIsCareful
    <2>3. run.att \notin run.sec \cup run.detach /\ (pc \in Migrating => run.origin # run.att)
      BY <2>1, <2>2 DEF Careful
    <2>4. pc \in Steps /\ pc \notin {"demote", "changes"}
      BY DEF Steps, Attaching
    <2>5. /\ Careful([run EXCEPT !.pc = pc], compute', loc')
          /\ Careful([run EXCEPT !.gen = db.gen + 1, !.pc = pc], compute', loc')
      BY <2>2, <2>3, <2>4, MovedOn
    <2> QED
      BY <2>1, <2>5, CarefulStep, QuietSpares
  <1> QED
    BY <1>1, <1>2, <1>3, <1>4, NotifyIsCareful, AttachedIsCareful, DemoteSpares, ChangeSpares
       DEF TaskStep

\* Every step.
LEMMA SparesLemma ==
  ASSUME TypeInv, CareInv, Next
  PROVE  CareInv' /\ Spares
  <1>1. CASE TaskStep
    BY <1>1, TaskSpares
  <1>2. CASE CancelTask
    <2>1. UNCHANGED loc /\ \E t : Fail(t)
      BY <1>2 DEF CancelTask
    <2> QED
      BY <2>1, CarefulStep, QuietSpares
  <1>3. CASE ReconcileAll \/ ProcessResult \/ ControllerRestart
    <2>1. UNCHANGED loc
      BY <1>3 DEF ReconcileAll, ProcessResult, ControllerRestart
    <2>2. CareKept(tasks')
      BY <1>3, ReconcileAllStep, ResultStep, RestartStep
    <2> QED
      BY <2>1, <2>2, QuietSpares DEF CareKept, CareInv
  <1>4. ASSUME NEW n \in Nodes, MoveIntent(n) \/ NodeOffline(n) \/ NodeActive(n)
        PROVE  CareInv' /\ Spares
    <2>1. UNCHANGED loc
      BY <1>4 DEF MoveIntent, NodeOffline, NodeActive
    <2>2. CareKept(tasks')
      BY <1>4, MoveStep, OfflineStep, ActiveStep
    <2> QED
      BY <2>1, <2>2, QuietSpares DEF CareKept, CareInv
  <1>5. ASSUME NEW n \in Nodes, Cut(n) \/ Heal(n) \/ Crash(n) \/ ReAttach(n)
        PROVE  CareInv' /\ Spares
    <2>1. UNCHANGED <<loc, compute, tasks>>
      BY <1>5 DEF Cut, Heal, Crash, ReAttach
    <2> QED
      BY <2>1, QuietSpares DEF CareInv
  <1>6. ASSUME NEW n \in Nodes, ReAttachAnswer(n)
        PROVE  CareInv' /\ Spares
    <2>1. CareKept(tasks')
      BY <1>6, AnswerStep
    <2>2. link[n] = "asking" /\ (loc' = loc \/ loc' = [loc EXCEPT ![n] = Started(n)])
      BY <1>6 DEF ReAttachAnswer
    <2>3. Spares
      BY <2>2 DEF Spares, TypeInv, Types
    <2> QED
      BY <2>1, <2>3 DEF CareKept, CareInv
  <1> QED
    BY <1>1, <1>2, <1>3, <1>4, <1>5, <1>6 DEF Next

(***************************************************************************)
(* No reconciler takes the shard away from the pageserver that the compute *)
(* uses while the controller takes it for available, for every number of   *)
(* pageservers, moves, crashes, lost calls and restarts.  What a task will *)
(* do was decided on a snapshot: the invariant says what it has made sure  *)
(* of by the time it acts, that the compute has left the origin of a       *)
(* migration before it is demoted, and is where the shard is attached      *)
(* before any other location is given up.                                  *)
(***************************************************************************)
THEOREM ComputeKept == Spec => ComputeKeepsItsPageserver
<1>1. Init => TypeInv /\ CareInv
  <2> SUFFICES ASSUME Init PROVE TypeInv /\ CareInv
    OBVIOUS
  <2>1. tasks.run = NoTask /\ tasks.wait = NoTask
    BY DEF Init, NoTasks
  <2> QED
    BY <2>1, InitLemma DEF CareInv, CarefulTasks
<1>2. TypeInv /\ CareInv /\ [Next]_vars => (TypeInv /\ CareInv)' /\ [Spares]_vars
  <2> SUFFICES ASSUME TypeInv, CareInv, [Next]_vars
               PROVE  TypeInv' /\ CareInv' /\ [Spares]_vars
    OBVIOUS
  <2>1. CASE Next
    BY <2>1, TypeLemma, SparesLemma
  <2>2. CASE UNCHANGED vars
    BY <2>2, TypeLemma DEF vars, CareInv
  <2> QED
    BY <2>1, <2>2
<1> QED
  BY <1>1, <1>2, PTL DEF Spec, ComputeKeepsItsPageserver, Spares
=============================================================================
