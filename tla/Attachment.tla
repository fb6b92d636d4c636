----------------------------- MODULE Attachment -----------------------------
(***************************************************************************)
(* Split-brain safety of the pageservers (docs/rfcs/025-generation-numbers *)
(* is the idea, this is the code): the storage controller attaches one     *)
(* tenant shard to pageservers under increasing generation numbers, each   *)
(* attachment works on remote storage without looking at the others, and   *)
(* deletions wait in the deletion queue until the controller has confirmed *)
(* the generation that asked for them.                                     *)
(*                                                                         *)
(* Variables:                                                              *)
(*   db        the shard's row: its generation and the node that has it    *)
(*   requests  location_config calls for attached modes, which may get     *)
(*             lost, come late and come again                              *)
(*   ps[n]     the shard on pageserver n: up, generation (0: not           *)
(*             attached), attachment mode, the index to upload next,       *)
(*             layers unlinked from it, the index upload in progress, and  *)
(*             deletions blocked by the mode                               *)
(*   dq[n]     the deletion queue of n, with its lists on disk             *)
(*   objs      the layer objects in remote storage, written all ever       *)
(*   index     index_part.json-<generation>, for the generations in found  *)
(*   stray     index uploads whose process is gone and that may still land *)
(*   budget    how many faults, mode changes, repeated calls and resets    *)
(*             may still happen, and how far generations, layers and WAL go*)
(* and, for the properties only,                                           *)
(*   confirmed   the highest LSN released to the safekeepers by validation *)
(*   advertised  the highest LSN shown to the safekeepers at all           *)
(***************************************************************************)
EXTENDS DeletionQueue, FiniteSets

CONSTANTS
    Nodes,          \* the pageservers
    First,          \* the pageserver on which the timeline is created
    MaxGen,         \* bound: no generation beyond this one is ever issued
    Objects,        \* bound: the layer objects that can be written
    MaxLsn,         \* bound: no WAL beyond this LSN
    Budgets         \* bound: faults of each kind and limits, one of these records

VARIABLES db, requests, ps, dq, objs, written, index, found, stray, budget,
          confirmed, advertised

vars == <<db, requests, ps, dq, objs, written, index, found, stray, budget,
          confirmed, advertised>>

Faults == {"crash", "io", "lost", "mode", "again", "reset"}
Limits == {"gen", "layer", "lsn"}

ASSUME BoundsAssumption ==
    /\ First \in Nodes
    /\ MaxGen \in Nat \ {0} /\ MaxLsn \in Nat
    /\ Budgets \subseteq [Faults \cup Limits -> Nat]
    /\ \A b \in Budgets : /\ 1 + b["crash"] + b["lost"] <= b["gen"]
                           /\ b["gen"] <= MaxGen /\ b["lsn"] <= MaxLsn

Gens == 1..MaxGen
Modes == {"single", "multi", "stale"}
Index == [objs : SUBSET Objects, lsn : 0..MaxLsn]

EmptyIndex == [objs |-> {}, lsn |-> 0]
NoPut == [on |-> FALSE, index |-> EmptyIndex, unlinked |-> {}]

\* TypeOK is about the records' fields too, which are listed here.
PageserverType ==
    [up : BOOLEAN, gen : 0..MaxGen, mode : Modes, dirty : Index,
     unlinked : SUBSET Objects, blocked : SUBSET Objects,
     put : [on : BOOLEAN, index : Index, unlinked : SUBSET Objects]]

Detached == [up |-> TRUE, gen |-> 0, mode |-> "single", dirty |-> EmptyIndex,
             unlinked |-> {}, blocked |-> {}, put |-> NoPut]

Init ==
    /\ db = [gen |-> 1, node |-> First]
    /\ requests = {}
    /\ ps = [n \in Nodes |-> [Detached EXCEPT !.gen = IF n = First THEN 1 ELSE 0]]
    /\ dq = [n \in Nodes |-> NewQueue]
    /\ objs = {} /\ written = {}
    /\ index = [g \in Gens |-> EmptyIndex]
    /\ found = {1}
    /\ stray = {}
    /\ budget \in Budgets
    /\ confirmed = 0
    /\ advertised = 0

\* The pageservers that have been given generation g, as calls and attachments show.
Owners(g) ==
    {r.node : r \in {q \in requests : q.gen = g}} \cup {n \in Nodes : ps[n].gen = g}

Spend(f) == budget[f] > 0 /\ budget' = [budget EXCEPT ![f] = @ - 1]

Larger(a, b) == IF a > b THEN a ELSE b

-----------------------------------------------------------------------------
(* The storage controller.                                                 *)

\* Generations that are kept for the restarts still to come.
Reserved == budget["crash"] + budget["lost"] + Cardinality({n \in Nodes : ~ps[n].up})

\* Persistence::increment_generation, before the reconciler attaches to n.
IncrementGeneration(n, mode) ==
    /\ db.gen + Reserved < budget["gen"]
    /\ IF mode = "single" THEN UNCHANGED budget ELSE Spend("mode")
    /\ db' = [gen |-> db.gen + 1, node |-> n]
    /\ requests' = requests \cup {[node |-> n, gen |-> db.gen + 1, mode |-> mode]}
    /\ UNCHANGED <<ps, dq, objs, written, index, found, stray, confirmed, advertised>>

\* Reconciler::location_config once more in generation g, which n has or is going
\* to have: in a live migration, to make the origin stale and the destination
\* single.
ConfigureAgain(n, g, mode) ==
    /\ Spend("mode")
    /\ n \in Owners(g)
    /\ requests' = requests \cup {[node |-> n, gen |-> g, mode |-> mode]}
    /\ UNCHANGED <<db, ps, dq, objs, written, index, found, stray, confirmed, advertised>>

\* Service::validate: the generation in the database decides, and a controller
\* whose memory is behind may refuse all the same.
Validate(n) ==
    /\ dq[n].step = "asked" /\ dq[n].answer = "none"
    /\ \E a \in {"valid", "invalid"} :
          /\ a = "valid" => dq[n].asked = db.gen
          /\ dq' = [dq EXCEPT ![n].answer = a]
    /\ UNCHANGED <<db, requests, ps, objs, written, index, found, stray, budget, confirmed, advertised>>

-----------------------------------------------------------------------------
(* Attaching.                                                              *)

\* download_generation_object: the newest index that is not of a later
\* generation.
IndexFor(g) ==
    index[CHOOSE h \in found : h <= g /\ \A k \in found : k <= g => k <= h]

\* The index upload of n goes on without a process that waits for it.
Strays(n) ==
    IF ps[n].put.on THEN stray \cup {[gen |-> ps[n].gen, index |-> ps[n].put.index]}
    ELSE stray

\* tenant_spawn on n in generation g: what was there is shut down, and the new
\* tenant loads its index, from which the LSN shown to the safekeepers starts.
Spawn(n, g, mode) ==
    /\ ps' = [ps EXCEPT ![n] = [Detached EXCEPT !.gen = g, !.mode = mode, !.dirty = IndexFor(g)]]
    /\ stray' = Strays(n)
    /\ advertised' = Larger(advertised, IndexFor(g).lsn)
    /\ UNCHANGED <<db, dq, objs, written, index, found, confirmed>>

\* A call is handled, and may come again: Reconciler::location_config retries a
\* call that has timed out, though it may be handled all the same.
Handled(r) ==
    \/ requests' = requests \ {r} /\ UNCHANGED budget
    \/ UNCHANGED requests /\ Spend("again")

\* TenantManager::upsert_location to an attached mode.  Generations are compared
\* with that of an attached tenant only: one that is secondary or detached is
\* attached by any call, also by one that comes late or for the second time.  A
\* call for an older generation is refused, and nothing happens.
Attach(r) ==
    /\ ps[r.node].up /\ ps[r.node].gen < r.gen
    /\ Handled(r)
    /\ Spawn(r.node, r.gen, r.mode)

\* upsert_location in the same generation changes the mode; deletions that the
\* old mode held back are pushed (RemoteTimelineClient::update_config).
SetMode(r) ==
    LET n == r.node
    IN  /\ ps[n].up /\ ps[n].gen = r.gen
        /\ Handled(r)
        /\ ps' = [ps EXCEPT ![n].mode = r.mode, ![n].blocked = IF r.mode = "single" THEN {} ELSE @]
        /\ dq' = IF r.mode = "single"
                 THEN [dq EXCEPT ![n] = PushKeys(@, ps[n].gen, ps[n].blocked, TRUE)]
                 ELSE dq
        /\ UNCHANGED <<db, objs, written, index, found, stray, confirmed, advertised>>

\* TenantManager::reset_tenant attaches again in the generation and the mode that
\* were saved last.
ResetTenant(n) ==
    /\ ps[n].up /\ ps[n].gen # 0
    /\ Spend("reset")
    /\ Spawn(n, ps[n].gen, ps[n].mode)
    /\ UNCHANGED requests

\* upsert_location to secondary, or detach_tenant.  These calls have no
\* generation, and one that comes late may end the newest attachment.
Detach(n) ==
    /\ ps[n].up /\ ps[n].gen # 0
    /\ IF db.node = n THEN Spend("again") ELSE UNCHANGED budget
    /\ ps' = [ps EXCEPT ![n] = Detached]
    /\ stray' = Strays(n)
    /\ UNCHANGED <<db, requests, dq, objs, written, index, found, confirmed, advertised>>

-----------------------------------------------------------------------------
(* An attached pageserver.                                                 *)

\* A new layer is uploaded under a key of its own, and the next index has it.
UploadLayer(n, o) ==
    /\ ps[n].up /\ ps[n].gen # 0
    /\ o \notin written /\ Cardinality(written) < budget["layer"]
    /\ written' = written \cup {o}
    /\ objs' = objs \cup {o}
    /\ ps' = [ps EXCEPT ![n].dirty.objs = @ \cup {o}]
    /\ UNCHANGED <<db, requests, dq, index, found, stray, budget, confirmed, advertised>>

\* The next index covers more WAL.
AdvanceLsn(n) ==
    /\ ps[n].up /\ ps[n].gen # 0 /\ ps[n].dirty.lsn < budget["lsn"]
    /\ ps' = [ps EXCEPT ![n].dirty.lsn = @ + 1]
    /\ UNCHANGED <<db, requests, dq, objs, written, index, found, stray, budget, confirmed, advertised>>

\* GC and compaction unlink a layer from the next index.
UnlinkLayer(n, o) ==
    /\ ps[n].up /\ o \in ps[n].dirty.objs
    /\ ps' = [ps EXCEPT ![n].dirty.objs = @ \ {o}, ![n].unlinked = @ \cup {o}]
    /\ UNCHANGED <<db, requests, dq, objs, written, index, found, stray, budget, confirmed, advertised>>

\* schedule_index_upload: what was unlinked before is deleted after it.  An upload
\* that an earlier attachment in this generation has left behind has landed by
\* now, or never will.
StartIndexUpload(n) ==
    /\ ps[n].up /\ ps[n].gen # 0 /\ ~ps[n].put.on
    /\ ps[n].dirty # index[ps[n].gen] \/ ps[n].gen \notin found
    /\ ps' = [ps EXCEPT ![n].put = [on |-> TRUE, index |-> ps[n].dirty,
                                    unlinked |-> ps[n].unlinked],
                        ![n].unlinked = {}]
    /\ stray' = {x \in stray : x.gen # ps[n].gen}
    /\ UNCHANGED <<db, requests, dq, objs, written, index, found, budget, confirmed, advertised>>

\* The deletions behind an index upload go to the deletion queue, or wait for the
\* mode to change; its LSN goes to the LSN table, unless the mode says not to.
Uploaded(n, io) ==
    LET t == ps[n]
        q == IF t.mode = "single" THEN PushKeys(dq[n], t.gen, t.put.unlinked, io) ELSE dq[n]
    IN  IF t.mode # "stale" THEN UpdateLsn(q, t.gen, t.put.index.lsn) ELSE q

\* perform_upload_task for an index, to the end of the deletions behind it.
FinishIndexUpload(n, io) ==
    /\ ps[n].up /\ ps[n].put.on
    /\ IF io THEN UNCHANGED budget ELSE Spend("io")
    /\ index' = [index EXCEPT ![ps[n].gen] = ps[n].put.index]
    /\ found' = found \cup {ps[n].gen}
    /\ ps' = [ps EXCEPT ![n].put = NoPut,
                        ![n].blocked = IF ps[n].mode = "single" THEN @
                                       ELSE @ \cup ps[n].put.unlinked]
    /\ dq' = [dq EXCEPT ![n] = Uploaded(n, io)]
    /\ UNCHANGED <<db, requests, objs, written, stray, confirmed, advertised>>

\* The index upload of a process that is gone reaches the remote storage.
LandStray(x) ==
    /\ stray' = stray \ {x}
    /\ index' = [index EXCEPT ![x.gen] = x.index]
    /\ found' = found \cup {x.gen}
    /\ UNCHANGED <<db, requests, ps, dq, objs, written, budget, confirmed, advertised>>

-----------------------------------------------------------------------------
(* The deletion queue.                                                     *)

\* The ListWriter's deadline, or a flush somebody waits for.
FlushPending(n) ==
    /\ ps[n].up /\ dq[n].pending.keys # {}
    /\ dq' = [dq EXCEPT ![n] = FlushList(@)]
    /\ UNCHANGED <<db, requests, ps, objs, written, index, found, stray, budget, confirmed, advertised>>

\* The Validator's deadline, or a flush: it has received the lists up to k.
StartFlush(n) ==
    /\ ps[n].up /\ dq[n].step = "idle"
    /\ \E k \in Sequences(dq[n].lists) \cup {0} :
          LET L == {l \in dq[n].lists : l.seq <= k}
          IN  /\ L # {} \/ dq[n].lsns # NoLsn
              /\ dq' = [dq EXCEPT ![n] = BeginFlush(@, L)]
    /\ UNCHANGED <<db, requests, ps, objs, written, index, found, stray, budget, confirmed, advertised>>

\* Validator::validate stores the LSN in the timeline, from which the safekeepers
\* get it; the slot of an attachment that has ended is read by nobody.
ReleaseLsn(n) ==
    /\ confirmed' = IF LsnIsValid(dq[n]) THEN Larger(confirmed, dq[n].taken.lsn) ELSE confirmed
    /\ advertised' = IF LsnIsValid(dq[n]) /\ dq[n].taken.gen = ps[n].gen
                     THEN Larger(advertised, dq[n].taken.lsn) ELSE advertised

\* The Validator has the answer; lists in F cannot be saved.
Answered(n, F, hdr) ==
    /\ ps[n].up /\ dq[n].step = "asked" /\ dq[n].answer # "none"
    /\ IF F = {} /\ hdr THEN UNCHANGED budget ELSE Spend("io")
    /\ dq' = [dq EXCEPT ![n] = ApplyAnswer(@, F, hdr)]
    /\ ReleaseLsn(n)
    /\ UNCHANGED <<db, requests, ps, objs, written, index, found, stray>>

\* The Deleter deletes a key of the batch.
DeleteObject(n, o) ==
    /\ ps[n].up /\ dq[n].step = "exec"
    /\ o \in dq[n].todo
    /\ objs' = objs \ {o}
    /\ dq' = [dq EXCEPT ![n].todo = @ \ {o}]
    /\ UNCHANGED <<db, requests, ps, written, index, found, stray, budget, confirmed, advertised>>

\* All keys are gone, and the lists are removed one by one.
CleanupList(n, l) ==
    /\ ps[n].up /\ dq[n].step = "exec" /\ dq[n].todo = {}
    /\ dq' = [dq EXCEPT ![n] = RemoveFile(@, l)]
    /\ UNCHANGED <<db, requests, ps, objs, written, index, found, stray, budget, confirmed, advertised>>

-----------------------------------------------------------------------------
(* Faults.                                                                 *)

Gone(n) ==
    /\ ps' = [ps EXCEPT ![n] = [Detached EXCEPT !.up = FALSE]]
    /\ stray' = Strays(n)

Crash(n) ==
    /\ ps[n].up /\ Spend("crash")
    /\ Gone(n)
    /\ dq' = [dq EXCEPT ![n] = Recover(@, 0)]
    /\ UNCHANGED <<db, requests, objs, written, index, found, confirmed, advertised>>

\* A crash while Validator::validate saves the trimmed lists.
CrashInValidate(n, L) ==
    /\ ps[n].up /\ dq[n].step = "asked" /\ dq[n].answer # "none" /\ L # {}
    /\ Spend("crash")
    /\ Gone(n)
    /\ dq' = [dq EXCEPT ![n] = Recover([dq[n] EXCEPT !.disk = Saved(dq[n], L)], 0)]
    /\ ReleaseLsn(n)
    /\ UNCHANGED <<db, requests, objs, written, index, found>>

\* Mutant: a node that starts is given the generation it had.
ReAttachedAgain(n) == db

\* The row of the shard when node n starts: Persistence::re_attach.
ReAttached(n) == IF db.node = n THEN [db EXCEPT !.gen = @ + 1] ELSE db

\* init_tenant_mgr: the node asks the controller which shards it has, recovers its
\* deletion queue with the answer, and attaches.
Restart(n) ==
    /\ ~ps[n].up
    /\ db' = ReAttached(n)
    /\ LET g == IF db.node = n THEN db'.gen ELSE 0
       IN  /\ ps' = [ps EXCEPT ![n] = IF g = 0 THEN Detached
                                      ELSE [Detached EXCEPT !.gen = g, !.dirty = IndexFor(g)]]
           /\ dq' = [dq EXCEPT ![n] = Recover(@, g)]
           /\ advertised' = IF g = 0 THEN advertised ELSE Larger(advertised, IndexFor(g).lsn)
    /\ UNCHANGED <<requests, objs, written, index, found, stray, budget, confirmed>>

\* The answer to a re-attach is lost, and the node will ask again.
ReAttachLost(n) ==
    /\ ~ps[n].up /\ db.node = n
    /\ Spend("lost")
    /\ db' = ReAttached(n)
    /\ UNCHANGED <<requests, ps, dq, objs, written, index, found, stray, confirmed, advertised>>

-----------------------------------------------------------------------------
Controller ==
    \/ \E n \in Nodes, mode \in {"single", "multi"} : IncrementGeneration(n, mode)
    \/ \E n \in Nodes, g \in Gens, mode \in Modes : ConfigureAgain(n, g, mode)
    \/ \E n \in Nodes : Validate(n)

Locations ==
    \/ \E r \in requests : Attach(r) \/ SetMode(r)
    \/ \E n \in Nodes : Detach(n) \/ ResetTenant(n)

Tenants ==
    \/ \E n \in Nodes, o \in Objects : UploadLayer(n, o) \/ UnlinkLayer(n, o)
    \/ \E n \in Nodes : AdvanceLsn(n)
    \/ \E n \in Nodes : StartIndexUpload(n) \/ \E io \in BOOLEAN : FinishIndexUpload(n, io)
    \/ \E x \in stray : LandStray(x)

Queues ==
    \E n \in Nodes :
        \/ FlushPending(n) \/ StartFlush(n)
        \/ \E F \in SUBSET Mutated(dq[n]), hdr \in BOOLEAN : Answered(n, F, hdr)
        \/ \E o \in Objects : DeleteObject(n, o)
        \/ \E l \in dq[n].batch : CleanupList(n, l)

Failures ==
    \E n \in Nodes :
        \/ Crash(n) \/ Restart(n) \/ ReAttachLost(n)
        \/ \E L \in SUBSET Mutated(dq[n]) : CrashInValidate(n, L)

Next == Controller \/ Locations \/ Tenants \/ Queues \/ Failures

Spec == Init /\ [][Next]_vars

\* The tasks of the deletion queue run as long as the process does, the calls of
\* the controller are retried until they succeed, and so is starting a node.
Fairness ==
    \A n \in Nodes :
        /\ WF_vars(FlushPending(n)) /\ WF_vars(StartFlush(n)) /\ WF_vars(Validate(n))
        /\ WF_vars(\E F \in SUBSET Mutated(dq[n]), hdr \in BOOLEAN : Answered(n, F, hdr))
        /\ WF_vars(\E o \in Objects : DeleteObject(n, o))
        /\ WF_vars(\E l \in dq[n].batch : CleanupList(n, l))
        /\ WF_vars(Restart(n))

FairSpec == Spec /\ Fairness

-----------------------------------------------------------------------------
\* The types of the variables; a list that is being built has a sequence number
\* that neither a list on disk nor the header has used.
TypeOK ==
    /\ db \in [gen : Gens, node : Nodes]
    /\ requests \subseteq [node : Nodes, gen : Gens, mode : Modes]
    /\ ps \in [Nodes -> PageserverType]
    /\ \A n \in Nodes :
          /\ dq[n].step \in {"idle", "asked", "exec"}
          /\ dq[n].answer \in {"none", "valid", "invalid"}
          /\ dq[n].header < dq[n].pending.seq
          /\ \A l \in dq[n].disk : l.seq < dq[n].pending.seq /\ l.keys \subseteq Objects
    /\ objs \subseteq written /\ written \subseteq Objects
    /\ index \in [Gens -> Index]
    /\ found \subseteq Gens
    /\ stray \subseteq [gen : Gens, index : Index]
    /\ budget \in [Faults \cup Limits -> Nat]
    /\ confirmed \in 0..MaxLsn /\ advertised \in 0..MaxLsn

\* The pageserver attached in the newest generation finds every layer it has, and
\* so would the next one to attach: no deletion of an older attachment, however
\* late it is executed, takes away a layer that is still referenced.
ReferencedIsThere ==
    /\ IndexFor(db.gen).objs \subseteq objs
    /\ \A n \in Nodes : ps[n].gen = db.gen => ps[n].dirty.objs \subseteq objs

\* What a node that starts relies on, however late the calls of other generations
\* come and go.  It attaches in a generation in which nothing has been done: nobody
\* has been given it, it has no index, and no upload of it is under way.  And the
\* deletion lists that ListWriter::recover moves to that generation are from times
\* since which nobody else has been given one.
RestartIsFresh ==
    [][\A n \in Nodes : ~ps[n].up /\ ps'[n].gen # 0 =>
          LET g == ps'[n].gen
          IN  /\ Owners(g) = {} /\ g \notin found /\ \A x \in stray : x.gen # g
              /\ \A l \in dq[n].disk : Recovered(dq[n], l, g).gen # l.gen =>
                    \A h \in l.gen..(g - 1) : Owners(h) \subseteq {n}]_vars

\* "All deletion lists on disk with a sequence <= this value are safe to execute"
\* (DeletionHeader), and so are those saved as validated.
HeaderIsSafe ==
    \A n \in Nodes : \A l \in dq[n].disk :
        l.validated \/ l.seq <= dq[n].header =>
            /\ l.keys \cap IndexFor(db.gen).objs = {}
            /\ \A p \in Nodes : ps[p].gen = db.gen => l.keys \cap ps[p].dirty.objs = {}

\* No deletion list stays on disk for ever: it is executed, or emptied and removed,
\* by the process that has saved it or by one that has recovered it.
ListsAreConsumed ==
    \A n \in Nodes, s \in 1..Cardinality(Objects) :
        s \in Sequences(dq[n].disk) ~> s \notin Sequences(dq[n].disk)

\* WAL below a remote_consistent_lsn that the deletion queue has let through is
\* not needed by the newest attachment or by the next one.
ConfirmedIsCovered ==
    /\ IndexFor(db.gen).lsn >= confirmed
    /\ \A n \in Nodes : ps[n].gen = db.gen => ps[n].dirty.lsn >= confirmed

\* The same for everything that safekeepers are shown.
AdvertisedIsCovered ==
    /\ IndexFor(db.gen).lsn >= advertised
    /\ \A n \in Nodes : ps[n].gen = db.gen => ps[n].dirty.lsn >= advertised
=============================================================================
