# A TLA+ development of the Phoenix storage

Phoenix is the OrioleDB engine on a fork of the Neon storage. Postgres computes keep no
durable state. Safekeepers make their WAL durable by consensus, pageservers turn WAL into
layers and keep those in an object store, and a storage controller places tenant shards on
pageservers. This directory models the three protocols on which durability rests:

1. **the write path**: a compute's walproposer (C) and the safekeepers (Rust) agree on the
   WAL of a timeline (`WalConsensus`);
2. **split-brain safety**: pageservers that all take a shard for theirs work on the same
   remote storage under generation numbers (`Attachment`);
3. **placement**: the reconciler of the storage controller moves a shard between
   pageservers, with its failures (`Reconciler`).

## Inventory

| component | state | operations | what is hard | correct when |
|---|---|---|---|---|
| safekeeper acceptor (`safekeeper/src/safekeeper.rs`, `state.rs`) | term, term history, commit_lsn, peer_horizon_lsn; in memory and in the control file | greeting, vote, elected, append, term bump, save | restarts between any two writes; several proposers at once | votes once per term; acknowledged WAL is kept |
| WAL storage (`wal_storage.rs`, `control_file.rs`) | WAL records, flush and write position | write, flush, truncate, find the end | the tail after a crash; truncation and history are two writes | never serves WAL that was not committed |
| walproposer (`pgxn/neon/walproposer.c`) | term, votes, start of term, commitLsn, truncateLsn, one record per safekeeper | campaign, elect, stream, acknowledge, restart | acknowledgements of connections that are gone; stale votes | what it acknowledges survives every later compute |
| compute start-up (`compute_tools/src/compute.rs`, `sync_sk.rs`) | basebackup LSN | ask for the status, sync-safekeepers | answers of different moments | starts at a committed LSN |
| broker information (`broker.rs`, `timeline.rs`) | last message | publish, record | arbitrarily late | commit_lsn only where the WAL is the same |
| tenant manager (`pageserver/src/tenant/mgr.rs`) | location of a shard: mode, generation | location_config, reset, start after re-attach | requests that are late or repeated | work in an old generation does no harm to a newer one |
| remote timeline client (`remote_timeline_client.rs`, `upload_queue.rs`) | index to upload, unlinked layers, remote_consistent_lsn | upload, unlink, index upload | uploads that land after their process is gone | an index refers to what exists |
| deletion queue (`deletion_queue*`) | pending keys, lists on disk, header, LSN table | push, flush, validate, execute, recover | crashes between list, header and removal | nothing that a newer generation needs is deleted |
| reconciler (`storage_controller/src/reconciler.rs`, `tenant_shard.rs`, `service.rs`) | intent, observed locations, generation, pending notification; tasks with a snapshot of these | spawn, cancel, live migration, result, re-attach, startup | snapshots and results out of date; calls with an unknown outcome | one writer per generation; converges; the compute knows |
| compute hook (`compute_hook.rs`) | where the compute was told to go | notify | failed notification | the compute does not lose its pageserver |

Computes and safekeepers interact by messages on TCP connections and through the broker;
pageservers and the controller by `re-attach` and `validate` (from the pageserver, answered
from the database) and `location_config` (from the controller); pageservers among each other
through remote storage only; the controller and computes through the notification hook.
`PROJECT.json` lists every part of the system, also those not modelled, and each hazard at
its line with the properties that would catch it.

## Modules

| module | models |
|---|---|
| `TermHistory` | term histories and their divergence point, as computed in Rust and in C; and what that point is for, as a statement about the records of the two WALs |
| `Safekeeper` | one safekeeper: acceptor, control file and WAL storage, as operators on a record |
| `WalProposer` | one compute and its walproposer, as operators on a record |
| `WalConsensus` | the two composed over connections, with faults |
| `CommittedLog` | abstract specification: what the write path promises to Postgres, to the next compute and to pageservers |
| `DeletionQueue` | ListWriter, Validator and Deleter of one pageserver, as operators on a record |
| `Attachment` | controller database, pageservers and remote storage for one shard, composed with a `DeletionQueue` per pageserver |
| `Reconciler` | one shard in the controller, its reconcilers, pageservers and the compute |
| `Generations` | abstract specification: what the controller promises, namely that a generation is given to one pageserver, once. `Reconciler` implements it, for locations that are not stale |
| `TermHistory_proofs`, `WalConsensus_proofs`, `WalSafety_proofs`, `CommittedLog_proofs`, `DeletionQueue_proofs`, `SplitBrain_proofs`, `Reconciler_proofs` | theorems |
| `MC*` | instances for TLC, and the properties that make sense for an instance only |

Comments in the modules name the function each definition stands for, and `map` in
`PROJECT.json` its lines. A definition named as a *mutant* in its comment is not part of the
model: it is a plausible mistake, and putting it in the place of the definition after it makes
the property it was written for fail.

### WalConsensus

`sk[s]` and `wp[p]` are the states of a safekeeper and of a compute, `conn[p][s]` is
`struct Safekeeper` of the walproposer with the messages in flight both ways, and `old[p][s]`
a connection that the walproposer has given up while the safekeeper still reads from its
socket. WAL is a sequence of records, each known by the term and the compute that wrote it; an
LSN is the position after a record (`StartLsn` for none). `wins` and `chosen` are history variables.

| actions | code |
|---|---|
| `StartSync`, `PingSafekeeper` | `compute.rs` `check_safekeepers_synced_async`, `sync_safekeepers` |
| `GreetWhileCollecting`, `GreetLate`, `Elected`, `VoteAfterElection`, `VoteRefused` | `walproposer.c` `RecvAcceptorGreeting`, `RecvVoteResponse`, `ProcessPropStartPos`, `HandleElectedProposer`, `SendProposerElected` |
| `HandleVoteRequest`, `HandleElected`, `HandleAppendRequest`, `FlushWal` | `SafeKeeper::process_msg` and the `WalAcceptor` task |
| `WriteWal`, `SendAppendRequest`, `AppendAcked`, `AppendRejected` | `SendAppendRequests`, `RecvAppendResponses`, `HandleSafekeeperResponse` |
| `Disconnect`, `OldEnds`, `CrashSafekeeper`, `CrashInElected`, `Fatal` steps | `ShutdownConnection`, restart of a process; `CrashInElected` falls between `truncate_wal` and the control file |
| `SaveControlFile`, `TermBump`, `PublishInfo`, `RecordSafekeeperInfo` | timeline manager, `term_bump` request, broker |

Reductions, and why they lose nothing the properties see:

* heartbeats and responses without news are not sent. The broadcast of a new commitLsn at
  the end of `HandleSafekeeperResponse` is the next heartbeat. `HeartbeatMatters` says when
  there is news;
* Postgres writes only once its walproposer is elected: WAL written before waits for it anyway;
* the votes that complete a quorum are received in one step (`Elected`). Each was sent and
  handled in its own step, and the walproposer acts on them only when they are a quorum;
* the status of a safekeeper is one snapshot for each safekeeper, taken at different moments.
  A flush between its two reads only makes the two LSNs differ, which counts as not synced;
* any safekeeper that has the WAL may be the donor of the walproposer's reader, an over-approximation;
* at most one abandoned connection of a pair has messages left.

Not modelled: replica promotion, joint configurations and membership generations, timelines
without a start LSN, the branches for zero LSNs, back-pressure, I/O errors inside a handler.

### Attachment and DeletionQueue

`db` is the row of the shard; `requests` the `location_config` calls under way, some of which
come late or again; `ps[n]` the shard on a pageserver; `dq[n]` its deletion queue, with the files; `objs`, `index` and `stray`
the remote storage with uploads whose process is gone. `confirmed` and `advertised` are
history variables.

| actions | code |
|---|---|
| `IncrementGeneration`, `Validate`, `ReAttached` | `persistence.rs` `increment_generation`, `validate`, `re_attach` |
| `ConfigureAgain`, `Handled` | further calls in a generation, and the retries of one: `Reconciler::live_migrate`, `location_config` |
| `Attach`, `SetMode`, `Detach`, `ResetTenant` | `TenantManager::upsert_location`, `detach_tenant`, `reset_tenant` |
| `UploadLayer`, `AdvanceLsn`, `UnlinkLayer`, `StartIndexUpload`, `FinishIndexUpload`, `LandStray` | `RemoteTimelineClient`, `UploadQueue` |
| `FlushPending`, `StartFlush`, `Answered`, `ReleaseLsn`, `DeleteObject`, `CleanupList` | `ListWriter`, `Validator`, `Deleter` |
| `Crash`, `CrashInValidate`, `Restart`, `ReAttachLost` | process restarts, `init_tenant_mgr`, `ListWriter::recover` |

Reductions: one shard and one timeline; the channels between the three tasks of the queue are
part of the lists they carry; the names of layers are never reused; reading the index at an
attachment is one step (an index of an older generation that lands during it is the same as
one that lands before or after, since names carry generations); deletions are pushed in the
step that finishes the index upload; files are removed in any order, and of the lists of one
flush any subset may have been saved at a crash, which includes the orders of the code.
Generations for the restarts that the budget still allows are reserved (`Reserved`), so that a
bound never takes a restart away.

A pageserver may come back to a generation that it has left. `upsert_location` compares
generations with that of an attached tenant only, so a call that is retried (`Handled`), or
that was sent for a change of mode and comes late (`ConfigureAgain`), attaches a tenant that
has been detached or made secondary since; and `reset_tenant` attaches again in the present
generation. A call that is refused changes nothing and has no action. What is left out: of
the PUTs of one generation a later one lands last, so an upload that an earlier attachment has
left behind lands before the next upload in its generation starts, or never; and an
attachment that comes back does not write a layer under a name that this generation has
used before. `push_immediate`, shard splits and ancestor detach are not modelled.

`Attachment` assumes that all calls in one generation go to the pageserver that has been given
it (`Owners`), also those for mode stale, since a stale attachment may upload. `Reconciler`
shows this for single and multi locations (`GenerationsAreGivenOnce`); for stale ones
it does not hold, which is the finding `shared_generation` below. So the two models do not add up to
one proof: between them is that finding.

### Reconciler

`ctl` is the `TenantShard` with the controller's view of the pageservers, `tasks` the
reconciler that runs, the one that waits for it, and the results not yet applied. A task has
the fields of `Reconciler`, and `pc` says which call of `Reconciler::reconcile` comes next.

| actions | code |
|---|---|
| `MoveIntent`, `ReconcileAll`, `ProcessResult` | `service.rs` `tenant_shard_migrate_immediate`, `reconcile_all`, `process_result`; `MaybeReconcile` is `maybe_reconcile_shard` |
| `Refresh` | `maybe_refresh_observed` |
| `MakeStale`, `LsnsFail`, `IncrementForMigration`, `MakeMulti`, `AwaitLsn`, `NotifyBlocking`, `DemoteOrigin`, `MakeSingle` | `live_migrate` |
| `IncrementToAttach`, `Configure`, `NotifyAttached`, `ApplyChange`, `EndReconcile`, `CancelTask` | the rest of `reconcile`, `TenantShard::spawn_reconciler` |
| `NodeOffline`, `NodeActive` | `handle_node_availability_transition`, `node_activate_reconcile` |
| `ReAttach`, `ReAttachAnswer`, `ControllerRestart` | `persistence.rs`/`service.rs` `re_attach`, `startup_reconcile` |
| `Cut`, `Heal`, `Crash` | the environment |

Reductions: policies `Attached(0)` and `Attached(1)`; a call that fails or times out may have
had its effect, but has it before the failure is seen (no request arrives later still: that
is `Attachment`'s subject); locations differ in mode and generation only; reconcilers are not
limited in number; a task that waits and is superseded has done nothing and is dropped; an
availability transition and its handler are one step; a location that is being changed is reported
as indeterminate by `maybe_refresh_observed` only (`Refresh`), not in the lists that are read when a
node becomes active or the controller starts; the lists of locations at startup
are read at one moment, and startup needs a pageserver that answers; the choice of the
scheduler is free among the nodes its constraints allow; notifications of one shard are not
batched with others. `maybe_refresh_observed` always reports that the compute should be
notified when there is an attached intent, so `NotifyAttached` has no case without a
notification.

## Runs

The bounds are constants of the modules (`MaxTerm`, `MaxLsn`, `MaxGen`, ...) and the records
in `Budgets`, which say how many faults or requests of each kind may happen; every behaviour
of a run picks one of them. Deadlock is not checked, because systems stop when their bounds
are used up.

| run | instance | shows |
|---|---|---|
| `rivals` | three safekeepers, two computes at once, two terms, one record, messages of abandoned connections; no other faults | `OneElectionPerTerm`, `CommittedIsDurable`, `LeaderCoversCommitted`, `PostgresWalIsOwn`, and `ImplementsCommittedLog` |
| `handover` | one compute takes over from another, with a safekeeper crash, also in the middle of `handle_elected`, or a late broker message; and every pair of term histories with up to four terms and three records | `CommittedIsDurable`, `ServedIsCommitted`, `TruncationIsExact`, `ElectedAssertionsHold`, `CommittedIsNotTruncated`, `BasebackupIsCommitted`, `HorizonIsEverywhere`, `ImplementsCommittedLog`; `CommonPointIsHighest`, `BothSidesAgree` |
| `restarts` | one compute through three terms, two messages in flight, with a crash, a lost connection, a control file save, and a term bump or broker message | `TypeOK`, `CommittedIsDurable`, `ServedIsCommitted`, `HorizonIsEverywhere` |
| `takeover` | a hand-over with a connection that breaks during sync-safekeepers, up to four terms, with liveness | `CommittedIsDurable`, `CommittedIsNotTruncated`; `SyncTerminates`, `WrittenIsCommitted` |
| `panic` | one compute, two term bumps | violated: `LoneComputeNeverPanics` |
| `superseded_leader` | five safekeepers, three computes one after the other, one broker message; steps restricted to those towards one situation | violated: `CommittedIsNotTruncated` |
| `attachment` | two pageservers, six scenarios: split brain with two layers; two crashes and a failed write around a list; WAL, a crash and a lost re-attach answer; a repeated or late call and a reset, once with a layer and once with WAL; a repeated or late call with two changes of mode | `TypeOK`, `ReferencedIsThere`, `HeaderIsSafe`, `ConfirmedIsCovered`, `RestartIsFresh` |
| `lists_consumed` | liveness, with a crash, a failed write and a repeated call, or a crash and changes of mode | `ListsAreConsumed` |
| `advertised_lsn` | two pageservers and one record of WAL | violated: `AdvertisedIsCovered` |
| `reconciler` | three pageservers, one secondary location, eight scenarios of moves, cuts, crashes, failing calls and notifications and controller restarts | `TypeOK`, `WritersAreExclusive`, `CleanIsSettled`, `ComputeKeepsItsPageserver`, `Converges`, and `GenerationsAreGivenOnce`: `Reconciler` implements `Generations` |
| `forgotten_notification` | a shard is moved away and back while a pageserver is cut off | violated: `UnnotifiedIsRemembered` |
| `shared_generation` | a failover, a restart of the controller and a move | violated: `AttachmentsAreDistinct` |

Why the bounds are enough for the cases of interest: three safekeepers are the smallest set
whose quorums can disagree about an uncommitted record; two computes and two terms give a
competing election, a hand-over and WAL of an old term that must be truncated, and `restarts`
adds the third term in which an own record of the first is found again. These runs and
`takeover` have one record, so that two WALs differ in all or nothing; a divergence in the middle of
a log is in the histories of `CommonPointIsHighest`, in `superseded_leader`, which has two
records, and in the theorems, which hold for every number of them. For `Attachment`,
four generations are two attachments with a re-attach each, and two layers are one that is
deleted and one that is kept. For `Reconciler`, three pageservers are an origin, a
destination and one to fail over to. Safekeepers, computes that run together and layers are
interchangeable, and runs without liveness use that symmetry. In the runs
`handover` and `takeover` the old compute is gone when the new one starts; what it has sent
is still handled. Their faults come after the new compute has started; faults of a compute on
its own are those of `restarts`. `rivals` has the two at the same time.

### Fairness

Each condition stands for a loop that the code really has.

* `takeover`: weak fairness of `Elected`, of the walproposer reading its sockets and of
  `SendAppendRequest` (the event loop of the walproposer with its reconnect timer), and strong
  fairness of a safekeeper reading a socket (connections may break and be made again). Nothing
  is assumed of the compute that went away.
* `lists_consumed`: weak fairness of the three tasks of the deletion queue and of restarts.
* `reconciler`: weak fairness of the running task and of its cancellation, of
  `ReconcileAll` (the background loop), `ProcessResult` (the result channel), heartbeats
  (`NodeOffline`, `NodeActive`), the end of partitions and of restarts with re-attach. Faults are bounded,
  so "eventually" is after the last of them.

## Findings

* **`panic`** (`walproposer.c:1417`). A compute that is alone on its timeline panics after two
  term bumps, which the comment above that line excludes: `mineLastElectedTerm` holds only the
  last term won.
* **`superseded_leader`** (`safekeeper.rs:1176`). `handle_elected` asserts that a new leader never
  truncates what a safekeeper has committed. With five safekeepers, which
  `timeline_safekeeper_count` allows, it fails: a safekeeper learns `commit_lsn` from a peer with the
  same last log term, and may have heard nothing of the leader that committed this; the
  `ProposerElected` of an earlier leader, elected without that WAL and superseded since, then asks
  for its truncation. Such a leader can commit nothing any more, and the assertion
  stops it before data is touched. With up to four safekeepers, or without the broker, the assertion
  always holds, which is proved below.
* **`advertised_lsn`** (`upload_queue.rs:393`). A newly attached timeline shows safekeepers the
  LSN of the index it has loaded, before any validation; the generation RFC and a comment
  in `upload_queue.rs` say only a validated LSN is shown.
* **`forgotten_notification`** (`service.rs:1484`). The result of a reconciler overwrites
  `pending_compute_notification`, also when the flag was set by another. The compute then
  keeps using a pageserver from which the shard has gone.
* **`shared_generation`** (`reconciler.rs:661`). `live_migrate` makes its origin stale in the
  controller's generation, which a `FIXME` there calls incorrect. The origin is any location
  that was observed as single, so after a failover and a restart of the controller it can be
  the pageserver that the shard has failed over from: it is then attached in the generation
  of its successor, which the generation RFC excludes. Locations that are not stale are never
  affected (`WritersAreExclusive`, proved below), and stale mode itself only discourages
  uploads.

Seen while modelling `Reconciler`, and kept out of its scenarios, in which no more than one
pageserver is lost while an operator or a restart of the controller interferes:

* the forgotten notification, which also happens, and then violates `CleanIsSettled`, with one
  move when pageservers are lost twice (two cuts, two crashes, or one of each), and with two
  moves and one loss;
* with too few reachable pageservers at the start of the controller `schedule` fails, and the
  notification of a shard that is attached as wanted is skipped with it;
* two moves whose second returns to the origin may end, for a moment, in a notification of a
  pageserver that the shard has just left, from a snapshot that is out of date;
* a result that is applied very late, after a crash and a move, may hide a location that was
  left behind in mode multi, because its changes are relative to an old snapshot; a comment in
  `re_attach` acknowledges that results may overwrite what re-attach recorded.

## Proofs

All theorems hold for every value of the constants under the assumptions named in the modules
(finite and non-empty sets of safekeepers, bounds that are natural numbers). The bounds on
faults are constants too: the theorems cover every number of them.

* `WalConsensus_proofs!TypeCorrect`: `Spec => []TypeOK`. `TypeOK` is not inductive.
  `TypeInv` adds what relates fields of one record: `SafekeeperOK` (flush position within
  the WAL, the persisted state behind the one in memory), `ProposerOK` and `ConnOK` (positions
  of a connection lie within the log of its compute).
* `WalConsensus_proofs!ElectionsCorrect`: `Spec => []OneElectionPerTerm`. The inductive invariant
  `ElectionInv` says that a vote in flight or counted is for the campaign's present term
  (`VotesAreCurrent`), that the safekeeper that gave it is still in that term or later,
  also on disk (`VotesAreKept`), that no safekeeper has two votes out for one term
  (`OneVotePerTerm`) and that a term that was won has a quorum of votes behind it
  (`WonOnce`). Two quorums meet (`QuorumsMeet`, from the cardinalities of finite sets). Steps
  that touch none of this are *quiet* and are proved once.
* `TermHistory_proofs!CommonPointDiverges`, `BothSidesFindIt`: for all histories that can be
  compared (`Comparable`: they grow, they begin with the timeline, and a term has the same past in
  both), `find_highest_common_point` returns where the two WALs diverge, record by record, and
  `SendProposerElected` returns the same point. The set of equal leading terms is downwards
  closed, so its cardinality is the index of the last of them: no induction is needed.
* `WalSafety_proofs`: the safety of the write path, described in a section of its own below.
* `CommittedLog_proofs!TypeCorrect`, `RecordsCorrect`: in the abstract log no basebackup and no
  served position is beyond what is committed, and the records of a compute are one run that starts
  at its basebackup. These use `MaxEnd \in Nat`.
* `Reconciler_proofs!TypeCorrect`: `Spec => []TypeOK`, from `TypeInv`, which types tasks and
  results and says that no generation is in use that the database has not given out
  (`GensAreIssued`).
* `Reconciler_proofs!WritersCorrect`: `Spec => []WritersAreExclusive`. A generation is given out
  some steps before anybody writes in it, so the property is not inductive. A node has a
  *claim* to a generation when it writes in it, when a re-attach has given it out to the node,
  or when a reconciler holds it for the node and has not finished attaching
  (`ClaimsAreExclusive`: no two nodes claim the same). Each action keeps the claims there
  are, gives some up, or adds one to the generation that it takes from the database (`OneNewClaim`);
  `RunStep`, `CallStep`, `QuietStep` and `ControlStep` say so once for the steps of a task and of the
  controller's memory.
* `Reconciler_proofs!GenerationsCorrect`: `Spec => GenerationsAreGivenOnce`, the refinement of
  `Generations` with the claims above. `OneNewClaim` is the step, and `ClaimsLemma` relates the
  claims of the proof to the set in the refinement mapping.
* `Reconciler_proofs!ComputeKept`: `Spec => ComputeKeepsItsPageserver`. A reconciler demotes or
  detaches a location because of what it saw when it was spawned. `CareInv` says what it has made
  sure of since (`Careful`): a migration has another node as its origin than as its target; by the
  time it demotes the origin the compute uses another node, or the reconciler's token for the
  origin has fired, or nothing is attached there; by the time it changes the other
  locations, the compute is where the shard is attached, and that node is none of them. A node
  that answers a re-attach changes its location under the reconciler, in the same step in which its
  token fires (`FiredIsCareful`). `CareKept` is part of the lemmas about the controller's steps.
* `SplitBrain_proofs!TypesHold`, `SplitBrainIsSafe`, `HeaderVouches`, `ReleasedWalIsUploaded`:
  `Spec => []P` for `TypeOK`, `ReferencedIsThere`, `HeaderIsSafe` and `ConfirmedIsCovered` of
  `Attachment`. They follow from one inductive invariant `Inv` (`InvAlways`). Its idea: an index is found in remote storage,
  in an upload under way or left behind, or in the memory of a pageserver. Each of
  these `References` has a generation, changes in that generation only, and a new
  generation starts from the newest index (`Evolves`). So if from some uploaded index on no
  reference up to generation g mentions a layer, none will (`Unreferenced(g)` only grows,
  `EvolvesKeeps`), and the same for the LSNs they reach (`Covered(g)`). A layer is pushed to the queue
  when it is in `Unreferenced(g)` for the generation g of the pusher; if the controller
  then says that g is the newest generation, g stands for all generations there will be
  (`NewestIsAll`). The other parts of `Inv` are the shape of the state (`TypeInv`), that all
  calls and attachments of a generation are of one pageserver, that of the newest one is the one in
  the database, and no upload is under way in a generation that has left one behind (`UseInv`), and that the
  bounded number of restarts leaves generations for them (`BudgetInv`, an artefact of the bound
  `MaxGen`). There is one lemma for every action.
* `SplitBrain_proofs!RestartsAreFresh`: `Spec => RestartIsFresh`, also from `Inv`. A node that is
  down stays so until it starts (`DownStays`), and it starts in a generation above all that are
  in use, while the lists that move are of the generation before, which `UseInv` gives to this node
  alone (`StartIsFresh`). It is what `ListWriter::recover` takes for granted.
* `DeletionQueue_proofs` holds the lemmas about the queue that this rests on. They know
  nothing of `Attachment`: the surroundings are a record of the layers and LSNs that are safe
  in a generation or for ever, and each operation, recovery included, is shown to execute, to
  save as validated and to confirm only those (`QueueIsSafe`). The surroundings may
  improve at any time (`QueueKept`).

### The safety of the write path

`WalSafety_proofs` proves `Spec => []P` for `CommittedIsDurable`, `ServedIsCommitted`,
`LeaderCoversCommitted`, `PostgresWalIsOwn`, `BasebackupIsCommitted`, `HorizonIsEverywhere`,
`TruncationIsExact` and `ElectedAssertionsHold`, for timelines with at most four safekeepers, or
without broker messages, `CommittedIsNotTruncated`, and the refinement `Spec => ImplementsCommittedLog`. All follow from one
inductive invariant, `SafetyInv`, which adds `Fitting` to `ElectionInv`.

The state alone is not enough for the argument. A history that no process has any more may
still be the past of one in a message, and a safekeeper that has truncated its WAL has all the same
accepted it once, and may have been counted. `Fitting` therefore says that *there is* a view `x`
of the past that fits the state. `x` has the terms that were won (`led`) with the history,
the records, the owner and the end of the WAL of each (`hist`, `log`, `by`, `limit`), and for every
safekeeper and term the highest LSN that it has ever flushed in that term with the leader's
history (`acc`). Each step is proved by giving the view after it: most keep `x`, an election adds a
term (`NewView`), a write of Postgres extends a `limit`, a flush raises `acc`, and an acknowledgement
that completes a quorum extends `chosen`.

What a view satisfies (`Core`):

* `Tree`: every entry of a history is the end of the history of an earlier leader, whose records are
  kept up to the next entry. Two leaders that share a term share all before it;
* `AccOK`: nothing is accepted beyond the WAL of a leader, or in a term that a safekeeper has
  not reached;
* `LeadersCover`: of two leaders, the later one either has all of the WAL of the earlier one up
  to `c`, or `c` is `Excluded`: a quorum of safekeepers has left the earlier term without
  accepting `c` in it, and since terms only grow it never will. This is the heart of the proof. In an election
  every voter either has accepted `c`, and then the highest vote has it too, or is one of those
  that exclude it;
* `ChosenOK`: what is committed was accepted by a quorum in one term. A quorum that accepted and one
  that excludes would meet (`QuorumsMeet`), so every later leader has it.

What ties a view to the state (`Fits`): the WAL and history of a safekeeper are those of the leader
of its last log term up to where it has written, and what it has accepted is still there or excluded
(`SkOK`, `KeepsAccepted`); `commit_lsn` and the horizon, in memory, on disk and in a broker message, are
committed; every message in flight, on a live or an abandoned connection, says what was true when it was sent
and still matters (`QueueOK`, `LinkOK`); and a term belongs to one Postgres from its basebackup on
(`OwnerOK`). Steps that touch none of it are covered by frame lemmas (`MoveFits`, `ComputeFits`,
`HandlerFits`), so that every handler has one lemma about what it changes.

`CommittedIsNotTruncated` (theorems `CommittedIsSpared` and `OnlyPeersEndanger`) needs to know where a `commit_lsn` comes from,
because the records below it being committed does not keep an older leader from asking for their
truncation. When there are `Few` safekeepers, at most four, or when the broker carries nothing
(`NoBroker`), the invariant also says that what a safekeeper serves was committed by a leader of a term that it has reached itself
(`KnownIn`). One that comes in an `AppendRequest` is of the sender's term, which the safekeeper is
in. For one of a peer, `PassedOn` says of the broker's message that its last log term is at least
the term of the leader that committed, unless every safekeeper has reached that term: a quorum of up
to four safekeepers leaves out one at most (`OneIsLeftOut`), so if the receiver is the one that has
not, the peer belongs to the quorum and has that leader's WAL (`InfoIsPassedOn`). The receiver
counts the message only when its own last log term is the same, and then it has reached that term. A
`ProposerElected` that is not ignored is then of a leader at least as late as the one
that committed, and by `LeadersCover` has its WAL (`LeaderKnows`). With five safekeepers
a quorum leaves out two, and the run `superseded_leader` shows that this is enough to break it.
Without broker messages every `commit_lsn` is of the first kind and the number of safekeepers does not
matter, so `record_safekeeper_info` is the only cause.

For the refinement, `CommitMaps` shows that a step in which `chosen` grows is a `Commit` of one
compute that owns all that is added; `ComputeMaps` and `SafekeeperMaps` do the same for new basebackups
and for served positions. `RecordsFollowBasebackups` then carries the theorem of the abstract log over
to the protocol, through an instance of `CommittedLog_proofs`.

### What is only model-checked

* Liveness (`SyncTerminates`, `WrittenIsCommitted`, `ListsAreConsumed`, `Converges`) is out of the
  prover's reach.
* `CommonPointIsHighest` and `BothSidesAgree` are the theorems about `TermHistory` on a bounded
  set of histories. They stay, as a check of the definitions.
* `CleanIsSettled` of `Reconciler`. It holds in the scenarios of `reconciler`, and is no theorem
  for every budget: in the one of `forgotten_notification` the compute is left with the pageserver
  from which the shard has moved, and TLC finds `CleanIsSettled` violated there too.
  `Converges` too is a statement about these eight scenarios: the cases listed under Findings as
  kept out are outside both.

Induction on a natural number in a proof, such as that a non-empty set of sequence numbers has
a smallest one, is done with a smallest counterexample: `WFMin` and `NatLessThanWellFounded`.

## Not modelled

The parts with status `not_modelled` in `PROJECT.json` are, in the order in which they would be
worth adding: the timeline manager of the safekeeper with WAL backup, removal and eviction; the
safekeeper part of the storage controller with membership changes; shard splits and ancestor
detach; the cache of timeline handles and other synchronisation primitives; the caches
of the compute (local file cache, last-written LSNs, prefetch). Compaction, garbage
collection and WAL ingestion compute on data, where a model would repeat the program.
The proxy, the development tooling, the scrubber and OrioleDB itself take no part in the
protocols above.

## Running

`tlc -config MCReconciler.cfg MCReconciler` checks one run (the others by their `.cfg`),
`tlapm Reconciler_proofs.tla` checks proofs.
