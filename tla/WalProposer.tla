---------------------------- MODULE WalProposer ----------------------------
(***************************************************************************)
(* One compute and its walproposer (walproposer.c), from the point where   *)
(* compute_ctl starts it to the moment it dies.                            *)
(*                                                                         *)
(* A compute first learns the LSN to take its basebackup at, either from a *)
(* walproposer in sync-safekeepers mode or by asking a quorum of           *)
(* safekeepers (compute.rs, sync_sk.rs), and then runs Postgres with a     *)
(* walproposer that streams the WAL Postgres writes.  Its state is one     *)
(* record w:                                                               *)
(*   mode      "off", "sync" (sync-safekeepers runs), "compute" (Postgres  *)
(*             runs) or "dead" (Postgres has panicked)                     *)
(*   syncedAt, syncedBy                                                    *)
(*             while "off": the LSN the safekeepers asked so far report    *)
(*   state     WPS_COLLECTING_TERMS, WPS_CAMPAIGN or WPS_ELECTED           *)
(*   term, history, start, commit, truncate                                *)
(*             propTerm, propTermHistory, propTermStartLsn, commitLsn and  *)
(*             truncateLsn of struct WalProposer                           *)
(*   donors    the safekeepers that gave the highest vote; the code keeps  *)
(*             one of them in donor                                        *)
(*   base, end the basebackup (redo start) LSN and Postgres' flush LSN     *)
(*   mine      mineLastElectedTerm, in shared memory: it outlives the      *)
(*             walproposer process, not Postgres                           *)
(*                                                                         *)
(* Postgres never rewrites its own WAL, so a record it wrote is identified *)
(* by its LSN and the compute, and a record of the model is the compute    *)
(* that wrote it.                                                          *)
(***************************************************************************)
EXTENDS TermHistory

\* palloc0 in WalProposerCreate: what a walproposer process starts with.
Restarting(w) ==
    [w EXCEPT !.state    = "collecting",
              !.term     = 0,
              !.history  = <<>>,
              !.start    = InvalidLsn,
              !.commit   = InvalidLsn,
              !.truncate = InvalidLsn,
              !.donors   = {}]

InitProposer ==
    [mode  |-> "off", syncedAt |-> InvalidLsn, syncedBy |-> {},
     state |-> "collecting", term |-> 0, history |-> <<>>, start |-> InvalidLsn,
     commit |-> InvalidLsn, truncate |-> InvalidLsn, donors |-> {},
     base |-> InvalidLsn, end |-> InvalidLsn, mine |-> 0]

\* One more response of check_safekeepers_synced.
SyncedOn(w, by, lsn) == [w EXCEPT !.syncedAt = lsn, !.syncedBy = by]

\* postgres --sync-safekeepers starts.
Synchronizing(w) == [SyncedOn(w, {}, InvalidLsn) EXCEPT !.mode = "sync"]

\* Postgres starts on a basebackup at lsn, with a fresh walproposer.
PostgresAt(w, lsn) ==
    [Restarting(SyncedOn(w, {}, InvalidLsn)) EXCEPT
        !.mode = "compute", !.base = lsn, !.end = lsn, !.mine = 0]

Panicked(w) == [Restarting(w) EXCEPT !.mode = "dead"]

\* availableLsn of an elected walproposer.
Available(w) == IF w.mode = "compute" THEN w.end ELSE w.start

-----------------------------------------------------------------------------
(***************************************************************************)
(* VotesCollected and ProcessPropStartPos: adopt the position of the       *)
(* highest vote v, given by donors, and the highest truncate_lsn.          *)
(***************************************************************************)
ElectedOn(w, donors, v, truncate) ==
    [w EXCEPT !.state    = "elected",
              !.start    = v.flush,
              !.history  = Append(v.history, [term |-> w.term, lsn |-> v.flush]),
              !.truncate = truncate,
              !.donors   = donors,
              !.mine     = w.term]

\* Mutant: the comparison is the wrong way round.
VoteLe(v, u) ==
    \/ HighestTerm(v.history) < HighestTerm(u.history)
    \/ HighestTerm(v.history) = HighestTerm(u.history) /\ v.flush <= u.flush

\* v is at least as high a vote as u.
VoteGe(v, u) ==
    \/ HighestTerm(v.history) > HighestTerm(u.history)
    \/ HighestTerm(v.history) = HighestTerm(u.history) /\ v.flush >= u.flush

\* Mutant: Postgres goes on, wherever consensus is.
NeverSpoiled(w, v) == FALSE

(***************************************************************************)
(* The check of ProcessPropStartPos that makes Postgres panic: consensus   *)
(* is not where the basebackup was taken, and the WAL that is in the way   *)
(* was not written by this very compute.                                   *)
(***************************************************************************)
BasebackupSpoiled(w, v) ==
    /\ w.mode = "compute"
    /\ v.flush # w.base
    /\ HighestTerm(v.history) # w.mine

\* Mutant: the position of the highest vote is taken for committed.
SyncNeverNeeded(w) == w.mode = "sync"

\* HandleElectedProposer: sync-safekeepers has nothing to do.
SyncNotNeeded(w) == w.mode = "sync" /\ w.truncate = w.start

-----------------------------------------------------------------------------
(***************************************************************************)
(* HandleSafekeeperResponse: commitLsn moves to what a quorum has          *)
(* acknowledged, truncateLsn to what every safekeeper has, but not beyond  *)
(* commitLsn.                                                              *)
(***************************************************************************)
WithAcks(w, quorumLsn, minFlush) ==
    LET commit == Larger(w.commit, quorumLsn)
    IN  [w EXCEPT !.commit   = commit,
                  !.truncate = Larger(w.truncate, Smaller(minFlush, commit))]
=============================================================================
