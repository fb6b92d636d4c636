----------------------------- MODULE Safekeeper -----------------------------
(***************************************************************************)
(* One safekeeper of a timeline: the acceptor of safekeeper.rs with its    *)
(* control file (state.rs, control_file.rs) and its WAL (wal_storage.rs).  *)
(*                                                                         *)
(* The state of a safekeeper is one record k:                              *)
(*   term, history     the acceptor state, always persistent               *)
(*   commit, horizon   inmem.commit_lsn and inmem.peer_horizon_lsn         *)
(*   pcommit, phorizon the same two fields in the control file             *)
(*   wal               the WAL written from StartLsn on, one element per   *)
(*                     record; its end is write_lsn                        *)
(*   flush             flush_lsn: what is below it is fsynced              *)
(*   pending           pending_wal_truncation                              *)
(*   termStart         term_start_lsn, cached by handle_elected            *)
(*                                                                         *)
(* The operators are the handlers as functions of the record; the module   *)
(* WalConsensus runs them as actions.  The timeline is one created with a  *)
(* known start LSN and a fixed membership generation, so the branches for  *)
(* a zero LSN and the generation checks do not appear.                     *)
(***************************************************************************)
EXTENDS TermHistory

\* timeline_start_lsn.
StartLsn == 1
InitialTerm == 0

\* TimelinePersistentState::new and TimelineState::new on a new timeline.
InitSafekeeper ==
    [term      |-> InitialTerm,
     history   |-> <<[term |-> InitialTerm, lsn |-> StartLsn]>>,
     commit    |-> StartLsn,
     horizon   |-> StartLsn,
     pcommit   |-> StartLsn,
     phorizon  |-> StartLsn,
     wal       |-> <<>>,
     flush     |-> StartLsn,
     pending   |-> TRUE,
     termStart |-> InvalidLsn]

\* The LSN at which a WAL ends.
EndOf(wal) == StartLsn + Len(wal)
WriteLsn(k) == EndOf(k.wal)

\* The part of the WAL below lsn; all of it when it ends earlier.
Below(wal, lsn) == SubSeq(wal, 1, Smaller(lsn - StartLsn, Len(wal)))

\* Mutant: the switches of the control file, whether or not their WAL is on disk.
TermHistoryUnflushed(k) == k.history

\* History of term switches of the WAL that is on disk.
TermHistoryOf(k) == UpTo(k.history, k.flush)
LastLogTerm(k)   == HighestTerm(TermHistoryOf(k))

(***************************************************************************)
(* start_change/finish_change: whatever else is persisted, the in-memory   *)
(* LSNs go to the control file with it.                                    *)
(***************************************************************************)
Persisted(k) == [k EXCEPT !.pcommit = k.commit, !.phorizon = k.horizon]

\* wal_store.flush_wal
Flushed(k) == [k EXCEPT !.flush = WriteLsn(k)]

\* Adopt a higher term, in the control file before anything else happens.
WithTerm(k, t) ==
    IF k.term < t THEN [Persisted(k) EXCEPT !.term = t] ELSE k

\* term_bump(None)
TermBumped(k) == WithTerm(k, k.term + 1)

-----------------------------------------------------------------------------
(***************************************************************************)
(* handle_vote_request.  The WAL received so far is flushed first; the     *)
(* vote is given, and persisted, only for a term higher than ours.         *)
(***************************************************************************)
AfterVoteRequest(k, m) == WithTerm(Flushed(k), m.term)

\* Mutant: a second vote in the same term.
VoteResponseAgain(k, m) ==
    LET k1 == AfterVoteRequest(k, m)
    IN  [type     |-> "vote",
         term     |-> k1.term,
         given    |-> k.term <= m.term,
         flush    |-> k1.flush,
         truncate |-> k.horizon,
         history  |-> TermHistoryOf(k1)]

VoteResponse(k, m) ==
    LET k1 == AfterVoteRequest(k, m)
    IN  [type     |-> "vote",
         term     |-> k1.term,
         given    |-> k.term < m.term,
         flush    |-> k1.flush,
         truncate |-> k.horizon,
         history  |-> TermHistoryOf(k1)]

\* append_response
AppendResponse(k) ==
    [type |-> "append", term |-> k.term, flush |-> k.flush, commit |-> k.pcommit]

\* AppendResponse::term_only
TermOnlyResponse(k) ==
    [type |-> "append", term |-> k.term,
     flush |-> InvalidLsn, commit |-> InvalidLsn]

-----------------------------------------------------------------------------
(***************************************************************************)
(* handle_elected.  The message is ignored when our term is higher, and    *)
(* refused when the truncation point is not the one we compute or lies     *)
(* below commit_lsn: an error or a failed assertion ends the connection    *)
(* and nothing else, after the term is adopted.                            *)
(***************************************************************************)
ElectedIgnored(k, m) == k.term > m.term

CommonPoint(k, m) ==
    LET lcp == HighestCommonPoint(m.history, TermHistoryOf(k), k.flush)
    IN  IF lcp = InvalidLsn THEN m.history[1].lsn ELSE lcp

\* truncate_wal refuses a position beyond the written WAL.
ElectedRefused(k, m) ==
    \/ CommonPoint(k, m) # m.start
    \/ m.start < k.commit
    \/ m.start > WriteLsn(k)

\* Mutant: flush_lsn is forgotten.
TruncatedUnflushed(k, lsn) == [k EXCEPT !.wal = Below(k.wal, lsn), !.pending = FALSE]

\* truncate_wal
Truncated(k, lsn) ==
    [k EXCEPT !.wal = Below(k.wal, lsn), !.flush = lsn, !.pending = FALSE]

(***************************************************************************)
(* The WAL is truncated first, and the proposer's history is adopted in a  *)
(* second step, with the in-memory LSNs and the first term_start_lsn.      *)
(***************************************************************************)
AfterElected(k, m) ==
    LET k1 == Truncated(WithTerm(k, m.term), m.start)
    IN  [Persisted(k1) EXCEPT !.history   = m.history,
                              !.termStart = m.history[Len(m.history)].lsn]

-----------------------------------------------------------------------------
\* Mutant: the commit_lsn of the walproposer, whatever is flushed here.
WithCommitUncapped(k, candidate) ==
    LET c  == Larger(candidate, k.commit)
        k1 == [k EXCEPT !.commit = c]
    IN  IF c >= k.termStart /\ k.pcommit < k.termStart THEN Persisted(k1) ELSE k1

\* Mutant: the control file is not written at the start of the term.
WithCommitUnsaved(k, candidate) ==
    [k EXCEPT !.commit = Smaller(Larger(candidate, k.commit), k.flush)]

(***************************************************************************)
(* update_commit_lsn: never beyond what is flushed here, and the control   *)
(* file is written when the start of the term is reached.                  *)
(***************************************************************************)
WithCommit(k, candidate) ==
    LET c  == Smaller(Larger(candidate, k.commit), k.flush)
        k1 == [k EXCEPT !.commit = c]
    IN  IF c >= k.termStart /\ k.pcommit < k.termStart THEN Persisted(k1) ELSE k1

(***************************************************************************)
(* handle_append_request, as NoFlushAppendRequest: the receiving task      *)
(* never asks for a flush with the append.                                 *)
(***************************************************************************)
AppendStale(k, m) == k.term > m.term

AppendRefused(k, m) ==
    \/ k.term < m.term
    \/ WriteLsn(k) # m.begin
    \/ m.recs # <<>> /\ k.pending

AfterAppend(k, m) ==
    LET k1 == [k EXCEPT !.wal = k.wal \o m.recs]
        k2 == IF m.commit # InvalidLsn THEN WithCommit(k1, m.commit) ELSE k1
    IN  [k2 EXCEPT !.horizon = Larger(k2.horizon, m.truncate)]

\* Mutant: a peer's commit_lsn always counts.
AfterAnyPeerInfo(k, i) ==
    [WithCommit(k, i.commit) EXCEPT !.horizon = Larger(k.horizon, i.horizon)]

(***************************************************************************)
(* record_safekeeper_info: a peer's commit_lsn counts if our last log      *)
(* terms agree, its peer_horizon_lsn in any case.  The control file is     *)
(* written when it lags by a segment, which SaveControlFile of             *)
(* WalConsensus stands for.                                                *)
(***************************************************************************)
AfterPeerInfo(k, i) ==
    LET k1 == IF i.lastLogTerm = LastLogTerm(k) THEN WithCommit(k, i.commit) ELSE k
    IN  [k1 EXCEPT !.horizon = Larger(k.horizon, i.horizon)]

\* What a safekeeper publishes about itself through the broker.
PeerInfo(k) == [lastLogTerm |-> LastLogTerm(k), commit |-> k.commit,
                horizon |-> k.horizon]

-----------------------------------------------------------------------------
\* Mutant: WAL is looked for up to commit_lsn only.
RestartedAtCommit(k, end) ==
    [k EXCEPT !.commit    = k.pcommit,
              !.horizon   = k.phorizon,
              !.wal       = Below(k.wal, k.pcommit),
              !.flush     = k.pcommit,
              !.pending   = TRUE,
              !.termStart = InvalidLsn]

(***************************************************************************)
(* A restart.  The control file is as last persisted, the in-memory LSNs   *)
(* come from it, and find_end_of_wal finds some end of the WAL: everything *)
(* flushed, and any part of what was written after it.                     *)
(***************************************************************************)
Restarted(k, end) ==
    [k EXCEPT !.commit    = k.pcommit,
              !.horizon   = k.phorizon,
              !.wal       = Below(k.wal, end),
              !.flush     = end,
              !.pending   = TRUE,
              !.termStart = InvalidLsn]
=============================================================================
