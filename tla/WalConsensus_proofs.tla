------------------------ MODULE WalConsensus_proofs ------------------------
(***************************************************************************)
(* Proofs about WalConsensus, for every set of safekeepers and computes    *)
(* and every value of the bounds: the type invariant, and that at most one *)
(* compute wins the election of a term.                                    *)
(*                                                                         *)
(* A step that grants no vote and wins no election is Quiet.  Quiet steps  *)
(* keep the election invariant by one lemma, and only greeting, voting     *)
(* and winning are treated one by one.                                     *)
(***************************************************************************)
EXTENDS WalConsensus, TermHistory_proofs

USE DEF StartLsn, InvalidLsn

-----------------------------------------------------------------------------
\* The part of a sequence of records below an LSN is a sequence of records.
LEMMA BelowType ==
    ASSUME NEW S, NEW wal \in Seq(S), NEW lsn \in Int
    PROVE  /\ Below(wal, lsn) \in Seq(S)
           /\ lsn \in 1..EndOf(wal) => EndOf(Below(wal, lsn)) = lsn
  <1> DEFINE n == Smaller(lsn - 1, Len(wal))
  <1>1. n \in Int /\ n <= Len(wal) /\ (lsn <= EndOf(wal) => n = lsn - 1)
    BY DEF Smaller, EndOf
  <1>2. Below(wal, lsn) = SubSeq(wal, 1, n)
    BY DEF Below
  <1> HIDE DEF n
  <1> QED
    BY <1>1, <1>2, PrefixType DEF EndOf

-----------------------------------------------------------------------------
(***************************************************************************)
(* The handlers of the safekeeper keep its record well-formed, and none of *)
(* them lowers its term.                                                   *)
(***************************************************************************)
SafekeeperOK == {k \in SafekeeperType : k.flush \in StartLsn..WriteLsn(k)}

\* Saving the control block keeps the safekeeper typed.
LEMMA PersistedType ==
    ASSUME NEW k \in SafekeeperOK
    PROVE  Persisted(k) \in SafekeeperOK /\ Persisted(k).term = k.term
    BY DEF SafekeeperOK, SafekeeperType, Persisted, WriteLsn

\* Flushing the written WAL keeps the safekeeper typed.
LEMMA FlushedType ==
    ASSUME NEW k \in SafekeeperOK
    PROVE  /\ Flushed(k) \in SafekeeperOK /\ Flushed(k).term = k.term
           /\ Flushed(k).flush \in Nat \ {0}
    BY DEF SafekeeperOK, SafekeeperType, Flushed, WriteLsn, EndOf

\* Raising the term keeps the safekeeper typed.
LEMMA WithTermType ==
    ASSUME NEW k \in SafekeeperOK, NEW t \in Nat
    PROVE  /\ WithTerm(k, t) \in SafekeeperOK
           /\ WithTerm(k, t).term = Larger(k.term, t)
           /\ WithTerm(k, t).wal = k.wal
  <1>1. CASE k.term < t
    <2> DEFINE k1 == Persisted(k)
    <2>1. k1 \in SafekeeperOK /\ k1.term = k.term /\ k1.wal = k.wal
      BY PersistedType, Zenon DEF SafekeeperOK, SafekeeperType, Persisted
    <2>2. WithTerm(k, t) = [k1 EXCEPT !.term = t]
      BY <1>1 DEF WithTerm
    <2>3. Larger(k.term, t) = t
      BY <1>1 DEF SafekeeperOK, SafekeeperType, Larger
    <2> HIDE DEF k1
    <2> QED
      BY <2>1, <2>2, <2>3 DEF SafekeeperOK, SafekeeperType, WriteLsn
  <1>2. CASE ~(k.term < t)
    BY <1>2 DEF SafekeeperOK, SafekeeperType, WithTerm, Larger
  <1> QED
    BY <1>1, <1>2

\* The history a safekeeper reports is a history.
LEMMA HistoryOfType ==
    ASSUME NEW k \in SafekeeperOK
    PROVE  TermHistoryOf(k) \in History /\ LastLogTerm(k) \in Nat
    BY UpToType, HighestTermType
       DEF SafekeeperOK, SafekeeperType, TermHistoryOf, LastLogTerm

\* Giving a vote keeps the safekeeper typed.
LEMMA AfterVoteType ==
    ASSUME NEW k \in SafekeeperOK, NEW m \in VoteRequestType
    PROVE  /\ AfterVoteRequest(k, m) \in SafekeeperOK
           /\ AfterVoteRequest(k, m).term = Larger(k.term, m.term)
    BY FlushedType, WithTermType DEF AfterVoteRequest, VoteRequestType

\* The answer to a vote request is a message.
LEMMA VoteResponseIsTyped ==
    ASSUME NEW k \in SafekeeperOK, NEW m \in VoteRequestType
    PROVE  VoteResponse(k, m) \in VoteResponseType
  <1> DEFINE k1 == AfterVoteRequest(k, m)
  <1>1. k1 \in SafekeeperOK
    BY AfterVoteType
  <1>2. TermHistoryOf(k1) \in History
    BY <1>1, HistoryOfType
  <1>3. k1.term \in Nat /\ k1.flush \in Nat \ {0}
    BY <1>1 DEF SafekeeperOK, SafekeeperType
  <1>4. k.horizon \in Nat /\ (k.term < m.term) \in BOOLEAN
    BY DEF SafekeeperOK, SafekeeperType
  <1> HIDE DEF k1
  <1>5. VoteResponse(k, m) =
           [type |-> "vote", term |-> k1.term, given |-> k.term < m.term,
            flush |-> k1.flush, truncate |-> k.horizon,
            history |-> TermHistoryOf(k1)]
    BY DEF VoteResponse, k1
  <1> QED
    BY <1>2, <1>3, <1>4, <1>5 DEF VoteResponseType

\* The answer to an append request is a message.
LEMMA AppendResponseIsTyped ==
    ASSUME NEW k \in SafekeeperOK
    PROVE  /\ AppendResponse(k) \in AppendResponseType
           /\ TermOnlyResponse(k) \in AppendResponseType
    BY DEF SafekeeperOK, SafekeeperType, AppendResponse, TermOnlyResponse,
           AppendResponseType

\* The point up to which a safekeeper keeps its WAL is not zero.
LEMMA CommonPointNotZero ==
    ASSUME NEW k \in SafekeeperOK, NEW m \in ElectedType
    PROVE  CommonPoint(k, m) \in Nat \ {0}
  <1>1. m.history \in History /\ m.history # <<>>
    BY DEF ElectedType
  <1>2. m.history[1].lsn \in Nat \ {0}
    BY <1>1, HistoryShape
  <1>3. TermHistoryOf(k) \in History
    BY HistoryOfType
  <1>4. k.flush \in Nat \ {0}
    BY DEF SafekeeperOK, SafekeeperType
  <1>5. HighestCommonPoint(m.history, TermHistoryOf(k), k.flush) \in Nat
    BY <1>1, <1>3, <1>4, CommonPointType
  <1> QED
    BY <1>2, <1>5 DEF CommonPoint

\* truncate_wal keeps the safekeeper typed.
LEMMA TruncatedType ==
    ASSUME NEW k \in SafekeeperOK, NEW lsn \in 1..WriteLsn(k)
    PROVE  /\ Truncated(k, lsn) \in SafekeeperOK
           /\ Truncated(k, lsn).term = k.term
  <1>1. k.wal \in Seq(Computes)
    BY DEF SafekeeperOK, SafekeeperType
  <1>2. lsn \in Nat \ {0} /\ lsn \in 1..EndOf(k.wal)
    BY <1>1 DEF WriteLsn, EndOf
  <1>3. /\ Below(k.wal, lsn) \in Seq(Computes)
        /\ EndOf(Below(k.wal, lsn)) = lsn
    BY <1>1, <1>2, BelowType
  <1>4. /\ Truncated(k, lsn) \in SafekeeperType
        /\ Truncated(k, lsn).term = k.term
        /\ Truncated(k, lsn).flush = lsn
        /\ Truncated(k, lsn).wal = Below(k.wal, lsn)
    BY <1>2, <1>3 DEF SafekeeperOK, SafekeeperType, Truncated
  <1> QED
    BY <1>2, <1>3, <1>4 DEF SafekeeperOK, WriteLsn

\* process_msg(ProposerElected) keeps the safekeeper typed.
LEMMA AfterElectedType ==
    ASSUME NEW k \in SafekeeperOK, NEW m \in ElectedType, ~ElectedRefused(k, m)
    PROVE  /\ AfterElected(k, m) \in SafekeeperOK
           /\ AfterElected(k, m).term = Larger(k.term, m.term)
  <1> DEFINE k1 == WithTerm(k, m.term)
             k2 == Truncated(k1, m.start)
             k3 == Persisted(k2)
  <1>1. m.term \in Nat /\ m.history \in History /\ m.history # <<>>
    BY DEF ElectedType
  <1>2. m.start \in 1..WriteLsn(k)
    BY CommonPointNotZero DEF ElectedRefused, WriteLsn, EndOf, SafekeeperOK, SafekeeperType
  <1>3. k1 \in SafekeeperOK /\ k1.term = Larger(k.term, m.term) /\ WriteLsn(k1) = WriteLsn(k)
    BY <1>1, WithTermType DEF WriteLsn
  <1>4. k2 \in SafekeeperOK /\ k2.term = k1.term
    BY <1>2, <1>3, TruncatedType
  <1>5. k3 \in SafekeeperOK /\ k3.term = k2.term
    BY <1>4, PersistedType
  <1>6. m.history[Len(m.history)].lsn \in Nat
    BY <1>1, HistoryShape
  <1>7. AfterElected(k, m) = [k3 EXCEPT !.history   = m.history,
                                        !.termStart = m.history[Len(m.history)].lsn]
    BY DEF AfterElected
  <1> HIDE DEF k1, k2, k3
  <1> QED
    BY <1>1, <1>3, <1>4, <1>5, <1>6, <1>7 DEF SafekeeperOK, SafekeeperType, WriteLsn

\* update_commit_lsn keeps the safekeeper typed.
LEMMA WithCommitType ==
    ASSUME NEW k \in SafekeeperOK, NEW c \in Nat
    PROVE  WithCommit(k, c) \in SafekeeperOK /\ WithCommit(k, c).term = k.term
  <1> DEFINE d  == Smaller(Larger(c, k.commit), k.flush)
             k1 == [k EXCEPT !.commit = d]
  <1>1. d \in Nat
    BY SmallerLarger DEF SafekeeperOK, SafekeeperType
  <1> HIDE DEF d
  <1>2. k1 \in SafekeeperOK /\ k1.term = k.term
    BY <1>1 DEF SafekeeperOK, SafekeeperType, WriteLsn
  <1>3. Persisted(k1) \in SafekeeperOK /\ Persisted(k1).term = k.term
    BY <1>2, PersistedType
  <1>4. WithCommit(k, c) \in {k1, Persisted(k1)}
    BY DEF WithCommit, d
  <1> QED
    BY <1>2, <1>3, <1>4

\* process_msg(AppendRequest) keeps the safekeeper typed.
LEMMA AfterAppendType ==
    ASSUME NEW k \in SafekeeperOK, NEW m \in AppendRequestType
    PROVE  AfterAppend(k, m) \in SafekeeperOK /\ AfterAppend(k, m).term = k.term
  <1> DEFINE k1 == [k EXCEPT !.wal = k.wal \o m.recs]
             k2 == IF m.commit # InvalidLsn THEN WithCommit(k1, m.commit) ELSE k1
  <1>1. k.wal \o m.recs \in Seq(Computes) /\ Len(k.wal \o m.recs) >= Len(k.wal)
    BY DEF SafekeeperOK, SafekeeperType, AppendRequestType
  <1> DEFINE wal == k.wal \o m.recs
  <1>2. k1 \in SafekeeperOK /\ k1.term = k.term
    <2>1. /\ k.wal \in Seq(Computes) /\ k.flush \in Nat
          /\ 1 <= k.flush /\ k.flush <= 1 + Len(k.wal)
      BY DEF SafekeeperOK, SafekeeperType, WriteLsn, EndOf
    <2>2. wal \in Seq(Computes) /\ Len(wal) >= Len(k.wal)
      BY <1>1
    <2> HIDE DEF wal
    <2>3. /\ k1 \in SafekeeperType /\ k1.term = k.term
          /\ k1.wal = wal /\ k1.flush = k.flush
      BY <2>2 DEF SafekeeperOK, SafekeeperType, wal
    <2> HIDE DEF k1
    <2>4. k1.flush \in 1..(1 + Len(k1.wal))
      BY <2>1, <2>2, <2>3
    <2> QED
      BY <2>3, <2>4 DEF SafekeeperOK, WriteLsn, EndOf
  <1>3. m.commit \in Nat /\ m.truncate \in Nat
    BY DEF AppendRequestType
  <1> HIDE DEF k1
  <1>4. k2 \in SafekeeperOK /\ k2.term = k.term
    BY <1>2, <1>3, WithCommitType
  <1> HIDE DEF k2
  <1>5. Larger(k2.horizon, m.truncate) \in Nat
    BY <1>3, <1>4, SmallerLarger DEF SafekeeperOK, SafekeeperType
  <1>6. AfterAppend(k, m) = [k2 EXCEPT !.horizon = Larger(k2.horizon, m.truncate)]
    BY DEF AfterAppend, k1, k2
  <1> QED
    BY <1>4, <1>5, <1>6 DEF SafekeeperOK, SafekeeperType, WriteLsn

\* record_safekeeper_info keeps the safekeeper typed.
LEMMA AfterPeerInfoType ==
    ASSUME NEW k \in SafekeeperOK,
           NEW i \in [lastLogTerm : Nat, commit : Nat, horizon : Nat]
    PROVE  AfterPeerInfo(k, i) \in SafekeeperOK /\ AfterPeerInfo(k, i).term = k.term
  <1> DEFINE k1 == IF i.lastLogTerm = LastLogTerm(k) THEN WithCommit(k, i.commit) ELSE k
  <1>1. k1 \in SafekeeperOK /\ k1.term = k.term
    BY WithCommitType
  <1>2. Larger(k.horizon, i.horizon) \in Nat
    BY SmallerLarger DEF SafekeeperOK, SafekeeperType
  <1>3. AfterPeerInfo(k, i) = [k1 EXCEPT !.horizon = Larger(k.horizon, i.horizon)]
    BY DEF AfterPeerInfo
  <1> HIDE DEF k1
  <1> QED
    BY <1>1, <1>2, <1>3 DEF SafekeeperOK, SafekeeperType, WriteLsn

\* What a safekeeper publishes to the broker is a message.
LEMMA PeerInfoIsTyped ==
    ASSUME NEW k \in SafekeeperOK
    PROVE  PeerInfo(k) \in [lastLogTerm : Nat, commit : Nat, horizon : Nat]
    BY HistoryOfType DEF PeerInfo, SafekeeperOK, SafekeeperType

\* A restarted safekeeper is typed.
LEMMA RestartedType ==
    ASSUME NEW k \in SafekeeperOK, NEW end \in 1..WriteLsn(k)
    PROVE  Restarted(k, end) \in SafekeeperOK /\ Restarted(k, end).term = k.term
  <1>1. k.wal \in Seq(Computes)
    BY DEF SafekeeperOK, SafekeeperType
  <1>2. end \in Nat \ {0} /\ end \in 1..EndOf(k.wal)
    BY <1>1 DEF WriteLsn, EndOf
  <1>3. /\ Below(k.wal, end) \in Seq(Computes)
        /\ EndOf(Below(k.wal, end)) = end
    BY <1>1, <1>2, BelowType
  <1>4. /\ Restarted(k, end) \in SafekeeperType
        /\ Restarted(k, end).term = k.term
        /\ Restarted(k, end).flush = end
        /\ Restarted(k, end).wal = Below(k.wal, end)
    BY <1>2, <1>3 DEF SafekeeperOK, SafekeeperType, Restarted
  <1> QED
    BY <1>2, <1>3, <1>4 DEF SafekeeperOK, WriteLsn

-----------------------------------------------------------------------------
(***************************************************************************)
(* The same for the walproposer.  An elected one has a history that ends   *)
(* with its own term.                                                      *)
(***************************************************************************)
ProposerOK ==
    {w \in ProposerType :
        w.state = "elected" => /\ w.history # <<>>
                               /\ w.history[Len(w.history)].term = w.term}

\* A compute that is started again is typed.
LEMMA RestartingType ==
    ASSUME NEW w \in ProposerOK
    PROVE  /\ Restarting(w) \in ProposerOK /\ Restarting(w).state = "collecting"
           /\ Restarting(w).mode = w.mode
  <1>1. <<>> \in History
    BY EmptySeq DEF History
  <1> QED
    BY <1>1 DEF ProposerOK, ProposerType, Restarting

\* Single assignments: Postgres' end of WAL, and the term while collecting.
LEMMA ProposerFieldsType ==
    ASSUME NEW w \in ProposerOK, NEW n \in Nat
    PROVE  /\ [w EXCEPT !.end = n] \in ProposerOK
           /\ [w EXCEPT !.end = n].state = w.state
           /\ [w EXCEPT !.end = n].term = w.term
           /\ [w EXCEPT !.end = n].mode = w.mode
           /\ w.state # "elected" =>
                 /\ [w EXCEPT !.term = n] \in ProposerOK
                 /\ [w EXCEPT !.term = n].state = w.state
                 /\ [w EXCEPT !.term = n, !.state = "campaign"] \in ProposerOK
                 /\ [w EXCEPT !.term = n, !.state = "campaign"].state = "campaign"
                 /\ [w EXCEPT !.term = n, !.state = "campaign"].term = n
  <1>1. w \in ProposerType
    BY DEF ProposerOK
  <1>2. [w EXCEPT !.end = n] \in ProposerType
    BY <1>1 DEF ProposerType
  <1>3. /\ [w EXCEPT !.end = n].state = w.state
        /\ [w EXCEPT !.end = n].term = w.term
        /\ [w EXCEPT !.end = n].mode = w.mode
        /\ [w EXCEPT !.end = n].history = w.history
    BY <1>1 DEF ProposerType
  <1>4. [w EXCEPT !.end = n] \in ProposerOK
    BY <1>2, <1>3 DEF ProposerOK
  <1>5. [w EXCEPT !.term = n] \in ProposerType /\ [w EXCEPT !.term = n].state = w.state
    BY <1>1 DEF ProposerType
  <1>6. /\ [w EXCEPT !.term = n, !.state = "campaign"] \in ProposerType
        /\ [w EXCEPT !.term = n, !.state = "campaign"].state = "campaign"
        /\ [w EXCEPT !.term = n, !.state = "campaign"].term = n
    BY <1>1 DEF ProposerType
  <1> QED
    BY <1>3, <1>4, <1>5, <1>6 DEF ProposerOK

\* A compute whose sync has ended is typed.
LEMMA SyncedOnType ==
    ASSUME NEW w \in ProposerOK, NEW by \in SUBSET Safekeepers, NEW lsn \in Nat
    PROVE  /\ SyncedOn(w, by, lsn) \in ProposerOK
           /\ SyncedOn(w, by, lsn).state = w.state
           /\ SyncedOn(w, by, lsn).mode = w.mode
           /\ SyncedOn(w, by, lsn).term = w.term
    BY DEF ProposerOK, ProposerType, SyncedOn

\* A compute that starts its walproposer is typed.
LEMMA SynchronizingType ==
    ASSUME NEW w \in ProposerOK
    PROVE  /\ Synchronizing(w) \in ProposerOK
           /\ Synchronizing(w).state = w.state
           /\ Synchronizing(w).mode = "sync"
           /\ Synchronizing(w).term = w.term
  <1> DEFINE w1 == SyncedOn(w, {}, InvalidLsn)
  <1>1. w1 \in ProposerOK /\ w1.state = w.state /\ w1.term = w.term
    BY SyncedOnType
  <1>2. Synchronizing(w) = [w1 EXCEPT !.mode = "sync"]
    BY DEF Synchronizing
  <1> HIDE DEF w1
  <1> QED
    BY <1>1, <1>2 DEF ProposerOK, ProposerType

\* A compute that starts postgres is typed.
LEMMA PostgresAtType ==
    ASSUME NEW w \in ProposerOK, NEW lsn \in Nat
    PROVE  /\ PostgresAt(w, lsn) \in ProposerOK
           /\ PostgresAt(w, lsn).state = "collecting"
           /\ PostgresAt(w, lsn).mode = "compute"
  <1> DEFINE w1 == Restarting(SyncedOn(w, {}, InvalidLsn))
  <1>1. w1 \in ProposerOK /\ w1.state = "collecting"
    BY SyncedOnType, RestartingType
  <1>2. PostgresAt(w, lsn) =
           [w1 EXCEPT !.mode = "compute", !.base = lsn, !.end = lsn, !.mine = 0]
    BY DEF PostgresAt
  <1> HIDE DEF w1
  <1>3. PostgresAt(w, lsn) \in ProposerType
    <2>1. w1 \in ProposerType
      BY <1>1 DEF ProposerOK
    <2> DEFINE w2 == [w1 EXCEPT !.mode = "compute", !.base = lsn]
    <2>2. w2 \in ProposerType
      BY <2>1 DEF ProposerType
    <2> DEFINE w3 == [w2 EXCEPT !.end = lsn]
    <2>3. w3 \in ProposerType
      <3> HIDE DEF w2
      <3> QED BY <2>2 DEF ProposerType
    <2> DEFINE w4 == [w3 EXCEPT !.mine = 0]
    <2>4. w4 \in ProposerType
      <3> HIDE DEF w3
      <3> QED BY <2>3 DEF ProposerType
    <2>5. PostgresAt(w, lsn) = w4
      BY <1>2
    <2> QED
      BY <2>4, <2>5
  <1>4. /\ PostgresAt(w, lsn).state = "collecting"
        /\ PostgresAt(w, lsn).mode = "compute"
    BY <1>1, <1>2 DEF ProposerOK, ProposerType
  <1> QED
    BY <1>3, <1>4 DEF ProposerOK

\* A panicked compute is typed.
LEMMA PanickedType ==
    ASSUME NEW w \in ProposerOK
    PROVE  /\ Panicked(w) \in ProposerOK /\ Panicked(w).state = "collecting"
           /\ Panicked(w).mode = "dead"
  <1> DEFINE w1 == Restarting(w)
  <1>1. w1 \in ProposerOK /\ w1.state = "collecting"
    BY RestartingType
  <1>2. Panicked(w) = [w1 EXCEPT !.mode = "dead"]
    BY DEF Panicked
  <1> HIDE DEF w1
  <1> QED
    BY <1>1, <1>2 DEF ProposerOK, ProposerType

\* A compute that won its election is typed.
LEMMA ElectedOnType ==
    ASSUME NEW w \in ProposerOK, NEW D \in SUBSET Safekeepers,
           NEW v \in VoteResponseType, NEW t \in Nat
    PROVE  /\ ElectedOn(w, D, v, t) \in ProposerOK
           /\ ElectedOn(w, D, v, t).state = "elected"
           /\ ElectedOn(w, D, v, t).mode = w.mode
           /\ ElectedOn(w, D, v, t).term = w.term
  <1> DEFINE e == [term |-> w.term, lsn |-> v.flush]
             h == Append(v.history, e)
  <1>1. v.flush \in Nat \ {0} /\ v.history \in History /\ w.term \in Nat
    BY DEF VoteResponseType, ProposerOK, ProposerType
  <1>2. e \in Entry /\ e.term = w.term
    BY <1>1 DEF Entry
  <1> HIDE DEF e
  <1>3. h \in History /\ h # <<>> /\ h[Len(h)] = e
    BY <1>1, <1>2, AppendProperties DEF History
  <1>4. ElectedOn(w, D, v, t) =
          [w EXCEPT !.state = "elected", !.start = v.flush, !.history = h,
                    !.truncate = t, !.donors = D, !.mine = w.term]
    BY DEF ElectedOn, e
  <1> HIDE DEF h
  <1> QED
    BY <1>1, <1>2, <1>3, <1>4, ZenonT(60) DEF ProposerOK, ProposerType

\* A compute that counted an acknowledgement is typed.
LEMMA WithAcksType ==
    ASSUME NEW w \in ProposerOK, NEW q \in Nat, NEW m \in Nat
    PROVE  /\ WithAcks(w, q, m) \in ProposerOK
           /\ WithAcks(w, q, m).state = w.state
           /\ WithAcks(w, q, m).mode = w.mode
           /\ WithAcks(w, q, m).term = w.term
           /\ WithAcks(w, q, m).base = w.base
  <1> DEFINE c == Larger(w.commit, q)
             t == Larger(w.truncate, Smaller(m, c))
  <1>1. c \in Nat /\ t \in Nat
    BY DEF ProposerOK, ProposerType, Larger, Smaller
  <1>2. WithAcks(w, q, m) = [w EXCEPT !.commit = c, !.truncate = t]
    BY DEF WithAcks
  <1> HIDE DEF c, t
  <1> QED
    BY <1>1, <1>2 DEF ProposerOK, ProposerType

-----------------------------------------------------------------------------
(***************************************************************************)
(* Connections.  What is streamed starts with the timeline.                *)
(***************************************************************************)
ConnOK == {c \in ConnType : c.state = "active" => c.sent >= StartLsn}

\* A fresh connection is typed.
LEMMA NewConnType ==
    /\ NewConn \in ConnOK /\ NewConn.state = "offline"
    /\ NewConn.req = <<>> /\ NewConn.rep = <<>>
    /\ NoOld \in OldType
    BY EmptySeq DEF NewConn, NoOld, ConnOK, ConnType, OldType

\* A closed connection is typed.
LEMMA OfflineType ==
    ASSUME NEW c \in ConnOK
    PROVE  /\ Offline(c) \in ConnOK
           /\ Offline(c).req = <<>> /\ Offline(c).rep = <<>>
    BY EmptySeq DEF Offline, NewConn, ConnOK, ConnType

\* What a closed connection leaves at the safekeeper is typed.
LEMMA LeftoverType ==
    ASSUME NEW c \in ConnOK
    PROVE  Leftover(c) \in OldType
    BY DEF Leftover, ConnOK, ConnType, OldType

\* What a compute sends first is a message.
LEMMA RequestsAreTyped ==
    ASSUME NEW w \in ProposerOK
    PROVE  /\ VoteRequest(w) \in VoteRequestType
           /\ \A lsn \in Nat, recs \in Seq(Computes) :
                 AppendRequest(w, lsn, recs) \in AppendRequestType
           /\ w.state = "elected" =>
                 \A lsn \in Nat : ProposerElected(w, lsn) \in ElectedType
    BY DEF ProposerOK, ProposerType, VoteRequest, VoteRequestType, AppendRequest,
           AppendRequestType, ProposerElected, ElectedType

\* SendProposerElected keeps the connection typed.
LEMMA SendElectedType ==
    ASSUME NEW c \in ConnOK, NEW w \in ProposerOK, w.state = "elected",
           NEW v \in VoteResponseType
    PROVE  /\ SendElected(c, w, v) \in ConnOK
           /\ SendElected(c, w, v).rep = <<>>
           /\ \A i \in 1..Len(SendElected(c, w, v).req) :
                 SendElected(c, w, v).req[i].type = "elected"
  <1> DEFINE start == StartStreamingAt(w.history, w.term, v.history, v.flush)
             m == ProposerElected(w, start)
  <1>1. start \in Nat \ {0}
    BY StreamingType DEF ProposerOK, ProposerType, VoteResponseType
  <1> HIDE DEF start
  <1>2. m \in ElectedType /\ m.type = "elected"
    BY <1>1, RequestsAreTyped DEF ProposerElected
  <1> HIDE DEF m
  <1>3. <<m>> \in Seq(RequestType) /\ Len(<<m>>) = 1 /\ <<m>>[1] = m
    BY <1>2 DEF RequestType
  <1>4. SendElected(c, w, v) =
          [c EXCEPT !.state = "active", !.sent = start, !.rep = <<>>,
                    !.told = <<InvalidLsn, w.truncate>>, !.req = <<m>>]
    BY DEF SendElected, start, m
  <1>5. <<InvalidLsn, w.truncate>> \in Nat \X Nat /\ <<>> \in Seq(ReplyType)
    BY EmptySeq DEF ProposerOK, ProposerType
  <1>6. SendElected(c, w, v) \in ConnType
    BY <1>1, <1>3, <1>4, <1>5 DEF ConnOK, ConnType
  <1>7. /\ SendElected(c, w, v).sent = start
        /\ SendElected(c, w, v).rep = <<>>
        /\ SendElected(c, w, v).req = <<m>>
    BY <1>4 DEF ConnOK, ConnType
  <1>8. SendElected(c, w, v) \in ConnOK
    BY <1>1, <1>6, <1>7 DEF ConnOK
  <1>9. \A i \in 1..Len(<<m>>) : <<m>>[i].type = "elected"
    BY <1>2, <1>3
  <1> QED
    BY <1>7, <1>8, <1>9

-----------------------------------------------------------------------------
(***************************************************************************)
(* The inductive form of TypeOK.                                           *)
(***************************************************************************)
TypeInv ==
    /\ sk \in [Safekeepers -> SafekeeperOK]
    /\ wp \in [Computes -> ProposerOK]
    /\ conn \in [Computes -> [Safekeepers -> ConnOK]]
    /\ old \in [Computes -> [Safekeepers -> OldType]]
    /\ info \in [lastLogTerm : Nat, commit : Nat, horizon : Nat]
    /\ budget \in [Faults -> Nat]
    /\ wins \in [0..MaxTerm -> Nat]
    /\ chosen \in Seq(Computes)

\* The inductive form implies the type invariant that TLC checks.
LEMMA TypeInvImpliesTypeOK == TypeInv => TypeOK
    BY DEF TypeInv, TypeOK, SafekeeperOK, ProposerOK, ConnOK

\* The initial states are typed.
LEMMA InitTypes == Init => TypeInv
  <1> SUFFICES ASSUME Init PROVE TypeInv
    OBVIOUS
  <1>1. InitSafekeeper \in SafekeeperOK
    <2> DEFINE h == <<[term |-> InitialTerm, lsn |-> StartLsn]>>
    <2>1. h \in History /\ <<>> \in Seq(Computes) /\ Len(<<>>) = 0
      BY EmptySeq DEF History, Entry, InitialTerm
    <2> HIDE DEF h
    <2> QED
      BY <2>1 DEF InitSafekeeper, SafekeeperOK, SafekeeperType, WriteLsn, EndOf,
                  InitialTerm, h
  <1>2. InitProposer \in ProposerOK
    BY EmptySeq DEF InitProposer, ProposerOK, ProposerType, History
  <1>3. chosen \in Seq(Computes)
    BY EmptySeq DEF Init
  <1>4. PeerInfo(InitSafekeeper) \in [lastLogTerm : Nat, commit : Nat, horizon : Nat]
    BY <1>1, PeerInfoIsTyped
  <1> QED
    BY <1>1, <1>2, <1>3, <1>4, NewConnType, BoundsAssumption DEF Init, TypeInv

\* Spending from a bound keeps it typed.
LEMMA SpendType ==
    ASSUME TypeInv, NEW fault \in Faults, Spend(fault)
    PROVE  budget' \in [Faults -> Nat]
    BY DEF TypeInv, Spend

\* Abandoning a connection keeps the connections typed.
LEMMA AbandonType ==
    ASSUME TypeInv, NEW p \in Computes, NEW cs \in [Safekeepers -> ConnOK],
           Abandon(p, cs)
    PROVE  old' \in [Computes -> [Safekeepers -> OldType]]
  <1>1. PICK K \in SUBSET Safekeepers :
           old' = [old EXCEPT ![p] = [s \in Safekeepers |->
                       IF s \in K THEN Leftover(cs[s]) ELSE old[p][s]]]
    BY DEF Abandon
  <1>2. [s \in Safekeepers |-> IF s \in K THEN Leftover(cs[s]) ELSE old[p][s]]
           \in [Safekeepers -> OldType]
    BY LeftoverType DEF TypeInv
  <1> QED
    BY <1>1, <1>2 DEF TypeInv

\* The end of a compute's process keeps every variable typed.
LEMMA ProcessEndsType ==
    ASSUME TypeInv, NEW p \in Computes, NEW w \in ProposerOK, ProcessEnds(p, w)
    PROVE  /\ wp' \in [Computes -> ProposerOK]
           /\ conn' \in [Computes -> [Safekeepers -> ConnOK]]
           /\ old' \in [Computes -> [Safekeepers -> OldType]]
           /\ wp'[p] = w
           /\ \A q \in Computes \ {p} : wp'[q] = wp[q] /\ conn'[q] = conn[q]
           /\ \A s \in Safekeepers : conn'[p][s] = NewConn
  <1>1. conn[p] \in [Safekeepers -> ConnOK]
    BY DEF TypeInv
  <1>2. old' \in [Computes -> [Safekeepers -> OldType]]
    BY <1>1, AbandonType DEF ProcessEnds
  <1> QED
    BY <1>2, NewConnType DEF ProcessEnds, TypeInv

(***************************************************************************)
(* What Done and Bail do, field by field.                                  *)
(***************************************************************************)
\* What answering a request leaves typed.
LEMMA DoneEffect ==
    ASSUME TypeInv, NEW p \in Computes, NEW s \in Safekeepers, NEW live \in BOOLEAN,
           Incoming(p, s, live) # <<>>, NEW reply \in Seq(ReplyType),
           NEW dirty \in BOOLEAN, Done(p, s, live, reply, dirty)
    PROVE  /\ conn' \in [Computes -> [Safekeepers -> ConnOK]]
           /\ old' \in [Computes -> [Safekeepers -> OldType]]
           /\ \A q \in Computes, x \in Safekeepers :
                 q # p \/ x # s => conn'[q][x] = conn[q][x]
           /\ live => /\ conn'[p][s].req = Tail(conn[p][s].req)
                      /\ conn'[p][s].rep = conn[p][s].rep \o reply
                      /\ conn'[p][s].dirty = (conn[p][s].dirty \/ dirty)
                      /\ conn'[p][s].state = conn[p][s].state
                      /\ conn'[p][s].ackFlush = conn[p][s].ackFlush
                      /\ old' = old
           /\ ~live => /\ conn' = conn /\ old'[p][s].req = Tail(old[p][s].req)
                       /\ \A q \in Computes, x \in Safekeepers :
                             q # p \/ x # s => old'[q][x] = old[q][x]
  <1>1. CASE live
    <2> DEFINE c == conn[p][s]
               req == Tail(c.req)
               rep == c.rep \o reply
               d == c.dirty \/ dirty
               c1 == [c EXCEPT !.req = req, !.rep = rep, !.dirty = d]
    <2>1. c \in ConnOK
      BY DEF TypeInv
    <2>2. c.req \in Seq(RequestType) /\ c.req # <<>> /\ c.rep \in Seq(ReplyType)
      BY <1>1, <2>1 DEF Incoming, ConnOK, ConnType
    <2>3. req \in Seq(RequestType) /\ rep \in Seq(ReplyType) /\ d \in BOOLEAN
      BY <2>1, <2>2, HeadTailProperties, ConcatProperties DEF ConnOK, ConnType
    <2>4. conn' = [conn EXCEPT ![p][s].req = req, ![p][s].rep = rep, ![p][s].dirty = d]
      BY <1>1 DEF Done, TypeInv
    <2> HIDE DEF req, rep, d
    <2>5. /\ c1 \in ConnOK /\ c1.req = req /\ c1.rep = rep
          /\ c1.dirty = d /\ c1.state = c.state /\ c1.ackFlush = c.ackFlush
      <3> HIDE DEF c
      <3> QED BY <2>1, <2>3 DEF ConnOK, ConnType
    <2>6. conn' = [conn EXCEPT ![p][s] = c1]
      BY <2>4 DEF TypeInv
    <2> HIDE DEF c1, c
    <2>7. old' = old
      BY <1>1 DEF Done
    <2>8. conn'[p][s] = c1
      BY <2>6 DEF TypeInv
    <2> QED
      BY <1>1, <2>5, <2>6, <2>7, <2>8 DEF TypeInv, req, rep, c, d
  <1>2. CASE ~live
    <2> DEFINE o == old[p][s]
               req == Tail(o.req)
               d == o.dirty \/ dirty
               o1 == [o EXCEPT !.req = req, !.dirty = d]
    <2>1. o \in OldType
      BY DEF TypeInv
    <2>2. o.req \in Seq(RequestType) /\ o.req # <<>>
      BY <1>2, <2>1 DEF Incoming, OldType
    <2>3. req \in Seq(RequestType) /\ d \in BOOLEAN
      BY <2>1, <2>2, HeadTailProperties DEF OldType
    <2>4. old' = [old EXCEPT ![p][s].req = req, ![p][s].dirty = d]
      BY <1>2 DEF Done, TypeInv
    <2> HIDE DEF req, d
    <2>5. o1 \in OldType /\ o1.req = req
      BY <2>1, <2>3 DEF OldType
    <2>6. old' = [old EXCEPT ![p][s] = o1]
      BY <2>4 DEF TypeInv
    <2> HIDE DEF o1, o
    <2>7. conn' = conn
      BY <1>2 DEF Done
    <2> QED
      BY <1>2, <2>5, <2>6, <2>7 DEF TypeInv, req, o
  <1> QED
    BY <1>1, <1>2

\* A connection thread that bails out leaves the computes and elections alone.
LEMMA BailEffect ==
    ASSUME TypeInv, NEW p \in Computes, NEW s \in Safekeepers, NEW live \in BOOLEAN,
           Bail(p, s, live)
    PROVE  /\ conn' \in [Computes -> [Safekeepers -> ConnOK]]
           /\ old' \in [Computes -> [Safekeepers -> OldType]]
           /\ \A q \in Computes, x \in Safekeepers :
                 \/ conn'[q][x] = conn[q][x]
                 \/ conn'[q][x].req = <<>> /\ conn'[q][x].rep = <<>>
  <1>1. CASE live
    <2> DEFINE c1 == Offline(conn[p][s])
    <2>1. c1 \in ConnOK /\ c1.req = <<>> /\ c1.rep = <<>>
      BY OfflineType DEF TypeInv
    <2>2. conn' = [conn EXCEPT ![p][s] = c1] /\ old' = old
      BY <1>1 DEF Bail, TypeInv
    <2> HIDE DEF c1
    <2> QED
      BY <2>1, <2>2 DEF TypeInv
  <1>2. CASE ~live
    <2>1. conn' = conn /\ old' = [old EXCEPT ![p][s] = NoOld]
      BY <1>2 DEF Bail
    <2> QED
      BY <2>1, NewConnType DEF TypeInv
  <1> QED
    BY <1>1, <1>2

-----------------------------------------------------------------------------
(***************************************************************************)
(* Votes on the way: a vote of term t is asked for in req, or given in     *)
(* rep.                                                                    *)
(***************************************************************************)
Asked(req, t) ==
    \E i \in 1..Len(req) : req[i].type = "vote" /\ req[i].term = t

Given(rep, t) ==
    \E i \in 1..Len(rep) : rep[i].type = "vote" /\ rep[i].given /\ rep[i].term = t

\* The step asks for no new vote and gives none.
VotesFade ==
    \A q \in Computes, x \in Safekeepers, t \in Nat :
        /\ Asked(conn'[q][x].req, t) => Asked(conn[q][x].req, t)
        /\ Given(conn'[q][x].rep, t) => Given(conn[q][x].rep, t)

\* An empty queue holds no vote request and no vote.
LEMMA NothingAsked ==
    ASSUME NEW t
    PROVE  ~Asked(<<>>, t) /\ ~Given(<<>>, t)
  <1>1. Len(<<>>) = 0
    BY EmptySeq
  <1> QED
    BY <1>1 DEF Asked, Given

\* How taking and adding a request change the votes asked for.
LEMMA AskedSeq ==
    ASSUME NEW req \in Seq(RequestType), NEW t \in Nat
    PROVE  /\ req # <<>> => (Asked(Tail(req), t) => Asked(req, t))
           /\ req # <<>> /\ Head(req).type = "vote" => Asked(req, Head(req).term)
           /\ \A m \in RequestType :
                 Asked(Append(req, m), t) =>
                     Asked(req, t) \/ (m.type = "vote" /\ m.term = t)
  <1>1. ASSUME req # <<>>, Asked(Tail(req), t) PROVE Asked(req, t)
    <2>1. PICK i \in 1..Len(Tail(req)) : Tail(req)[i].type = "vote" /\ Tail(req)[i].term = t
      BY <1>1 DEF Asked
    <2>2. i + 1 \in 1..Len(req) /\ Tail(req)[i] = req[i + 1]
      BY <1>1, <2>1, HeadTailProperties
    <2> QED
      BY <2>1, <2>2 DEF Asked
  <1>2. ASSUME req # <<>>, Head(req).type = "vote" PROVE Asked(req, Head(req).term)
    <2>1. 1 \in 1..Len(req) /\ Head(req) = req[1]
      BY <1>2, EmptySeq, LenProperties
    <2> QED
      BY <1>2, <2>1 DEF Asked
  <1>3. ASSUME NEW m \in RequestType, Asked(Append(req, m), t)
        PROVE  Asked(req, t) \/ (m.type = "vote" /\ m.term = t)
    <2>1. PICK i \in 1..Len(Append(req, m)) :
             Append(req, m)[i].type = "vote" /\ Append(req, m)[i].term = t
      BY <1>3 DEF Asked
    <2>2. /\ Len(req) \in Nat /\ i \in 1..(Len(req) + 1)
          /\ i \in 1..Len(req) => Append(req, m)[i] = req[i]
          /\ i = Len(req) + 1 => Append(req, m)[i] = m
      BY <2>1, AppendProperties
    <2> QED
      BY <2>1, <2>2 DEF Asked
  <1> QED
    BY <1>1, <1>2, <1>3

\* How taking and adding an answer change the votes given.
LEMMA GivenSeq ==
    ASSUME NEW rep \in Seq(ReplyType), NEW t \in Nat
    PROVE  /\ rep # <<>> => (Given(Tail(rep), t) => Given(rep, t))
           /\ rep # <<>> /\ Head(rep).type = "vote" /\ Head(rep).given =>
                 Given(rep, Head(rep).term)
           /\ \A r \in ReplyType :
                 Given(Append(rep, r), t) =>
                     Given(rep, t) \/ (r.type = "vote" /\ r.given /\ r.term = t)
  <1>1. ASSUME rep # <<>>, Given(Tail(rep), t) PROVE Given(rep, t)
    <2>1. PICK i \in 1..Len(Tail(rep)) :
             Tail(rep)[i].type = "vote" /\ Tail(rep)[i].given /\ Tail(rep)[i].term = t
      BY <1>1 DEF Given
    <2>2. i + 1 \in 1..Len(rep) /\ Tail(rep)[i] = rep[i + 1]
      BY <1>1, <2>1, HeadTailProperties
    <2> QED
      BY <2>1, <2>2 DEF Given
  <1>2. ASSUME rep # <<>>, Head(rep).type = "vote", Head(rep).given
        PROVE  Given(rep, Head(rep).term)
    <2>1. 1 \in 1..Len(rep) /\ Head(rep) = rep[1]
      BY <1>2, EmptySeq, LenProperties
    <2> QED
      BY <1>2, <2>1 DEF Given
  <1>3. ASSUME NEW r \in ReplyType, Given(Append(rep, r), t)
        PROVE  Given(rep, t) \/ (r.type = "vote" /\ r.given /\ r.term = t)
    <2>1. PICK i \in 1..Len(Append(rep, r)) :
             /\ Append(rep, r)[i].type = "vote" /\ Append(rep, r)[i].given
             /\ Append(rep, r)[i].term = t
      BY <1>3 DEF Given
    <2>2. /\ Len(rep) \in Nat /\ i \in 1..(Len(rep) + 1)
          /\ i \in 1..Len(rep) => Append(rep, r)[i] = rep[i]
          /\ i = Len(rep) + 1 => Append(rep, r)[i] = r
      BY <2>1, AppendProperties
    <2> QED
      BY <2>1, <2>2 DEF Given
  <1> QED
    BY <1>1, <1>2, <1>3

\* The step asks for no new vote and gives none but r.
OnlyVoteIs(p, s, live, r) ==
    \A q \in Computes, x \in Safekeepers, t \in Nat :
        /\ Asked(conn'[q][x].req, t) => Asked(conn[q][x].req, t)
        /\ Given(conn'[q][x].rep, t) =>
              \/ Given(conn[q][x].rep, t)
              \/ /\ q = p /\ x = s /\ live
                 /\ r.type = "vote" /\ r.given /\ r.term = t

\* Answering a request adds no vote but the one of the answer.
LEMMA DoneFades ==
    ASSUME TypeInv, NEW p \in Computes, NEW s \in Safekeepers, NEW live \in BOOLEAN,
           Incoming(p, s, live) # <<>>, NEW reply, NEW r \in ReplyType,
           reply = <<>> \/ reply = <<r>>,
           NEW dirty \in BOOLEAN, Done(p, s, live, reply, dirty)
    PROVE  OnlyVoteIs(p, s, live, r)
  <1>1. reply \in Seq(ReplyType)
    <2>1. <<r>> \in Seq(ReplyType)
      OBVIOUS
    <2>2. <<>> \in Seq(ReplyType)
      BY EmptySeq
    <2> QED
      BY <2>1, <2>2
  <1>2. /\ \A q \in Computes, x \in Safekeepers :
              q # p \/ x # s => conn'[q][x] = conn[q][x]
        /\ live => /\ conn'[p][s].req = Tail(conn[p][s].req)
                   /\ conn'[p][s].rep = conn[p][s].rep \o reply
        /\ ~live => conn' = conn
    BY <1>1, DoneEffect
  <1>3. ASSUME live, NEW t \in Nat
        PROVE  /\ Asked(conn'[p][s].req, t) => Asked(conn[p][s].req, t)
               /\ Given(conn'[p][s].rep, t) =>
                     \/ Given(conn[p][s].rep, t)
                     \/ reply = <<r>> /\ r.type = "vote" /\ r.given /\ r.term = t
    <2> DEFINE req == conn[p][s].req
               rep == conn[p][s].rep
    <2>1. req \in Seq(RequestType) /\ rep \in Seq(ReplyType) /\ req # <<>>
      BY <1>3 DEF TypeInv, ConnOK, ConnType, Incoming
    <2>2. conn'[p][s].req = Tail(req) /\ conn'[p][s].rep = rep \o reply
      BY <1>2, <1>3
    <2> HIDE DEF req, rep
    <2>3. rep \o <<>> = rep /\ rep \o <<r>> = Append(rep, r)
      BY <2>1, ConcatEmptySeq, AppendIsConcat
    <2>4. Asked(Tail(req), t) => Asked(req, t)
      BY <2>1, AskedSeq
    <2>5. CASE reply = <<>>
      BY <2>2, <2>3, <2>4, <2>5 DEF req, rep
    <2>6. CASE reply = <<r>>
      <3>1. conn'[p][s].rep = Append(rep, r)
        BY <2>2, <2>3, <2>6
      <3>2. Given(Append(rep, r), t) =>
               Given(rep, t) \/ (r.type = "vote" /\ r.given /\ r.term = t)
        BY <2>1, GivenSeq
      <3> QED
        BY <2>2, <2>4, <2>6, <3>1, <3>2 DEF req, rep
    <2> QED
      BY <2>5, <2>6
  <1> QED
    BY <1>2, <1>3 DEF OnlyVoteIs

\* A safekeeper that handles a message without an answer adds no vote.
LEMMA SilentDoneFades ==
    ASSUME TypeInv, NEW p \in Computes, NEW s \in Safekeepers, NEW live \in BOOLEAN,
           Incoming(p, s, live) # <<>>, NEW dirty \in BOOLEAN,
           \/ Done(p, s, live, <<>>, dirty)
           \/ Done(p, s, live, <<TermOnlyResponse(sk[s])>>, dirty)
    PROVE  VotesFade
  <1> DEFINE r == TermOnlyResponse(sk[s])
  <1>1. r \in ReplyType
    BY AppendResponseIsTyped DEF ReplyType, TypeInv
  <1>2. r.type # "vote"
    BY DEF TermOnlyResponse
  <1>3. PICK reply : reply \in {<<>>, <<r>>} /\ Done(p, s, live, reply, dirty)
    OBVIOUS
  <1> HIDE DEF r
  <1>4. OnlyVoteIs(p, s, live, r)
    BY <1>1, <1>3, DoneFades
  <1> QED
    BY <1>2, <1>4 DEF VotesFade, OnlyVoteIs

-----------------------------------------------------------------------------
(***************************************************************************)
(* Every action keeps the types.                                           *)
(***************************************************************************)
\* The next request of a connection is a message of the type asked for.
LEMMA IncomingType ==
    ASSUME TypeInv, NEW p \in Computes, NEW s \in Safekeepers, NEW live \in BOOLEAN,
           NEW type, IsNext(p, s, live, type)
    PROVE  /\ Incoming(p, s, live) \in Seq(RequestType)
           /\ Incoming(p, s, live) # <<>>
           /\ Head(Incoming(p, s, live)) \in RequestType
           /\ Head(Incoming(p, s, live)).type = type
           /\ type = "vote" => Head(Incoming(p, s, live)) \in VoteRequestType
           /\ type = "elected" => Head(Incoming(p, s, live)) \in ElectedType
           /\ type = "append" => Head(Incoming(p, s, live)) \in AppendRequestType
  <1>1. Incoming(p, s, live) \in Seq(RequestType)
    BY DEF TypeInv, ConnOK, ConnType, OldType, Incoming
  <1>2. Incoming(p, s, live) # <<>> /\ Head(Incoming(p, s, live)).type = type
    BY DEF IsNext
  <1>3. Head(Incoming(p, s, live)) \in RequestType
    BY <1>1, <1>2, HeadTailProperties
  <1> QED
    BY <1>1, <1>2, <1>3
       DEF RequestType, VoteRequestType, ElectedType, AppendRequestType

\* The head of a non-empty queue is a message.
LEMMA ReceivedType ==
    ASSUME TypeInv, NEW p \in Computes, NEW s \in Safekeepers, NEW type,
           Received(p, s, type)
    PROVE  /\ conn[p][s].rep \in Seq(ReplyType) /\ conn[p][s].rep # <<>>
           /\ Head(conn[p][s].rep).type = type
           /\ type = "vote" => Head(conn[p][s].rep) \in VoteResponseType
           /\ type = "append" => Head(conn[p][s].rep) \in AppendResponseType
  <1>1. conn[p][s].rep \in Seq(ReplyType)
    BY DEF TypeInv, ConnOK, ConnType
  <1>2. conn[p][s].rep # <<>> /\ Head(conn[p][s].rep).type = type
    BY DEF Received
  <1>3. Head(conn[p][s].rep) \in ReplyType
    BY <1>1, <1>2, HeadTailProperties
  <1> QED
    BY <1>1, <1>2, <1>3 DEF ReplyType, VoteResponseType, AppendResponseType

\* Handling a vote request keeps the state typed.
LEMMA HandleVoteRequestType ==
    ASSUME TypeInv, NEW p \in Computes, NEW s \in Safekeepers, NEW live \in BOOLEAN,
           HandleVoteRequest(p, s, live)
    PROVE  TypeInv'
  <1> DEFINE m == Head(Incoming(p, s, live))
             r == VoteResponse(sk[s], m)
  <1>1. m \in VoteRequestType /\ Incoming(p, s, live) # <<>>
    BY IncomingType DEF HandleVoteRequest
  <1>2. sk[s] \in SafekeeperOK
    BY DEF TypeInv
  <1>3. AfterVoteRequest(sk[s], m) \in SafekeeperOK /\ r \in VoteResponseType
    BY <1>1, <1>2, AfterVoteType, VoteResponseIsTyped
  <1>4. sk' = [sk EXCEPT ![s] = AfterVoteRequest(sk[s], m)] /\ Done(p, s, live, <<r>>, FALSE)
    BY DEF HandleVoteRequest, TypeInv
  <1> HIDE DEF m, r
  <1>5. <<r>> \in Seq(ReplyType)
    BY <1>3 DEF ReplyType
  <1>6. /\ conn' \in [Computes -> [Safekeepers -> ConnOK]]
        /\ old' \in [Computes -> [Safekeepers -> OldType]]
    BY <1>1, <1>4, <1>5, DoneEffect
  <1> QED
    BY <1>3, <1>4, <1>6 DEF TypeInv, HandleVoteRequest

\* Handling ProposerElected keeps the state typed.
LEMMA HandleElectedType ==
    ASSUME TypeInv, NEW p \in Computes, NEW s \in Safekeepers, NEW live \in BOOLEAN,
           HandleElected(p, s, live)
    PROVE  TypeInv' /\ VotesFade /\ \A x \in Safekeepers : sk'[x].term >= sk[x].term
  <1> DEFINE m == Head(Incoming(p, s, live))
  <1>1. m \in ElectedType /\ Incoming(p, s, live) # <<>> /\ m.term \in Nat
    BY IncomingType DEF HandleElected, ElectedType
  <1>2. sk[s] \in SafekeeperOK /\ \A x \in Safekeepers : sk[x].term \in Nat
    BY DEF TypeInv, SafekeeperOK, SafekeeperType
  <1>3. <<>> \in Seq(ReplyType)
    BY EmptySeq
  <1>4. CASE sk' = sk /\ Done(p, s, live, <<>>, FALSE)
    <2>1. /\ conn' \in [Computes -> [Safekeepers -> ConnOK]]
          /\ old' \in [Computes -> [Safekeepers -> OldType]]
      BY <1>1, <1>3, <1>4, DoneEffect
    <2>2. VotesFade
      BY <1>1, <1>3, <1>4, SilentDoneFades
    <2> QED
      BY <1>2, <1>4, <2>1, <2>2 DEF TypeInv, HandleElected
  <1>5. CASE sk' = [sk EXCEPT ![s] = WithTerm(sk[s], m.term)] /\ Bail(p, s, live)
    <2> HIDE DEF m
    <2>1. /\ WithTerm(sk[s], m.term) \in SafekeeperOK
          /\ WithTerm(sk[s], m.term).term >= sk[s].term
      BY <1>1, <1>2, WithTermType, SmallerLarger, ZenonT(60)
    <2>2. /\ conn' \in [Computes -> [Safekeepers -> ConnOK]]
          /\ old' \in [Computes -> [Safekeepers -> OldType]]
      BY <1>5, BailEffect
    <2>3. VotesFade
      BY <1>5, BailEffect, NothingAsked DEF VotesFade
    <2> QED
      BY <1>2, <1>5, <2>1, <2>2, <2>3 DEF TypeInv, HandleElected
  <1>6. CASE /\ ~ElectedRefused(sk[s], m)
             /\ sk' = [sk EXCEPT ![s] = AfterElected(sk[s], m)]
             /\ Done(p, s, live, <<>>, FALSE)
    <2> HIDE DEF m
    <2>1. /\ AfterElected(sk[s], m) \in SafekeeperOK
          /\ AfterElected(sk[s], m).term >= sk[s].term
      BY <1>1, <1>2, <1>6, AfterElectedType, SmallerLarger, ZenonT(60)
    <2>2. /\ conn' \in [Computes -> [Safekeepers -> ConnOK]]
          /\ old' \in [Computes -> [Safekeepers -> OldType]]
      BY <1>1, <1>3, <1>6, DoneEffect
    <2>3. VotesFade
      BY <1>1, <1>3, <1>6, SilentDoneFades
    <2> QED
      BY <1>2, <1>6, <2>1, <2>2, <2>3 DEF TypeInv, HandleElected
  <1> QED
    BY <1>4, <1>5, <1>6 DEF HandleElected

\* Handling an append request keeps the state typed.
LEMMA HandleAppendType ==
    ASSUME TypeInv, NEW p \in Computes, NEW s \in Safekeepers, NEW live \in BOOLEAN,
           HandleAppendRequest(p, s, live)
    PROVE  TypeInv' /\ VotesFade /\ \A x \in Safekeepers : sk'[x].term = sk[x].term
  <1> DEFINE m == Head(Incoming(p, s, live))
             r == TermOnlyResponse(sk[s])
             o == OwesFlush(p, s, AfterAppend(sk[s], m))
  <1>1. m \in AppendRequestType /\ Incoming(p, s, live) # <<>>
    BY IncomingType DEF HandleAppendRequest
  <1>2. sk[s] \in SafekeeperOK
    BY DEF TypeInv
  <1>3. <<r>> \in Seq(ReplyType) /\ <<>> \in Seq(ReplyType) /\ o \in BOOLEAN
    <2>1. r \in ReplyType
      BY <1>2, AppendResponseIsTyped DEF ReplyType
    <2>2. o \in BOOLEAN
      BY DEF OwesFlush
    <2> HIDE DEF r, o
    <2> QED
      BY <2>1, <2>2, EmptySeq
  <1> HIDE DEF r, o
  <1>4. CASE sk' = sk /\ Done(p, s, live, <<r>>, TRUE)
    <2>1. /\ conn' \in [Computes -> [Safekeepers -> ConnOK]]
          /\ old' \in [Computes -> [Safekeepers -> OldType]]
      BY <1>1, <1>3, <1>4, DoneEffect
    <2>2. VotesFade
      BY <1>1, <1>4, SilentDoneFades DEF r
    <2> QED
      BY <1>4, <2>1, <2>2 DEF TypeInv, HandleAppendRequest
  <1>5. CASE sk' = sk /\ Bail(p, s, live)
    <2>1. /\ conn' \in [Computes -> [Safekeepers -> ConnOK]]
          /\ old' \in [Computes -> [Safekeepers -> OldType]]
      BY <1>5, BailEffect
    <2>2. VotesFade
      BY <1>5, BailEffect, NothingAsked DEF VotesFade
    <2> QED
      BY <1>5, <2>1, <2>2 DEF TypeInv, HandleAppendRequest
  <1>6. CASE /\ sk' = [sk EXCEPT ![s] = AfterAppend(sk[s], m)]
             /\ Done(p, s, live, <<>>, o)
    <2>1. /\ AfterAppend(sk[s], m) \in SafekeeperOK
          /\ AfterAppend(sk[s], m).term = sk[s].term
      BY <1>1, <1>2, AfterAppendType
    <2> HIDE DEF m
    <2>2. /\ conn' \in [Computes -> [Safekeepers -> ConnOK]]
          /\ old' \in [Computes -> [Safekeepers -> OldType]]
      BY <1>1, <1>3, <1>6, DoneEffect
    <2>3. VotesFade
      BY <1>1, <1>3, <1>6, SilentDoneFades
    <2> QED
      BY <1>6, <2>1, <2>2, <2>3 DEF TypeInv, HandleAppendRequest
  <1> QED
    BY <1>4, <1>5, <1>6 DEF HandleAppendRequest, r, o

\* A step of one safekeeper that involves no connection.
LEMMA SafekeeperOnlyType ==
    ASSUME TypeInv, NEW s \in Safekeepers, NEW k \in SafekeeperOK,
           k.term >= sk[s].term,
           sk' = [sk EXCEPT ![s] = k],
           UNCHANGED <<wp, conn, old, wins, chosen>>,
           info' \in [lastLogTerm : Nat, commit : Nat, horizon : Nat],
           budget' \in [Faults -> Nat]
    PROVE  TypeInv' /\ VotesFade /\ \A x \in Safekeepers : sk'[x].term >= sk[x].term
  <1>1. \A x \in Safekeepers : sk[x].term \in Nat
    BY DEF TypeInv, SafekeeperOK, SafekeeperType
  <1> QED
    BY <1>1 DEF TypeInv, VotesFade

\* Flushing and acknowledging keeps the state typed.
LEMMA FlushWalType ==
    ASSUME TypeInv, NEW p \in Computes, NEW s \in Safekeepers, FlushWal(p, s)
    PROVE  TypeInv' /\ VotesFade /\ \A x \in Safekeepers : sk'[x].term = sk[x].term
  <1> DEFINE k == Flushed(sk[s])
             r == AppendResponse(k)
             c == conn[p][s]
             rep == Append(c.rep, r)
             c1 == [c EXCEPT !.dirty = FALSE, !.rep = rep]
  <1>1. k \in SafekeeperOK /\ k.term = sk[s].term
    BY FlushedType DEF TypeInv
  <1>2. sk' = [sk EXCEPT ![s] = k]
    BY DEF FlushWal, TypeInv
  <1> HIDE DEF k
  <1>3. r \in ReplyType /\ r.type # "vote"
    BY <1>1, AppendResponseIsTyped DEF ReplyType, AppendResponse
  <1>4. c \in ConnOK /\ c.rep \in Seq(ReplyType)
    BY DEF TypeInv, ConnOK, ConnType
  <1>5. conn' = [conn EXCEPT ![p][s] = c1]
    BY DEF FlushWal, TypeInv, k
  <1> HIDE DEF r, c
  <1>6. rep \in Seq(ReplyType) /\ \A t \in Nat : Given(rep, t) => Given(c.rep, t)
    BY <1>3, <1>4, GivenSeq, AppendProperties
  <1> HIDE DEF rep
  <1>7. c1 \in ConnOK /\ c1.req = c.req /\ c1.rep = rep
    BY <1>4, <1>6 DEF ConnOK, ConnType
  <1> HIDE DEF c1
  <1>8. TypeInv'
    <2>1. conn' \in [Computes -> [Safekeepers -> ConnOK]]
      BY <1>5, <1>7 DEF TypeInv
    <2>2. sk' \in [Safekeepers -> SafekeeperOK]
      BY <1>1, <1>2 DEF TypeInv
    <2>3. UNCHANGED <<wp, old, info, budget, wins, chosen>>
      BY DEF FlushWal
    <2> QED
      BY <2>1, <2>2, <2>3 DEF TypeInv
  <1>9. VotesFade
    BY <1>5, <1>6, <1>7 DEF VotesFade, TypeInv, c
  <1> QED
    BY <1>1, <1>2, <1>8, <1>9 DEF TypeInv

\* The end of an abandoned connection keeps the state typed.
LEMMA OldEndsType ==
    ASSUME TypeInv, NEW p \in Computes, NEW s \in Safekeepers, OldEnds(p, s)
    PROVE  TypeInv' /\ VotesFade /\ \A x \in Safekeepers : sk'[x].term = sk[x].term
  <1>1. Flushed(sk[s]) \in SafekeeperOK /\ Flushed(sk[s]).term = sk[s].term
    BY FlushedType DEF TypeInv
  <1>2. PICK k \in SafekeeperOK : k.term = sk[s].term /\ sk' = [sk EXCEPT ![s] = k]
    BY <1>1 DEF OldEnds, TypeInv
  <1>3. old' \in [Computes -> [Safekeepers -> OldType]]
    BY NewConnType DEF OldEnds, TypeInv
  <1> QED
    BY <1>2, <1>3 DEF OldEnds, TypeInv, VotesFade

\* Dropping all connections of a safekeeper keeps them typed.
LEMMA DropConnectionsType ==
    ASSUME TypeInv, NEW s \in Safekeepers, DropConnections(s)
    PROVE  /\ conn' \in [Computes -> [Safekeepers -> ConnOK]]
           /\ old' \in [Computes -> [Safekeepers -> OldType]]
           /\ VotesFade
  <1>1. conn' \in [Computes -> [Safekeepers -> ConnOK]]
    BY OfflineType DEF DropConnections, TypeInv
  <1>2. old' \in [Computes -> [Safekeepers -> OldType]]
    BY NewConnType DEF DropConnections, TypeInv
  <1>3. \A q \in Computes, x \in Safekeepers :
           \/ conn'[q][x] = conn[q][x]
           \/ conn'[q][x].req = <<>> /\ conn'[q][x].rep = <<>>
    BY OfflineType DEF DropConnections, TypeInv
  <1> QED
    BY <1>1, <1>2, <1>3, NothingAsked DEF VotesFade

\* A safekeeper's crash keeps the state typed.
LEMMA CrashSafekeeperType ==
    ASSUME TypeInv, NEW s \in Safekeepers, CrashSafekeeper(s)
    PROVE  TypeInv' /\ VotesFade /\ \A x \in Safekeepers : sk'[x].term = sk[x].term
  <1>1. sk[s] \in SafekeeperOK
    BY DEF TypeInv
  <1>2. PICK end \in sk[s].flush..WriteLsn(sk[s]) :
           sk' = [sk EXCEPT ![s] = Restarted(sk[s], end)]
    BY DEF CrashSafekeeper, TypeInv
  <1>3. end \in 1..WriteLsn(sk[s])
    BY <1>1, <1>2 DEF SafekeeperOK, SafekeeperType, WriteLsn, EndOf
  <1> DEFINE k == Restarted(sk[s], end)
  <1>4. k \in SafekeeperOK /\ k.term = sk[s].term
    BY <1>1, <1>3, RestartedType
  <1> HIDE DEF k
  <1>5. budget' \in [Faults -> Nat]
    BY SpendType DEF CrashSafekeeper, Faults
  <1>6. /\ conn' \in [Computes -> [Safekeepers -> ConnOK]]
        /\ old' \in [Computes -> [Safekeepers -> OldType]]
        /\ VotesFade
    BY DropConnectionsType DEF CrashSafekeeper
  <1> QED
    BY <1>2, <1>4, <1>5, <1>6 DEF CrashSafekeeper, TypeInv, k

\* A crash inside the handling of ProposerElected keeps the state typed.
LEMMA CrashInElectedType ==
    ASSUME TypeInv, NEW p \in Computes, NEW s \in Safekeepers, CrashInElected(p, s)
    PROVE  TypeInv' /\ VotesFade /\ \A x \in Safekeepers : sk'[x].term >= sk[x].term
  <1> DEFINE m == Head(conn[p][s].req)
             k1 == WithTerm(sk[s], m.term)
  <1>1. sk[s] \in SafekeeperOK /\ \A x \in Safekeepers : sk[x].term \in Nat
    BY DEF TypeInv, SafekeeperOK, SafekeeperType
  <1>2. m \in ElectedType /\ m.term \in Nat
    <2>1. IsNext(p, s, TRUE, "elected") /\ m = Head(Incoming(p, s, TRUE))
      BY DEF CrashInElected, Incoming
    <2> HIDE DEF m
    <2>2. m \in ElectedType
      BY <2>1, IncomingType
    <2> QED
      BY <2>2 DEF ElectedType
  <1>3. PICK end \in m.start..WriteLsn(sk[s]) : sk' = [sk EXCEPT ![s] = Restarted(k1, end)]
    BY DEF CrashInElected, TypeInv
  <1>4. ~ElectedRefused(sk[s], m)
    BY DEF CrashInElected
  <1> HIDE DEF m
  <1>5. k1 \in SafekeeperOK /\ k1.term >= sk[s].term /\ WriteLsn(k1) = WriteLsn(sk[s])
    BY <1>1, <1>2, WithTermType, SmallerLarger, ZenonT(60) DEF WriteLsn
  <1>6. end \in 1..WriteLsn(k1)
    <2>1. m.start \in Nat \ {0}
      BY <1>1, <1>2, <1>4, CommonPointNotZero DEF ElectedRefused
    <2>2. WriteLsn(sk[s]) \in Nat
      BY <1>1 DEF SafekeeperOK, SafekeeperType, WriteLsn, EndOf
    <2> QED
      BY <1>3, <1>5, <2>1, <2>2
  <1> HIDE DEF k1
  <1> DEFINE k == Restarted(k1, end)
  <1>7. k \in SafekeeperOK /\ k.term = k1.term
    BY <1>5, <1>6, RestartedType
  <1> HIDE DEF k
  <1>8. budget' \in [Faults -> Nat]
    BY SpendType DEF CrashInElected, Faults
  <1>9. /\ conn' \in [Computes -> [Safekeepers -> ConnOK]]
        /\ old' \in [Computes -> [Safekeepers -> OldType]]
        /\ VotesFade
    BY DropConnectionsType DEF CrashInElected
  <1>10. sk' = [sk EXCEPT ![s] = k] /\ k.term >= sk[s].term
    BY <1>3, <1>5, <1>7 DEF k
  <1>11. UNCHANGED <<wp, info, wins, chosen>>
    BY DEF CrashInElected
  <1> QED
    BY <1>1, <1>7, <1>8, <1>9, <1>10, <1>11 DEF TypeInv

\* Every step of a safekeeper keeps the state typed.
LEMMA SafekeeperStepType ==
    ASSUME TypeInv, NEW s \in Safekeepers, SafekeeperStep(s)
    PROVE  TypeInv' /\ VotesFade /\ \A x \in Safekeepers : sk'[x].term >= sk[x].term
  <1>1. /\ sk[s] \in SafekeeperOK /\ \A x \in Safekeepers : sk[x].term \in Nat
        /\ info \in [lastLogTerm : Nat, commit : Nat, horizon : Nat]
        /\ budget \in [Faults -> Nat]
    BY DEF TypeInv, SafekeeperOK, SafekeeperType
  <1>2. CASE CrashSafekeeper(s)
    BY <1>1, <1>2, CrashSafekeeperType
  <1>3. CASE SaveControlFile(s)
    <2>1. Persisted(sk[s]) \in SafekeeperOK /\ Persisted(sk[s]).term >= sk[s].term
      BY <1>1, PersistedType
    <2>2. budget' \in [Faults -> Nat]
      BY <1>3, SpendType DEF SaveControlFile, Faults
    <2>3. sk' = [sk EXCEPT ![s] = Persisted(sk[s])] /\ UNCHANGED <<wp, conn, old, info, wins, chosen>>
      BY <1>3 DEF SaveControlFile, TypeInv
    <2> QED
      BY <1>1, <2>1, <2>2, <2>3, SafekeeperOnlyType
  <1>4. CASE TermBump(s)
    <2>1. TermBumped(sk[s]) \in SafekeeperOK /\ TermBumped(sk[s]).term >= sk[s].term
      <3>1. sk[s].term + 1 \in Nat
        BY <1>1
      <3>2. /\ WithTerm(sk[s], sk[s].term + 1) \in SafekeeperOK
            /\ WithTerm(sk[s], sk[s].term + 1).term = Larger(sk[s].term, sk[s].term + 1)
        BY <1>1, <3>1, WithTermType
      <3>3. Larger(sk[s].term, sk[s].term + 1) >= sk[s].term
        BY <1>1, <3>1, SmallerLarger
      <3> QED
        BY <3>2, <3>3 DEF TermBumped
    <2>2. budget' \in [Faults -> Nat]
      BY <1>4, SpendType DEF TermBump, Faults
    <2>3. sk' = [sk EXCEPT ![s] = TermBumped(sk[s])] /\ UNCHANGED <<wp, conn, old, info, wins, chosen>>
      BY <1>4 DEF TermBump, TypeInv
    <2> QED
      BY <1>1, <2>1, <2>2, <2>3, SafekeeperOnlyType
  <1>5. CASE PublishInfo(s)
    <2>1. info' \in [lastLogTerm : Nat, commit : Nat, horizon : Nat]
      BY <1>1, <1>5, PeerInfoIsTyped DEF PublishInfo
    <2>2. budget' \in [Faults -> Nat]
      BY <1>5, SpendType DEF PublishInfo, Faults
    <2> QED
      BY <1>1, <1>5, <2>1, <2>2 DEF PublishInfo, TypeInv, VotesFade
  <1>6. CASE RecordSafekeeperInfo(s)
    <2>1. AfterPeerInfo(sk[s], info) \in SafekeeperOK /\ AfterPeerInfo(sk[s], info).term >= sk[s].term
      BY <1>1, AfterPeerInfoType
    <2>2. sk' = [sk EXCEPT ![s] = AfterPeerInfo(sk[s], info)] /\ UNCHANGED <<wp, conn, old, info, budget, wins, chosen>>
      BY <1>6 DEF RecordSafekeeperInfo, TypeInv
    <2> QED
      BY <1>1, <2>1, <2>2, SafekeeperOnlyType
  <1> QED
    BY <1>2, <1>3, <1>4, <1>5, <1>6 DEF SafekeeperStep

-----------------------------------------------------------------------------
(***************************************************************************)
(* A compute on its own: starting, writing, greetings that ask for votes.  *)
(***************************************************************************)
\* Sending vote requests keeps the connections typed and gives no vote.
LEMMA AskVotesEffect ==
    ASSUME TypeInv, NEW p \in Computes, NEW w \in ProposerOK,
           NEW S \in SUBSET Safekeepers, AskVotes(p, w, S)
    PROVE  /\ conn' \in [Computes -> [Safekeepers -> ConnOK]]
           /\ \A q \in Computes, x \in Safekeepers, t \in Nat :
                 /\ Given(conn'[q][x].rep, t) => Given(conn[q][x].rep, t)
                 /\ Asked(conn'[q][x].req, t) =>
                       Asked(conn[q][x].req, t) \/ (q = p /\ t = w.term)
  <1> DEFINE m == VoteRequest(w)
             C(x) == [conn[p][x] EXCEPT !.state = "wait_verdict", !.req = <<m>>]
  <1>1. m \in RequestType /\ m.term = w.term
    BY RequestsAreTyped DEF RequestType, VoteRequest
  <1> HIDE DEF m
  <1>2. <<m>> \in Seq(RequestType) /\ Len(<<m>>) = 1 /\ <<m>>[1] = m
    BY <1>1
  <1>3. ASSUME NEW x \in Safekeepers
        PROVE  C(x) \in ConnOK /\ C(x).req = <<m>> /\ C(x).rep = conn[p][x].rep
    <2> DEFINE c == conn[p][x]
    <2>1. c \in ConnOK
      BY DEF TypeInv
    <2> HIDE DEF c
    <2>2. /\ [c EXCEPT !.state = "wait_verdict", !.req = <<m>>] \in ConnType
          /\ [c EXCEPT !.state = "wait_verdict", !.req = <<m>>].state # "active"
          /\ [c EXCEPT !.state = "wait_verdict", !.req = <<m>>].req = <<m>>
          /\ [c EXCEPT !.state = "wait_verdict", !.req = <<m>>].rep = c.rep
      BY <1>2, <2>1 DEF ConnOK, ConnType
    <2> QED
      BY <2>2 DEF ConnOK, c
  <1>4. conn' = [conn EXCEPT ![p] = [x \in Safekeepers |->
                    IF x \in S THEN C(x) ELSE conn[p][x]]]
    BY Zenon DEF AskVotes, m
  <1> HIDE DEF C
  <1>5. conn' \in [Computes -> [Safekeepers -> ConnOK]]
    BY <1>3, <1>4 DEF TypeInv
  <1>6. \A q \in Computes, x \in Safekeepers :
           \/ conn'[q][x] = conn[q][x]
           \/ q = p /\ conn'[q][x].req = <<m>> /\ conn'[q][x].rep = conn[q][x].rep
    BY <1>3, <1>4 DEF TypeInv
  <1>7. \A t \in Nat : Asked(<<m>>, t) => t = w.term
    BY <1>1, <1>2 DEF Asked
  <1> QED
    BY <1>5, <1>6, <1>7

\* A greeting during the election keeps the state typed.
LEMMA GreetWhileCollectingType ==
    ASSUME TypeInv, NEW p \in Computes, NEW s \in Safekeepers, GreetWhileCollecting(p, s)
    PROVE  TypeInv'
  <1> DEFINE greeted == {x \in Safekeepers : conn[p][x].state = "wait_voting"} \cup {s}
             highest == Larger(wp[p].term, sk[s].term)
             w == [wp[p] EXCEPT !.term = highest + 1, !.state = "campaign"]
  <1>1. wp[p] \in ProposerOK /\ wp[p].state = "collecting" /\ conn[p][s] \in ConnOK
    BY DEF TypeInv, GreetWhileCollecting
  <1>2. highest \in Nat
    BY SmallerLarger DEF TypeInv, ProposerOK, ProposerType, SafekeeperOK, SafekeeperType
  <1>3. UNCHANGED <<sk, old, info, budget, wins, chosen>>
    BY DEF GreetWhileCollecting
  <1>4. \/ /\ wp' = [wp EXCEPT ![p].term = highest]
           /\ conn' = [conn EXCEPT ![p][s].state = "wait_voting"]
        \/ /\ wp' = [wp EXCEPT ![p] = w]
           /\ AskVotes(p, w, greeted)
    BY DEF GreetWhileCollecting
  <1> HIDE DEF highest
  <1>5. w \in ProposerOK
    <2>1. highest + 1 \in Nat
      BY <1>2
    <2> QED
      BY <1>1, <2>1, ProposerFieldsType, Zenon
  <1>6. greeted \in SUBSET Safekeepers
    OBVIOUS
  <1>7. [wp[p] EXCEPT !.term = highest] \in ProposerOK
    BY <1>1, <1>2, ProposerFieldsType, Zenon
  <1>8. [conn[p][s] EXCEPT !.state = "wait_voting"] \in ConnOK
    BY <1>1 DEF ConnOK, ConnType
  <1> HIDE DEF w, greeted
  <1>9. CASE /\ wp' = [wp EXCEPT ![p].term = highest]
             /\ conn' = [conn EXCEPT ![p][s].state = "wait_voting"]
    <2>1. wp' = [wp EXCEPT ![p] = [wp[p] EXCEPT !.term = highest]]
      BY <1>9 DEF TypeInv
    <2>2. conn' = [conn EXCEPT ![p][s] = [conn[p][s] EXCEPT !.state = "wait_voting"]]
      BY <1>9 DEF TypeInv
    <2>3. wp' \in [Computes -> ProposerOK]
      BY <1>7, <2>1 DEF TypeInv
    <2>4. conn' \in [Computes -> [Safekeepers -> ConnOK]]
      BY <1>8, <2>2 DEF TypeInv
    <2> QED
      BY <1>3, <2>3, <2>4 DEF TypeInv
  <1>10. CASE wp' = [wp EXCEPT ![p] = w] /\ AskVotes(p, w, greeted)
    <2>1. conn' \in [Computes -> [Safekeepers -> ConnOK]]
      BY <1>5, <1>6, <1>10, AskVotesEffect
    <2> QED
      BY <1>3, <1>5, <1>10, <2>1 DEF TypeInv
  <1> QED
    BY <1>4, <1>9, <1>10

\* A compute's fatal error keeps the state typed.
LEMMA FatalType ==
    ASSUME TypeInv, NEW p \in Computes, Fatal(p), UNCHANGED <<sk, info, budget, wins, chosen>>
    PROVE  /\ TypeInv' /\ VotesFade
           /\ wp'[p].state = "collecting"
           /\ \A q \in Computes \ {p} : wp'[q] = wp[q]
           /\ \A x \in Safekeepers : conn'[p][x] = NewConn
  <1>1. wp[p] \in ProposerOK
    BY DEF TypeInv
  <1>2. Restarting(wp[p]) \in ProposerOK /\ Restarting(wp[p]).state = "collecting"
    BY <1>1, RestartingType
  <1>3. ProcessEnds(p, Restarting(wp[p]))
    BY DEF Fatal
  <1>4. /\ wp' \in [Computes -> ProposerOK]
        /\ conn' \in [Computes -> [Safekeepers -> ConnOK]]
        /\ old' \in [Computes -> [Safekeepers -> OldType]]
        /\ wp'[p] = Restarting(wp[p])
        /\ \A q \in Computes \ {p} : wp'[q] = wp[q] /\ conn'[q] = conn[q]
        /\ \A x \in Safekeepers : conn'[p][x] = NewConn
    BY <1>2, <1>3, ProcessEndsType
  <1>5. VotesFade
    BY <1>4, NewConnType, NothingAsked DEF VotesFade
  <1> QED
    BY <1>2, <1>4, <1>5 DEF TypeInv

\* A compute's start keeps the state typed.
LEMMA StartingType ==
    ASSUME TypeInv, NEW p \in Computes,
           \/ StartSync(p) \/ WriteWal(p) \/ \E s \in Safekeepers : PingSafekeeper(p, s)
    PROVE  TypeInv'
  <1>1. wp[p] \in ProposerOK
    BY DEF TypeInv
  <1>2. CASE StartSync(p)
    <2>1. Synchronizing(wp[p]) \in ProposerOK
      BY <1>1, SynchronizingType
    <2> QED
      BY <1>2, <2>1 DEF StartSync, TypeInv
  <1>3. CASE WriteWal(p)
    <2>1. [wp[p] EXCEPT !.end = wp[p].end + 1] \in ProposerOK
      <3>1. wp[p].end + 1 \in Nat
        BY <1>1 DEF ProposerOK, ProposerType
      <3> QED
        BY <1>1, <3>1, ProposerFieldsType, Zenon
    <2>2. wp' = [wp EXCEPT ![p] = [wp[p] EXCEPT !.end = wp[p].end + 1]]
      BY <1>3 DEF WriteWal, TypeInv
    <2> QED
      BY <1>3, <2>1, <2>2 DEF WriteWal, TypeInv
  <1>4. ASSUME NEW s \in Safekeepers, PingSafekeeper(p, s) PROVE TypeInv'
    <2> DEFINE lsn == sk[s].flush
               by  == wp[p].syncedBy \cup {s}
    <2>1. lsn \in Nat /\ by \in SUBSET Safekeepers
      BY <1>1 DEF TypeInv, SafekeeperOK, SafekeeperType, ProposerOK, ProposerType
    <2>2. \/ wp' = [wp EXCEPT ![p] = PostgresAt(wp[p], lsn)]
          \/ wp' = [wp EXCEPT ![p] = SyncedOn(wp[p], by, lsn)]
      BY <1>4 DEF PingSafekeeper, TypeInv
    <2> HIDE DEF lsn, by
    <2>3. PostgresAt(wp[p], lsn) \in ProposerOK /\ SyncedOn(wp[p], by, lsn) \in ProposerOK
      BY <1>1, <2>1, PostgresAtType, SyncedOnType
    <2> QED
      BY <1>4, <2>2, <2>3, ZenonT(60) DEF PingSafekeeper, TypeInv
  <1> QED
    BY <1>2, <1>3, <1>4

(***************************************************************************)
(* Steps that ask for no vote, give none and win no election: the state    *)
(* and the term of a walproposer stay, or it starts again from nothing.    *)
(***************************************************************************)
Settled(q) ==
    \/ /\ wp'[q].state = wp[q].state /\ wp'[q].term = wp[q].term
       /\ wp'[q].mode = "off" => wp[q].mode = "off"
    \/ /\ wp'[q].state = "collecting"
       /\ \/ wp[q].state = "collecting"
          \/ \A x \in Safekeepers : conn'[q][x].req = <<>> /\ conn'[q][x].rep = <<>>

Quiet ==
    /\ VotesFade
    /\ \A x \in Safekeepers : sk'[x].term >= sk[x].term
    /\ \A q \in Computes : Settled(q)
    /\ wins' = wins

\* What leaves the safekeepers alone lowers no term.
LEMMA TermsStay ==
    ASSUME TypeInv, UNCHANGED sk
    PROVE  \A x \in Safekeepers : sk'[x].term >= sk[x].term
  <1>1. \A x \in Safekeepers : sk[x].term \in Nat
    BY DEF TypeInv, SafekeeperOK, SafekeeperType
  <1> QED
    BY <1>1

\* A fatal error is no part of an election.
LEMMA FatalQuiet ==
    ASSUME TypeInv, NEW p \in Computes, Fatal(p), UNCHANGED <<sk, info, budget, wins, chosen>>
    PROVE  TypeInv' /\ Quiet
  <1>1. /\ TypeInv' /\ VotesFade
        /\ wp'[p].state = "collecting"
        /\ \A q \in Computes \ {p} : wp'[q] = wp[q]
        /\ \A x \in Safekeepers : conn'[p][x] = NewConn
    BY FatalType
  <1>2. \A x \in Safekeepers : sk'[x].term >= sk[x].term
    BY TermsStay
  <1>3. Settled(p)
    BY <1>1, NewConnType DEF Settled
  <1>4. \A q \in Computes \ {p} : Settled(q)
    BY <1>1 DEF Settled
  <1> QED
    BY <1>1, <1>2, <1>3, <1>4 DEF Quiet

\* Sending WAL is no part of an election.
LEMMA SendAppendQuiet ==
    ASSUME TypeInv, NEW p \in Computes, NEW s \in Safekeepers, SendAppendRequest(p, s)
    PROVE  TypeInv' /\ Quiet
  <1> DEFINE c == conn[p][s]
             lsn == c.sent
             told == <<wp[p].commit, wp[p].truncate>>
             m(recs) == AppendRequest(wp[p], lsn, recs)
             C(recs, n) == [c EXCEPT !.req = Append(c.req, m(recs)), !.sent = n, !.told = told]
  <1>1. wp[p] \in ProposerOK /\ c \in ConnOK /\ c.state = "active" /\ lsn \in Nat /\ lsn >= 1
    <2>1. c.state = "active"
      BY Zenon DEF SendAppendRequest
    <2>2. wp[p] \in ProposerOK /\ c \in ConnOK
      BY DEF TypeInv
    <2> HIDE DEF c
    <2> QED
      BY <2>1, <2>2, SMTT(60) DEF ConnOK, ConnType
  <1>2. told \in Nat \X Nat
    BY <1>1 DEF ProposerOK, ProposerType
  <1>3. \A r \in Readable(p, lsn) : r \in Computes
    <2> SUFFICES ASSUME NEW d \in Safekeepers, lsn < sk[d].flush
                 PROVE  sk[d].wal[lsn - StartLsn + 1] \in Computes
      BY DEF Readable, Donors
    <2>1. sk[d] \in SafekeeperOK
      BY DEF TypeInv
    <2>2. sk[d].wal \in Seq(Computes) /\ sk[d].flush <= 1 + Len(sk[d].wal) /\ sk[d].flush \in Nat
      BY <2>1 DEF SafekeeperOK, SafekeeperType, WriteLsn, EndOf
    <2>3. lsn - StartLsn + 1 \in 1..Len(sk[d].wal)
      BY <1>1, <2>2, SMTT(60)
    <2> QED
      BY <2>2, <2>3, ElementOfSeq
  <1>4. PICK recs, n : /\ recs \in Seq(Computes) /\ n \in Nat /\ n >= 1
                       /\ conn' = [conn EXCEPT ![p][s] = C(recs, n)]
    <2>1. CASE \E r \in Readable(p, lsn) :
                    conn' = [conn EXCEPT
                        ![p][s].req  = Append(@, AppendRequest(wp[p], lsn, <<r>>)),
                        ![p][s].sent = lsn + 1,
                        ![p][s].told = <<wp[p].commit, wp[p].truncate>>]
      <3>1. PICK r \in Readable(p, lsn) :
                    conn' = [conn EXCEPT
                        ![p][s].req  = Append(@, AppendRequest(wp[p], lsn, <<r>>)),
                        ![p][s].sent = lsn + 1,
                        ![p][s].told = <<wp[p].commit, wp[p].truncate>>]
        BY <2>1, Zenon
      <3>2. conn' = [conn EXCEPT ![p][s] = C(<<r>>, lsn + 1)]
        BY <3>1 DEF TypeInv
      <3>3. <<r>> \in Seq(Computes)
        BY <1>3
      <3>4. lsn + 1 \in Nat /\ lsn + 1 >= 1
        BY <1>1
      <3> HIDE DEF C, lsn
      <3> QED
        BY <3>2, <3>3, <3>4
    <2>2. CASE conn' = [conn EXCEPT
                     ![p][s].req  = Append(@, AppendRequest(wp[p], lsn, <<>>)),
                     ![p][s].told = <<wp[p].commit, wp[p].truncate>>]
      <3>1. C(<<>>, lsn) = [c EXCEPT !.req = Append(c.req, m(<<>>)), !.told = told]
        BY <1>1 DEF ConnOK, ConnType
      <3>2. conn' = [conn EXCEPT ![p][s] = C(<<>>, lsn)]
        BY <2>2, <3>1 DEF TypeInv
      <3>3. <<>> \in Seq(Computes)
        BY EmptySeq
      <3> HIDE DEF C, lsn
      <3> QED
        BY <1>1, <3>2, <3>3
    <2> QED
      BY <2>1, <2>2, Zenon DEF SendAppendRequest
  <1>5. m(recs) \in RequestType /\ m(recs).type = "append"
    BY <1>1, <1>4, RequestsAreTyped DEF RequestType, AppendRequest
  <1> DEFINE m1 == m(recs)
             req == Append(c.req, m1)
             c1 == C(recs, n)
  <1> HIDE DEF m
  <1>6. req \in Seq(RequestType) /\ \A t \in Nat : Asked(req, t) => Asked(c.req, t)
    BY <1>1, <1>5, AskedSeq, AppendProperties DEF ConnOK, ConnType
  <1>7. c1 = [c EXCEPT !.req = req, !.sent = n, !.told = told]
    OBVIOUS
  <1> HIDE DEF req, told, c1, c
  <1>8. c1 \in ConnOK /\ c1.req = req /\ c1.rep = c.rep
    BY <1>1, <1>2, <1>4, <1>6, <1>7 DEF ConnOK, ConnType
  <1>9. conn' = [conn EXCEPT ![p][s] = c1]
    BY <1>4, SMTT(60) DEF c1
  <1>10. UNCHANGED <<sk, wp, old, info, budget, wins, chosen>>
    BY Zenon DEF SendAppendRequest
  <1>11. TypeInv'
    BY <1>8, <1>9, <1>10 DEF TypeInv
  <1>12. VotesFade
    BY <1>6, <1>8, <1>9 DEF VotesFade, TypeInv, c
  <1>13. \A x \in Safekeepers : sk'[x].term >= sk[x].term
    BY <1>10, TermsStay
  <1> QED
    BY <1>10, <1>11, <1>12, <1>13 DEF Quiet, Settled

\* A vote that arrives after the election changes no election.
LEMMA VoteAfterElectionQuiet ==
    ASSUME TypeInv, NEW p \in Computes, NEW s \in Safekeepers, VoteAfterElection(p, s)
    PROVE  TypeInv' /\ Quiet
  <1> DEFINE v == Head(conn[p][s].rep)
             c1 == SendElected(conn[p][s], wp[p], v)
  <1>1. wp[p] \in ProposerOK /\ conn[p][s] \in ConnOK /\ wp[p].state = "elected"
    BY DEF TypeInv, VoteAfterElection
  <1>2. v \in VoteResponseType
    BY ReceivedType DEF VoteAfterElection
  <1>3. conn' = [conn EXCEPT ![p][s] = c1]
    BY DEF VoteAfterElection, TypeInv
  <1> HIDE DEF v
  <1>4. c1 \in ConnOK /\ c1.rep = <<>> /\ \A i \in 1..Len(c1.req) : c1.req[i].type = "elected"
    BY <1>1, <1>2, SendElectedType
  <1> HIDE DEF c1
  <1>5. UNCHANGED <<sk, wp, old, info, budget, wins, chosen>>
    BY DEF VoteAfterElection
  <1>6. TypeInv'
    BY <1>3, <1>4, <1>5 DEF TypeInv
  <1>7. \A t \in Nat : ~Asked(c1.req, t) /\ ~Given(c1.rep, t)
    BY <1>4, NothingAsked DEF Asked
  <1>8. VotesFade
    BY <1>3, <1>7 DEF VotesFade, TypeInv
  <1>9. \A x \in Safekeepers : sk'[x].term >= sk[x].term
    BY <1>5, TermsStay
  <1> QED
    BY <1>5, <1>6, <1>8, <1>9 DEF Quiet, Settled

\* Losing a connection is no part of an election.
LEMMA DisconnectQuiet ==
    ASSUME TypeInv, NEW p \in Computes, NEW s \in Safekeepers, Disconnect(p, s)
    PROVE  TypeInv' /\ Quiet
  <1> DEFINE c1 == Offline(conn[p][s])
             cs == [x \in Safekeepers |-> IF x = s THEN conn[p][s] ELSE NewConn]
  <1>1. conn[p][s] \in ConnOK
    BY DEF TypeInv
  <1>2. c1 \in ConnOK /\ c1.req = <<>> /\ c1.rep = <<>>
    BY <1>1, OfflineType
  <1>3. conn' = [conn EXCEPT ![p][s] = c1]
    BY DEF Disconnect, TypeInv
  <1> HIDE DEF c1
  <1>4. cs \in [Safekeepers -> ConnOK] /\ Abandon(p, cs)
    BY <1>1, NewConnType DEF Disconnect
  <1> HIDE DEF cs
  <1>5. old' \in [Computes -> [Safekeepers -> OldType]]
    BY <1>4, AbandonType
  <1>6. budget' \in [Faults -> Nat]
    BY SpendType DEF Disconnect, Faults
  <1>7. UNCHANGED <<sk, wp, info, wins, chosen>>
    BY DEF Disconnect
  <1>8. TypeInv'
    BY <1>2, <1>3, <1>5, <1>6, <1>7 DEF TypeInv
  <1>9. VotesFade
    BY <1>2, <1>3, NothingAsked DEF VotesFade, TypeInv
  <1>10. \A x \in Safekeepers : sk'[x].term >= sk[x].term
    BY <1>7, TermsStay
  <1> QED
    BY <1>7, <1>8, <1>9, <1>10 DEF Quiet, Settled

\* The last broadcast of sync-safekeepers keeps a connection typed.
LEMMA LastBroadcastType ==
    ASSUME NEW c \in ConnOK, NEW w \in ProposerOK
    PROVE  LastBroadcast(c, w) \in ConnOK
  <1> DEFINE m == AppendRequest(w, c.sent, <<>>)
             req == Append(c.req, m)
  <1>1. m \in RequestType
    BY RequestsAreTyped, EmptySeq DEF ConnOK, ConnType, RequestType
  <1>2. LastBroadcast(c, w) = IF c.state = "active" THEN [c EXCEPT !.req = req] ELSE c
    BY DEF LastBroadcast
  <1> HIDE DEF m
  <1>3. req \in Seq(RequestType)
    BY <1>1, AppendProperties DEF ConnOK, ConnType
  <1> HIDE DEF req
  <1> QED
    BY <1>2, <1>3 DEF ConnOK, ConnType

\* The committed records are a sequence of records.
LEMMA CommittedWalType ==
    ASSUME TypeInv, NEW p \in Computes, NEW s \in Safekeepers, NEW lsn \in Nat
    PROVE  CommittedWal(p, s, lsn) \in Seq(Computes)
  <1>1. /\ chosen \in Seq(Computes) /\ wp[p].base \in Nat
        /\ sk[s].wal \in Seq(Computes)
    BY DEF TypeInv, ProposerOK, ProposerType, SafekeeperOK, SafekeeperType
  <1>2. Below(chosen, wp[p].base) \in Seq(Computes) /\ Below(sk[s].wal, lsn) \in Seq(Computes)
    <2>1. wp[p].base \in Int /\ lsn \in Int
      BY <1>1
    <2> QED
      BY <1>1, <2>1, BelowType
  <1> DEFINE mine == [i \in 1..(lsn - wp[p].base) |-> p]
  <1>3. mine \in Seq(Computes)
    BY <1>1, SMTT(30)
  <1> HIDE DEF mine
  <1>4. Below(chosen, wp[p].base) \o mine \in Seq(Computes)
    BY <1>2, <1>3, ConcatProperties
  <1> QED
    BY <1>2, <1>4 DEF CommittedWal, mine

\* Counting an acknowledgement is no part of an election.
LEMMA AppendAckedQuiet ==
    ASSUME TypeInv, NEW p \in Computes, NEW s \in Safekeepers, AppendAcked(p, s)
    PROVE  TypeInv' /\ Quiet
  <1> DEFINE c  == conn[p][s]
             r  == Head(c.rep)
             rep == Tail(c.rep)
             c1 == [c EXCEPT !.rep = rep, !.ackFlush = r.flush, !.ackCommit = r.commit]
             cs == [conn[p] EXCEPT ![s].rep = Tail(@), ![s].ackFlush = r.flush,
                                   ![s].ackCommit = r.commit]
  <1>1. wp[p] \in ProposerOK /\ c \in ConnOK /\ conn[p] \in [Safekeepers -> ConnOK]
    BY DEF TypeInv
  <1>2. c.rep \in Seq(ReplyType) /\ c.rep # <<>> /\ r \in AppendResponseType
    BY ReceivedType, Zenon DEF AppendAcked
  <1>3. rep \in Seq(ReplyType) /\ \A t \in Nat : Given(rep, t) => Given(c.rep, t)
    BY <1>2, GivenSeq, HeadTailProperties
  <1>4. r.flush \in Nat /\ r.commit \in Nat
    BY <1>2 DEF AppendResponseType
  <1>5. cs = [conn[p] EXCEPT ![s] = c1]
    BY <1>1, Zenon
  <1>6. PICK q, f \in 0..MaxLsn :
           LET w == WithAcks(wp[p], q, f)
           IN  /\ chosen' = IF w.commit > EndOf(chosen)
                            THEN CommittedWal(p, s, w.commit) ELSE chosen
               /\ \/ /\ wp' = [wp EXCEPT ![p] = PostgresAt(w, w.start)]
                     /\ conn' = [conn EXCEPT ![p] = [x \in Safekeepers |-> NewConn]]
                     /\ Abandon(p, [x \in Safekeepers |-> LastBroadcast(cs[x], w)])
                  \/ /\ wp'   = [wp EXCEPT ![p] = w]
                     /\ conn' = [conn EXCEPT ![p] = cs]
                     /\ UNCHANGED old
    BY Zenon DEF AppendAcked
  <1> HIDE DEF r, rep, cs
  <1>7. c1 \in ConnOK /\ c1.req = c.req /\ c1.rep = rep
    <2> HIDE DEF c
    <2> QED
      BY <1>1, <1>3, <1>4 DEF ConnOK, ConnType
  <1> HIDE DEF c1, c
  <1>8. cs \in [Safekeepers -> ConnOK]
    BY <1>1, <1>5, <1>7
  <1> DEFINE w == WithAcks(wp[p], q, f)
  <1>9. /\ w \in ProposerOK /\ w.state = wp[p].state /\ w.mode = wp[p].mode
        /\ w.term = wp[p].term
    <2>1. q \in Nat /\ f \in Nat
      BY BoundsAssumption
    <2> QED
      BY <1>1, <2>1, WithAcksType
  <1>10. /\ chosen' = IF w.commit > EndOf(chosen) THEN CommittedWal(p, s, w.commit) ELSE chosen
         /\ \/ /\ wp' = [wp EXCEPT ![p] = PostgresAt(w, w.start)]
               /\ conn' = [conn EXCEPT ![p] = [x \in Safekeepers |-> NewConn]]
               /\ Abandon(p, [x \in Safekeepers |-> LastBroadcast(cs[x], w)])
            \/ /\ wp'   = [wp EXCEPT ![p] = w]
               /\ conn' = [conn EXCEPT ![p] = cs]
               /\ UNCHANGED old
    BY <1>6
  <1> HIDE DEF w
  <1>11. w.commit \in Nat /\ w.start \in Nat
    BY <1>9 DEF ProposerOK, ProposerType
  <1>12. chosen' \in Seq(Computes)
    <2>1. CommittedWal(p, s, w.commit) \in Seq(Computes)
      BY <1>11, CommittedWalType, SMTT(60)
    <2>2. chosen \in Seq(Computes)
      BY DEF TypeInv
    <2> QED
      BY <1>10, <2>1, <2>2
  <1>13. UNCHANGED <<sk, info, budget, wins>>
    BY Zenon DEF AppendAcked
  <1>14. \A x \in Safekeepers : sk'[x].term >= sk[x].term
    BY <1>13, TermsStay
  <1>15. CASE /\ wp' = [wp EXCEPT ![p] = PostgresAt(w, w.start)]
              /\ conn' = [conn EXCEPT ![p] = [x \in Safekeepers |-> NewConn]]
              /\ Abandon(p, [x \in Safekeepers |-> LastBroadcast(cs[x], w)])
    <2> DEFINE ls == [x \in Safekeepers |-> LastBroadcast(cs[x], w)]
               w1 == PostgresAt(w, w.start)
    <2>1. ls \in [Safekeepers -> ConnOK]
      BY <1>8, <1>9, LastBroadcastType
    <2> HIDE DEF ls
    <2>2. old' \in [Computes -> [Safekeepers -> OldType]]
      BY <1>15, <2>1, AbandonType DEF ls
    <2>3. w1 \in ProposerOK /\ w1.state = "collecting"
      BY <1>9, <1>11, PostgresAtType
    <2>4. wp' = [wp EXCEPT ![p] = w1]
      BY <1>15
    <2> HIDE DEF w1
    <2>5. conn' \in [Computes -> [Safekeepers -> ConnOK]]
      BY <1>15, NewConnType DEF TypeInv
    <2>6. TypeInv'
      BY <1>12, <1>13, <2>2, <2>3, <2>4, <2>5 DEF TypeInv
    <2>7. \A x \in Safekeepers : conn'[p][x] = NewConn
      BY <1>15 DEF TypeInv
    <2>8. \A z \in Computes \ {p} : conn'[z] = conn[z] /\ wp'[z] = wp[z]
      BY <1>15 DEF TypeInv
    <2>9. VotesFade
      BY <2>7, <2>8, NewConnType, NothingAsked DEF VotesFade
    <2>10. wp'[p].state = "collecting"
      BY <2>3, <2>4 DEF TypeInv
    <2>11. Settled(p) /\ \A z \in Computes \ {p} : Settled(z)
      BY <2>7, <2>8, <2>10, NewConnType DEF Settled
    <2> QED
      BY <1>13, <1>14, <2>6, <2>9, <2>11 DEF Quiet
  <1>16. CASE wp' = [wp EXCEPT ![p] = w] /\ conn' = [conn EXCEPT ![p] = cs] /\ UNCHANGED old
    <2>1. conn' = [conn EXCEPT ![p][s] = c1]
      BY <1>5, <1>16 DEF TypeInv
    <2>2. TypeInv'
      <3>1. conn' \in [Computes -> [Safekeepers -> ConnOK]]
        BY <1>8, <1>16 DEF TypeInv
      <3>2. wp' \in [Computes -> ProposerOK]
        BY <1>9, <1>16 DEF TypeInv
      <3> QED
        BY <1>12, <1>13, <1>16, <3>1, <3>2 DEF TypeInv
    <2>3. VotesFade
      BY <1>3, <1>7, <2>1 DEF VotesFade, TypeInv, c
    <2>4. \A z \in Computes : Settled(z)
      BY <1>9, <1>16 DEF Settled, TypeInv
    <2> QED
      BY <1>13, <1>14, <2>2, <2>3, <2>4 DEF Quiet
  <1> QED
    BY <1>10, <1>15, <1>16

(***************************************************************************)
(* The step of an election, and what is left of the votes after it.        *)
(***************************************************************************)
\* Winning an election counts one win and uses up the votes of its quorum.
LEMMA ElectedEffect ==
    ASSUME TypeInv, NEW p \in Computes, NEW V \in SUBSET Safekeepers, Elected(p, V)
    PROVE  /\ TypeInv' /\ VotesFade
           /\ wins' = [wins EXCEPT ![wp[p].term] = @ + 1]
           /\ \A q \in Computes \ {p} : wp'[q] = wp[q] /\ conn'[q] = conn[q]
           /\ \A x \in V : conn'[p][x].rep = <<>>
           /\ \/ /\ wp'[p].state = "collecting"
                 /\ \A x \in Safekeepers : conn'[p][x].req = <<>> /\ conn'[p][x].rep = <<>>
              \/ /\ wp'[p].state = "elected" /\ wp'[p].term = wp[p].term
                 /\ wp'[p].mode = wp[p].mode
  <1> DEFINE v(x) == Head(conn[p][x].rep)
  <1>1. wp[p] \in ProposerOK /\ conn[p] \in [Safekeepers -> ConnOK]
    BY DEF TypeInv
  <1>2. ASSUME NEW x \in V PROVE v(x) \in VoteResponseType /\ v(x).truncate \in Nat
    <2>1. Received(p, x, "vote") /\ x \in Safekeepers
      BY Zenon DEF Elected
    <2>2. v(x) \in VoteResponseType
      BY <2>1, ReceivedType, SMTT(60)
    <2> QED
      BY <2>2, SMTT(60) DEF VoteResponseType
  <1>3. PICK d, h \in V :
           LET w == ElectedOn(wp[p], {x \in V : VoteGe(v(x), v(d))}, v(d), v(h).truncate)
           IN  /\ wins' = [wins EXCEPT ![w.term] = @ + 1]
               /\ \/ ProcessEnds(p, Panicked(w))
                  \/ ProcessEnds(p, PostgresAt(w, w.start))
                  \/ /\ wp' = [wp EXCEPT ![p] = w]
                     /\ conn' = [conn EXCEPT ![p] = [x \in Safekeepers |->
                            IF x \in V THEN SendElected(conn[p][x], w, v(x))
                                       ELSE conn[p][x]]]
                     /\ UNCHANGED old
    BY ZenonT(60) DEF Elected
  <1> DEFINE D == {x \in V : VoteGe(v(x), v(d))}
             w == ElectedOn(wp[p], D, v(d), v(h).truncate)
  <1>4. /\ w \in ProposerOK /\ w.state = "elected" /\ w.mode = wp[p].mode
        /\ w.term = wp[p].term
    <2>1. D \in SUBSET Safekeepers
      OBVIOUS
    <2>2. v(d) \in VoteResponseType /\ v(h).truncate \in Nat
      BY <1>2
    <2> HIDE DEF D, v
    <2> QED
      BY <1>1, <2>1, <2>2, ElectedOnType
  <1>5. /\ wins' = [wins EXCEPT ![w.term] = @ + 1]
        /\ \/ ProcessEnds(p, Panicked(w))
           \/ ProcessEnds(p, PostgresAt(w, w.start))
           \/ /\ wp' = [wp EXCEPT ![p] = w]
              /\ conn' = [conn EXCEPT ![p] = [x \in Safekeepers |->
                     IF x \in V THEN SendElected(conn[p][x], w, v(x))
                                ELSE conn[p][x]]]
              /\ UNCHANGED old
    BY <1>3, Zenon
  <1> HIDE DEF w
  <1>6. w.start \in Nat
    BY <1>4, SMTT(60) DEF ProposerOK, ProposerType
  <1>7. UNCHANGED <<sk, info, budget, chosen>>
    BY Zenon DEF Elected
  <1>8. wins' \in [0..MaxTerm -> Nat]
    <2>1. wins' = [wins EXCEPT ![w.term] = wins[w.term] + 1] /\ wins \in [0..MaxTerm -> Nat]
      BY <1>5 DEF TypeInv
    <2>2. \A i \in 0..MaxTerm : wins'[i] \in Nat
      BY <2>1
    <2> QED
      BY <2>1, <2>2
  <1>9. ASSUME NEW w1 \in ProposerOK, w1.state = "collecting", ProcessEnds(p, w1)
        PROVE  /\ TypeInv' /\ VotesFade
               /\ \A q \in Computes \ {p} : wp'[q] = wp[q] /\ conn'[q] = conn[q]
               /\ wp'[p].state = "collecting"
               /\ \A x \in Safekeepers : conn'[p][x].req = <<>> /\ conn'[p][x].rep = <<>>
    <2>1. /\ wp' \in [Computes -> ProposerOK]
          /\ conn' \in [Computes -> [Safekeepers -> ConnOK]]
          /\ old' \in [Computes -> [Safekeepers -> OldType]]
          /\ wp'[p] = w1
          /\ \A q \in Computes \ {p} : wp'[q] = wp[q] /\ conn'[q] = conn[q]
          /\ \A x \in Safekeepers : conn'[p][x] = NewConn
      BY <1>9, ProcessEndsType
    <2>2. TypeInv'
      BY <1>7, <1>8, <2>1 DEF TypeInv
    <2>3. \A x \in Safekeepers : conn'[p][x].req = <<>> /\ conn'[p][x].rep = <<>>
      BY <2>1, NewConnType
    <2>4. VotesFade
      BY <2>1, <2>3, NothingAsked DEF VotesFade
    <2> QED
      BY <1>9, <2>1, <2>2, <2>3, <2>4
  <1>10. CASE ProcessEnds(p, Panicked(w))
    <2>1. Panicked(w) \in ProposerOK /\ Panicked(w).state = "collecting"
      BY <1>4, PanickedType
    <2> QED
      BY <1>4, <1>5, <1>9, <1>10, <2>1
  <1>11. CASE ProcessEnds(p, PostgresAt(w, w.start))
    <2>1. PostgresAt(w, w.start) \in ProposerOK /\ PostgresAt(w, w.start).state = "collecting"
      BY <1>4, <1>6, PostgresAtType
    <2> QED
      BY <1>4, <1>5, <1>9, <1>11, <2>1
  <1>12. CASE /\ wp' = [wp EXCEPT ![p] = w]
              /\ conn' = [conn EXCEPT ![p] = [x \in Safekeepers |->
                     IF x \in V THEN SendElected(conn[p][x], w, v(x))
                                ELSE conn[p][x]]]
              /\ UNCHANGED old
    <2> DEFINE C(x) == SendElected(conn[p][x], w, v(x))
    <2>1. ASSUME NEW x \in V
          PROVE  /\ C(x) \in ConnOK /\ C(x).rep = <<>>
                 /\ \A i \in 1..Len(C(x).req) : C(x).req[i].type = "elected"
      <3>1. conn[p][x] \in ConnOK
        BY <1>1
      <3>2. v(x) \in VoteResponseType
        BY <1>2
      <3> QED
        BY <1>4, <3>1, <3>2, SendElectedType
    <2>2. conn' = [conn EXCEPT ![p] = [x \in Safekeepers |->
                      IF x \in V THEN C(x) ELSE conn[p][x]]]
      BY <1>12
    <2>3. \A x \in V, t \in Nat : ~Asked(C(x).req, t) /\ ~Given(C(x).rep, t)
      BY <2>1, NothingAsked DEF Asked
    <2> HIDE DEF C
    <2>4. conn' \in [Computes -> [Safekeepers -> ConnOK]]
      <3>1. [x \in Safekeepers |-> IF x \in V THEN C(x) ELSE conn[p][x]]
               \in [Safekeepers -> ConnOK]
        BY <1>1, <2>1
      <3> QED
        BY <2>2, <3>1 DEF TypeInv
    <2>5. wp' \in [Computes -> ProposerOK] /\ wp'[p] = w
      BY <1>4, <1>12 DEF TypeInv
    <2>6. TypeInv'
      BY <1>7, <1>8, <1>12, <2>4, <2>5 DEF TypeInv
    <2>7. \A q \in Computes \ {p} : wp'[q] = wp[q] /\ conn'[q] = conn[q]
      BY <1>12 DEF TypeInv
    <2>8. \A x \in Safekeepers : conn'[p][x] = IF x \in V THEN C(x) ELSE conn[p][x]
      BY <2>2 DEF TypeInv
    <2>9. VotesFade
      BY <2>3, <2>7, <2>8 DEF VotesFade
    <2> QED
      BY <1>4, <1>5, <2>1, <2>5, <2>6, <2>7, <2>8, <2>9
  <1> QED
    BY <1>5, <1>10, <1>11, <1>12

-----------------------------------------------------------------------------
(***************************************************************************)
(* The other steps that touch votes: greetings and handle_vote_request.    *)
(***************************************************************************)
\* A greeting is quiet, or it fixes the term the compute asks votes for.
LEMMA GreetEffect ==
    ASSUME TypeInv, NEW p \in Computes, NEW s \in Safekeepers,
           GreetWhileCollecting(p, s) \/ GreetLate(p, s)
    PROVE  /\ TypeInv'
           /\ \/ Quiet
              \/ /\ UNCHANGED <<sk, wins>>
                 /\ \A q \in Computes \ {p} : wp'[q] = wp[q]
                 /\ wp[p].mode # "off" /\ wp'[p].mode = wp[p].mode
                 /\ wp'[p].state # "collecting"
                 /\ \/ wp[p].state = "collecting"
                    \/ wp'[p].term = wp[p].term
                 /\ \A q \in Computes, x \in Safekeepers, t \in Nat :
                       /\ Given(conn'[q][x].rep, t) => Given(conn[q][x].rep, t)
                       /\ Asked(conn'[q][x].req, t) =>
                             Asked(conn[q][x].req, t) \/ (q = p /\ t = wp'[p].term)
  <1>0. wp[p] \in ProposerOK /\ wp[p].mode # "off"
    BY DEF TypeInv, GreetWhileCollecting, GreetLate, CanConnect, Running
  <1>1. CASE GreetWhileCollecting(p, s)
    <2>1. TypeInv'
      BY <1>1, GreetWhileCollectingType
    <2> DEFINE greeted == {x \in Safekeepers : conn[p][x].state = "wait_voting"} \cup {s}
               highest == Larger(wp[p].term, sk[s].term)
               w == [wp[p] EXCEPT !.term = highest + 1, !.state = "campaign"]
    <2>2. wp[p].state = "collecting" /\ conn[p][s] \in ConnOK
      BY <1>1 DEF TypeInv, GreetWhileCollecting
    <2>3. highest \in Nat
      BY SmallerLarger DEF TypeInv, ProposerOK, ProposerType, SafekeeperOK, SafekeeperType
    <2>4. UNCHANGED <<sk, old, info, budget, wins, chosen>>
      BY <1>1 DEF GreetWhileCollecting
    <2>5. \/ /\ wp' = [wp EXCEPT ![p].term = highest]
             /\ conn' = [conn EXCEPT ![p][s].state = "wait_voting"]
          \/ /\ wp' = [wp EXCEPT ![p] = w]
             /\ AskVotes(p, w, greeted)
      BY <1>1 DEF GreetWhileCollecting
    <2> HIDE DEF highest
    <2>6. w \in ProposerOK /\ w.state = "campaign"
      <3>1. highest + 1 \in Nat
        BY <2>3
      <3> QED
        BY <1>0, <2>2, <3>1, ProposerFieldsType, Zenon
    <2>7. w.mode = wp[p].mode
      BY <1>0 DEF ProposerOK, ProposerType
    <2>8. greeted \in SUBSET Safekeepers
      OBVIOUS
    <2> HIDE DEF w, greeted
    <2>9. CASE /\ wp' = [wp EXCEPT ![p].term = highest]
               /\ conn' = [conn EXCEPT ![p][s].state = "wait_voting"]
      <3>1. \A x \in Safekeepers : sk'[x].term >= sk[x].term
        BY <2>4, TermsStay
      <3>2. \A q \in Computes, x \in Safekeepers :
               conn'[q][x].req = conn[q][x].req /\ conn'[q][x].rep = conn[q][x].rep
        <4> DEFINE c1 == [conn[p][s] EXCEPT !.state = "wait_voting"]
        <4>1. c1.req = conn[p][s].req /\ c1.rep = conn[p][s].rep
          BY <2>2 DEF ConnOK, ConnType
        <4>2. conn' = [conn EXCEPT ![p][s] = c1]
          BY <2>9 DEF TypeInv
        <4> HIDE DEF c1
        <4> QED
          BY <4>1, <4>2 DEF TypeInv
      <3>3. VotesFade
        BY <3>2 DEF VotesFade
      <3>4. wp'[p].state = "collecting" /\ \A q \in Computes \ {p} : wp'[q] = wp[q]
        BY <2>2, <2>9 DEF TypeInv, ProposerOK, ProposerType
      <3>5. \A q \in Computes : Settled(q)
        BY <2>2, <3>4 DEF Settled
      <3> QED
        BY <2>1, <2>4, <3>1, <3>3, <3>5 DEF Quiet
    <2>10. CASE wp' = [wp EXCEPT ![p] = w] /\ AskVotes(p, w, greeted)
      <3>1. wp'[p] = w /\ \A q \in Computes \ {p} : wp'[q] = wp[q]
        BY <2>10 DEF TypeInv
      <3>2. \A q \in Computes, x \in Safekeepers, t \in Nat :
               /\ Given(conn'[q][x].rep, t) => Given(conn[q][x].rep, t)
               /\ Asked(conn'[q][x].req, t) =>
                     Asked(conn[q][x].req, t) \/ (q = p /\ t = w.term)
        BY <2>6, <2>8, <2>10, AskVotesEffect
      <3> QED
        BY <1>0, <2>1, <2>2, <2>4, <2>6, <2>7, <3>1, <3>2
    <2> QED
      BY <2>5, <2>9, <2>10
  <1>2. CASE GreetLate(p, s)
    <2>1. UNCHANGED <<sk, info, budget, wins, chosen>> /\ wp[p].state # "collecting"
      BY <1>2 DEF GreetLate
    <2>2. CASE Fatal(p)
      BY <2>1, <2>2, FatalQuiet
    <2>3. CASE AskVotes(p, wp[p], {s}) /\ UNCHANGED <<wp, old>>
      <3>1. {s} \in SUBSET Safekeepers
        OBVIOUS
      <3>2. /\ conn' \in [Computes -> [Safekeepers -> ConnOK]]
            /\ \A q \in Computes, x \in Safekeepers, t \in Nat :
                  /\ Given(conn'[q][x].rep, t) => Given(conn[q][x].rep, t)
                  /\ Asked(conn'[q][x].req, t) =>
                        Asked(conn[q][x].req, t) \/ (q = p /\ t = wp[p].term)
        BY <1>0, <2>3, <3>1, AskVotesEffect
      <3>3. TypeInv'
        BY <2>1, <2>3, <3>2 DEF TypeInv
      <3> QED
        BY <1>0, <2>1, <2>3, <3>2, <3>3
    <2> QED
      BY <1>2, <2>2, <2>3 DEF GreetLate
  <1> QED
    BY <1>1, <1>2

\* Handling a vote request gives at most one vote, in the safekeeper's new term.
LEMMA VoteEffect ==
    ASSUME TypeInv, NEW p \in Computes, NEW s \in Safekeepers, NEW live \in BOOLEAN,
           HandleVoteRequest(p, s, live)
    PROVE  /\ UNCHANGED <<wp, wins>>
           /\ \A x \in Safekeepers : sk'[x].term >= sk[x].term
           /\ \A q \in Computes, x \in Safekeepers, t \in Nat :
                 /\ Asked(conn'[q][x].req, t) => Asked(conn[q][x].req, t)
                 /\ Given(conn'[q][x].rep, t) =>
                       \/ Given(conn[q][x].rep, t)
                       \/ /\ q = p /\ x = s /\ Asked(conn[p][s].req, t)
                          /\ sk[s].term < t /\ sk'[s].term = t
  <1> DEFINE m == Head(Incoming(p, s, live))
             r == VoteResponse(sk[s], m)
             k == AfterVoteRequest(sk[s], m)
  <1>1. m \in VoteRequestType /\ Incoming(p, s, live) # <<>> /\ m.term \in Nat
    BY IncomingType DEF HandleVoteRequest, VoteRequestType
  <1>2. sk[s] \in SafekeeperOK /\ \A x \in Safekeepers : sk[x].term \in Nat
    BY DEF TypeInv, SafekeeperOK, SafekeeperType
  <1>3. k \in SafekeeperOK /\ k.term = Larger(sk[s].term, m.term) /\ r \in ReplyType
    BY <1>1, <1>2, AfterVoteType, VoteResponseIsTyped DEF ReplyType
  <1>4. sk' = [sk EXCEPT ![s] = k] /\ Done(p, s, live, <<r>>, FALSE)
    BY DEF HandleVoteRequest, TypeInv
  <1>5. r.given = (sk[s].term < m.term) /\ r.term = k.term
    BY DEF VoteResponse
  <1>6. live => Asked(conn[p][s].req, m.term)
    <2> SUFFICES ASSUME live PROVE Asked(conn[p][s].req, m.term)
      OBVIOUS
    <2> DEFINE req == conn[p][s].req
    <2>1. req \in Seq(RequestType) /\ req # <<>> /\ Head(req).type = "vote" /\ m = Head(req)
      BY IncomingType DEF HandleVoteRequest, Incoming
    <2> HIDE DEF req, m
    <2>2. Asked(req, Head(req).term)
      BY <1>1, <2>1, AskedSeq
    <2> QED
      BY <2>1, <2>2 DEF req
  <1> HIDE DEF m, r, k
  <1>7. \A q \in Computes, x \in Safekeepers, t \in Nat :
              /\ Asked(conn'[q][x].req, t) => Asked(conn[q][x].req, t)
              /\ Given(conn'[q][x].rep, t) =>
                    \/ Given(conn[q][x].rep, t)
                    \/ q = p /\ x = s /\ live /\ r.given /\ r.term = t
    <2>1. r \in ReplyType /\ Incoming(p, s, live) # <<>>
      BY <1>1, <1>3
    <2>2. PICK reply, d : /\ reply \in {<<>>, <<r>>} /\ d \in BOOLEAN
                          /\ Done(p, s, live, reply, d)
      BY <1>4
    <2>3. OnlyVoteIs(p, s, live, r)
      BY <2>1, <2>2, DoneFades, SMTT(30)
    <2> QED
      BY <2>3 DEF OnlyVoteIs
  <1>8. UNCHANGED <<wp, wins>>
    BY DEF HandleVoteRequest
  <1>9. sk[s].term < m.term => k.term = m.term
    BY <1>1, <1>2, <1>3 DEF Larger
  <1>10. sk'[s].term = k.term /\ k.term >= sk[s].term
    <2>1. sk'[s] = k
      BY <1>4 DEF TypeInv
    <2>2. k.term >= sk[s].term
      BY <1>1, <1>2, <1>3 DEF Larger
    <2> QED
      BY <2>1, <2>2
  <1>11. \A x \in Safekeepers : sk'[x].term >= sk[x].term
    BY <1>2, <1>4, <1>10 DEF TypeInv
  <1> QED
    BY <1>5, <1>6, <1>7, <1>8, <1>9, <1>10, <1>11, ZenonT(60)

-----------------------------------------------------------------------------
(***************************************************************************)
(* The steps of a walproposer and of a safekeeper that are quiet.          *)
(***************************************************************************)
\* Starting, writing and checking safekeepers are no part of an election.
LEMMA StartingQuiet ==
    ASSUME TypeInv, NEW p \in Computes,
           \/ StartSync(p) \/ WriteWal(p) \/ \E s \in Safekeepers : PingSafekeeper(p, s),
           wp[p].mode = "off" => wp[p].state = "collecting"
    PROVE  Quiet
  <1>1. wp[p] \in ProposerOK
    BY DEF TypeInv
  <1>2. UNCHANGED <<sk, conn, wins>>
    BY DEF StartSync, WriteWal, PingSafekeeper
  <1>3. VotesFade /\ \A x \in Safekeepers : sk'[x].term >= sk[x].term
    BY <1>2, TermsStay DEF VotesFade
  <1>4. ASSUME NEW w \in ProposerOK, wp' = [wp EXCEPT ![p] = w],
               \/ w.state = "collecting" /\ wp[p].state = "collecting"
               \/ w.state = wp[p].state /\ w.term = wp[p].term /\ w.mode = wp[p].mode
        PROVE  Quiet
    <2>1. wp'[p] = w /\ \A q \in Computes \ {p} : wp'[q] = wp[q]
      BY <1>4 DEF TypeInv
    <2>2. \A q \in Computes : Settled(q)
      BY <1>4, <2>1 DEF Settled
    <2> QED
      BY <1>2, <1>3, <2>2 DEF Quiet
  <1>5. CASE StartSync(p)
    <2> DEFINE w == Synchronizing(wp[p])
    <2>1. w \in ProposerOK /\ w.state = wp[p].state
      BY <1>1, SynchronizingType
    <2>2. wp' = [wp EXCEPT ![p] = w] /\ wp[p].mode = "off"
      BY <1>5 DEF StartSync, TypeInv
    <2> HIDE DEF w
    <2> QED
      BY <1>4, <2>1, <2>2
  <1>6. CASE WriteWal(p)
    <2> DEFINE w == [wp[p] EXCEPT !.end = wp[p].end + 1]
    <2>1. /\ w \in ProposerOK /\ w.state = wp[p].state /\ w.term = wp[p].term
          /\ w.mode = wp[p].mode
      <3>1. wp[p].end + 1 \in Nat
        BY <1>1 DEF ProposerOK, ProposerType
      <3> QED
        BY <1>1, <3>1, ProposerFieldsType, Zenon
    <2>2. wp' = [wp EXCEPT ![p] = w]
      BY <1>6 DEF WriteWal, TypeInv
    <2> HIDE DEF w
    <2> QED
      BY <1>4, <2>1, <2>2
  <1>7. ASSUME NEW s \in Safekeepers, PingSafekeeper(p, s) PROVE Quiet
    <2> DEFINE lsn == sk[s].flush
               by  == wp[p].syncedBy \cup {s}
    <2>1. lsn \in Nat /\ by \in SUBSET Safekeepers
      BY <1>1 DEF TypeInv, SafekeeperOK, SafekeeperType, ProposerOK, ProposerType
    <2>2. /\ wp[p].mode = "off"
          /\ \/ wp' = [wp EXCEPT ![p] = PostgresAt(wp[p], lsn)]
             \/ wp' = [wp EXCEPT ![p] = SyncedOn(wp[p], by, lsn)]
      BY <1>7 DEF PingSafekeeper, TypeInv
    <2> HIDE DEF lsn, by
    <2>3. /\ PostgresAt(wp[p], lsn) \in ProposerOK
          /\ PostgresAt(wp[p], lsn).state = "collecting"
          /\ SyncedOn(wp[p], by, lsn) \in ProposerOK
          /\ SyncedOn(wp[p], by, lsn).state = wp[p].state
      BY <1>1, <2>1, PostgresAtType, SyncedOnType
    <2>4. wp[p].state = "collecting"
      BY <2>2
    <2> QED
      BY <1>4, <2>2, <2>3, <2>4
  <1> QED
    BY <1>5, <1>6, <1>7

\* Handling any other message is no part of an election.
LEMMA AcceptorQuiet ==
    ASSUME TypeInv, NEW p \in Computes, NEW s \in Safekeepers,
           \/ \E live \in BOOLEAN : HandleElected(p, s, live) \/ HandleAppendRequest(p, s, live)
           \/ FlushWal(p, s) \/ OldEnds(p, s) \/ CrashInElected(p, s)
    PROVE  TypeInv' /\ Quiet
  <1>1. TypeInv' /\ VotesFade
    BY HandleElectedType, HandleAppendType, FlushWalType, OldEndsType, CrashInElectedType
  <1>2. \A x \in Safekeepers : sk'[x].term = sk[x].term \/ sk'[x].term >= sk[x].term
    BY HandleElectedType, HandleAppendType, FlushWalType, OldEndsType, CrashInElectedType
  <1>3. \A x \in Safekeepers : sk[x].term \in Nat
    BY DEF TypeInv, SafekeeperOK, SafekeeperType
  <1>4. UNCHANGED <<wp, wins>>
    BY DEF HandleElected, HandleAppendRequest, FlushWal, OldEnds, CrashInElected
  <1>5. \A x \in Safekeepers : sk'[x].term >= sk[x].term
    BY <1>2, <1>3
  <1> QED
    BY <1>1, <1>4, <1>5 DEF Quiet, Settled

\* Every other step of a safekeeper is no part of an election.
LEMMA SafekeeperStepQuiet ==
    ASSUME TypeInv, NEW s \in Safekeepers, SafekeeperStep(s)
    PROVE  TypeInv' /\ Quiet
  <1>1. TypeInv' /\ VotesFade /\ \A x \in Safekeepers : sk'[x].term >= sk[x].term
    BY SafekeeperStepType
  <1>2. UNCHANGED <<wp, wins>>
    BY DEF SafekeeperStep, CrashSafekeeper, SaveControlFile, TermBump, PublishInfo,
           RecordSafekeeperInfo
  <1> QED
    BY <1>1, <1>2 DEF Quiet, Settled

\* The steps of a walproposer other than greetings, elections and starting.
LEMMA ProposerQuiet ==
    ASSUME TypeInv, NEW p \in Computes, NEW s \in Safekeepers,
           \/ VoteRefused(p, s) \/ VoteAfterElection(p, s) \/ SendAppendRequest(p, s)
           \/ AppendRejected(p, s) \/ AppendAcked(p, s) \/ Disconnect(p, s)
    PROVE  TypeInv' /\ Quiet
  <1>1. CASE VoteRefused(p, s) \/ AppendRejected(p, s)
    BY <1>1, FatalQuiet DEF VoteRefused, AppendRejected
  <1> QED
    BY <1>1, VoteAfterElectionQuiet, SendAppendQuiet, AppendAckedQuiet, DisconnectQuiet

-----------------------------------------------------------------------------
(***************************************************************************)
(* The types, for every number of safekeepers and computes and all bounds: *)
(* flush_lsn of a safekeeper stays within the WAL it has written through   *)
(* every message, truncation and restart.                                  *)
(***************************************************************************)
THEOREM TypeCorrect == Spec => []TypeOK
  <1>1. ASSUME TypeInv, [Next]_vars PROVE TypeInv'
    <2>1. ASSUME NEW p \in Computes, ProposerStep(p) PROVE TypeInv'
      BY <1>1, <2>1, StartingType, ElectedEffect, GreetEffect, ProposerQuiet DEF ProposerStep
    <2>2. ASSUME NEW p \in Computes, NEW s \in Safekeepers, AcceptorStep(p, s) PROVE TypeInv'
      BY <1>1, <2>2, HandleVoteRequestType, AcceptorQuiet DEF AcceptorStep
    <2>3. ASSUME NEW s \in Safekeepers, SafekeeperStep(s) PROVE TypeInv'
      BY <1>1, <2>3, SafekeeperStepQuiet
    <2>4. CASE UNCHANGED vars
      BY <1>1, <2>4 DEF TypeInv, vars
    <2> QED
      BY <1>1, <2>1, <2>2, <2>3, <2>4 DEF Next
  <1> QED
    BY <1>1, InitTypes, TypeInvImpliesTypeOK, PTL DEF Spec

-----------------------------------------------------------------------------
(***************************************************************************)
(* The invariant of elections.  A vote on the way belongs to the current   *)
(* campaign of the walproposer it is on the way to; the safekeeper that    *)
(* gave it is in its term, and gave it once; and once the election of a    *)
(* term is won, a quorum of safekeepers is in that term or a higher one    *)
(* and no vote of any of them is still on the way.                         *)
(***************************************************************************)
VotesAreCurrent ==
    \A p \in Computes, s \in Safekeepers, t \in Nat :
        Asked(conn[p][s].req, t) \/ Given(conn[p][s].rep, t) =>
            wp[p].state # "collecting" /\ wp[p].term = t

VotesAreKept ==
    \A p \in Computes, s \in Safekeepers, t \in Nat :
        Given(conn[p][s].rep, t) => sk[s].term >= t

OneVotePerTerm ==
    \A p, q \in Computes, s \in Safekeepers, t \in Nat :
        Given(conn[p][s].rep, t) /\ Given(conn[q][s].rep, t) => p = q

SpentBy(Q, t) ==
    /\ IsQuorum(Q)
    /\ \A s \in Q : /\ sk[s].term >= t
                    /\ \A p \in Computes : ~Given(conn[p][s].rep, t)

WonOnce ==
    \A t \in 0..MaxTerm :
        /\ wins[t] <= 1
        /\ wins[t] # 0 => \E Q \in SUBSET Safekeepers : SpentBy(Q, t)

OffIsCollecting == \A p \in Computes : wp[p].mode = "off" => wp[p].state = "collecting"

ElectionInv ==
    /\ TypeInv
    /\ VotesAreCurrent /\ VotesAreKept /\ OneVotePerTerm /\ WonOnce /\ OffIsCollecting

\* Two quorums have a safekeeper in common.
LEMMA QuorumsMeet ==
    ASSUME NEW Q \in SUBSET Safekeepers, NEW R \in SUBSET Safekeepers,
           IsQuorum(Q), IsQuorum(R)
    PROVE  Q \cap R # {}
  <1> DEFINE n == Cardinality(Safekeepers)
  <1>1. /\ IsFiniteSet(Safekeepers) /\ n \in Nat
        /\ IsFiniteSet(Q) /\ IsFiniteSet(R)
        /\ Cardinality(Q) \in Nat /\ Cardinality(R) \in Nat
    BY SafekeepersAssumption, FS_Subset, FS_CardinalityType
  <1>2. Cardinality(Q) >= n \div 2 + 1 /\ Cardinality(R) >= n \div 2 + 1
    BY DEF IsQuorum
  <1>3. Cardinality(Q \cup R) <= n
    BY <1>1, FS_Subset
  <1>4. Cardinality(Q \cup R) = Cardinality(Q) + Cardinality(R) - Cardinality(Q \cap R)
    BY <1>1, FS_Union
  <1> HIDE DEF n
  <1>5. 2 * (n \div 2 + 1) > n
    BY <1>1
  <1>6. ASSUME Q \cap R = {} PROVE FALSE
    <2>1. Cardinality(Q \cap R) = 0
      BY <1>6, FS_EmptySet
    <2>2. n \div 2 + 1 \in Int
      BY <1>1
    <2>3. Cardinality(Q) + Cardinality(R) <= n
      BY <1>1, <1>3, <1>4, <2>1
    <2> QED
      BY <1>1, <1>2, <1>5, <2>2, <2>3
  <1> QED
    BY <1>6

\* The initial states satisfy the election invariant.
LEMMA InitElections == Init => ElectionInv
  <1> SUFFICES ASSUME Init PROVE ElectionInv
    OBVIOUS
  <1>1. TypeInv
    BY InitTypes
  <1>2. \A p \in Computes, s \in Safekeepers : conn[p][s].req = <<>> /\ conn[p][s].rep = <<>>
    BY NewConnType DEF Init
  <1>3. \A p \in Computes : wp[p].state = "collecting"
    BY DEF Init, InitProposer
  <1>4. \A t \in 0..MaxTerm : wins[t] = 0
    BY DEF Init
  <1>5. VotesAreCurrent /\ VotesAreKept /\ OneVotePerTerm
    BY <1>2, NothingAsked DEF VotesAreCurrent, VotesAreKept, OneVotePerTerm
  <1> QED
    BY <1>1, <1>3, <1>4, <1>5 DEF ElectionInv, WonOnce, OffIsCollecting

\* Terms of a quorum only grow, and no vote comes up for one that is spent.
LEMMA StaysSpent ==
    ASSUME TypeInv, TypeInv', NEW Q \in SUBSET Safekeepers, NEW t \in Nat, SpentBy(Q, t),
           \A x \in Safekeepers : sk'[x].term >= sk[x].term,
           \A q \in Computes, x \in Q : Given(conn'[q][x].rep, t) => Given(conn[q][x].rep, t)
    PROVE  SpentBy(Q, t)'
  <1>1. \A x \in Safekeepers : sk[x].term \in Nat /\ sk'[x].term \in Nat
    BY DEF TypeInv, SafekeeperOK, SafekeeperType
  <1>2. \A x \in Q : sk'[x].term >= t
    BY <1>1 DEF SpentBy
  <1> QED
    BY <1>2 DEF SpentBy, IsQuorum

\* A step that is no part of an election keeps the election invariant.
LEMMA QuietKeepsElections ==
    ASSUME ElectionInv, TypeInv', Quiet
    PROVE  ElectionInv'
  <1>1. \A x \in Safekeepers : sk[x].term \in Nat /\ sk'[x].term \in Nat
    BY DEF ElectionInv, TypeInv, SafekeeperOK, SafekeeperType
  <1>2. VotesAreCurrent'
    <2> SUFFICES ASSUME NEW p \in Computes, NEW s \in Safekeepers, NEW t \in Nat,
                        Asked(conn'[p][s].req, t) \/ Given(conn'[p][s].rep, t)
                 PROVE  wp'[p].state # "collecting" /\ wp'[p].term = t
      BY DEF VotesAreCurrent
    <2>1. Asked(conn[p][s].req, t) \/ Given(conn[p][s].rep, t)
      BY DEF Quiet, VotesFade
    <2>2. wp[p].state # "collecting" /\ wp[p].term = t
      BY <2>1 DEF ElectionInv, VotesAreCurrent
    <2>3. Settled(p)
      BY DEF Quiet
    <2>4. ~(conn'[p][s].req = <<>> /\ conn'[p][s].rep = <<>>)
      BY NothingAsked
    <2> QED
      BY <2>2, <2>3, <2>4 DEF Settled
  <1>3. VotesAreKept'
    BY <1>1 DEF ElectionInv, VotesAreKept, Quiet, VotesFade
  <1>4. OneVotePerTerm'
    BY DEF ElectionInv, OneVotePerTerm, Quiet, VotesFade
  <1>5. WonOnce'
    <2> SUFFICES ASSUME NEW t \in 0..MaxTerm
                 PROVE  /\ wins'[t] <= 1
                        /\ wins'[t] # 0 => \E Q \in SUBSET Safekeepers : SpentBy(Q, t)'
      BY DEF WonOnce
    <2>1. t \in Nat /\ wins'[t] = wins[t] /\ wins[t] <= 1
      BY BoundsAssumption DEF Quiet, ElectionInv, WonOnce
    <2>2. ASSUME wins[t] # 0 PROVE \E Q \in SUBSET Safekeepers : SpentBy(Q, t)'
      <3>1. PICK Q \in SUBSET Safekeepers : SpentBy(Q, t)
        BY <2>2 DEF ElectionInv, WonOnce
      <3>2. SpentBy(Q, t)'
        BY <2>1, <3>1, StaysSpent DEF ElectionInv, Quiet, VotesFade
      <3> QED
        BY <3>2
    <2> QED
      BY <2>1, <2>2
  <1>6. OffIsCollecting'
    BY DEF ElectionInv, OffIsCollecting, Quiet, Settled
  <1> QED
    BY <1>2, <1>3, <1>4, <1>5, <1>6 DEF ElectionInv

\* Greeting a safekeeper and choosing a term keeps the election invariant.
LEMMA GreetKeepsElections ==
    ASSUME ElectionInv, NEW p \in Computes, NEW s \in Safekeepers,
           GreetWhileCollecting(p, s) \/ GreetLate(p, s)
    PROVE  ElectionInv'
  <1>1. TypeInv
    BY DEF ElectionInv
  <1>2. CASE Quiet
    BY <1>1, <1>2, GreetEffect, QuietKeepsElections
  <1>3. CASE /\ UNCHANGED <<sk, wins>>
             /\ \A q \in Computes \ {p} : wp'[q] = wp[q]
             /\ wp[p].mode # "off" /\ wp'[p].mode = wp[p].mode
             /\ wp'[p].state # "collecting"
             /\ \/ wp[p].state = "collecting"
                \/ wp'[p].term = wp[p].term
             /\ \A q \in Computes, x \in Safekeepers, t \in Nat :
                   /\ Given(conn'[q][x].rep, t) => Given(conn[q][x].rep, t)
                   /\ Asked(conn'[q][x].req, t) =>
                         Asked(conn[q][x].req, t) \/ (q = p /\ t = wp'[p].term)
    <2>1. TypeInv'
      BY <1>1, GreetEffect
    <2>2. VotesAreCurrent'
      BY <1>3 DEF ElectionInv, VotesAreCurrent
    <2>3. VotesAreKept' /\ OneVotePerTerm'
      BY <1>3 DEF ElectionInv, VotesAreKept, OneVotePerTerm
    <2>4. WonOnce'
      <3> SUFFICES ASSUME NEW t \in 0..MaxTerm
                   PROVE  /\ wins'[t] <= 1
                          /\ wins'[t] # 0 => \E Q \in SUBSET Safekeepers : SpentBy(Q, t)'
        BY DEF WonOnce
      <3>1. t \in Nat /\ wins'[t] = wins[t] /\ wins[t] <= 1
        BY <1>3, BoundsAssumption DEF ElectionInv, WonOnce
      <3>2. ASSUME wins[t] # 0 PROVE \E Q \in SUBSET Safekeepers : SpentBy(Q, t)'
        <4>1. PICK Q \in SUBSET Safekeepers : SpentBy(Q, t)
          BY <3>2 DEF ElectionInv, WonOnce
        <4>2. SpentBy(Q, t)'
          BY <1>3, <3>1, <4>1 DEF SpentBy, IsQuorum
        <4> QED
          BY <4>2
      <3> QED
        BY <3>1, <3>2
    <2>5. OffIsCollecting'
      BY <1>3 DEF ElectionInv, OffIsCollecting
    <2> QED
      BY <2>1, <2>2, <2>3, <2>4, <2>5 DEF ElectionInv
  <1> QED
    BY <1>1, <1>2, <1>3, GreetEffect

\* A safekeeper's vote keeps the election invariant.
LEMMA VoteKeepsElections ==
    ASSUME ElectionInv, NEW p \in Computes, NEW s \in Safekeepers, NEW live \in BOOLEAN,
           HandleVoteRequest(p, s, live)
    PROVE  ElectionInv'
  <1>1. TypeInv /\ TypeInv'
    BY HandleVoteRequestType DEF ElectionInv
  <1>2. \A x \in Safekeepers : sk[x].term \in Nat /\ sk'[x].term \in Nat
    BY <1>1 DEF TypeInv, SafekeeperOK, SafekeeperType
  <1>3. /\ UNCHANGED <<wp, wins>>
        /\ \A x \in Safekeepers : sk'[x].term >= sk[x].term
        /\ \A q \in Computes, x \in Safekeepers, t \in Nat :
              /\ Asked(conn'[q][x].req, t) => Asked(conn[q][x].req, t)
              /\ Given(conn'[q][x].rep, t) =>
                    \/ Given(conn[q][x].rep, t)
                    \/ /\ q = p /\ x = s /\ Asked(conn[p][s].req, t)
                       /\ sk[s].term < t /\ sk'[s].term = t
    BY <1>1, VoteEffect
  <1>4. VotesAreCurrent'
    BY <1>3 DEF ElectionInv, VotesAreCurrent
  <1>5. VotesAreKept'
    BY <1>2, <1>3 DEF ElectionInv, VotesAreKept
  <1>6. OneVotePerTerm'
    <2> SUFFICES ASSUME NEW q \in Computes, NEW z \in Computes, NEW x \in Safekeepers, NEW t \in Nat,
                        Given(conn'[q][x].rep, t), Given(conn'[z][x].rep, t)
                 PROVE  q = z
      BY DEF OneVotePerTerm
    <2>1. Given(conn[q][x].rep, t) => sk[x].term >= t
      BY DEF ElectionInv, VotesAreKept
    <2>2. Given(conn[z][x].rep, t) => sk[x].term >= t
      BY DEF ElectionInv, VotesAreKept
    <2>3. Given(conn[q][x].rep, t) /\ Given(conn[z][x].rep, t) => q = z
      BY DEF ElectionInv, OneVotePerTerm
    <2>4. sk[x].term \in Nat
      BY <1>2
    <2> QED
      BY <1>3, <2>1, <2>2, <2>3, <2>4
  <1>7. WonOnce'
    <2> SUFFICES ASSUME NEW t \in 0..MaxTerm
                 PROVE  /\ wins'[t] <= 1
                        /\ wins'[t] # 0 => \E Q \in SUBSET Safekeepers : SpentBy(Q, t)'
      BY DEF WonOnce
    <2>1. t \in Nat /\ wins'[t] = wins[t] /\ wins[t] <= 1
      BY <1>3, BoundsAssumption DEF ElectionInv, WonOnce
    <2>2. ASSUME wins[t] # 0 PROVE \E Q \in SUBSET Safekeepers : SpentBy(Q, t)'
      <3>1. PICK Q \in SUBSET Safekeepers : SpentBy(Q, t)
        BY <2>2 DEF ElectionInv, WonOnce
      <3>2. \A x \in Q : sk[x].term >= t /\ sk[x].term \in Nat
        BY <1>2, <3>1 DEF SpentBy
      <3>3. \A q \in Computes, x \in Q :
               Given(conn'[q][x].rep, t) => Given(conn[q][x].rep, t)
        BY <1>3, <2>1, <3>2
      <3>4. SpentBy(Q, t)'
        BY <1>1, <1>3, <2>1, <3>1, <3>3, StaysSpent
      <3> QED
        BY <3>4
    <2> QED
      BY <2>1, <2>2
  <1>8. OffIsCollecting'
    BY <1>3 DEF ElectionInv, OffIsCollecting
  <1> QED
    BY <1>1, <1>4, <1>5, <1>6, <1>7, <1>8 DEF ElectionInv

\* The heart of the matter: a quorum of votes of a term that is won would
\* share a safekeeper with the quorum that is spent.
LEMMA ElectedKeepsElections ==
    ASSUME ElectionInv, NEW p \in Computes, NEW V \in SUBSET Safekeepers, Elected(p, V)
    PROVE  ElectionInv'
  <1>1. TypeInv /\ TypeInv'
    BY ElectedEffect DEF ElectionInv
  <1>2. \A x \in Safekeepers : sk[x].term \in Nat
    BY <1>1 DEF TypeInv, SafekeeperOK, SafekeeperType
  <1>3. PICK t \in Nat : t = wp[p].term
    BY <1>1 DEF TypeInv, ProposerOK, ProposerType
  <1>4. /\ VotesFade
        /\ wins' = [wins EXCEPT ![t] = @ + 1]
        /\ \A q \in Computes \ {p} : wp'[q] = wp[q] /\ conn'[q] = conn[q]
        /\ \A x \in V : conn'[p][x].rep = <<>>
        /\ \/ /\ wp'[p].state = "collecting"
              /\ \A x \in Safekeepers : conn'[p][x].req = <<>> /\ conn'[p][x].rep = <<>>
           \/ /\ wp'[p].state = "elected" /\ wp'[p].term = wp[p].term
              /\ wp'[p].mode = wp[p].mode
    BY <1>1, <1>3, ElectedEffect
  <1>5. sk' = sk /\ wp[p].state = "campaign"
    BY Zenon DEF Elected
  <1>6. IsQuorum(V)
    <2>1. Cardinality(V) = Cardinality(Safekeepers) \div 2 + 1
      BY Zenon DEF Elected, IsMinQuorum
    <2>2. Cardinality(Safekeepers) \in Nat
      BY SafekeepersAssumption, FS_CardinalityType
    <2> QED
      BY <2>1, <2>2 DEF IsQuorum
  <1>7. ASSUME NEW x \in V PROVE Given(conn[p][x].rep, t) /\ sk[x].term >= t
    <2> DEFINE rep == conn[p][x].rep
    <2>1. Received(p, x, "vote") /\ Head(rep).given /\ x \in Safekeepers
      BY Zenon DEF Elected
    <2>2. rep \in Seq(ReplyType) /\ rep # <<>> /\ Head(rep).type = "vote"
          /\ Head(rep) \in VoteResponseType
      BY <1>1, <2>1, ReceivedType
    <2> HIDE DEF rep
    <2>3. Head(rep).term \in Nat
      BY <2>2 DEF VoteResponseType
    <2>4. Given(rep, Head(rep).term)
      BY <2>1, <2>2, <2>3, GivenSeq
    <2>5. Head(rep).term = t
      BY <1>3, <2>1, <2>3, <2>4 DEF ElectionInv, VotesAreCurrent, rep
    <2> QED
      BY <1>3, <2>1, <2>4, <2>5 DEF ElectionInv, VotesAreKept, rep
  <1>8. SpentBy(V, t)'
    <2>1. ASSUME NEW x \in V, NEW q \in Computes PROVE ~Given(conn'[q][x].rep, t)
      <3>1. CASE q = p
        BY <1>4, <3>1, NothingAsked
      <3>2. CASE q # p
        <4>1. x \in Safekeepers /\ Given(conn[p][x].rep, t)
          BY <1>7
        <4>2. ~Given(conn[q][x].rep, t)
          BY <1>3, <3>2, <4>1 DEF ElectionInv, OneVotePerTerm
        <4> QED
          BY <1>4, <3>2, <4>2
      <3> QED
        BY <3>1, <3>2
    <2>2. \A x \in V : sk'[x].term >= t
      BY <1>5, <1>7
    <2> QED
      BY <1>6, <2>1, <2>2 DEF SpentBy, IsQuorum
  <1>9. VotesAreCurrent'
    <2> SUFFICES ASSUME NEW q \in Computes, NEW s \in Safekeepers, NEW u \in Nat,
                        Asked(conn'[q][s].req, u) \/ Given(conn'[q][s].rep, u)
                 PROVE  wp'[q].state # "collecting" /\ wp'[q].term = u
      BY DEF VotesAreCurrent
    <2>1. Asked(conn[q][s].req, u) \/ Given(conn[q][s].rep, u)
      BY <1>4 DEF VotesFade
    <2>2. wp[q].state # "collecting" /\ wp[q].term = u
      BY <2>1 DEF ElectionInv, VotesAreCurrent
    <2>3. ~(conn'[q][s].req = <<>> /\ conn'[q][s].rep = <<>>)
      BY NothingAsked
    <2> QED
      BY <1>4, <2>2, <2>3
  <1>10. VotesAreKept' /\ OneVotePerTerm'
    BY <1>4, <1>5 DEF ElectionInv, VotesAreKept, OneVotePerTerm, VotesFade
  <1>11. WonOnce'
    <2> SUFFICES ASSUME NEW u \in 0..MaxTerm
                 PROVE  /\ wins'[u] <= 1
                        /\ wins'[u] # 0 => \E Q \in SUBSET Safekeepers : SpentBy(Q, u)'
      BY DEF WonOnce
    <2>1. wins \in [0..MaxTerm -> Nat] /\ u \in Nat
      BY <1>1, BoundsAssumption DEF TypeInv
    <2>2. CASE u = t
      <3>1. wins[u] = 0
        <4>1. ASSUME wins[u] # 0 PROVE FALSE
          <5>1. PICK Q \in SUBSET Safekeepers : SpentBy(Q, u)
            BY <4>1 DEF ElectionInv, WonOnce
          <5>2. PICK x \in Q : x \in V
            BY <1>6, <5>1, QuorumsMeet DEF SpentBy
          <5> QED
            BY <1>7, <2>2, <5>1, <5>2 DEF SpentBy
        <4> QED
          BY <4>1
      <3>2. wins'[u] = 1
        BY <1>4, <2>1, <2>2, <3>1
      <3>3. SpentBy(V, u)'
        BY <1>8, <2>2 DEF SpentBy, IsQuorum
      <3> QED
        BY <3>2, <3>3
    <2>3. CASE u # t
      <3>1. wins'[u] = wins[u] /\ wins[u] <= 1
        BY <1>4, <2>1, <2>3 DEF ElectionInv, WonOnce
      <3>2. ASSUME wins[u] # 0 PROVE \E Q \in SUBSET Safekeepers : SpentBy(Q, u)'
        <4>1. PICK Q \in SUBSET Safekeepers : SpentBy(Q, u)
          BY <3>2 DEF ElectionInv, WonOnce
        <4>2. \A x \in Safekeepers : sk'[x].term >= sk[x].term
          BY <1>1, <1>5, TermsStay
        <4>3. \A q \in Computes, x \in Q :
                 Given(conn'[q][x].rep, u) => Given(conn[q][x].rep, u)
          BY <1>4, <2>1 DEF VotesFade
        <4>4. SpentBy(Q, u)'
          BY <1>1, <2>1, <4>1, <4>2, <4>3, StaysSpent
        <4> QED
          BY <4>4
      <3> QED
        BY <3>1, <3>2
    <2> QED
      BY <2>2, <2>3
  <1>12. OffIsCollecting'
    BY <1>4, <1>5 DEF ElectionInv, OffIsCollecting
  <1> QED
    BY <1>1, <1>9, <1>10, <1>11, <1>12 DEF ElectionInv

\* Every step keeps the election invariant.
LEMMA ElectionsKept ==
    ASSUME ElectionInv, [Next]_vars
    PROVE  ElectionInv'
  <1>0. TypeInv
    BY DEF ElectionInv
  <1>1. ASSUME NEW p \in Computes, ProposerStep(p) PROVE ElectionInv'
    <2>1. CASE \E V \in SUBSET Safekeepers : Elected(p, V)
      BY <2>1, ElectedKeepsElections
    <2>2. CASE \E s \in Safekeepers : GreetWhileCollecting(p, s) \/ GreetLate(p, s)
      BY <2>2, GreetKeepsElections
    <2>3. CASE \/ StartSync(p) \/ WriteWal(p)
               \/ \E s \in Safekeepers : PingSafekeeper(p, s)
      <3>1. wp[p].mode = "off" => wp[p].state = "collecting"
        BY DEF ElectionInv, OffIsCollecting
      <3>2. TypeInv'
        BY <1>0, <2>3, StartingType
      <3>3. Quiet
        BY <1>0, <2>3, <3>1, StartingQuiet
      <3> QED
        BY <3>2, <3>3, QuietKeepsElections
    <2>4. CASE \E s \in Safekeepers :
                  \/ VoteRefused(p, s) \/ VoteAfterElection(p, s) \/ SendAppendRequest(p, s)
                  \/ AppendRejected(p, s) \/ AppendAcked(p, s) \/ Disconnect(p, s)
      BY <1>0, <2>4, ProposerQuiet, QuietKeepsElections
    <2> QED
      BY <1>1, <2>1, <2>2, <2>3, <2>4 DEF ProposerStep
  <1>2. ASSUME NEW p \in Computes, NEW s \in Safekeepers, AcceptorStep(p, s)
        PROVE  ElectionInv'
    <2>1. CASE \E live \in BOOLEAN : HandleVoteRequest(p, s, live)
      BY <2>1, VoteKeepsElections
    <2>2. CASE \/ \E live \in BOOLEAN :
                     HandleElected(p, s, live) \/ HandleAppendRequest(p, s, live)
               \/ FlushWal(p, s) \/ OldEnds(p, s) \/ CrashInElected(p, s)
      BY <1>0, <2>2, AcceptorQuiet, QuietKeepsElections
    <2> QED
      BY <1>2, <2>1, <2>2 DEF AcceptorStep
  <1>3. ASSUME NEW s \in Safekeepers, SafekeeperStep(s) PROVE ElectionInv'
    BY <1>0, <1>3, SafekeeperStepQuiet, QuietKeepsElections
  <1>4. CASE UNCHANGED vars
    <2>1. TypeInv'
      BY <1>0, <1>4 DEF TypeInv, vars
    <2>2. \A x \in Safekeepers : sk'[x].term >= sk[x].term
      BY <1>0, <1>4, TermsStay DEF vars
    <2>3. Quiet
      BY <1>4, <2>2 DEF Quiet, Settled, VotesFade, vars
    <2> QED
      BY <2>1, <2>3, QuietKeepsElections
  <1> QED
    BY <1>1, <1>2, <1>3, <1>4 DEF Next

(***************************************************************************)
(* At most one election is won in each term, for every number of           *)
(* safekeepers and computes, all bounds and any number of faults: what     *)
(* VotesCollected counts is never a second quorum of the same term.        *)
(***************************************************************************)
THEOREM ElectionsCorrect == Spec => []OneElectionPerTerm
  <1>1. ElectionInv /\ [Next]_vars => ElectionInv'
    BY ElectionsKept
  <1>2. ElectionInv => OneElectionPerTerm
    BY DEF ElectionInv, WonOnce, OneElectionPerTerm
  <1> QED
    BY <1>1, <1>2, InitElections, PTL DEF Spec
=============================================================================
