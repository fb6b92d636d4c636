---------------------------- MODULE WalConsensus ----------------------------
(***************************************************************************)
(* The write path of the storage: computes replicate the WAL of one        *)
(* timeline to a fixed set of safekeepers.  This module composes the       *)
(* safekeeper (Safekeeper) and the walproposer (WalProposer) over TCP-like *)
(* connections, with everything the code has to survive: several computes  *)
(* at once, lost connections whose messages are still delivered later,     *)
(* restarts of walproposers and safekeepers, a restart in the middle of a  *)
(* truncation, and delayed messages of the broker.                         *)
(*                                                                         *)
(* Variables:                                                              *)
(*   sk, wp     the state of each safekeeper and of each compute           *)
(*   conn[p][s] the connection of p to s, as p sees it: struct Safekeeper  *)
(*              of walproposer.c, the bytes in flight both ways, and the   *)
(*              dirty flag of the WalAcceptor task that serves it          *)
(*   old[p][s]  a connection p has given up while the safekeeper still has *)
(*              messages of it to process; nobody reads its replies        *)
(*   info       the last message a safekeeper has sent through the broker  *)
(*   budget     how many faults of each kind may still happen              *)
(* and, for the properties only,                                           *)
(*   wins       how many times an election was won, for each term          *)
(*   chosen     the WAL acknowledged to Postgres as committed              *)
(***************************************************************************)
EXTENDS Safekeeper, WalProposer

CONSTANTS
    Safekeepers,    \* the members of the timeline's configuration
    Computes,       \* every compute ever started on the timeline
    MaxTerm,        \* bound: no campaign or term bump beyond this term
    MaxLsn,         \* bound: no WAL is written beyond this LSN
    MaxInFlight,    \* bound: messages in flight on a connection, both ways
    MaxLate,        \* bound: abandoned connections still being processed
    MaxConnected,   \* bound: connections a walproposer has at a time
    Budgets         \* bound: the faults of each kind, one of these records

VARIABLES sk, wp, conn, old, info, budget, wins, chosen

vars == <<sk, wp, conn, old, info, budget, wins, chosen>>

Faults == {"crash", "disconnect", "bump", "info", "save"}

ASSUME SafekeepersAssumption ==
    /\ IsFiniteSet(Safekeepers)
    /\ Safekeepers # {}

ASSUME BoundsAssumption ==
    /\ MaxTerm \in Nat
    /\ MaxLsn \in Nat /\ MaxLsn >= StartLsn
    /\ MaxInFlight \in Nat
    /\ MaxConnected \in Nat
    /\ MaxLate \in Nat
    /\ Budgets \subseteq [Faults -> Nat]

-----------------------------------------------------------------------------
\* MsetQuorum, MsetHasQuorum
IsQuorum(Q) == Cardinality(Q) >= Cardinality(Safekeepers) \div 2 + 1

\* The quorum is complete with the last member of Q.
IsMinQuorum(Q) == Cardinality(Q) = Cardinality(Safekeepers) \div 2 + 1

\* Messages of the walproposer.
VoteRequest(w) == [type |-> "vote", term |-> w.term]

ProposerElected(w, start) ==
    [type |-> "elected", term |-> w.term, start |-> start, history |-> w.history]

\* PrepareAppendRequest
AppendRequest(w, begin, recs) ==
    [type |-> "append", term |-> w.term, begin |-> begin, recs |-> recs,
     commit |-> w.commit, truncate |-> w.truncate]

\* palloc0: a safekeeper the walproposer has never talked to.
NewConn == [state |-> "offline", req |-> <<>>, rep |-> <<>>, dirty |-> FALSE,
            sent |-> InvalidLsn, told |-> <<InvalidLsn, InvalidLsn>>,
            ackFlush |-> InvalidLsn, ackCommit |-> InvalidLsn]

NoOld == [req |-> <<>>, dirty |-> FALSE]

(***************************************************************************)
(* ShutdownConnection; the last AppendResponse is preserved.               *)
(***************************************************************************)
Offline(c) == [NewConn EXCEPT !.ackFlush = c.ackFlush, !.ackCommit = c.ackCommit]

(***************************************************************************)
(* p closes its connections cs.  On some of them the safekeeper goes on    *)
(* receiving what was sent, on the others it is lost.  The model keeps at  *)
(* most one such connection for a pair, and MaxLate in all.                *)
(***************************************************************************)
Leftover(c) == [req |-> c.req, dirty |-> c.dirty]

Abandon(p, cs) ==
    \E K \in SUBSET {s \in Safekeepers :
                         old[p][s] = NoOld /\ Leftover(cs[s]) # NoOld} :
        /\ old' = [old EXCEPT ![p] = [s \in Safekeepers |->
                       IF s \in K THEN Leftover(cs[s]) ELSE old[p][s]]]
        /\ Cardinality({x \in Computes \X Safekeepers :
                            old'[x[1]][x[2]] # NoOld}) <= MaxLate

Init ==
    /\ sk        = [s \in Safekeepers |-> InitSafekeeper]
    /\ wp        = [p \in Computes |-> InitProposer]
    /\ conn      = [p \in Computes |-> [s \in Safekeepers |-> NewConn]]
    /\ old       = [p \in Computes |-> [s \in Safekeepers |-> NoOld]]
    /\ info      = PeerInfo(InitSafekeeper)
    /\ budget    \in Budgets
    /\ wins      = [t \in 0..MaxTerm |-> 0]
    /\ chosen    = <<>>

Spend(fault) ==
    /\ budget[fault] > 0
    /\ budget' = [budget EXCEPT ![fault] = @ - 1]

-----------------------------------------------------------------------------
(***************************************************************************)
(* Starting a compute.                                                     *)
(***************************************************************************)

\* prepare_pgdata runs sync-safekeepers: the check has failed or timed out.
StartSync(p) ==
    /\ wp[p].mode = "off"
    /\ wp' = [wp EXCEPT ![p] = Synchronizing(@)]
    /\ UNCHANGED <<sk, conn, old, info, budget, wins, chosen>>

\* Mutant: what is flushed is taken for synced, committed or not.
PingFlushed(p, s) ==
    /\ wp[p].mode = "off" /\ s \notin wp[p].syncedBy
    /\ wp[p].syncedBy # {} => sk[s].flush = wp[p].syncedAt
    /\ LET lsn == sk[s].flush
           by  == wp[p].syncedBy \cup {s}
       IN  wp' = [wp EXCEPT ![p] = IF IsQuorum(by) THEN PostgresAt(@, lsn)
                                   ELSE SyncedOn(@, by, lsn)]
    /\ UNCHANGED <<sk, conn, old, info, budget, wins, chosen>>

(***************************************************************************)
(* check_safekeepers_synced: the safekeepers are asked one by one, and if  *)
(* a quorum reports the same LSN, both flushed and committed, Postgres     *)
(* starts there without sync-safekeepers.                                  *)
(***************************************************************************)
PingSafekeeper(p, s) ==
    /\ wp[p].mode = "off" /\ s \notin wp[p].syncedBy
    /\ sk[s].commit = sk[s].flush
    /\ wp[p].syncedBy # {} => sk[s].flush = wp[p].syncedAt
    /\ LET lsn == sk[s].flush
           by  == wp[p].syncedBy \cup {s}
       IN  wp' = [wp EXCEPT ![p] = IF IsQuorum(by) THEN PostgresAt(@, lsn)
                                   ELSE SyncedOn(@, by, lsn)]
    /\ UNCHANGED <<sk, conn, old, info, budget, wins, chosen>>

\* Postgres writes one record to its local WAL.
WriteWal(p) ==
    /\ wp[p].mode = "compute" /\ wp[p].state = "elected"
    /\ wp[p].end < MaxLsn
    /\ wp' = [wp EXCEPT ![p].end = @ + 1]
    /\ UNCHANGED <<sk, conn, old, info, budget, wins, chosen>>

Running(p) == wp[p].mode \in {"sync", "compute"}

(***************************************************************************)
(* The walproposer process ends and a new one starts, for Postgres as a    *)
(* background worker and for sync-safekeepers by compute_ctl's retry; w is *)
(* what is left of its state.                                              *)
(***************************************************************************)
ProcessEnds(p, w) ==
    /\ wp'   = [wp EXCEPT ![p] = w]
    /\ conn' = [conn EXCEPT ![p] = [s \in Safekeepers |-> NewConn]]
    /\ Abandon(p, conn[p])

\* wp_log(FATAL, ...)
Fatal(p) == ProcessEnds(p, Restarting(wp[p]))

-----------------------------------------------------------------------------
(***************************************************************************)
(* Greetings: handle_greeting at the safekeeper, which changes nothing     *)
(* there, and RecvAcceptorGreeting at the walproposer, as one step.  Terms *)
(* only grow: the term of a greeting may be out of date when the vote      *)
(* requests are handled.                                                   *)
(***************************************************************************)
CanConnect(p, s) ==
    /\ Running(p)
    /\ conn[p][s].state = "offline"
    /\ Cardinality({x \in Safekeepers : conn[p][x].state # "offline"}) < MaxConnected

\* SendVoteRequest to every safekeeper in S.
AskVotes(p, w, S) ==
    conn' = [conn EXCEPT ![p] = [s \in Safekeepers |->
                IF s \in S
                THEN [conn[p][s] EXCEPT !.state = "wait_verdict",
                                        !.req   = <<VoteRequest(w)>>]
                ELSE conn[p][s]]]

\* The highest term greeted so far; the quorum of greetings starts the campaign.
GreetWhileCollecting(p, s) ==
    /\ CanConnect(p, s) /\ wp[p].state = "collecting"
    /\ LET greeted == {x \in Safekeepers : conn[p][x].state = "wait_voting"} \cup {s}
           highest == Larger(wp[p].term, sk[s].term)
           w == [wp[p] EXCEPT !.term = highest + 1, !.state = "campaign"]
       IN  \/ /\ ~IsQuorum(greeted)
              /\ wp'   = [wp EXCEPT ![p].term = highest]
              /\ conn' = [conn EXCEPT ![p][s].state = "wait_voting"]
           \/ /\ IsQuorum(greeted)
              /\ highest < MaxTerm
              /\ wp' = [wp EXCEPT ![p] = w]
              /\ AskVotes(p, w, greeted)
    /\ UNCHANGED <<sk, old, info, budget, wins, chosen>>

\* A greeting when the campaign is already going on, or over.
GreetLate(p, s) ==
    /\ CanConnect(p, s) /\ wp[p].state # "collecting"
    /\ \/ /\ sk[s].term <= wp[p].term
          /\ AskVotes(p, wp[p], {s})
          /\ UNCHANGED <<wp, old>>
       \/ /\ sk[s].term > wp[p].term
          /\ Fatal(p)
    /\ UNCHANGED <<sk, info, budget, wins, chosen>>

-----------------------------------------------------------------------------
(***************************************************************************)
(* The safekeeper's side.  WalAcceptor takes the messages of a connection  *)
(* in order; `live' tells the current connection from the abandoned one.   *)
(***************************************************************************)
Incoming(p, s, live) == IF live THEN conn[p][s].req ELSE old[p][s].req

IsNext(p, s, live, type) ==
    /\ Incoming(p, s, live) # <<>>
    /\ Head(Incoming(p, s, live)).type = type

\* The message is done with; reply is empty or has the reply.
Done(p, s, live, reply, dirty) ==
    IF live
    THEN /\ conn' = [conn EXCEPT ![p][s].req   = Tail(@),
                                 ![p][s].rep   = @ \o reply,
                                 ![p][s].dirty = @ \/ dirty]
         /\ UNCHANGED old
    ELSE /\ old' = [old EXCEPT ![p][s].req   = Tail(@),
                               ![p][s].dirty = @ \/ dirty]
         /\ UNCHANGED conn

\* An error: the connection ends, without a flush, and the rest is lost.
Bail(p, s, live) ==
    IF live
    THEN conn' = [conn EXCEPT ![p][s] = Offline(@)] /\ UNCHANGED old
    ELSE old' = [old EXCEPT ![p][s] = NoOld] /\ UNCHANGED conn

HandleVoteRequest(p, s, live) ==
    /\ IsNext(p, s, live, "vote")
    /\ LET m == Head(Incoming(p, s, live))
       IN  /\ sk' = [sk EXCEPT ![s] = AfterVoteRequest(@, m)]
           /\ Done(p, s, live, <<VoteResponse(sk[s], m)>>, FALSE)
    /\ UNCHANGED <<wp, info, budget, wins, chosen>>

HandleElected(p, s, live) ==
    /\ IsNext(p, s, live, "elected")
    /\ LET m == Head(Incoming(p, s, live))
       IN  \/ /\ ElectedIgnored(sk[s], m)
              /\ Done(p, s, live, <<>>, FALSE)
              /\ UNCHANGED sk
           \/ /\ ~ElectedIgnored(sk[s], m)
              /\ ElectedRefused(sk[s], m)
              /\ sk' = [sk EXCEPT ![s] = WithTerm(@, m.term)]
              /\ Bail(p, s, live)
           \/ /\ ~ElectedIgnored(sk[s], m)
              /\ ~ElectedRefused(sk[s], m)
              /\ sk' = [sk EXCEPT ![s] = AfterElected(@, m)]
              /\ Done(p, s, live, <<>>, FALSE)
    /\ UNCHANGED <<wp, info, budget, wins, chosen>>

(***************************************************************************)
(* Whether WalAcceptor, dirty after an append, has something to do: WAL to *)
(* flush or a response that tells p anything new.  The code sends the      *)
(* response in any case; one that repeats the last is left out.            *)
(***************************************************************************)
OwesFlush(p, s, k) ==
    LET r == AppendResponse(Flushed(k))
    IN  \/ k.flush # WriteLsn(k)
        \/ r.term # wp[p].term
        \/ <<r.flush, r.commit>> # <<conn[p][s].ackFlush, conn[p][s].ackCommit>>

HandleAppendRequest(p, s, live) ==
    /\ IsNext(p, s, live, "append")
    /\ LET m == Head(Incoming(p, s, live))
       IN  \/ /\ AppendStale(sk[s], m)
              /\ Done(p, s, live, <<TermOnlyResponse(sk[s])>>, TRUE)
              /\ UNCHANGED sk
           \/ /\ ~AppendStale(sk[s], m)
              /\ AppendRefused(sk[s], m)
              /\ Bail(p, s, live)
              /\ UNCHANGED sk
           \/ /\ ~AppendStale(sk[s], m)
              /\ ~AppendRefused(sk[s], m)
              /\ sk' = [sk EXCEPT ![s] = AfterAppend(@, m)]
              /\ Done(p, s, live, <<>>, OwesFlush(p, s, AfterAppend(sk[s], m)))
    /\ UNCHANGED <<wp, info, budget, wins, chosen>>

\* The flush of WalAcceptor::run, on its ticker or when no message waits.
FlushWal(p, s) ==
    /\ conn[p][s].dirty
    /\ sk'   = [sk EXCEPT ![s] = Flushed(@)]
    /\ conn' = [conn EXCEPT ![p][s].dirty = FALSE,
                            ![p][s].rep   = Append(@, AppendResponse(Flushed(sk[s])))]
    /\ UNCHANGED <<wp, old, info, budget, wins, chosen>>

\* WalAcceptor::run notices that its peer is gone: it flushes if dirty.
OldEnds(p, s) ==
    /\ old[p][s] # NoOld
    /\ old' = [old EXCEPT ![p][s] = NoOld]
    /\ sk'  = [sk EXCEPT ![s] = IF old[p][s].dirty THEN Flushed(@) ELSE @]
    /\ UNCHANGED <<wp, conn, info, budget, wins, chosen>>

-----------------------------------------------------------------------------
(***************************************************************************)
(* The walproposer's side of the election.                                 *)
(***************************************************************************)
Received(p, s, type) ==
    /\ conn[p][s].rep # <<>>
    /\ Head(conn[p][s].rep).type = type

\* SendProposerElected and StartStreaming, on a connection with vote v.
SendElected(c, w, v) ==
    LET start == StartStreamingAt(w.history, w.term, v.history, v.flush)
    IN  [c EXCEPT !.state = "active", !.sent = start, !.rep = <<>>,
                  !.told = <<InvalidLsn, w.truncate>>,
                  !.req = <<ProposerElected(w, start)>>]

\* A refused vote: another compute is ahead, or our term is already taken.
VoteRefused(p, s) ==
    /\ Received(p, s, "vote")
    /\ LET v == Head(conn[p][s].rep)
       IN  ~v.given /\ (v.term > wp[p].term \/ wp[p].state = "campaign")
    /\ Fatal(p)
    /\ UNCHANGED <<sk, info, budget, wins, chosen>>

(***************************************************************************)
(* The votes of V make the walproposer elected: VotesCollected picks the   *)
(* donor, and HandleElectedProposer either panics, or finishes             *)
(* sync-safekeepers at once, or sends ProposerElected to every voter.  A   *)
(* vote below the quorum changes nothing, so receiving them is one step.   *)
(***************************************************************************)
Elected(p, V) ==
    /\ wp[p].state = "campaign"
    /\ IsMinQuorum(V)
    /\ \A x \in V : Received(p, x, "vote") /\ Head(conn[p][x].rep).given
    /\ LET v(x) == Head(conn[p][x].rep)
       IN  \E d, h \in V :
              /\ \A x \in V : VoteGe(v(d), v(x))
              /\ \A x \in V : v(h).truncate >= v(x).truncate
              /\ LET w == ElectedOn(wp[p], {x \in V : VoteGe(v(x), v(d))}, v(d),
                                   v(h).truncate)
                 IN  /\ wins' = [wins EXCEPT ![w.term] = @ + 1]
                     /\ \/ /\ BasebackupSpoiled(wp[p], v(d))
                           /\ ProcessEnds(p, Panicked(w))
                        \/ /\ SyncNotNeeded(w)
                           /\ ProcessEnds(p, PostgresAt(w, w.start))
                        \/ /\ ~BasebackupSpoiled(wp[p], v(d))
                           /\ ~SyncNotNeeded(w)
                           /\ wp' = [wp EXCEPT ![p] = w]
                           /\ conn' = [conn EXCEPT ![p] = [x \in Safekeepers |->
                                 IF x \in V THEN SendElected(conn[p][x], w, v(x))
                                            ELSE conn[p][x]]]
                           /\ UNCHANGED old
    /\ UNCHANGED <<sk, info, budget, chosen>>

\* Already elected: s gets ProposerElected whether or not it gave its vote.
VoteAfterElection(p, s) ==
    /\ Received(p, s, "vote")
    /\ wp[p].state = "elected"
    /\ LET v == Head(conn[p][s].rep)
       IN  /\ v.given \/ v.term <= wp[p].term
           /\ conn' = [conn EXCEPT ![p][s] = SendElected(@, wp[p], v)]
    /\ UNCHANGED <<sk, wp, old, info, budget, wins, chosen>>

-----------------------------------------------------------------------------
(***************************************************************************)
(* Streaming.  What Postgres did not write itself is read from a donor     *)
(* safekeeper, which serves uncommitted WAL only in the walproposer's own  *)
(* term (acquire_term).  The donor is the one of the election or one that  *)
(* has acknowledged WAL since (UpdateDonorShmem).                          *)
(***************************************************************************)
Donors(p, lsn) ==
    {d \in Safekeepers : /\ d \in wp[p].donors \/ conn[p][d].ackFlush # InvalidLsn
                         /\ sk[d].term = wp[p].term
                         /\ lsn < sk[d].flush}

\* wal_read of the record at lsn.
Readable(p, lsn) ==
    IF wp[p].mode = "compute" /\ lsn >= wp[p].base
    THEN {p}
    ELSE {sk[d].wal[lsn - StartLsn + 1] : d \in Donors(p, lsn)}

\* Mutant: a new commitLsn is only told with new WAL.
HeartbeatForAck(p, s) ==
    LET c == conn[p][s]
    IN  /\ c.req = <<>> /\ c.rep = <<>> /\ ~c.dirty
        /\ \/ wp[p].mode = "compute" /\ c.sent > wp[p].base /\ c.ackFlush # c.sent
           \/ wp[p].mode = "sync" /\ c.ackCommit < wp[p].start
           \/ sk[s].term > wp[p].term

(***************************************************************************)
(* Heartbeats.  The code repeats them on a timer; the model sends one only *)
(* when the safekeeper or p learns something by it (a new LSN, a missing   *)
(* acknowledgement of WAL beyond the basebackup, a higher term), and not   *)
(* behind other messages.                                                  *)
(***************************************************************************)
HeartbeatMatters(p, s) ==
    LET c == conn[p][s]
    IN  /\ c.req = <<>> /\ c.rep = <<>> /\ ~c.dirty
        /\ \/ c.told # <<wp[p].commit, wp[p].truncate>>
           \/ wp[p].mode = "compute" /\ c.sent > wp[p].base /\ c.ackFlush # c.sent
           \/ wp[p].mode = "sync" /\ c.ackCommit < wp[p].start
           \/ sk[s].term > wp[p].term

\* One message of SendAppendRequests; an empty one is a heartbeat.
SendAppendRequest(p, s) ==
    /\ wp[p].state = "elected"
    /\ conn[p][s].state = "active"
    /\ Len(conn[p][s].req) + Len(conn[p][s].rep) < MaxInFlight
    /\ LET lsn == conn[p][s].sent
       IN  \/ /\ lsn < Available(wp[p])
              /\ \E r \in Readable(p, lsn) :
                    conn' = [conn EXCEPT
                        ![p][s].req  = Append(@, AppendRequest(wp[p], lsn, <<r>>)),
                        ![p][s].sent = lsn + 1,
                        ![p][s].told = <<wp[p].commit, wp[p].truncate>>]
           \/ /\ lsn = Available(wp[p])
              /\ HeartbeatMatters(p, s)
              /\ conn' = [conn EXCEPT
                     ![p][s].req  = Append(@, AppendRequest(wp[p], lsn, <<>>)),
                     ![p][s].told = <<wp[p].commit, wp[p].truncate>>]
    /\ UNCHANGED <<sk, wp, old, info, budget, wins, chosen>>

(***************************************************************************)
(* GetAcknowledgedByQuorumWALPosition: the highest LSN that a quorum has   *)
(* acknowledged, not counting those still below the start of our term.     *)
(***************************************************************************)
AckedBy(start, ack, lsn) ==
    IsQuorum({s \in Safekeepers : ack[s] >= start /\ ack[s] >= lsn})

IsQuorumLsn(start, ack, lsn) ==
    /\ lsn # InvalidLsn => AckedBy(start, ack, lsn)
    /\ \A l \in (lsn + 1)..MaxLsn : ~AckedBy(start, ack, l)

\* Mutant: the safekeepers that have not answered yet do not count.
IsMinKnownFlush(ack, lsn) ==
    /\ \E s \in Safekeepers : ack[s] = lsn
    /\ \A s \in Safekeepers : ack[s] # InvalidLsn => ack[s] >= lsn
    /\ lsn = InvalidLsn => \A s \in Safekeepers : ack[s] = InvalidLsn

\* CalculateMinFlushLsn
IsMinFlush(ack, lsn) ==
    /\ \E s \in Safekeepers : ack[s] = lsn
    /\ \A s \in Safekeepers : ack[s] >= lsn

(***************************************************************************)
(* RecvAppendResponses: a higher term restarts the walproposer, otherwise  *)
(* HandleSafekeeperResponse moves commitLsn and truncateLsn and, in sync   *)
(* mode, ends when every connected safekeeper has persisted the start of   *)
(* the term as committed; the last truncateLsn is broadcast before.        *)
(***************************************************************************)
AppendRejected(p, s) ==
    /\ conn[p][s].state = "active"
    /\ Received(p, s, "append")
    /\ Head(conn[p][s].rep).term > wp[p].term
    /\ Fatal(p)
    /\ UNCHANGED <<sk, info, budget, wins, chosen>>

SyncDone(p, w, cs, quorumLsn) ==
    /\ w.mode = "sync"
    /\ \A x \in Safekeepers : cs[x].state # "offline" => cs[x].ackCommit >= w.start
    /\ quorumLsn >= w.start

LastBroadcast(c, w) ==
    IF c.state = "active"
    THEN [c EXCEPT !.req = Append(@, AppendRequest(w, c.sent, <<>>))]
    ELSE c

\* For the ghost chosen: the WAL up to lsn as p, told by s, has it committed.
CommittedWal(p, s, lsn) ==
    IF wp[p].mode = "compute"
    THEN Below(chosen, wp[p].base) \o [i \in 1..(lsn - wp[p].base) |-> p]
    ELSE Below(sk[s].wal, lsn)

AppendAcked(p, s) ==
    /\ conn[p][s].state = "active"
    /\ Received(p, s, "append")
    /\ Head(conn[p][s].rep).term <= wp[p].term
    /\ LET r  == Head(conn[p][s].rep)
           cs == [conn[p] EXCEPT ![s].rep = Tail(@), ![s].ackFlush = r.flush,
                                 ![s].ackCommit = r.commit]
           ack == [x \in Safekeepers |-> cs[x].ackFlush]
       IN  \E quorumLsn, minFlush \in 0..MaxLsn :
              /\ IsQuorumLsn(wp[p].start, ack, quorumLsn)
              /\ IsMinFlush(ack, minFlush)
              /\ LET w == WithAcks(wp[p], quorumLsn, minFlush)
                 IN  /\ chosen' = IF w.commit > EndOf(chosen)
                                  THEN CommittedWal(p, s, w.commit) ELSE chosen
                     /\ IF SyncDone(p, w, cs, quorumLsn)
                        THEN /\ wp' = [wp EXCEPT ![p] = PostgresAt(w, w.start)]
                             /\ conn' = [conn EXCEPT ![p] =
                                            [x \in Safekeepers |-> NewConn]]
                             /\ Abandon(p, [x \in Safekeepers |->
                                               LastBroadcast(cs[x], w)])
                        ELSE /\ wp'   = [wp EXCEPT ![p] = w]
                             /\ conn' = [conn EXCEPT ![p] = cs]
                             /\ UNCHANGED old
    /\ UNCHANGED <<sk, info, budget, wins>>

-----------------------------------------------------------------------------
(***************************************************************************)
(* Faults and background activity.                                         *)
(***************************************************************************)

\* A connection breaks or times out.
Disconnect(p, s) ==
    /\ Spend("disconnect")
    /\ conn[p][s].state # "offline"
    /\ conn' = [conn EXCEPT ![p][s] = Offline(@)]
    /\ Abandon(p, [x \in Safekeepers |-> IF x = s THEN conn[p][s] ELSE NewConn])
    /\ UNCHANGED <<sk, wp, info, wins, chosen>>

\* All connections of a safekeeper end without anything being delivered.
DropConnections(s) ==
    /\ conn' = [p \in Computes |-> [conn[p] EXCEPT ![s] = Offline(@)]]
    /\ old'  = [p \in Computes |-> [old[p] EXCEPT ![s] = NoOld]]

CrashSafekeeper(s) ==
    /\ Spend("crash")
    /\ \E end \in sk[s].flush..WriteLsn(sk[s]) :
          sk' = [sk EXCEPT ![s] = Restarted(@, end)]
    /\ DropConnections(s)
    /\ UNCHANGED <<wp, info, wins, chosen>>

(***************************************************************************)
(* A crash in handle_elected after the term is persisted and before the    *)
(* history is: some of the WAL above the truncation point may be gone.     *)
(***************************************************************************)
CrashInElected(p, s) ==
    /\ Spend("crash")
    /\ IsNext(p, s, TRUE, "elected")
    /\ LET m == Head(conn[p][s].req)
       IN  /\ ~ElectedIgnored(sk[s], m)
           /\ ~ElectedRefused(sk[s], m)
           /\ \E end \in m.start..WriteLsn(sk[s]) :
                 sk' = [sk EXCEPT ![s] = Restarted(WithTerm(@, m.term), end)]
    /\ DropConnections(s)
    /\ UNCHANGED <<wp, info, wins, chosen>>

\* update_control_file_save of the timeline manager.
SaveControlFile(s) ==
    /\ Spend("save")
    /\ sk[s] # Persisted(sk[s])
    /\ sk' = [sk EXCEPT ![s] = Persisted(@)]
    /\ UNCHANGED <<wp, conn, old, info, wins, chosen>>

\* The broker: a safekeeper publishes, another one receives, some time later.
PublishInfo(s) ==
    /\ Spend("info")
    /\ info' = PeerInfo(sk[s])
    /\ UNCHANGED <<sk, wp, conn, old, wins, chosen>>

RecordSafekeeperInfo(s) ==
    /\ sk[s] # AfterPeerInfo(sk[s], info)
    /\ sk' = [sk EXCEPT ![s] = AfterPeerInfo(@, info)]
    /\ UNCHANGED <<wp, conn, old, info, budget, wins, chosen>>

\* The term_bump endpoint, called during migration.
TermBump(s) ==
    /\ Spend("bump")
    /\ sk[s].term < MaxTerm
    /\ sk' = [sk EXCEPT ![s] = TermBumped(@)]
    /\ UNCHANGED <<wp, conn, old, info, wins, chosen>>

-----------------------------------------------------------------------------
ProposerStep(p) ==
    \/ StartSync(p) \/ WriteWal(p)
    \/ \E V \in SUBSET Safekeepers : Elected(p, V)
    \/ \E s \in Safekeepers :
          \/ PingSafekeeper(p, s)
          \/ GreetWhileCollecting(p, s) \/ GreetLate(p, s)
          \/ VoteRefused(p, s) \/ VoteAfterElection(p, s)
          \/ SendAppendRequest(p, s)
          \/ AppendRejected(p, s) \/ AppendAcked(p, s)
          \/ Disconnect(p, s)

AcceptorStep(p, s) ==
    \/ \E live \in BOOLEAN :
          \/ HandleVoteRequest(p, s, live)
          \/ HandleElected(p, s, live)
          \/ HandleAppendRequest(p, s, live)
    \/ FlushWal(p, s) \/ OldEnds(p, s) \/ CrashInElected(p, s)

SafekeeperStep(s) ==
    \/ CrashSafekeeper(s) \/ SaveControlFile(s) \/ TermBump(s)
    \/ PublishInfo(s) \/ RecordSafekeeperInfo(s)

Next ==
    \/ \E p \in Computes : ProposerStep(p)
    \/ \E p \in Computes, s \in Safekeepers : AcceptorStep(p, s)
    \/ \E s \in Safekeepers : SafekeeperStep(s)

Spec == Init /\ [][Next]_vars

(***************************************************************************)
(* Fairness towards compute p.  Its event loop retries lost connections on *)
(* a timer, reads what has arrived on each of them and sends what there is *)
(* to send; WalAcceptor takes the messages of each connection and flushes  *)
(* when there are none.  Nothing forces Postgres to write, nor faults to   *)
(* happen.                                                                 *)
(***************************************************************************)
ProposerReceives(p, s) ==
    \/ GreetWhileCollecting(p, s) \/ GreetLate(p, s)
    \/ VoteRefused(p, s) \/ VoteAfterElection(p, s)
    \/ AppendRejected(p, s) \/ AppendAcked(p, s)

AcceptorReceives(p, s) ==
    \/ HandleVoteRequest(p, s, TRUE)
    \/ HandleElected(p, s, TRUE)
    \/ HandleAppendRequest(p, s, TRUE)
    \/ FlushWal(p, s)

Fairness(p) ==
    /\ WF_vars(\E V \in SUBSET Safekeepers : Elected(p, V))
    /\ \A s \in Safekeepers :
          /\ WF_vars(ProposerReceives(p, s))
          /\ SF_vars(AcceptorReceives(p, s))
          /\ WF_vars(SendAppendRequest(p, s))

-----------------------------------------------------------------------------
(***************************************************************************)
(* Types.                                                                  *)
(***************************************************************************)
SafekeeperType ==
    [term : Nat, history : History, commit : Nat, horizon : Nat,
     pcommit : Nat, phorizon : Nat, wal : Seq(Computes), flush : Nat,
     pending : BOOLEAN, termStart : Nat]

ProposerType ==
    [mode : {"off", "sync", "compute", "dead"},
     syncedAt : Nat, syncedBy : SUBSET Safekeepers,
     state : {"collecting", "campaign", "elected"},
     term : Nat, history : History, start : Nat, commit : Nat, truncate : Nat,
     donors : SUBSET Safekeepers, base : Nat, end : Nat, mine : Nat]

VoteRequestType   == [type : {"vote"}, term : Nat]
ElectedType       == [type : {"elected"}, term : Nat, start : Nat,
                      history : History \ {<<>>}]
AppendRequestType == [type : {"append"}, term : Nat, begin : Nat,
                      recs : Seq(Computes), commit : Nat, truncate : Nat]
RequestType       == VoteRequestType \cup ElectedType \cup AppendRequestType

VoteResponseType   == [type : {"vote"}, term : Nat, given : BOOLEAN,
                       flush : Nat \ {InvalidLsn}, truncate : Nat,
                       history : History]
AppendResponseType == [type : {"append"}, term : Nat, flush : Nat, commit : Nat]
ReplyType          == VoteResponseType \cup AppendResponseType

ConnType ==
    [state : {"offline", "wait_voting", "wait_verdict", "active"},
     req : Seq(RequestType), rep : Seq(ReplyType), dirty : BOOLEAN,
     sent : Nat, told : Nat \X Nat,
     ackFlush : Nat, ackCommit : Nat]

OldType == [req : Seq(RequestType), dirty : BOOLEAN]

(***************************************************************************)
(* Every variable has the shape the structures of the code give it, and    *)
(* flush_lsn never points beyond the WAL that is written.                  *)
(***************************************************************************)
TypeOK ==
    /\ sk \in [Safekeepers -> SafekeeperType]
    /\ \A s \in Safekeepers : sk[s].flush \in StartLsn..WriteLsn(sk[s])
    /\ wp \in [Computes -> ProposerType]
    /\ conn \in [Computes -> [Safekeepers -> ConnType]]
    /\ old \in [Computes -> [Safekeepers -> OldType]]
    /\ info \in [lastLogTerm : Nat, commit : Nat, horizon : Nat]
    /\ budget \in [Faults -> Nat]
    /\ wins \in [0..MaxTerm -> Nat]
    /\ chosen \in Seq(Computes)

-----------------------------------------------------------------------------
(***************************************************************************)
(* Safety.                                                                 *)
(***************************************************************************)

(***************************************************************************)
(* At most one election is won in a term, even by the same compute after   *)
(* its walproposer has restarted: a safekeeper persists its vote before    *)
(* sending it (handle_vote_request), and a walproposer counts only votes   *)
(* of its current connections (VotesCollected).                            *)
(***************************************************************************)
OneElectionPerTerm ==
    \A t \in 0..MaxTerm : wins[t] <= 1

(***************************************************************************)
(* WAL that was acknowledged to Postgres as committed stays flushed, as it *)
(* was, on a quorum of safekeepers: no election, truncation or restart     *)
(* undoes what HandleSafekeeperResponse has counted.                       *)
(***************************************************************************)
CommittedIsDurable ==
    /\ \A p \in Computes : wp[p].commit <= EndOf(chosen)
    /\ IsQuorum({s \in Safekeepers :
                    /\ sk[s].flush >= EndOf(chosen)
                    /\ Below(sk[s].wal, EndOf(chosen)) = chosen})

(***************************************************************************)
(* What a safekeeper serves to pageservers, the WAL below its commit_lsn,  *)
(* is flushed there and is the committed WAL: update_commit_lsn never      *)
(* adopts a commit_lsn, from a walproposer or from a peer, that covers     *)
(* other records.                                                          *)
(***************************************************************************)
ServedIsCommitted ==
    \A s \in Safekeepers :
        /\ sk[s].commit <= sk[s].flush
        /\ sk[s].commit <= EndOf(chosen)
        /\ Below(sk[s].wal, sk[s].commit) = Below(chosen, sk[s].commit)

(***************************************************************************)
(* The assertions of find_highest_common_point hold for whatever           *)
(* ProposerElected is next on a connection, abandoned or not: a term       *)
(* starts at one LSN, and a history does not go beyond the WAL it          *)
(* describes.                                                              *)
(***************************************************************************)
ElectedAssertionsHold ==
    \A p \in Computes, s \in Safekeepers, live \in BOOLEAN :
        IsNext(p, s, live, "elected") =>
            LET m  == Head(Incoming(p, s, live))
                th == TermHistoryOf(sk[s])
            IN  ~ElectedIgnored(sk[s], m) =>
                    /\ SameTermSameLsn(m.history, th)
                    /\ th # <<>> => th[Len(th)].lsn <= sk[s].flush

(***************************************************************************)
(* The assertion of handle_elected that follows, "We are also expected to  *)
(* never attempt to truncate committed data": once the two sides agree on  *)
(* the point, it is not below commit_lsn.  A safekeeper may learn from a   *)
(* peer what a leader it has never heard of has committed, so this is a    *)
(* question of how many safekeepers can know nothing of that leader.       *)
(***************************************************************************)
CommittedIsNotTruncated ==
    \A p \in Computes, s \in Safekeepers, live \in BOOLEAN :
        IsNext(p, s, live, "elected") =>
            LET m == Head(Incoming(p, s, live))
            IN  ~ElectedIgnored(sk[s], m) /\ CommonPoint(sk[s], m) = m.start =>
                    m.start >= sk[s].commit

(***************************************************************************)
(* Whatever ProposerElected a safekeeper acts on, the last common point it *)
(* finds in the two histories is where its flushed WAL and the WAL of the  *)
(* walproposer diverge: below it all records were written in the same      *)
(* terms, and the first one above it was not.                              *)
(***************************************************************************)
TruncationIsExact ==
    \A p \in Computes, s \in Safekeepers, live \in BOOLEAN :
        IsNext(p, s, live, "elected") =>
            LET m == Head(Incoming(p, s, live))
            IN  ~ElectedIgnored(sk[s], m) =>
                    IsDivergence(m.history, TermHistoryOf(sk[s]), sk[s].flush)

(***************************************************************************)
(* The start position VotesCollected picks covers whatever was, or still   *)
(* will be, committed by the leaders of lower terms.                       *)
(***************************************************************************)
LeaderCoversCommitted ==
    \A p, q \in Computes :
        wp[p].state = "elected" /\ wp[q].term < wp[p].term =>
            wp[q].commit <= wp[p].start

(***************************************************************************)
(* Postgres never runs on WAL that is not its own: where the last flushed  *)
(* WAL is of the term of an elected compute, the records flushed from its  *)
(* basebackup on are the ones it wrote.  It is what the check of           *)
(* ProcessPropStartPos protects, with its exception for terms won by the   *)
(* compute itself.                                                         *)
(***************************************************************************)
PostgresWalIsOwn ==
    \A p \in Computes :
        wp[p].state = "elected" /\ wp[p].mode = "compute" =>
            /\ wp[p].base <= wp[p].start /\ wp[p].start <= wp[p].end
            /\ \A s \in Safekeepers :
                  LastLogTerm(sk[s]) = wp[p].term =>
                      \A l \in wp[p].base..(sk[s].flush - 1) :
                          sk[s].wal[l - StartLsn + 1] = p

(***************************************************************************)
(* The LSN a compute takes its basebackup at is committed, so pageservers  *)
(* can reach it: sync-safekeepers, also when it exits early because        *)
(* truncateLsn is where the term starts, and check_if_synced return no     *)
(* other.                                                                  *)
(***************************************************************************)
BasebackupIsCommitted ==
    \A p \in Computes : wp[p].mode = "compute" => wp[p].base <= EndOf(chosen)

(***************************************************************************)
(* peer_horizon_lsn, below which safekeepers may delete WAL, is flushed on *)
(* every safekeeper and committed there for good, although acknowledgements *)
(* are kept across reconnections and restarts (CalculateMinFlushLsn).      *)
(***************************************************************************)
HorizonIsEverywhere ==
    \A s, t \in Safekeepers :
        LET h == sk[s].horizon
        IN  /\ h <= sk[t].flush /\ h <= EndOf(chosen)
            /\ Below(sk[t].wal, h) = Below(chosen, h)

-----------------------------------------------------------------------------
(***************************************************************************)
(* The whole protocol implements one log of committed WAL that only grows  *)
(* and that the computes extend without ever building on different pasts.  *)
(***************************************************************************)
Log == INSTANCE CommittedLog WITH
           MaxEnd <- MaxLsn,
           log    <- chosen,
           base   <- [p \in Computes |-> wp[p].base],
           served <- [s \in Safekeepers |-> sk[s].commit]

ImplementsCommittedLog == Log!Spec
=============================================================================
