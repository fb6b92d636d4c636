-------------------------- MODULE WalSafety_proofs --------------------------
(***************************************************************************)
(* What the write path promises, proved for every number of safekeepers    *)
(* and computes and for all bounds: committed WAL is durable and served as *)
(* it was committed, and the whole protocol implements CommittedLog.       *)
(*                                                                         *)
(* The state does not remember everything the argument is about: a history *)
(* that no process has any more may still be the past of one in a message, *)
(* and a safekeeper that truncated its WAL has accepted it all the same.   *)
(* The inductive invariant therefore says that there is a view x of the    *)
(* past that fits the state:                                               *)
(*   led          the terms some walproposer was elected in, and term 0    *)
(*   hist, log    the history its leader built, and the records of its WAL *)
(*   by, limit    who the leader was, and where what it has written ends   *)
(*   acc[s][t]    the highest flush_lsn of s in term t with the history    *)
(*                of t, 0 when there was none                              *)
(*   term, at     the term of a safekeeper, the last term of its history   *)
(*   chosen       the committed WAL                                        *)
(***************************************************************************)
EXTENDS WalConsensus_proofs

USE DEF StartLsn, InvalidLsn

Records == Computes \cup {0}

View == [led : SUBSET Nat, hist : [Nat -> History], log : [Nat -> [Nat -> Records]],
         by : [Nat -> Records], limit : [Nat -> Nat],
         acc : [Safekeepers -> [Nat -> Nat]], term : [Safekeepers -> Nat],
         at : [Safekeepers -> Nat], chosen : Seq(Computes)]

StartOf(x, t) == x.hist[t][Len(x.hist[t])].lsn

\* Who has WAL of term t up to c has all of the history of t.
Floor(x, t, c) == Larger(c, StartOf(x, t))

End(x) == EndOf(x.chosen)

\* A quorum has left term t without accepting c in it, and never will.
Excluded(x, t, c) ==
    \E Q \in SUBSET Safekeepers :
        IsQuorum(Q) /\ \A s \in Q : x.term[s] > t /\ x.acc[s][t] < Floor(x, t, c)

Accepted(x, t, c) ==
    \E Q \in SUBSET Safekeepers :
        IsQuorum(Q) /\ \A s \in Q : x.acc[s][t] >= Floor(x, t, c)

Committed(x, t, c) == t \in x.led /\ c <= End(x) /\ Accepted(x, t, c)

\* Accepted by all safekeepers in one term, and committed in it.
Everywhere(x, c) ==
    \E t \in x.led : Committed(x, t, c) /\ \A s \in Safekeepers : x.acc[s][t] >= c

\* s has left term t, or has adopted the history of its leader.
Streamed(x, s, t) == x.term[s] > t \/ (x.term[s] = t /\ x.at[s] = t)

\* The same records before c.
SameLog(x, t, u, c) == \A l \in Nat : 1 <= l /\ l < c => x.log[t][l] = x.log[u][l]

(***************************************************************************)
(* The leaders form a tree: each entry of a history is the end of the      *)
(* history of an earlier leader, whose WAL goes on unchanged up to the     *)
(* next entry.                                                             *)
(***************************************************************************)
HistoryOK(x, t) ==
    LET h == x.hist[t]
    IN  /\ h # <<>> /\ Ordered(h)
        /\ h[1] = [term |-> 0, lsn |-> 1] /\ h[Len(h)].term = t
        /\ \A i \in 1..Len(h) : h[i].term \in x.led /\ x.hist[h[i].term] = SubSeq(h, 1, i)
        /\ \A i \in 1..(Len(h) - 1) : /\ h[i + 1].lsn <= x.limit[h[i].term]
                                      /\ SameLog(x, t, h[i].term, h[i + 1].lsn)
        /\ StartOf(x, t) <= x.limit[t]
        /\ \E Q \in SUBSET Safekeepers : IsQuorum(Q) /\ \A s \in Q : x.term[s] >= t

Tree(x) == 0 \in x.led /\ \A t \in x.led : HistoryOK(x, t)

AccOK(x) ==
    \A s \in Safekeepers :
        /\ x.at[s] \in x.led /\ x.at[s] <= x.term[s]
        /\ \A t \in Nat : t > x.term[s] \/ t \notin x.led => x.acc[s][t] = 0
        /\ \A t \in x.led : x.acc[s][t] <= x.limit[t]

(***************************************************************************)
(* The safety of elections: a later leader starts with whatever WAL of an  *)
(* earlier one a quorum can have accepted, or ever will.                   *)
(***************************************************************************)
LeadersCover(x) ==
    \A t, u \in x.led, c \in Nat :
        t < u /\ c >= StartOf(x, t) =>
            \/ c <= StartOf(x, u) /\ Follows(x.hist[u], x.hist[t], c)
            \/ Excluded(x, t, c)

ChosenOK(x) ==
    \E t \in x.led : /\ Committed(x, t, End(x))
                     /\ \A l \in 1..Len(x.chosen) : x.chosen[l] = x.log[t][l]

Core(x) == x \in View /\ Tree(x) /\ AccOK(x) /\ LeadersCover(x) /\ ChosenOK(x)

(***************************************************************************)
(* What s has accepted before term z is in the WAL with history h that     *)
(* ends at e, unless it can no longer matter.                              *)
(***************************************************************************)
KeepsAccepted(x, s, h, e, z) ==
    \A t \in x.led, c \in Nat :
        t < z /\ 1 <= c /\ c <= x.acc[s][t] =>
            (c <= e /\ Follows(h, x.hist[t], c)) \/ Excluded(x, t, c)

-----------------------------------------------------------------------------
(***************************************************************************)
(* Facts about one view.                                                   *)
(***************************************************************************)
\* The fields of a view.
LEMMA ViewFields ==
    ASSUME NEW x \in View
    PROVE  /\ x.led \subseteq Nat /\ x.hist \in [Nat -> History]
           /\ x.log \in [Nat -> [Nat -> Records]] /\ x.by \in [Nat -> Records]
           /\ x.limit \in [Nat -> Nat] /\ x.chosen \in Seq(Computes)
           /\ \A s \in Safekeepers :
                 /\ x.term[s] \in Nat /\ x.at[s] \in Nat
                 /\ \A t \in Nat : x.acc[s][t] \in Nat
  <1>1. /\ x.led \subseteq Nat /\ x.hist \in [Nat -> History]
        /\ x.log \in [Nat -> [Nat -> Records]] /\ x.by \in [Nat -> Records]
        /\ x.limit \in [Nat -> Nat] /\ x.chosen \in Seq(Computes)
    BY Zenon DEF View
  <1>2. /\ x.acc \in [Safekeepers -> [Nat -> Nat]] /\ x.term \in [Safekeepers -> Nat]
        /\ x.at \in [Safekeepers -> Nat]
    BY Zenon DEF View
  <1>3. ASSUME NEW s \in Safekeepers
        PROVE  /\ x.term[s] \in Nat /\ x.at[s] \in Nat
               /\ \A t \in Nat : x.acc[s][t] \in Nat
    BY <1>2
  <1> QED
    BY <1>1, <1>3, Zenon

\* The history of a leader.
LEMMA LeaderHistory ==
    ASSUME NEW x \in View, Tree(x), NEW t \in x.led
    PROVE  /\ t \in Nat /\ x.hist[t] \in History /\ x.hist[t] # <<>> /\ Ordered(x.hist[t])
           /\ Len(x.hist[t]) \in Nat /\ Len(x.hist[t]) >= 1
           /\ x.hist[t][1].lsn = 1 /\ x.hist[t][1].term = 0
           /\ x.hist[t][Len(x.hist[t])].term = t
           /\ HighestTerm(x.hist[t]) = t
           /\ StartOf(x, t) \in Nat /\ StartOf(x, t) >= 1
           /\ \A i \in 1..Len(x.hist[t]) :
                 x.hist[t][i].term \in Nat /\ x.hist[t][i].lsn \in Nat /\ x.hist[t][i].lsn >= 1
  <1>1. t \in Nat /\ x.hist[t] \in History
    BY DEF View
  <1>2. HistoryOK(x, t)
    BY DEF Tree
  <1> DEFINE h == x.hist[t]
  <1>3. /\ h # <<>> /\ Ordered(h)
        /\ h[1] = [term |-> 0, lsn |-> 1] /\ h[Len(h)].term = t
    BY <1>2 DEF HistoryOK
  <1>4. /\ Len(h) \in Nat /\ Len(h) >= 1
        /\ \A i \in 1..Len(h) : h[i].term \in Nat /\ h[i].lsn \in Nat \ {0}
    BY <1>1, <1>3, HistoryShape
  <1>5. StartOf(x, t) = h[Len(h)].lsn
    BY DEF StartOf
  <1> HIDE DEF h
  <1>6. HighestTerm(h) = t
    BY <1>3 DEF HighestTerm
  <1>7. h[1].lsn = 1 /\ h[1].term = 0
    BY <1>3
  <1>8. Len(h) \in 1..Len(h)
    BY <1>4
  <1> QED
    BY <1>1, <1>3, <1>4, <1>5, <1>6, <1>7, <1>8 DEF h

\* The floor of an LSN is an LSN.
LEMMA FloorIs ==
    ASSUME NEW x \in View, Tree(x), NEW t \in x.led, NEW c \in Nat
    PROVE  /\ Floor(x, t, c) \in Nat /\ Floor(x, t, c) >= c
           /\ Floor(x, t, c) >= StartOf(x, t) /\ StartOf(x, t) \in Nat
           /\ \A d \in Nat : d <= c => Floor(x, t, d) <= Floor(x, t, c)
           /\ Floor(x, t, Floor(x, t, c)) = Floor(x, t, c)
  <1>1. StartOf(x, t) \in Nat
    BY LeaderHistory
  <1> QED
    BY <1>1 DEF Floor, Larger

\* An entry of a history is a leader, and where its WAL goes on.
LEMMA EntryIsLeader ==
    ASSUME NEW x \in View, Tree(x), NEW t \in x.led, NEW i \in 1..Len(x.hist[t])
    PROVE  /\ x.hist[t][i].term \in x.led
           /\ x.hist[x.hist[t][i].term] = SubSeq(x.hist[t], 1, i)
           /\ StartOf(x, x.hist[t][i].term) = x.hist[t][i].lsn
           /\ i < Len(x.hist[t]) =>
                 /\ x.hist[t][i + 1].lsn <= x.limit[x.hist[t][i].term]
                 /\ SameLog(x, t, x.hist[t][i].term, x.hist[t][i + 1].lsn)
           /\ i = Len(x.hist[t]) => x.hist[t][i].term = t
  <1> DEFINE h == x.hist[t]
             y == h[i].term
  <1>1. HistoryOK(x, t)
    BY DEF Tree
  <1>2. y \in x.led /\ x.hist[y] = SubSeq(h, 1, i)
    BY <1>1 DEF HistoryOK
  <1>3. h \in History /\ Len(h) \in Nat
    BY LeaderHistory
  <1>4. Len(SubSeq(h, 1, i)) = i /\ SubSeq(h, 1, i)[i] = h[i]
    BY <1>3, PrefixType DEF History
  <1>5. StartOf(x, y) = h[i].lsn
    BY <1>2, <1>4 DEF StartOf
  <1>6. i < Len(h) => /\ h[i + 1].lsn <= x.limit[h[i].term]
                      /\ SameLog(x, t, h[i].term, h[i + 1].lsn)
    <2>1. i < Len(h) => i \in 1..(Len(h) - 1)
      BY <1>3
    <2> QED
      BY <1>1, <2>1, Zenon DEF HistoryOK
  <1>7. i = Len(h) => y = t
    BY <1>1 DEF HistoryOK
  <1> QED
    BY <1>2, <1>5, <1>6, <1>7

\* The records before the entry after entry i are those of the leader of i.
LEMMA LogOfEntry ==
    ASSUME NEW x \in View, Tree(x), NEW t \in x.led, NEW i \in 1..Len(x.hist[t]), NEW c \in Nat,
           i < Len(x.hist[t]) => c <= x.hist[t][i + 1].lsn
    PROVE  SameLog(x, t, x.hist[t][i].term, c)
  <1> DEFINE h == x.hist[t]
  <1>1. h \in History /\ Len(h) \in Nat
    BY LeaderHistory
  <1>2. CASE i = Len(h)
    BY <1>2, EntryIsLeader DEF SameLog
  <1>3. CASE i < Len(h)
    <2>1. SameLog(x, t, h[i].term, h[i + 1].lsn)
      BY <1>3, EntryIsLeader, Zenon
    <2>2. h[i + 1].lsn \in Nat
      BY <1>1, <1>3, HistoryShape
    <2> HIDE DEF h
    <2>3. c <= h[i + 1].lsn
      BY <1>3 DEF h
    <2> QED
      BY <2>1, <2>2, <2>3, SMTT(30) DEF SameLog, h
  <1> QED
    BY <1>1, <1>2, <1>3

\* Who follows a leader up to c has the same records before c.
LEMMA FollowsLog ==
    ASSUME NEW x \in View, Tree(x), NEW t \in x.led, NEW u \in x.led, NEW c \in Nat,
           Follows(x.hist[u], x.hist[t], c)
    PROVE  SameLog(x, u, t, c)
  <1> DEFINE g == x.hist[t]
             h == x.hist[u]
             n == Len(UpTo(g, c))
  <1>1. /\ g \in History /\ Len(g) \in Nat /\ Len(g) >= 1 /\ g[1].lsn = 1
        /\ h \in History /\ Len(h) \in Nat
        /\ \A i \in 1..Len(g) : g[i].lsn \in Nat
    BY LeaderHistory, Zenon
  <1>2. CASE c = 0
    BY <1>2 DEF SameLog
  <1>3. CASE c >= 1
    <2>1. /\ n \in Nat /\ n <= Len(g)
          /\ n < Len(g) => g[n + 1].lsn > c
      BY <1>1, UpToShape, Zenon
    <2>2. /\ n <= Len(h) /\ \A i \in 1..n : h[i] = g[i]
          /\ n < Len(h) => h[n + 1].lsn >= c
      BY DEF Follows
    <2> HIDE DEF n
    <2>3. n >= 1
      BY <1>1, <1>3, <2>1
    <2>4. n \in 1..Len(g) /\ n \in 1..Len(h) /\ h[n] = g[n]
      BY <1>1, <2>1, <2>2, <2>3
    <2>5. n < Len(g) => c <= g[n + 1].lsn
      BY <1>1, <2>1, <2>4, SMTT(30)
    <2>6. SameLog(x, t, g[n].term, c)
      BY <2>4, <2>5, LogOfEntry
    <2>7. SameLog(x, u, h[n].term, c)
      BY <2>2, <2>4, LogOfEntry
    <2> QED
      BY <2>4, <2>6, <2>7 DEF SameLog
  <1> QED
    BY <1>2, <1>3

\* A later leader goes on after an earlier one that it follows.
LEMMA FollowerIsLater ==
    ASSUME NEW x \in View, Tree(x), NEW t \in x.led, NEW a \in x.led, NEW c \in Nat,
           c >= StartOf(x, t), Follows(x.hist[a], x.hist[t], c)
    PROVE  t <= a
  <1> DEFINE g == x.hist[t]
             h == x.hist[a]
  <1>1. /\ g \in History /\ g # <<>> /\ Ordered(g) /\ Len(g) \in Nat /\ Len(g) >= 1
        /\ g[Len(g)].term = t /\ g[Len(g)].lsn = StartOf(x, t) /\ StartOf(x, t) \in Nat
        /\ t \in Nat
    BY LeaderHistory DEF StartOf
  <1>2. /\ h \in History /\ h # <<>> /\ Ordered(h) /\ Len(h) \in Nat /\ Len(h) >= 1
        /\ h[Len(h)].term = a /\ a \in Nat
    BY LeaderHistory
  <1>3. Follows(h, g, c)
    OBVIOUS
  <1> HIDE DEF g, h
  <1>4. Len(g) <= Len(h) /\ \A i \in 1..Len(g) : h[i] = g[i]
    BY <1>1, <1>2, <1>3, FollowsAll
  <1>5. h[Len(g)].term = t
    BY <1>1, <1>4
  <1>6. CASE Len(g) = Len(h)
    BY <1>1, <1>2, <1>5, <1>6
  <1>7. CASE Len(g) < Len(h)
    <2>1. h[Len(g)].term < h[Len(h)].term
      BY <1>1, <1>2, <1>7 DEF Ordered
    <2> QED
      BY <1>1, <1>2, <1>5, <2>1
  <1> QED
    BY <1>1, <1>2, <1>4, <1>6, <1>7

\* What a quorum has accepted is not excluded.
LEMMA AcceptedIsNotExcluded ==
    ASSUME NEW x \in View, Tree(x), NEW t \in x.led, NEW c \in Nat, Accepted(x, t, c)
    PROVE  ~Excluded(x, t, c)
  <1> SUFFICES ASSUME Excluded(x, t, c) PROVE FALSE
    OBVIOUS
  <1>1. PICK Q \in SUBSET Safekeepers : IsQuorum(Q) /\ \A s \in Q : x.acc[s][t] >= Floor(x, t, c)
    BY DEF Accepted
  <1>2. PICK R \in SUBSET Safekeepers : IsQuorum(R) /\ \A s \in R : x.acc[s][t] < Floor(x, t, c)
    BY DEF Excluded
  <1>3. PICK s \in Safekeepers : s \in Q /\ s \in R
    BY <1>1, <1>2, QuorumsMeet
  <1>4. Floor(x, t, c) \in Nat /\ t \in Nat
    BY FloorIs, LeaderHistory
  <1>5. x.acc[s][t] \in Nat
    BY <1>4 DEF View
  <1>6. x.acc[s][t] >= Floor(x, t, c) /\ x.acc[s][t] < Floor(x, t, c)
    BY <1>1, <1>2, <1>3
  <1> QED
    BY <1>4, <1>5, <1>6

\* A later leader starts with what a quorum has accepted.
LEMMA LaterLeaderCovers ==
    ASSUME NEW x \in View, Tree(x), LeadersCover(x), NEW t \in x.led, NEW u \in x.led, t < u,
           NEW c \in Nat, Accepted(x, t, c)
    PROVE  /\ c <= StartOf(x, u)
           /\ Follows(x.hist[u], x.hist[t], c)
           /\ SameLog(x, u, t, c)
  <1> DEFINE d == Floor(x, t, c)
  <1>1. d \in Nat /\ d >= c /\ d >= StartOf(x, t) /\ Floor(x, t, d) = d
    BY FloorIs
  <1>2. Accepted(x, t, d)
    BY <1>1 DEF Accepted
  <1> HIDE DEF d
  <1>3. ~Excluded(x, t, d)
    BY <1>1, <1>2, AcceptedIsNotExcluded
  <1>4. d <= StartOf(x, u) /\ Follows(x.hist[u], x.hist[t], d)
    BY <1>1, <1>3 DEF LeadersCover
  <1>5. StartOf(x, u) \in Nat /\ x.hist[t] \in History /\ x.hist[u] \in History
    BY LeaderHistory
  <1>6. Follows(x.hist[u], x.hist[t], c)
    BY <1>1, <1>4, <1>5, FollowsLess
  <1>7. SameLog(x, u, t, c)
    BY <1>6, FollowsLog
  <1> QED
    BY <1>1, <1>4, <1>5, <1>6, <1>7

\* What is accepted up to an LSN is accepted up to every lower one.
LEMMA AcceptedLess ==
    ASSUME NEW x \in View, Tree(x), NEW t \in x.led, NEW c \in Nat, NEW d \in Nat, d <= c,
           Accepted(x, t, c)
    PROVE  Accepted(x, t, d)
  <1>1. /\ Floor(x, t, d) <= Floor(x, t, c) /\ t \in Nat
        /\ Floor(x, t, d) \in Nat /\ Floor(x, t, c) \in Nat
    BY FloorIs, LeaderHistory
  <1>2. \A s \in Safekeepers : x.acc[s][t] \in Nat
    BY <1>1 DEF View
  <1>3. PICK Q \in SUBSET Safekeepers : IsQuorum(Q) /\ \A s \in Q : x.acc[s][t] >= Floor(x, t, c)
    BY DEF Accepted
  <1>4. \A s \in Q : x.acc[s][t] >= Floor(x, t, d)
    BY <1>1, <1>2, <1>3
  <1> QED
    BY <1>3, <1>4 DEF Accepted

\* The end of the committed WAL.
LEMMA EndIs ==
    ASSUME NEW x \in View
    PROVE  /\ End(x) \in Nat /\ End(x) >= 1 /\ End(x) = Len(x.chosen) + 1 /\ Len(x.chosen) \in Nat
           /\ \A l \in Nat : 1 <= l /\ l < End(x) => l \in 1..Len(x.chosen)
  <1>1. Len(x.chosen) \in Nat
    BY LenProperties DEF View
  <1> QED
    BY <1>1 DEF End, EndOf

\* Accepted and committed WAL are the same as far as both go.
LEMMA AcceptedIsChosen ==
    ASSUME NEW x, Core(x), NEW t \in x.led, NEW c \in Nat, Accepted(x, t, c)
    PROVE  \A l \in Nat : 1 <= l /\ l < c /\ l < End(x) => x.log[t][l] = x.chosen[l]
  <1>0. x \in View /\ Tree(x) /\ LeadersCover(x) /\ x.led \subseteq Nat
    BY Zenon DEF Core, View
  <1> DEFINE e == End(x)
  <1>1. e \in Nat /\ \A l \in Nat : 1 <= l /\ l < e => l \in 1..Len(x.chosen)
    BY <1>0, EndIs
  <1>2. PICK u \in x.led : /\ Accepted(x, u, e)
                           /\ \A l \in 1..Len(x.chosen) : x.chosen[l] = x.log[u][l]
    BY DEF Core, ChosenOK, Committed
  <1> HIDE DEF e
  <1>3. \A l \in Nat : 1 <= l /\ l < e => x.chosen[l] = x.log[u][l]
    BY <1>1, <1>2
  <1>4. CASE t = u
    BY <1>3, <1>4 DEF e
  <1>5. CASE t < u
    <2>1. SameLog(x, u, t, c)
      BY <1>0, <1>5, LaterLeaderCovers
    <2> QED
      BY <1>3, <2>1 DEF SameLog, e
  <1>6. CASE u < t
    <2>1. SameLog(x, t, u, e)
      BY <1>0, <1>1, <1>2, <1>6, LaterLeaderCovers
    <2> QED
      BY <1>3, <2>1 DEF SameLog, e
  <1>7. t \in Nat /\ u \in Nat
    BY <1>0
  <1> QED
    BY <1>4, <1>5, <1>6, <1>7
-----------------------------------------------------------------------------
(***************************************************************************)
(* The state of one process and one message in a view.                     *)
(***************************************************************************)
\* At most one safekeeper is not in a given quorum.
Few == Cardinality(Safekeepers) <= 4

\* The broker carries nothing.
NoBroker == \A b \in Budgets : b["info"] = 0

\* In both cases a safekeeper knows of the leader that has committed what it serves.
Traced == Few \/ NoBroker

\* The WAL with history h up to c is what a leader of a term up to u has committed.
KnownIn(x, u, h, c) ==
    \E t \in x.led : t <= u /\ Committed(x, t, c) /\ Follows(h, x.hist[t], c)

\* What a safekeeper serves is the committed WAL.
CommitOK(x, s, k) ==
    /\ 1 <= k.pcommit /\ k.pcommit <= k.commit /\ k.commit <= k.flush /\ k.commit <= End(x)
    /\ \A l \in Nat : 1 <= l /\ l < k.commit => x.chosen[l] = x.log[x.at[s]][l]
    /\ k.horizon >= 1 /\ k.phorizon >= 1
    /\ Everywhere(x, k.horizon) /\ Everywhere(x, k.phorizon)
    /\ Traced => KnownIn(x, x.term[s], x.hist[x.at[s]], k.commit)

\* Its WAL is a part of the log of the last term of its history.
WalOK(x, s, k) ==
    /\ x.term[s] = k.term /\ k.history = x.hist[x.at[s]]
    /\ WriteLsn(k) <= x.limit[x.at[s]]
    /\ \A l \in 1..Len(k.wal) : k.wal[l] = x.log[x.at[s]][l]
    /\ x.at[s] = k.term => x.acc[s][k.term] >= k.flush

SkOK(x, s, k) ==
    /\ WalOK(x, s, k)
    /\ KeepsAccepted(x, s, k.history, k.flush, k.term + 1)
    /\ CommitOK(x, s, k)

(***************************************************************************)
(* A given vote: what its voter has accepted in earlier terms is in the    *)
(* WAL it reports, and stays there while the voter is in the term.         *)
(***************************************************************************)
VoteOK(x, s, m) ==
    m.given =>
        LET z == HighestTerm(m.history)
        IN  /\ z \in x.led /\ m.history = x.hist[z] /\ z < m.term
            /\ StartOf(x, z) <= m.flush /\ m.flush <= x.limit[z]
            /\ Everywhere(x, m.truncate)
            /\ x.term[s] >= m.term
            /\ KeepsAccepted(x, s, m.history, m.flush, m.term)
            /\ x.term[s] = m.term /\ x.at[s] # m.term => SameLog(x, x.at[s], z, m.flush)

\* A request says what its leader has said.
ReqOK(x, m) ==
    /\ m.type # "vote" => m.term \in x.led
    /\ m.type = "elected" => m.history = x.hist[m.term]
    /\ m.type = "append" =>
          /\ m.recs # <<>> => 1 <= m.begin /\ m.begin + Len(m.recs) <= x.limit[m.term]
          /\ \A i \in 1..Len(m.recs) : m.recs[i] = x.log[m.term][m.begin + i - 1]
          /\ m.commit # 0 => Committed(x, m.term, m.commit)
          /\ Everywhere(x, m.truncate)

\* ProposerElected of term t is among the first n requests.
Announced(q, n, t) == \E j \in 1..n : q[j].type = "elected" /\ q[j].term = t

\* WAL is received behind the history of its term.
QueueOK(x, s, q) ==
    \A i \in 1..Len(q) :
        /\ ReqOK(x, q[i])
        /\ q[i].type = "append" => Announced(q, i - 1, q[i].term) \/ Streamed(x, s, q[i].term)

RepOK(x, s, w, r) ==
    /\ r.type = "vote" => VoteOK(x, s, r)
    /\ r.type = "append" =>
          /\ w.state = "elected" /\ r.commit <= End(x)
          /\ \/ r.term > w.term
             \/ r.term = w.term /\ r.flush <= x.acc[s][w.term] /\ Streamed(x, s, w.term)

\* A connection as its walproposer sees it, and what is on the way.
LinkOK(x, s, w, c) ==
    /\ c.state = "active" =>
          w.state = "elected" /\ (Announced(c.req, Len(c.req), w.term) \/ Streamed(x, s, w.term))
    /\ c.dirty => w.state = "elected" /\ Streamed(x, s, w.term)
    /\ \A i \in 1..Len(c.req) :
          c.req[i].type # "vote" => w.state = "elected" /\ c.req[i].term = w.term
    /\ QueueOK(x, s, c.req)
    /\ \A i \in 1..Len(c.rep) : RepOK(x, s, w, c.rep[i])
    /\ c.ackFlush # 0 =>
          w.state = "elected" /\ c.ackFlush <= x.acc[s][w.term] /\ Streamed(x, s, w.term)

(***************************************************************************)
(* The WAL of the last term a compute was elected in, which outlives the   *)
(* walproposer process, and its basebackup.                                *)
(***************************************************************************)
MineOK(x, p, w) ==
    /\ w.mine # 0 =>
          /\ w.mine \in x.led /\ x.by[w.mine] = p
          /\ w.mode = "sync" => x.limit[w.mine] = StartOf(x, w.mine)
          /\ w.mode = "compute" =>
                /\ x.limit[w.mine] = w.end
                /\ w.base <= StartOf(x, w.mine)
                /\ \A l \in Nat : l >= w.base => x.log[w.mine][l] = p
    /\ w.base <= End(x)
    /\ w.mode = "compute" => 1 <= w.base /\ w.base <= w.end
    /\ w.mode \in {"off", "sync"} => w.base = 0
    /\ w.mode = "off" => w.mine = 0
    /\ w.mode \in {"off", "dead"} => w.state = "collecting"

LeaderOK(x, p, w) ==
    /\ w.state = "elected" =>
          /\ w.mine = w.term /\ w.history = x.hist[w.term] /\ w.start = StartOf(x, w.term)
          /\ w.commit # 0 => Committed(x, w.term, w.commit)
          /\ Everywhere(x, w.truncate)
          /\ \A d \in w.donors :
                /\ x.term[d] >= w.term
                /\ x.term[d] = w.term /\ x.at[d] # w.term => SameLog(x, x.at[d], w.term, w.start)
    /\ w.state # "elected" => w.commit = 0
    /\ w.state # "collecting" => w.term \in 1..MaxTerm

\* commitLsn is where the acknowledgements of a quorum are.
CountedOK(w, cs) ==
    w.state = "elected" =>
        \A l \in 1..MaxLsn :
            AckedBy(w.start, [s \in Safekeepers |-> cs[s].ackFlush], l) => l <= w.commit

(***************************************************************************)
(* A basebackup is committed in a term that a campaign of its compute is   *)
(* beyond: a quorum accepted it there before the first greeting.           *)
(***************************************************************************)
BaseOK(x, w, cs) ==
    /\ w.mode = "off" => \A s \in Safekeepers : cs[s].state = "offline"
    /\ w.mode = "compute" /\ w.mine = 0 =>
          \E t \in x.led, Q \in SUBSET Safekeepers :
              /\ IsQuorum(Q) /\ \A s \in Q : x.acc[s][t] >= Floor(x, t, w.base)
              /\ w.state = "collecting" =>
                    \A s \in Q : cs[s].state # "offline" => t <= w.term
              /\ w.state # "collecting" => t < w.term

(***************************************************************************)
(* A message of the broker.  A safekeeper that has not heard of the leader *)
(* that committed the WAL is not in the quorum that has accepted it; if    *)
(* all others are, the sender is, and has WAL of that leader.              *)
(***************************************************************************)
PassedOn(x, i) ==
    \E t \in x.led :
        /\ Committed(x, t, i.commit) /\ Follows(x.hist[i.lastLogTerm], x.hist[t], i.commit)
        /\ \A s \in Safekeepers : t <= i.lastLogTerm \/ t <= x.term[s]

InfoOK(x, i) ==
    /\ i.lastLogTerm \in x.led /\ i.commit <= End(x)
    /\ \A l \in Nat : 1 <= l /\ l < i.commit => x.chosen[l] = x.log[i.lastLogTerm][l]
    /\ Everywhere(x, i.horizon)
    /\ Traced => PassedOn(x, i)

\* Whose records the log of a term ends with: one compute's, if it has any.
OwnerOK(x, w, t) ==
    \/ \E q \in Computes : w[q].base # 0 /\ \A l \in Nat : l >= w[q].base => x.log[t][l] = q
    \/ x.limit[t] = 1

\* Leaders have won, and there is no WAL of term 0.
WinsOK(x, n) ==
    /\ x.limit[0] = 1
    /\ \A t \in x.led : t # 0 => t \in 0..MaxTerm /\ n[t] # 0

\* The view x fits the state.
Fits(x) ==
    /\ Core(x) /\ x.chosen = chosen
    /\ \A s \in Safekeepers : SkOK(x, s, sk[s])
    /\ \A p \in Computes : MineOK(x, p, wp[p]) /\ LeaderOK(x, p, wp[p])
    /\ \A p \in Computes : CountedOK(wp[p], conn[p]) /\ BaseOK(x, wp[p], conn[p])
    /\ \A p \in Computes, s \in Safekeepers : LinkOK(x, s, wp[p], conn[p][s])
    /\ \A p \in Computes, s \in Safekeepers : QueueOK(x, s, old[p][s].req)
    /\ InfoOK(x, info)
    /\ \A t \in x.led : OwnerOK(x, wp, t)
    /\ WinsOK(x, wins)

Fitting == \E x : Fits(x)

Unpublished == NoBroker => budget["info"] = 0

SafetyInv == ElectionInv /\ Fitting /\ Unpublished

-----------------------------------------------------------------------------
(***************************************************************************)
(* What the invariant gives: the properties of WalConsensus.               *)
(***************************************************************************)
\* The fields of a well-formed safekeeper.
LEMMA SafekeeperFields ==
    ASSUME NEW k \in SafekeeperOK
    PROVE  /\ k.term \in Nat /\ k.history \in History /\ k.commit \in Nat /\ k.horizon \in Nat
           /\ k.pcommit \in Nat /\ k.phorizon \in Nat /\ k.wal \in Seq(Computes)
           /\ k.flush \in Nat /\ k.flush >= 1 /\ k.flush <= 1 + Len(k.wal)
           /\ Len(k.wal) \in Nat /\ WriteLsn(k) = 1 + Len(k.wal)
           /\ k.pending \in BOOLEAN /\ k.termStart \in Nat
    BY LenProperties DEF SafekeeperOK, SafekeeperType, WriteLsn, EndOf

\* A safekeeper has what it has accepted and a quorum with it.
LEMMA HoldsAccepted ==
    ASSUME NEW x, Core(x), NEW s \in Safekeepers, NEW k \in SafekeeperOK, SkOK(x, s, k),
           NEW t \in x.led, NEW c \in Nat, 1 <= c, c <= x.acc[s][t], Accepted(x, t, c)
    PROVE  /\ c <= k.flush
           /\ \A l \in Nat : 1 <= l /\ l < c =>
                 l \in 1..Len(k.wal) /\ k.wal[l] = x.log[t][l]
  <1>0. x \in View /\ Tree(x) /\ AccOK(x) /\ t \in Nat
    BY Zenon DEF Core, View
  <1>1. ~Excluded(x, t, c)
    BY <1>0, AcceptedIsNotExcluded
  <1>2. t <= k.term
    <2>1. x.acc[s][t] # 0 /\ x.term[s] \in Nat
      BY <1>0, ViewFields
    <2>2. t <= x.term[s] /\ x.term[s] \in Nat
      BY <1>0, <2>1 DEF AccOK
    <2> QED
      BY <2>2 DEF SkOK, WalOK
  <1>3. k.term \in Nat /\ k.flush \in Nat /\ k.flush <= 1 + Len(k.wal) /\ Len(k.wal) \in Nat
    BY SafekeeperFields
  <1>4. c <= k.flush /\ Follows(k.history, x.hist[t], c)
    BY <1>0, <1>1, <1>2, <1>3 DEF SkOK, KeepsAccepted
  <1>5. x.at[s] \in x.led /\ k.history = x.hist[x.at[s]]
    BY <1>0 DEF AccOK, SkOK, WalOK
  <1>6. SameLog(x, x.at[s], t, c)
    BY <1>0, <1>4, <1>5, FollowsLog
  <1>7. \A l \in 1..Len(k.wal) : k.wal[l] = x.log[x.at[s]][l]
    BY DEF SkOK, WalOK
  <1> QED
    BY <1>3, <1>4, <1>6, <1>7 DEF SameLog

\* Two WALs with the same records below an LSN.
LEMMA BelowEqual ==
    ASSUME NEW a \in Seq(Computes), NEW b \in Seq(Computes), NEW c \in Nat, c >= 1,
           c <= 1 + Len(a), c <= 1 + Len(b),
           \A l \in 1..(c - 1) : a[l] = b[l]
    PROVE  Below(a, c) = Below(b, c)
  <1>1. Smaller(c - 1, Len(a)) = c - 1 /\ Smaller(c - 1, Len(b)) = c - 1
    BY LenProperties DEF Smaller
  <1>2. Below(a, c) = SubSeq(a, 1, c - 1) /\ Below(b, c) = SubSeq(b, 1, c - 1)
    BY <1>1 DEF Below
  <1>3. /\ SubSeq(a, 1, c - 1) \in Seq(Computes) /\ SubSeq(b, 1, c - 1) \in Seq(Computes)
        /\ Len(SubSeq(a, 1, c - 1)) = c - 1 /\ Len(SubSeq(b, 1, c - 1)) = c - 1
        /\ \A i \in 1..(c - 1) : SubSeq(a, 1, c - 1)[i] = a[i] /\ SubSeq(b, 1, c - 1)[i] = b[i]
    BY PrefixType
  <1> QED
    BY <1>2, <1>3, SeqEqual

\* The part of a WAL below its end is the WAL.
LEMMA BelowAll ==
    ASSUME NEW a \in Seq(Computes)
    PROVE  Below(a, EndOf(a)) = a
  <1>1. Smaller(EndOf(a) - 1, Len(a)) = Len(a)
    BY LenProperties DEF Smaller, EndOf
  <1>2. Below(a, EndOf(a)) = SubSeq(a, 1, Len(a))
    BY <1>1 DEF Below
  <1> QED
    BY <1>2, SubSeqFull

-----------------------------------------------------------------------------
(***************************************************************************)
(* What the terms of a history say about the WAL under it.                 *)
(***************************************************************************)
\* The flushed part of a WAL is the WAL of its last term, an earlier leader.
LEMMA CutLog ==
    ASSUME NEW x \in View, Tree(x), NEW a \in x.led, NEW f \in Nat, 1 <= f, f <= x.limit[a]
    PROVE  LET z == HighestTerm(UpTo(x.hist[a], f))
           IN  /\ z \in x.led /\ z <= a /\ x.hist[z] = UpTo(x.hist[a], f)
               /\ StartOf(x, z) <= f /\ f <= x.limit[z] /\ SameLog(x, a, z, f)
               /\ z < a => f <= StartOf(x, a)
  <1> DEFINE h == x.hist[a]
             g == UpTo(h, f)
             m == Len(g)
             z == HighestTerm(g)
  <1>1. /\ h \in History /\ h # <<>> /\ Ordered(h) /\ Len(h) \in Nat /\ Len(h) >= 1
        /\ h[1].lsn = 1 /\ h[Len(h)].term = a /\ StartOf(x, a) = h[Len(h)].lsn
        /\ \A i \in 1..Len(h) : h[i].term \in Nat /\ h[i].lsn \in Nat
    BY LeaderHistory DEF StartOf
  <1>2. /\ m \in Nat /\ m <= Len(h) /\ g = SubSeq(h, 1, m)
        /\ \A i \in 1..m : g[i] = h[i] /\ h[i].lsn <= f
        /\ m < Len(h) => h[m + 1].lsn > f
    BY <1>1, UpToShape, Zenon
  <1> HIDE DEF g, m
  <1>3. m >= 1
    BY <1>1, <1>2
  <1>4. m \in 1..Len(h) /\ m \in 1..m
    BY <1>1, <1>2, <1>3
  <1>5. g # <<>> /\ g[Len(g)] = h[m]
    <2>1. g[m] = h[m] /\ Len(g) = m
      BY <1>2, <1>4 DEF m
    <2> QED
      BY <1>3, <2>1, EmptySeq
  <1>6. z = h[m].term
    BY <1>5 DEF HighestTerm
  <1> HIDE DEF z
  <1>7. /\ z \in x.led /\ x.hist[z] = SubSeq(h, 1, m) /\ StartOf(x, z) = h[m].lsn
        /\ m < Len(h) => h[m + 1].lsn <= x.limit[z]
        /\ m = Len(h) => z = a
    BY <1>4, <1>6, EntryIsLeader
  <1>8. SameLog(x, a, z, f)
    <2>1. m < Len(h) => f <= h[m + 1].lsn
      <3> HIDE DEF h
      <3> QED BY <1>1, <1>2, <1>4
    <2> QED
      BY <1>4, <1>6, <2>1, LogOfEntry
  <1>9. f <= x.limit[z]
    <2>1. CASE m = Len(h)
      BY <1>7, <2>1
    <2>2. CASE m < Len(h)
      <3>1. h[m + 1].lsn \in Nat /\ h[m + 1].lsn > f /\ h[m + 1].lsn <= x.limit[z]
        BY <1>1, <1>2, <1>4, <1>7, <2>2
      <3>2. x.limit[z] \in Nat
        BY <1>7, LeaderHistory, ViewFields, SMTT(30)
      <3> QED
        BY <3>1, <3>2
    <2> QED
      BY <1>1, <1>2, <2>1, <2>2
  <1>10. z <= a /\ (z < a => f <= StartOf(x, a))
    <2>0. a \in Nat /\ z \in Nat
      BY <1>7, LeaderHistory
    <2>1. CASE m = Len(h)
      BY <1>7, <2>0, <2>1
    <2>2. CASE m < Len(h)
      <3>1. m + 1 \in 1..Len(h) /\ Len(h) \in 1..Len(h) /\ m < Len(h)
        BY <1>1, <1>4, <2>2
      <3>2. h[m].term < h[Len(h)].term
        BY <1>1, <1>4, <3>1, Zenon DEF Ordered
      <3>3. h[m + 1].lsn <= h[Len(h)].lsn
        <4> HIDE DEF h
        <4>1. CASE m + 1 = Len(h)
          BY <1>1, <3>1, <4>1
        <4>2. CASE m + 1 < Len(h)
          BY <1>1, <3>1, <4>2, Zenon DEF Ordered
        <4> QED
          BY <1>1, <3>1, <4>1, <4>2
      <3>4. h[m + 1].lsn \in Nat /\ h[Len(h)].lsn \in Nat /\ h[m + 1].lsn > f
        BY <1>1, <1>2, <2>2, <3>1, Zenon
      <3> HIDE DEF h
      <3> QED
        BY <1>1, <1>6, <2>0, <3>2, <3>3, <3>4
    <2> QED
      BY <1>1, <1>2, <2>1, <2>2
  <1>11. StartOf(x, z) <= f
    BY <1>2, <1>4, <1>7
  <1> QED
    BY <1>2, <1>7, <1>8, <1>9, <1>10, <1>11 DEF z, g

\* Two histories that have the same term at an index have the same past.
LEMMA SameTermSamePast ==
    ASSUME NEW x \in View, Tree(x), NEW t \in x.led, NEW u \in x.led,
           NEW i \in 1..Len(x.hist[t]), i \in 1..Len(x.hist[u]),
           x.hist[t][i].term = x.hist[u][i].term
    PROVE  x.hist[t][i] = x.hist[u][i]
  <1>1. SubSeq(x.hist[t], 1, i) = SubSeq(x.hist[u], 1, i)
    <2>1. x.hist[x.hist[t][i].term] = SubSeq(x.hist[t], 1, i)
      BY EntryIsLeader, Zenon
    <2>2. x.hist[x.hist[u][i].term] = SubSeq(x.hist[u], 1, i)
      BY EntryIsLeader
    <2> QED
      BY <2>1, <2>2
  <1>2. x.hist[t] \in History /\ x.hist[u] \in History
    BY LeaderHistory
  <1>3. SubSeq(x.hist[t], 1, i)[i] = x.hist[t][i] /\ SubSeq(x.hist[u], 1, i)[i] = x.hist[u][i]
    BY <1>2, PrefixType DEF History
  <1> QED
    BY <1>1, <1>3
\* The requests and the WAL at the point where a safekeeper truncates.
LEMMA CommonPointLog ==
    ASSUME NEW x \in View, Tree(x), NEW a \in x.led, NEW u \in x.led, a <= u,
           NEW f \in Nat, 1 <= f, f <= x.limit[a]
    PROVE  LET cp == HighestCommonPoint(x.hist[u], UpTo(x.hist[a], f), f)
           IN  /\ cp \in Nat /\ 1 <= cp /\ cp <= f /\ cp <= x.limit[u]
               /\ SameLog(x, u, a, cp)
  <1> DEFINE h == x.hist[a]
             g == x.hist[u]
             b == UpTo(h, f)
             n == CommonLen(g, b)
             cp == HighestCommonPoint(g, b, f)
  <1>1. /\ h \in History /\ Ordered(h) /\ Len(h) \in Nat /\ Len(h) >= 1
        /\ h[1].lsn = 1 /\ h[1].term = 0 /\ h[Len(h)].term = a
        /\ \A i \in 1..Len(h) : h[i].term \in Nat /\ h[i].lsn \in Nat /\ h[i].lsn >= 1
    BY LeaderHistory, Zenon
  <1>2. /\ g \in History /\ Ordered(g) /\ Len(g) \in Nat /\ Len(g) >= 1
        /\ g[1].lsn = 1 /\ g[1].term = 0 /\ g[Len(g)].term = u /\ StartOf(x, u) = g[Len(g)].lsn
        /\ \A i \in 1..Len(g) : g[i].term \in Nat /\ g[i].lsn \in Nat /\ g[i].lsn >= 1
    BY LeaderHistory DEF StartOf
  <1>3. /\ b \in History /\ Len(b) \in Nat /\ Len(b) <= Len(h)
        /\ \A i \in 1..Len(b) : b[i] = h[i] /\ h[i].lsn <= f
        /\ Len(b) < Len(h) => h[Len(b) + 1].lsn > f
    BY <1>1, UpToShape, Zenon
  <1>4. Len(b) >= 1
    BY <1>1, <1>3
  <1>5. /\ n \in Nat /\ n <= Len(g) /\ n <= Len(b)
        /\ \A i \in 1..n : g[i].term = b[i].term
        /\ n < Len(g) /\ n < Len(b) => g[n + 1].term # b[n + 1].term
    BY <1>2, <1>3, CommonLenShape, Zenon
  <1>6. StartOf(x, u) <= x.limit[u] /\ a \in Nat /\ u \in Nat
    BY LeaderHistory, Zenon DEF Tree, HistoryOK
  <1>7. x.limit[u] \in Nat /\ x.limit[a] \in Nat
    BY <1>6, ViewFields, Zenon
  <1>8. cp = IF n = 0 THEN 0
             ELSE IF n = Len(g) THEN f
             ELSE Smaller(g[n + 1].lsn, IF n < Len(b) THEN b[n + 1].lsn ELSE f)
    BY DEF HighestCommonPoint
  <1> HIDE DEF n, b, cp, h, g
  <1>9. n >= 1
    <2>1. g[1].term = b[1].term
      BY <1>1, <1>2, <1>3, <1>4
    <2> QED
      BY <1>2, <1>3, <1>4, <1>5, <2>1
  <1>10. n \in 1..Len(g) /\ n \in 1..Len(h) /\ g[n].term = h[n].term
    BY <1>1, <1>2, <1>3, <1>5, <1>9
  <1>11. CASE n = Len(g)
    <2>1. h[n].term = u
      BY <1>2, <1>10, <1>11
    <2>2. n = Len(h)
      <3> SUFFICES ASSUME n < Len(h) PROVE FALSE
        BY <1>1, <1>10
      <3>1. h[n].term < h[Len(h)].term
        BY <1>1, <1>10 DEF Ordered
      <3> QED
        BY <1>1, <1>6, <2>1, <3>1
    <2>3. a = u
      BY <1>1, <2>1, <2>2
    <2> QED
      BY <1>6, <1>7, <1>8, <1>9, <1>11, <2>3 DEF SameLog, cp, b, h, g
  <1>12. CASE n < Len(g)
    <2>1. /\ n + 1 \in 1..Len(g) /\ g[n + 1].lsn \in Nat /\ g[n + 1].lsn >= 1
          /\ Len(g) \in 1..Len(g) /\ g[Len(g)].lsn \in Nat
      BY <1>2, <1>10, <1>12
    <2>2. n < Len(b) => /\ b[n + 1].lsn \in Nat /\ b[n + 1].lsn >= 1 /\ b[n + 1].lsn <= f
                        /\ b[n + 1] = h[n + 1]
      <3> SUFFICES ASSUME n < Len(b)
                   PROVE  /\ b[n + 1].lsn \in Nat /\ b[n + 1].lsn >= 1 /\ b[n + 1].lsn <= f
                          /\ b[n + 1] = h[n + 1]
        OBVIOUS
      <3>1. n + 1 \in 1..Len(b) /\ n + 1 \in 1..Len(h)
        BY <1>1, <1>3, <1>5
      <3> QED
        BY <1>1, <1>3, <3>1
    <2>3. /\ cp \in Nat /\ 1 <= cp /\ cp <= f /\ cp <= g[n + 1].lsn
          /\ n < Len(b) => cp <= h[n + 1].lsn
      BY <1>3, <1>5, <1>8, <1>9, <1>12, <2>1, <2>2 DEF Smaller
    <2>4. g[n + 1].lsn <= g[Len(g)].lsn
      <3>1. CASE n + 1 = Len(g)
        BY <2>1, <3>1
      <3>2. CASE n + 1 < Len(g)
        BY <1>2, <2>1, <3>2 DEF Ordered
      <3> QED
        BY <1>2, <2>1, <3>1, <3>2
    <2>5. cp <= x.limit[u]
      BY <1>2, <1>6, <1>7, <2>1, <2>3, <2>4, SMTT(30)
    <2>6. n < Len(h) => cp <= h[n + 1].lsn
      <3>1. CASE n < Len(b)
        BY <2>3, <3>1
      <3>2. CASE n = Len(b)
        <4> SUFFICES ASSUME n < Len(h) PROVE cp <= h[n + 1].lsn
          OBVIOUS
        <4>1. h[n + 1].lsn > f /\ h[n + 1].lsn \in Nat
          BY <1>1, <1>3, <1>10, <3>2
        <4> QED
          BY <2>3, <4>1
      <3> QED
        BY <1>3, <1>5, <3>1, <3>2
    <2>7. SameLog(x, a, h[n].term, cp)
      BY <1>10, <2>3, <2>6, LogOfEntry DEF h
    <2>8. SameLog(x, u, g[n].term, cp)
      BY <1>10, <2>3, LogOfEntry, Zenon DEF g
    <2>9. SameLog(x, u, a, cp)
      BY <1>10, <2>7, <2>8 DEF SameLog
    <2> QED
      BY <2>3, <2>5, <2>9 DEF cp, b, h, g
  <1> QED
    BY <1>2, <1>5, <1>11, <1>12

(***************************************************************************)
(* The truncation of handle_elected keeps what matters: what a safekeeper  *)
(* has accepted and some quorum may still accept is below the common point *)
(* with every later leader.                                                *)
(***************************************************************************)
LEMMA CommonPointKeeps ==
    ASSUME NEW x, Core(x), NEW s \in Safekeepers, NEW a \in x.led, NEW u \in x.led,
           NEW f \in Nat, x.term[s] <= u,
           KeepsAccepted(x, s, x.hist[a], f, x.term[s] + 1),
           NEW t \in x.led, NEW c \in Nat, 1 <= c, c <= x.acc[s][t]
    PROVE  \/ Excluded(x, t, c)
           \/ /\ c <= f /\ c <= HighestCommonPoint(x.hist[u], UpTo(x.hist[a], f), f)
              /\ Follows(x.hist[a], x.hist[t], c) /\ Follows(x.hist[u], x.hist[t], c)
  <1>0. x \in View /\ Tree(x) /\ AccOK(x) /\ LeadersCover(x)
    BY DEF Core
  <1> SUFFICES ASSUME ~Excluded(x, t, c)
               PROVE  /\ c <= f /\ c <= HighestCommonPoint(x.hist[u], UpTo(x.hist[a], f), f)
                      /\ Follows(x.hist[a], x.hist[t], c) /\ Follows(x.hist[u], x.hist[t], c)
    OBVIOUS
  <1>1. t \in Nat /\ u \in Nat /\ x.term[s] \in Nat /\ x.acc[s][t] \in Nat
    BY <1>0, LeaderHistory, ViewFields, Zenon
  <1>2. t <= x.term[s]
    BY <1>0, <1>1 DEF AccOK
  <1>3. c <= f /\ Follows(x.hist[a], x.hist[t], c)
    BY <1>1, <1>2 DEF KeepsAccepted
  <1>4. /\ x.hist[t] \in History /\ x.hist[t] # <<>> /\ x.hist[t][1].lsn = 1
        /\ x.hist[u] \in History /\ x.hist[a] \in History
        /\ Ordered(x.hist[u]) /\ Ordered(x.hist[a])
    BY <1>0, LeaderHistory, Zenon
  <1>5. Follows(x.hist[u], x.hist[t], c)
    <2>1. CASE t = u
      BY <1>4, <2>1, FollowsItself
    <2>2. CASE t < u
      <3> DEFINE d == Floor(x, t, c)
      <3>1. d \in Nat /\ d >= c /\ d >= StartOf(x, t) /\ Floor(x, t, d) = d
        BY <1>0, FloorIs
      <3>2. ~Excluded(x, t, d)
        BY <3>1 DEF Excluded
      <3> HIDE DEF d
      <3>3. Follows(x.hist[u], x.hist[t], d)
        BY <1>0, <2>2, <3>1, <3>2 DEF LeadersCover
      <3> QED
        BY <1>4, <3>1, <3>3, FollowsLess
    <2> QED
      BY <1>1, <1>2, <2>1, <2>2
  <1>6. HighestCommonPoint(x.hist[u], UpTo(x.hist[a], f), f) >= c
    BY <1>3, <1>4, <1>5, CommonPointReaches
  <1>7. HighestCommonPoint(x.hist[u], UpTo(x.hist[a], f), f) \in Nat
    <2>1. UpTo(x.hist[a], f) \in History
      BY <1>4, UpToType
    <2>2. x.hist[u] # <<>> /\ f \in Nat \ {0}
      BY <1>0, <1>3, LeaderHistory
    <2> QED
      BY <1>4, <2>1, <2>2, CommonPointType
  <1> QED
    BY <1>3, <1>5, <1>6, <1>7
-----------------------------------------------------------------------------
(***************************************************************************)
(* The properties of WalConsensus follow from the invariant.               *)
(***************************************************************************)
\* A set with a quorum in it is a quorum.
LEMMA QuorumGrows ==
    ASSUME NEW Q \in SUBSET Safekeepers, NEW R \in SUBSET Safekeepers, Q \subseteq R, IsQuorum(Q)
    PROVE  IsQuorum(R)
  <1>1. IsFiniteSet(R) /\ IsFiniteSet(Q)
    BY SafekeepersAssumption, FS_Subset
  <1>2. /\ Cardinality(Q) <= Cardinality(R) /\ Cardinality(Q) \in Nat /\ Cardinality(R) \in Nat
        /\ Cardinality(Safekeepers) \in Nat
    BY <1>1, SafekeepersAssumption, FS_Subset, FS_CardinalityType
  <1>3. Cardinality(Safekeepers) \div 2 + 1 \in Int
    BY <1>2
  <1> QED
    BY <1>2, <1>3 DEF IsQuorum

\* What is committed up to an LSN is committed up to every lower one.
LEMMA CommittedLess ==
    ASSUME NEW x \in View, Tree(x), NEW t \in x.led, NEW c \in Nat, NEW d \in Nat, d <= c,
           Committed(x, t, c)
    PROVE  Committed(x, t, d)
  <1>1. Accepted(x, t, c) /\ c <= End(x)
    BY DEF Committed
  <1>2. Accepted(x, t, d) /\ End(x) \in Nat
    BY <1>1, AcceptedLess, EndIs
  <1> QED
    BY <1>1, <1>2 DEF Committed

\* So is what is known.
LEMMA KnownLess ==
    ASSUME NEW x \in View, Tree(x), NEW u \in Nat, NEW v \in Nat, u <= v, NEW h \in History,
           NEW c \in Nat, NEW d \in Nat, d <= c, KnownIn(x, u, h, c)
    PROVE  KnownIn(x, v, h, d)
  <1>1. PICK t \in x.led : t <= u /\ Committed(x, t, c) /\ Follows(h, x.hist[t], c)
    BY DEF KnownIn
  <1>2. t \in Nat /\ x.hist[t] \in History
    BY LeaderHistory
  <1>3. Committed(x, t, d) /\ Follows(h, x.hist[t], d) /\ t <= v
    BY <1>1, <1>2, CommittedLess, FollowsLess
  <1> QED
    BY <1>3 DEF KnownIn

\* The safekeepers and the view of a state.
LEMMA FitsFields ==
    ASSUME TypeInv, NEW x, Fits(x), NEW s \in Safekeepers
    PROVE  /\ Core(x) /\ x \in View /\ Tree(x) /\ AccOK(x) /\ LeadersCover(x)
           /\ x.chosen = chosen /\ chosen \in Seq(Computes) /\ End(x) = EndOf(chosen)
           /\ sk[s] \in SafekeeperOK /\ SkOK(x, s, sk[s])
           /\ WalOK(x, s, sk[s]) /\ CommitOK(x, s, sk[s])
           /\ x.at[s] \in x.led /\ x.term[s] = sk[s].term
           /\ sk[s].history = x.hist[x.at[s]]
           /\ sk[s].flush <= x.limit[x.at[s]]
  <1>1. Core(x) /\ x.chosen = chosen /\ SkOK(x, s, sk[s])
    BY DEF Fits
  <1>2. x \in View /\ Tree(x) /\ AccOK(x) /\ LeadersCover(x) /\ End(x) = EndOf(chosen)
    BY <1>1 DEF Core, End
  <1>3. sk[s] \in SafekeeperOK /\ chosen \in Seq(Computes)
    BY DEF TypeInv
  <1>4. WalOK(x, s, sk[s]) /\ CommitOK(x, s, sk[s])
    BY <1>1 DEF SkOK
  <1>5. x.at[s] \in x.led
    BY <1>2 DEF AccOK
  <1>6. x.term[s] = sk[s].term /\ sk[s].history = x.hist[x.at[s]] /\ WriteLsn(sk[s]) <= x.limit[x.at[s]]
    BY <1>4 DEF WalOK
  <1>7. sk[s].flush <= x.limit[x.at[s]]
    <2>1. sk[s].flush \in Nat /\ WriteLsn(sk[s]) \in Nat /\ sk[s].flush <= WriteLsn(sk[s])
      BY <1>3, SafekeeperFields
    <2>2. x.limit[x.at[s]] \in Nat
      BY <1>2, <1>5, ViewFields, Zenon
    <2> QED
      BY <1>6, <2>1, <2>2
  <1> QED
    BY <1>1, <1>2, <1>3, <1>4, <1>5, <1>6, <1>7

\* A safekeeper has the committed WAL it has accepted with a quorum.
LEMMA HoldsCommitted ==
    ASSUME TypeInv, NEW x, Fits(x), NEW s \in Safekeepers,
           NEW t \in x.led, NEW c \in Nat, 1 <= c, Committed(x, t, c), c <= x.acc[s][t]
    PROVE  c <= sk[s].flush /\ Below(sk[s].wal, c) = Below(chosen, c)
  <1> DEFINE k == sk[s]
  <1>1. /\ Core(x) /\ x \in View /\ x.chosen = chosen /\ chosen \in Seq(Computes)
        /\ k \in SafekeeperOK /\ SkOK(x, s, k)
    BY FitsFields
  <1>2. Accepted(x, t, c) /\ c <= End(x)
    BY DEF Committed
  <1>3. /\ c <= k.flush
        /\ \A l \in Nat : 1 <= l /\ l < c => l \in 1..Len(k.wal) /\ k.wal[l] = x.log[t][l]
    BY <1>1, <1>2, HoldsAccepted
  <1>4. \A l \in Nat : 1 <= l /\ l < c /\ l < End(x) => x.log[t][l] = x.chosen[l]
    BY <1>1, <1>2, AcceptedIsChosen, Zenon
  <1>5. End(x) \in Nat /\ End(x) = Len(chosen) + 1 /\ Len(chosen) \in Nat
    BY <1>1, EndIs
  <1>6. /\ k.wal \in Seq(Computes) /\ k.flush \in Nat /\ k.flush <= 1 + Len(k.wal)
        /\ Len(k.wal) \in Nat
    BY <1>1, SafekeeperFields
  <1> HIDE DEF k
  <1>7. \A l \in 1..(c - 1) : k.wal[l] = chosen[l]
    BY <1>1, <1>2, <1>3, <1>4, <1>5
  <1>8. c <= 1 + Len(k.wal) /\ c <= 1 + Len(chosen)
    BY <1>2, <1>3, <1>5, <1>6
  <1>9. Below(k.wal, c) = Below(chosen, c)
    BY <1>1, <1>6, <1>7, <1>8, BelowEqual, Zenon
  <1> QED
    BY <1>3, <1>9 DEF k

\* What was acknowledged as committed is on a quorum.
LEMMA DurableHolds == SafetyInv => CommittedIsDurable
  <1> SUFFICES ASSUME SafetyInv PROVE CommittedIsDurable
    OBVIOUS
  <1>0. TypeInv
    BY DEF SafetyInv, Fitting, ElectionInv
  <1>1. PICK x : Fits(x)
    BY DEF SafetyInv, Fitting
  <1>2. Core(x) /\ x.chosen = chosen /\ x \in View /\ End(x) = EndOf(chosen)
    BY <1>1 DEF Fits, Core, End
  <1>3. End(x) \in Nat /\ End(x) >= 1
    BY <1>2, EndIs
  <1>4. ASSUME NEW p \in Computes PROVE wp[p].commit <= EndOf(chosen)
    <2>1. LeaderOK(x, p, wp[p]) /\ wp[p].commit \in Nat
      BY <1>0, <1>1 DEF Fits, TypeInv, ProposerOK, ProposerType
    <2>2. CASE wp[p].commit = 0
      BY <1>2, <1>3, <2>2
    <2>3. CASE wp[p].commit # 0
      BY <1>2, <2>1, <2>3 DEF LeaderOK, Committed
    <2> QED
      BY <2>2, <2>3
  <1>5. PICK t \in x.led : Committed(x, t, End(x))
    BY <1>2 DEF Core, ChosenOK
  <1>6. PICK Q \in SUBSET Safekeepers :
           IsQuorum(Q) /\ \A s \in Q : x.acc[s][t] >= Floor(x, t, End(x))
    BY <1>5 DEF Committed, Accepted
  <1> DEFINE R == {s \in Safekeepers : /\ sk[s].flush >= EndOf(chosen)
                                       /\ Below(sk[s].wal, EndOf(chosen)) = chosen}
  <1>7. ASSUME NEW s \in Q PROVE s \in R
    <2>1. Floor(x, t, End(x)) \in Nat /\ Floor(x, t, End(x)) >= End(x) /\ t \in Nat
      BY <1>2, <1>3, FloorIs, LeaderHistory DEF Core
    <2>2. x.acc[s][t] \in Nat /\ x.acc[s][t] >= Floor(x, t, End(x))
      BY <1>2, <1>6, <2>1, ViewFields
    <2>3. End(x) <= x.acc[s][t]
      BY <1>3, <2>1, <2>2
    <2>4. End(x) <= sk[s].flush /\ Below(sk[s].wal, End(x)) = Below(chosen, End(x))
      BY <1>0, <1>1, <1>3, <1>5, <2>3, HoldsCommitted
    <2>5. Below(chosen, EndOf(chosen)) = chosen
      BY <1>0, BelowAll DEF TypeInv
    <2>6. sk[s].flush \in Nat
      BY <1>0, SafekeeperFields DEF TypeInv
    <2> QED
      BY <1>2, <1>3, <2>4, <2>5, <2>6
  <1>8. IsQuorum(R)
    BY <1>6, <1>7, QuorumGrows
  <1> QED
    BY <1>4, <1>8 DEF CommittedIsDurable
\* What safekeepers serve is committed.
LEMMA ServedHolds == SafetyInv => ServedIsCommitted
  <1> SUFFICES ASSUME SafetyInv, NEW s \in Safekeepers
               PROVE  /\ sk[s].commit <= sk[s].flush
                      /\ sk[s].commit <= EndOf(chosen)
                      /\ Below(sk[s].wal, sk[s].commit) = Below(chosen, sk[s].commit)
    BY DEF ServedIsCommitted
  <1>0. TypeInv
    BY DEF SafetyInv, Fitting, ElectionInv
  <1>1. PICK x : Fits(x)
    BY DEF SafetyInv, Fitting
  <1> DEFINE k == sk[s]
  <1>2. /\ x \in View /\ x.chosen = chosen /\ chosen \in Seq(Computes) /\ End(x) = EndOf(chosen)
        /\ k \in SafekeeperOK /\ WalOK(x, s, k) /\ CommitOK(x, s, k)
    BY <1>0, <1>1, FitsFields
  <1>3. /\ 1 <= k.pcommit /\ k.pcommit <= k.commit /\ k.commit <= k.flush /\ k.commit <= End(x)
        /\ \A l \in Nat : 1 <= l /\ l < k.commit => x.chosen[l] = x.log[x.at[s]][l]
    BY <1>2 DEF CommitOK
  <1>4. \A l \in 1..Len(k.wal) : k.wal[l] = x.log[x.at[s]][l]
    BY <1>2 DEF WalOK
  <1>5. /\ k.commit \in Nat /\ k.pcommit \in Nat /\ k.wal \in Seq(Computes) /\ k.flush \in Nat
        /\ k.flush <= 1 + Len(k.wal) /\ Len(k.wal) \in Nat
    BY <1>2, SafekeeperFields
  <1>6. End(x) \in Nat /\ End(x) = Len(chosen) + 1 /\ Len(chosen) \in Nat
    BY <1>2, EndIs
  <1> HIDE DEF k
  <1>7. \A l \in 1..(k.commit - 1) : k.wal[l] = chosen[l]
    BY <1>2, <1>3, <1>4, <1>5
  <1>8. Below(k.wal, k.commit) = Below(chosen, k.commit)
    <2>1. k.commit >= 1 /\ k.commit <= 1 + Len(k.wal) /\ k.commit <= 1 + Len(chosen)
      BY <1>2, <1>3, <1>5, <1>6
    <2> QED
      BY <1>2, <1>5, <1>7, <2>1, BelowEqual, Zenon
  <1> QED
    BY <1>2, <1>3, <1>8 DEF k

\* What may be deleted is on every safekeeper.
LEMMA HorizonHolds == SafetyInv => HorizonIsEverywhere
  <1> SUFFICES ASSUME SafetyInv, NEW s \in Safekeepers, NEW r \in Safekeepers
               PROVE  /\ sk[s].horizon <= sk[r].flush /\ sk[s].horizon <= EndOf(chosen)
                      /\ Below(sk[r].wal, sk[s].horizon) = Below(chosen, sk[s].horizon)
    BY DEF HorizonIsEverywhere
  <1>0. TypeInv
    BY DEF SafetyInv, Fitting, ElectionInv
  <1>1. PICK x : Fits(x)
    BY DEF SafetyInv, Fitting
  <1>2. End(x) = EndOf(chosen) /\ CommitOK(x, s, sk[s]) /\ sk[s] \in SafekeeperOK
    BY <1>0, <1>1, FitsFields
  <1> DEFINE h == sk[s].horizon
  <1>3. h >= 1 /\ Everywhere(x, h) /\ h \in Nat
    BY <1>2, SafekeeperFields DEF CommitOK
  <1> HIDE DEF h
  <1>4. PICK t \in x.led : Committed(x, t, h) /\ \A z \in Safekeepers : x.acc[z][t] >= h
    BY <1>3 DEF Everywhere
  <1>5. h <= x.acc[r][t]
    <2>1. x.acc[r][t] >= h
      BY <1>4
    <2>2. x.acc[r][t] \in Nat
      BY <1>1, ViewFields, LeaderHistory DEF Fits, Core
    <2> QED
      BY <1>3, <2>1, <2>2
  <1>6. h <= sk[r].flush /\ Below(sk[r].wal, h) = Below(chosen, h)
    BY <1>0, <1>1, <1>3, <1>4, <1>5, HoldsCommitted
  <1>7. h <= End(x)
    BY <1>4 DEF Committed
  <1> QED
    BY <1>2, <1>6, <1>7 DEF h

\* A new leader starts with all that is committed.
LEMMA CoversHolds == SafetyInv => LeaderCoversCommitted
  <1> SUFFICES ASSUME SafetyInv, NEW p \in Computes, NEW q \in Computes,
                      wp[p].state = "elected", wp[q].term < wp[p].term
               PROVE  wp[q].commit <= wp[p].start
    BY DEF LeaderCoversCommitted
  <1>0. TypeInv
    BY DEF SafetyInv, Fitting, ElectionInv
  <1>1. PICK x : Fits(x)
    BY DEF SafetyInv, Fitting
  <1>2. x \in View /\ Tree(x) /\ LeadersCover(x)
    BY <1>1 DEF Fits, Core
  <1>3. wp[q].commit \in Nat /\ wp[p].start \in Nat
    BY <1>0, Zenon DEF TypeInv, ProposerOK, ProposerType
  <1>4. MineOK(x, p, wp[p]) /\ LeaderOK(x, p, wp[p]) /\ LeaderOK(x, q, wp[q])
    BY <1>1 DEF Fits
  <1>5. CASE wp[q].commit = 0
    BY <1>3, <1>5
  <1>6. CASE wp[q].commit # 0
    <2>1. Committed(x, wp[q].term, wp[q].commit)
      BY <1>4, <1>6 DEF LeaderOK
    <2>2. wp[q].term \in x.led /\ Accepted(x, wp[q].term, wp[q].commit)
      BY <2>1 DEF Committed
    <2>3. wp[p].mine = wp[p].term /\ wp[p].start = StartOf(x, wp[p].term) /\ wp[p].term \in 1..MaxTerm
      BY <1>4 DEF LeaderOK
    <2>4. wp[p].term \in x.led
      BY <1>4, <2>3 DEF MineOK
    <2> QED
      BY <1>2, <1>3, <2>2, <2>3, <2>4, LaterLeaderCovers
  <1> QED
    BY <1>5, <1>6

\* Basebackups are taken of committed WAL.
LEMMA BasebackupHolds == SafetyInv => BasebackupIsCommitted
  <1> SUFFICES ASSUME SafetyInv, NEW p \in Computes
               PROVE  wp[p].base <= EndOf(chosen)
    BY DEF BasebackupIsCommitted
  <1>1. PICK x : Fits(x)
    BY DEF SafetyInv, Fitting
  <1>2. MineOK(x, p, wp[p]) /\ End(x) = EndOf(chosen)
    BY <1>1 DEF Fits, End
  <1> QED
    BY <1>2 DEF MineOK

\* The last term of the WAL on disk of a safekeeper.
LEMMA LastLogTermIs ==
    ASSUME TypeInv, NEW x, Fits(x), NEW s \in Safekeepers
    PROVE  LET z == LastLogTerm(sk[s])
           IN  /\ z \in x.led /\ z <= x.at[s] /\ x.hist[z] = TermHistoryOf(sk[s])
               /\ StartOf(x, z) <= sk[s].flush /\ sk[s].flush <= x.limit[z]
               /\ SameLog(x, x.at[s], z, sk[s].flush)
  <1>1. /\ x \in View /\ Tree(x) /\ sk[s] \in SafekeeperOK /\ x.at[s] \in x.led
        /\ sk[s].history = x.hist[x.at[s]] /\ sk[s].flush <= x.limit[x.at[s]]
    BY FitsFields
  <1>2. sk[s].flush \in Nat /\ sk[s].flush >= 1
    BY <1>1, SafekeeperFields
  <1>3. LastLogTerm(sk[s]) = HighestTerm(UpTo(x.hist[x.at[s]], sk[s].flush))
    BY <1>1 DEF LastLogTerm, TermHistoryOf
  <1> QED
    BY <1>1, <1>2, <1>3, CutLog DEF TermHistoryOf

\* Postgres runs on its own WAL.
LEMMA OwnWalHolds == SafetyInv => PostgresWalIsOwn
  <1> SUFFICES ASSUME SafetyInv, NEW p \in Computes,
                      wp[p].state = "elected", wp[p].mode = "compute"
               PROVE  /\ wp[p].base <= wp[p].start /\ wp[p].start <= wp[p].end
                      /\ \A s \in Safekeepers :
                            LastLogTerm(sk[s]) = wp[p].term =>
                                \A l \in wp[p].base..(sk[s].flush - 1) :
                                    sk[s].wal[l - StartLsn + 1] = p
    BY DEF PostgresWalIsOwn
  <1>0. TypeInv
    BY DEF SafetyInv, Fitting, ElectionInv
  <1>1. PICK x : Fits(x)
    BY DEF SafetyInv, Fitting
  <1> DEFINE w == wp[p]
             u == w.term
  <1>2. MineOK(x, p, w) /\ LeaderOK(x, p, w) /\ x \in View /\ Tree(x)
    BY <1>1 DEF Fits, Core
  <1>3. w.mine = u /\ w.start = StartOf(x, u) /\ u \in 1..MaxTerm
    BY <1>2 DEF LeaderOK
  <1>4. /\ u \in x.led /\ x.limit[u] = w.end /\ w.base <= StartOf(x, u) /\ 1 <= w.base
        /\ \A l \in Nat : l >= w.base => x.log[u][l] = p
    BY <1>2, <1>3 DEF MineOK
  <1>5. StartOf(x, u) <= x.limit[u]
    BY <1>2, <1>4 DEF Tree, HistoryOK
  <1>6. w.base \in Nat
    BY <1>0 DEF TypeInv, ProposerOK, ProposerType
  <1>7. ASSUME NEW s \in Safekeepers, LastLogTerm(sk[s]) = u, NEW l \in w.base..(sk[s].flush - 1)
        PROVE  sk[s].wal[l - StartLsn + 1] = p
    <2>1. SameLog(x, x.at[s], u, sk[s].flush)
      BY <1>0, <1>1, <1>7, LastLogTermIs
    <2>2. WalOK(x, s, sk[s]) /\ sk[s] \in SafekeeperOK
      BY <1>0, <1>1, FitsFields
    <2>3. /\ sk[s].flush \in Nat /\ sk[s].flush <= 1 + Len(sk[s].wal) /\ Len(sk[s].wal) \in Nat
      BY <2>2, SafekeeperFields
    <2>4. l \in Nat /\ 1 <= l /\ l < sk[s].flush /\ l \in 1..Len(sk[s].wal) /\ l - StartLsn + 1 = l
      BY <1>4, <1>6, <2>3
    <2>5. sk[s].wal[l] = x.log[x.at[s]][l]
      BY <2>2, <2>4 DEF WalOK
    <2>6. x.log[x.at[s]][l] = x.log[u][l]
      BY <2>1, <2>4 DEF SameLog
    <2>7. x.log[u][l] = p
      BY <1>4, <1>6, <2>4
    <2> QED
      BY <2>4, <2>5, <2>6, <2>7
  <1> QED
    BY <1>3, <1>4, <1>5, <1>7
\* The next request of a connection fits the view.
LEMMA NextRequestFits ==
    ASSUME TypeInv, NEW x, Fits(x), NEW p \in Computes, NEW s \in Safekeepers,
           NEW live \in BOOLEAN, NEW type, IsNext(p, s, live, type)
    PROVE  /\ QueueOK(x, s, Incoming(p, s, live))
           /\ ReqOK(x, Head(Incoming(p, s, live)))
           /\ type = "append" => Streamed(x, s, Head(Incoming(p, s, live)).term)
  <1> DEFINE q == Incoming(p, s, live)
  <1>1. q \in Seq(RequestType) /\ q # <<>> /\ Head(q).type = type
    BY IncomingType
  <1>2. QueueOK(x, s, conn[p][s].req) /\ QueueOK(x, s, old[p][s].req)
    BY DEF Fits, LinkOK
  <1>3. QueueOK(x, s, q)
    BY <1>2 DEF Incoming
  <1> HIDE DEF q
  <1>4. 1 \in 1..Len(q) /\ Head(q) = q[1]
    BY <1>1, LenProperties, EmptySeq, HeadTailProperties
  <1>5. ~Announced(q, 1 - 1, q[1].term)
    BY DEF Announced
  <1> QED
    BY <1>1, <1>3, <1>4, <1>5 DEF QueueOK, q

\* The assertions of find_highest_common_point about the two histories.
LEMMA HistoriesHold == SafetyInv => ElectedAssertionsHold
  <1> SUFFICES ASSUME SafetyInv, NEW p \in Computes, NEW s \in Safekeepers, NEW live \in BOOLEAN,
                      IsNext(p, s, live, "elected")
               PROVE  LET m  == Head(Incoming(p, s, live))
                          th == TermHistoryOf(sk[s])
                      IN  /\ SameTermSameLsn(m.history, th)
                          /\ th # <<>> => th[Len(th)].lsn <= sk[s].flush
    BY DEF ElectedAssertionsHold
  <1>0. TypeInv
    BY DEF SafetyInv, Fitting, ElectionInv
  <1>1. PICK x : Fits(x)
    BY DEF SafetyInv, Fitting
  <1> DEFINE m  == Head(Incoming(p, s, live))
             th == TermHistoryOf(sk[s])
             h  == x.hist[x.at[s]]
             u  == m.term
             g  == x.hist[u]
  <1>2. m.type = "elected" /\ ReqOK(x, m)
    BY <1>0, <1>1, IncomingType, NextRequestFits
  <1> HIDE DEF m
  <1>3. u \in x.led /\ m.history = g
    BY <1>2 DEF ReqOK
  <1>4. /\ x \in View /\ Tree(x) /\ sk[s] \in SafekeeperOK /\ x.at[s] \in x.led
        /\ sk[s].history = h
    BY <1>0, <1>1, FitsFields
  <1>5. sk[s].flush \in Nat
    BY <1>4, SafekeeperFields
  <1>6. h \in History /\ g \in History /\ Len(h) \in Nat /\ Len(g) \in Nat
    BY <1>3, <1>4, LeaderHistory
  <1>7. th = UpTo(h, sk[s].flush)
    BY <1>4 DEF TermHistoryOf
  <1>8. /\ th \in History /\ Len(th) \in Nat /\ Len(th) <= Len(h)
        /\ \A i \in 1..Len(th) : th[i] = h[i] /\ h[i].lsn <= sk[s].flush
    BY <1>5, <1>6, <1>7, UpToShape
  <1> HIDE DEF th
  <1>9. th # <<>> => th[Len(th)].lsn <= sk[s].flush
    <2> SUFFICES ASSUME th # <<>> PROVE th[Len(th)].lsn <= sk[s].flush
      OBVIOUS
    <2>1. Len(th) \in 1..Len(th)
      BY <1>8, HistoryShape
    <2> QED
      BY <1>8, <2>1
  <1>10. ASSUME NEW i \in 1..CommonLen(g, th) PROVE g[i].lsn = th[i].lsn
    <2>1. /\ CommonLen(g, th) \in Nat /\ CommonLen(g, th) <= Len(g) /\ CommonLen(g, th) <= Len(th)
          /\ g[i].term = th[i].term
      BY <1>6, <1>8, <1>10, CommonLenShape, Zenon
    <2>2. i \in 1..Len(g) /\ i \in 1..Len(th) /\ i \in 1..Len(h)
      BY <1>6, <1>8, <2>1
    <2>3. th[i] = h[i] /\ g[i].term = h[i].term
      BY <1>8, <2>1, <2>2
    <2>4. g[i] = h[i]
      BY <1>3, <1>4, <2>2, <2>3, SameTermSamePast, Zenon
    <2> QED
      BY <2>3, <2>4
  <1>11. SameTermSameLsn(m.history, th)
    BY <1>3, <1>10 DEF SameTermSameLsn
  <1> QED
    BY <1>9, <1>11 DEF th, m

(***************************************************************************)
(* The histories of two leaders can be compared as soon as the WAL is long *)
(* enough for the earlier one.                                             *)
(***************************************************************************)
LEMMA LeadersCompare ==
    ASSUME NEW x \in View, Tree(x), NEW u \in x.led, NEW z \in x.led, z <= u,
           NEW f \in Nat, StartOf(x, z) <= f
    PROVE  /\ x.hist[u] \in History /\ x.hist[z] \in History
           /\ Comparable(x.hist[u], x.hist[z], f)
  <1>1. ASSUME NEW t \in x.led
        PROVE  /\ x.hist[t] \in History /\ x.hist[t] # <<>> /\ x.hist[t][1].lsn = 1
               /\ Ordered(x.hist[t]) /\ HighestTerm(x.hist[t]) = t
    BY LeaderHistory, Zenon
  <1>2. Compatible(x.hist[u], x.hist[z])
    <2> SUFFICES ASSUME NEW i \in 1..Len(x.hist[u]), NEW j \in 1..Len(x.hist[z]),
                        x.hist[u][i].term = x.hist[z][j].term
                 PROVE  SubSeq(x.hist[u], 1, i) = SubSeq(x.hist[z], 1, j)
      BY Zenon DEF Compatible
    <2>1. x.hist[x.hist[u][i].term] = SubSeq(x.hist[u], 1, i)
      BY EntryIsLeader, Zenon
    <2>2. x.hist[x.hist[z][j].term] = SubSeq(x.hist[z], 1, j)
      BY EntryIsLeader, Zenon
    <2> QED
      BY <2>1, <2>2, Zenon
  <1>3. x.hist[z][Len(x.hist[z])].lsn <= f
    BY DEF StartOf
  <1>4. HighestTerm(x.hist[z]) <= HighestTerm(x.hist[u])
    BY <1>1
  <1>5. ASSUME NEW h \in {x.hist[u], x.hist[z]} PROVE h # <<>> /\ h[1].lsn = 1 /\ Ordered(h)
    <2>1. PICK t \in x.led : h = x.hist[t]
      BY <1>5, Zenon
    <2> QED
      BY <1>1, <2>1, Zenon
  <1> QED
    BY <1>1, <1>2, <1>3, <1>4, <1>5, Zenon DEF Comparable

(***************************************************************************)
(* The flushed WAL of a safekeeper is that of an earlier leader (CutLog),  *)
(* so the last common point is where it leaves that of the new one.        *)
(***************************************************************************)
LEMMA TruncationHolds == SafetyInv => TruncationIsExact
  <1> SUFFICES ASSUME SafetyInv, NEW p \in Computes, NEW s \in Safekeepers, NEW live \in BOOLEAN,
                      IsNext(p, s, live, "elected"),
                      ~ElectedIgnored(sk[s], Head(Incoming(p, s, live)))
               PROVE  IsDivergence(Head(Incoming(p, s, live)).history, TermHistoryOf(sk[s]),
                                   sk[s].flush)
    BY Zenon DEF TruncationIsExact
  <1>0. TypeInv
    BY DEF SafetyInv, Fitting, ElectionInv
  <1>1. PICK x : Fits(x)
    BY DEF SafetyInv, Fitting
  <1> DEFINE m == Head(Incoming(p, s, live))
             a == x.at[s]
             f == sk[s].flush
             z == HighestTerm(UpTo(x.hist[a], f))
  <1>2. m.type = "elected" /\ ReqOK(x, m)
    BY <1>0, <1>1, IncomingType, NextRequestFits
  <1>3. m.term \in x.led /\ m.history = x.hist[m.term]
    BY <1>2 DEF ReqOK
  <1>4. /\ x \in View /\ Tree(x) /\ AccOK(x) /\ sk[s] \in SafekeeperOK /\ a \in x.led
        /\ sk[s].history = x.hist[a] /\ x.term[s] = sk[s].term /\ f <= x.limit[a]
    BY <1>0, <1>1, FitsFields, Zenon
  <1>5. f \in Nat /\ f >= 1 /\ sk[s].term \in Nat
    BY <1>4, SafekeeperFields
  <1>6. a \in Nat /\ m.term \in Nat
    BY <1>3, <1>4, LeaderHistory, Zenon
  <1>7. a <= sk[s].term /\ sk[s].term <= m.term
    <2>1. a <= sk[s].term
      BY <1>4 DEF AccOK
    <2>2. ~(sk[s].term > m.term)
      BY Zenon DEF ElectedIgnored
    <2> QED
      BY <1>5, <1>6, <2>1, <2>2
  <1>8. z \in x.led /\ z <= a /\ x.hist[z] = UpTo(x.hist[a], f) /\ StartOf(x, z) <= f
    BY <1>4, <1>5, CutLog
  <1>9. TermHistoryOf(sk[s]) = x.hist[z]
    BY <1>4, <1>8, Zenon DEF TermHistoryOf
  <1> HIDE DEF z, m, a, f
  <1>10. z <= m.term
    <2>1. z \in Nat
      BY <1>4, <1>8, LeaderHistory, Zenon
    <2> QED
      BY <1>5, <1>6, <1>7, <1>8, <2>1
  <1>11. /\ x.hist[m.term] \in History /\ x.hist[z] \in History
         /\ Comparable(x.hist[m.term], x.hist[z], f)
    BY <1>3, <1>4, <1>5, <1>8, <1>10, LeadersCompare, Zenon
  <1>12. IsDivergence(x.hist[m.term], x.hist[z], f)
    BY <1>5, <1>11, CommonPointDiverges, Zenon
  <1> QED
    BY <1>3, <1>9, <1>12, Zenon DEF m, f

-----------------------------------------------------------------------------
(***************************************************************************)
(* Views only grow: what leaders have done is never changed, terms and     *)
(* acceptances do not go back, and nobody accepts WAL in a term that he    *)
(* has left.  So most of what is known in a view stays known.              *)
(***************************************************************************)
Grows(x, y) ==
    /\ x.led \subseteq y.led
    /\ \A t \in x.led : /\ y.hist[t] = x.hist[t] /\ y.log[t] = x.log[t] /\ y.by[t] = x.by[t]
                        /\ x.limit[t] <= y.limit[t]
    /\ \A s \in Safekeepers :
          /\ x.term[s] <= y.term[s]
          /\ y.term[s] = x.term[s] => y.at[s] = x.at[s] \/ y.at[s] = y.term[s]
          /\ \A t \in x.led : /\ x.acc[s][t] <= y.acc[s][t]
                              /\ x.term[s] > t => y.acc[s][t] = x.acc[s][t]
          /\ \A t \in y.led \ x.led : y.acc[s][t] = 0
    /\ End(x) <= End(y)
    /\ \A l \in Nat : 1 <= l /\ l < End(x) => y.chosen[l] = x.chosen[l]

\* A view that has grown to another one.
Grown(x, y) == x \in View /\ y \in View /\ Tree(x) /\ AccOK(x) /\ Grows(x, y)

\* Where a term starts stays.
LEMMA StartStays ==
    ASSUME NEW x, NEW y, Grown(x, y), NEW t \in x.led
    PROVE  StartOf(y, t) = StartOf(x, t) /\ \A c : Floor(y, t, c) = Floor(x, t, c)
    BY DEF Grown, Grows, StartOf, Floor

\* What is excluded stays excluded.
LEMMA ExcludedStays ==
    ASSUME NEW x, NEW y, Grown(x, y), NEW t \in x.led, NEW c, Excluded(x, t, c)
    PROVE  Excluded(y, t, c)
  <1>1. PICK Q \in SUBSET Safekeepers :
           IsQuorum(Q) /\ \A s \in Q : x.term[s] > t /\ x.acc[s][t] < Floor(x, t, c)
    BY DEF Excluded
  <1>2. t \in Nat /\ Floor(y, t, c) = Floor(x, t, c)
    BY StartStays, LeaderHistory DEF Grown
  <1>3. ASSUME NEW s \in Q PROVE y.term[s] > t /\ y.acc[s][t] < Floor(y, t, c)
    <2>1. x.term[s] > t /\ x.acc[s][t] < Floor(x, t, c)
      BY <1>1
    <2>2. x.term[s] <= y.term[s] /\ y.acc[s][t] = x.acc[s][t]
      BY <2>1 DEF Grown, Grows
    <2>3. x.term[s] \in Nat /\ y.term[s] \in Nat
      BY ViewFields DEF Grown
    <2> QED
      BY <1>2, <2>1, <2>2, <2>3
  <1> QED
    BY <1>1, <1>3 DEF Excluded

\* What is accepted, committed or everywhere stays so.
LEMMA AcceptedStays ==
    ASSUME NEW x, NEW y, Grown(x, y), NEW t \in x.led, NEW c \in Nat
    PROVE  /\ Accepted(x, t, c) => Accepted(y, t, c)
           /\ Committed(x, t, c) => Committed(y, t, c)
  <1>1. ASSUME Accepted(x, t, c) PROVE Accepted(y, t, c)
    <2>1. PICK Q \in SUBSET Safekeepers :
             IsQuorum(Q) /\ \A s \in Q : x.acc[s][t] >= Floor(x, t, c)
      BY <1>1 DEF Accepted
    <2>2. t \in Nat /\ Floor(y, t, c) = Floor(x, t, c) /\ Floor(x, t, c) \in Nat
      BY StartStays, LeaderHistory, FloorIs DEF Grown
    <2>3. ASSUME NEW s \in Q PROVE y.acc[s][t] >= Floor(y, t, c)
      <3>1. x.acc[s][t] \in Nat /\ y.acc[s][t] \in Nat
        BY <2>2, ViewFields DEF Grown
      <3>2. x.acc[s][t] <= y.acc[s][t]
        BY DEF Grown, Grows
      <3> QED
        BY <2>1, <2>2, <3>1, <3>2
    <2> QED
      BY <2>1, <2>3 DEF Accepted
  <1>2. ASSUME Committed(x, t, c) PROVE Committed(y, t, c)
    <2>1. End(x) \in Nat /\ End(y) \in Nat
      BY EndIs DEF Grown
    <2> QED
      BY <1>1, <1>2, <2>1 DEF Committed, Grown, Grows
  <1> QED
    BY <1>1, <1>2

\* What is everywhere stays everywhere.
LEMMA EverywhereStays ==
    ASSUME NEW x, NEW y, Grown(x, y), NEW c \in Nat, Everywhere(x, c)
    PROVE  Everywhere(y, c)
  <1>1. PICK t \in x.led : Committed(x, t, c) /\ \A s \in Safekeepers : x.acc[s][t] >= c
    BY DEF Everywhere
  <1>2. Committed(y, t, c)
    BY <1>1, AcceptedStays
  <1>3. ASSUME NEW s \in Safekeepers PROVE y.acc[s][t] >= c
    <2>1. x.acc[s][t] \in Nat /\ y.acc[s][t] \in Nat
      BY LeaderHistory, ViewFields DEF Grown
    <2>2. x.acc[s][t] <= y.acc[s][t]
      BY DEF Grown, Grows
    <2> QED
      BY <1>1, <2>1, <2>2
  <1>4. t \in y.led
    BY DEF Grown, Grows
  <1> QED
    BY <1>2, <1>3, <1>4 DEF Everywhere

\* Who streams a term still does, or has left it.
LEMMA StreamedStays ==
    ASSUME NEW x, NEW y, Grown(x, y), NEW s \in Safekeepers, NEW t \in Nat, Streamed(x, s, t)
    PROVE  Streamed(y, s, t)
  <1>1. x.term[s] \in Nat /\ y.term[s] \in Nat
    BY ViewFields DEF Grown
  <1> QED
    BY <1>1 DEF Grown, Grows, Streamed

\* What two leaders have in common stays.
LEMMA SameLogStays ==
    ASSUME NEW x, NEW y, Grown(x, y), NEW t \in x.led, NEW u \in x.led, NEW c,
           SameLog(x, t, u, c)
    PROVE  SameLog(y, t, u, c)
    BY DEF Grown, Grows, SameLog

\* What is kept for later terms stays kept.
LEMMA KeptStays ==
    ASSUME NEW x, NEW y, Grown(x, y), NEW s \in Safekeepers, NEW h, NEW e, NEW z \in Nat,
           KeepsAccepted(x, s, h, e, z),
           \A t \in x.led : t < z => y.acc[s][t] = x.acc[s][t]
    PROVE  KeepsAccepted(y, s, h, e, z)
  <1> SUFFICES ASSUME NEW t \in y.led, NEW c \in Nat, t < z, 1 <= c, c <= y.acc[s][t]
               PROVE  (c <= e /\ Follows(h, y.hist[t], c)) \/ Excluded(y, t, c)
    BY DEF KeepsAccepted
  <1>1. t \in x.led
    <2> SUFFICES ASSUME t \notin x.led PROVE FALSE
      OBVIOUS
    <2>1. y.acc[s][t] = 0
      BY DEF Grown, Grows
    <2> QED
      BY <2>1
  <1>2. y.acc[s][t] = x.acc[s][t] /\ y.hist[t] = x.hist[t]
    BY <1>1 DEF Grown, Grows
  <1>3. (c <= e /\ Follows(h, x.hist[t], c)) \/ Excluded(x, t, c)
    BY <1>1, <1>2 DEF KeepsAccepted
  <1> QED
    BY <1>1, <1>2, <1>3, ExcludedStays

\* The history of a leader stays.
LEMMA HistoryStays ==
    ASSUME NEW x, NEW y, Grown(x, y), NEW t \in x.led
    PROVE  HistoryOK(y, t)
  <1> DEFINE h == x.hist[t]
  <1>1. HistoryOK(x, t) /\ h \in History /\ t \in Nat /\ Len(h) \in Nat
    BY LeaderHistory DEF Grown, Tree
  <1>2. y.hist[t] = h /\ x.limit[t] <= y.limit[t]
    BY DEF Grown, Grows
  <1>3. /\ h # <<>> /\ Ordered(h)
        /\ h[1] = [term |-> 0, lsn |-> 1] /\ h[Len(h)].term = t
        /\ StartOf(x, t) <= x.limit[t]
    BY <1>1 DEF HistoryOK
  <1>4. \A i \in 1..Len(h) : h[i].term \in x.led /\ x.hist[h[i].term] = SubSeq(h, 1, i)
    BY <1>1, Zenon DEF HistoryOK
  <1>5. \A i \in 1..Len(h) : h[i].term \in y.led /\ y.hist[h[i].term] = SubSeq(h, 1, i)
    BY <1>4 DEF Grown, Grows
  <1>6. ASSUME NEW i \in 1..(Len(h) - 1)
        PROVE  h[i + 1].lsn <= y.limit[h[i].term] /\ SameLog(y, t, h[i].term, h[i + 1].lsn)
    <2>1. h[i + 1].lsn <= x.limit[h[i].term] /\ SameLog(x, t, h[i].term, h[i + 1].lsn)
      BY <1>1, Zenon DEF HistoryOK
    <2>2. i \in 1..Len(h) /\ i + 1 \in 1..Len(h)
      BY <1>1
    <2>3. h[i].term \in x.led /\ x.limit[h[i].term] <= y.limit[h[i].term]
      BY <1>4, <2>2 DEF Grown, Grows
    <2>4. h[i].term \in Nat /\ h[i + 1].lsn \in Nat
      BY <1>1, <2>2, HistoryShape
    <2>5. x.limit[h[i].term] \in Nat /\ y.limit[h[i].term] \in Nat
      BY <2>4, ViewFields, Zenon DEF Grown
    <2>6. SameLog(y, t, h[i].term, h[i + 1].lsn)
      BY <2>1, <2>3, SameLogStays
    <2> QED
      BY <2>1, <2>3, <2>4, <2>5, <2>6
  <1>7. StartOf(y, t) <= y.limit[t]
    <2>1. StartOf(x, t) \in Nat /\ StartOf(y, t) = StartOf(x, t)
      BY LeaderHistory, StartStays DEF Grown
    <2>2. x.limit[t] \in Nat /\ y.limit[t] \in Nat
      BY <1>1, ViewFields, Zenon DEF Grown
    <2> QED
      BY <1>2, <1>3, <2>1, <2>2
  <1>8. PICK Q \in SUBSET Safekeepers : IsQuorum(Q) /\ \A s \in Q : x.term[s] >= t
    BY <1>1 DEF HistoryOK
  <1>9. ASSUME NEW s \in Q PROVE y.term[s] >= t
    <2>1. x.term[s] \in Nat /\ y.term[s] \in Nat /\ x.term[s] <= y.term[s] /\ x.term[s] >= t
      BY <1>8, ViewFields DEF Grown, Grows
    <2> QED
      BY <1>1, <2>1
  <1>10. \E R \in SUBSET Safekeepers : IsQuorum(R) /\ \A s \in R : y.term[s] >= t
    BY <1>8, <1>9
  <1> HIDE DEF h
  <1> QED
    BY <1>2, <1>3, <1>5, <1>6, <1>7, <1>10, Zenon DEF HistoryOK

\* A leader covers another one as before.
LEMMA CoverStays ==
    ASSUME NEW x, NEW y, Grown(x, y), LeadersCover(x), NEW t \in x.led, NEW u \in x.led,
           NEW c \in Nat, t < u, c >= StartOf(y, t)
    PROVE  \/ c <= StartOf(y, u) /\ Follows(y.hist[u], y.hist[t], c)
           \/ Excluded(y, t, c)
  <1>1. StartOf(y, t) = StartOf(x, t) /\ StartOf(y, u) = StartOf(x, u)
    BY StartStays
  <1>2. y.hist[t] = x.hist[t] /\ y.hist[u] = x.hist[u]
    BY DEF Grown, Grows
  <1>3. \/ c <= StartOf(x, u) /\ Follows(x.hist[u], x.hist[t], c)
        \/ Excluded(x, t, c)
    BY <1>1 DEF LeadersCover
  <1> QED
    BY <1>1, <1>2, <1>3, ExcludedStays
\* The same for the parts of the state: requests and what is queued.
LEMMA ReqStays ==
    ASSUME NEW x, NEW y, Grown(x, y), NEW m \in RequestType, ReqOK(x, m)
    PROVE  ReqOK(y, m)
  <1>1. m.type # "vote" => m.term \in x.led /\ m.term \in y.led
    BY DEF ReqOK, Grown, Grows
  <1>2. m.type = "elected" => m.history = y.hist[m.term]
    BY <1>1 DEF ReqOK, Grown, Grows
  <1>3. ASSUME m.type = "append"
        PROVE  /\ m.recs # <<>> => 1 <= m.begin /\ m.begin + Len(m.recs) <= y.limit[m.term]
               /\ \A i \in 1..Len(m.recs) : m.recs[i] = y.log[m.term][m.begin + i - 1]
               /\ m.commit # 0 => Committed(y, m.term, m.commit)
               /\ Everywhere(y, m.truncate)
    <2>1. m \in AppendRequestType
      BY <1>3 DEF RequestType, VoteRequestType, ElectedType, AppendRequestType
    <2>2. m.begin \in Nat /\ Len(m.recs) \in Nat /\ m.commit \in Nat /\ m.truncate \in Nat
      BY <2>1, LenProperties DEF AppendRequestType
    <2>3. /\ m.recs # <<>> => 1 <= m.begin /\ m.begin + Len(m.recs) <= x.limit[m.term]
          /\ \A i \in 1..Len(m.recs) : m.recs[i] = x.log[m.term][m.begin + i - 1]
          /\ m.commit # 0 => Committed(x, m.term, m.commit)
          /\ Everywhere(x, m.truncate)
      BY <1>3 DEF ReqOK
    <2>4. /\ m.term \in x.led /\ x.limit[m.term] <= y.limit[m.term]
          /\ y.log[m.term] = x.log[m.term]
      BY <1>1, <1>3 DEF Grown, Grows
    <2>5. x.limit[m.term] \in Nat /\ y.limit[m.term] \in Nat
      BY <2>4, ViewFields, Zenon DEF Grown
    <2>6. m.recs # <<>> => 1 <= m.begin /\ m.begin + Len(m.recs) <= y.limit[m.term]
      BY <2>2, <2>3, <2>4, <2>5
    <2>7. \A i \in 1..Len(m.recs) : m.recs[i] = y.log[m.term][m.begin + i - 1]
      BY <2>3, <2>4
    <2>8. m.commit # 0 => Committed(y, m.term, m.commit)
      BY <2>2, <2>3, <2>4, AcceptedStays
    <2>9. Everywhere(y, m.truncate)
      BY <2>2, <2>3, EverywhereStays
    <2> QED
      BY <2>6, <2>7, <2>8, <2>9
  <1> QED
    BY <1>1, <1>2, <1>3 DEF ReqOK

\* A queue of requests.
LEMMA QueueStays ==
    ASSUME NEW x, NEW y, Grown(x, y), NEW s \in Safekeepers, NEW q \in Seq(RequestType),
           QueueOK(x, s, q)
    PROVE  QueueOK(y, s, q)
  <1> SUFFICES ASSUME NEW i \in 1..Len(q)
               PROVE  /\ ReqOK(y, q[i])
                      /\ q[i].type = "append" =>
                            Announced(q, i - 1, q[i].term) \/ Streamed(y, s, q[i].term)
    BY DEF QueueOK
  <1>1. q[i] \in RequestType
    BY ElementOfSeq
  <1>2. /\ ReqOK(x, q[i])
        /\ q[i].type = "append" => Announced(q, i - 1, q[i].term) \/ Streamed(x, s, q[i].term)
    BY DEF QueueOK
  <1>3. q[i].term \in Nat
    BY <1>1 DEF RequestType, VoteRequestType, ElectedType, AppendRequestType
  <1> QED
    BY <1>1, <1>2, <1>3, ReqStays, StreamedStays

\* A vote.
LEMMA VoteStays ==
    ASSUME NEW x, NEW y, Grown(x, y), NEW s \in Safekeepers, NEW m \in VoteResponseType,
           VoteOK(x, s, m)
    PROVE  VoteOK(y, s, m)
  <1> SUFFICES ASSUME m.given PROVE VoteOK(y, s, m)
    BY DEF VoteOK
  <1> DEFINE z == HighestTerm(m.history)
  <1>1. /\ z \in x.led /\ m.history = x.hist[z] /\ z < m.term
        /\ StartOf(x, z) <= m.flush /\ m.flush <= x.limit[z]
        /\ Everywhere(x, m.truncate)
        /\ x.term[s] >= m.term
        /\ KeepsAccepted(x, s, m.history, m.flush, m.term)
        /\ x.term[s] = m.term /\ x.at[s] # m.term => SameLog(x, x.at[s], z, m.flush)
    BY DEF VoteOK
  <1> HIDE DEF z
  <1>2. m.flush \in Nat /\ m.truncate \in Nat /\ m.term \in Nat
    BY DEF VoteResponseType
  <1>3. /\ z \in y.led /\ y.hist[z] = x.hist[z] /\ StartOf(y, z) = StartOf(x, z)
        /\ x.limit[z] <= y.limit[z]
    BY <1>1, StartStays DEF Grown, Grows
  <1>4. /\ x.term[s] \in Nat /\ y.term[s] \in Nat /\ x.term[s] <= y.term[s]
        /\ x.limit[z] \in Nat /\ y.limit[z] \in Nat
    <2>1. z \in Nat
      BY <1>1, LeaderHistory DEF Grown
    <2> QED
      BY <2>1, ViewFields DEF Grown, Grows
  <1>5. Everywhere(y, m.truncate)
    BY <1>1, <1>2, EverywhereStays
  <1>6. KeepsAccepted(y, s, m.history, m.flush, m.term)
    <2>1. ASSUME NEW t \in x.led, t < m.term PROVE y.acc[s][t] = x.acc[s][t]
      <3>1. t \in Nat
        BY LeaderHistory DEF Grown
      <3>2. x.term[s] > t
        BY <1>1, <1>2, <1>4, <2>1, <3>1
      <3> QED
        BY <3>2 DEF Grown, Grows
    <2> QED
      BY <1>1, <1>2, <2>1, KeptStays
  <1>7. ASSUME y.term[s] = m.term, y.at[s] # m.term
        PROVE  SameLog(y, y.at[s], z, m.flush)
    <2>1. x.term[s] = m.term
      BY <1>1, <1>2, <1>4, <1>7
    <2>2. y.at[s] = x.at[s]
      BY <1>7, <2>1 DEF Grown, Grows
    <2>3. x.at[s] \in x.led
      BY DEF Grown, AccOK
    <2> QED
      BY <1>1, <1>7, <2>1, <2>2, <2>3, SameLogStays
  <1>8. m.flush <= y.limit[z] /\ y.term[s] >= m.term
    BY <1>1, <1>2, <1>3, <1>4
  <1> QED
    BY <1>1, <1>3, <1>5, <1>6, <1>7, <1>8 DEF VoteOK, z

\* A reply.
LEMMA RepStays ==
    ASSUME NEW x, NEW y, Grown(x, y), NEW s \in Safekeepers, NEW w \in ProposerOK,
           w.state = "elected" => w.term \in x.led, NEW r \in ReplyType, RepOK(x, s, w, r)
    PROVE  RepOK(y, s, w, r)
  <1>1. ASSUME r.type = "vote" PROVE VoteOK(y, s, r)
    <2>1. r \in VoteResponseType
      BY <1>1 DEF ReplyType, VoteResponseType, AppendResponseType
    <2> QED
      BY <1>1, <2>1, VoteStays DEF RepOK
  <1>2. ASSUME r.type = "append"
        PROVE  /\ w.state = "elected" /\ r.commit <= End(y)
               /\ \/ r.term > w.term
                  \/ r.term = w.term /\ r.flush <= y.acc[s][w.term] /\ Streamed(y, s, w.term)
    <2>1. r \in AppendResponseType
      BY <1>2 DEF ReplyType, VoteResponseType, AppendResponseType
    <2>2. r.commit \in Nat /\ r.flush \in Nat
      BY <2>1 DEF AppendResponseType
    <2>3. /\ w.state = "elected" /\ r.commit <= End(x)
          /\ \/ r.term > w.term
             \/ r.term = w.term /\ r.flush <= x.acc[s][w.term] /\ Streamed(x, s, w.term)
      BY <1>2 DEF RepOK
    <2>4. End(x) \in Nat /\ End(y) \in Nat /\ End(x) <= End(y)
      BY EndIs DEF Grown, Grows
    <2>5. w.term \in x.led /\ w.term \in Nat
      BY <2>3, LeaderHistory DEF Grown
    <2>6. /\ x.acc[s][w.term] \in Nat /\ y.acc[s][w.term] \in Nat
          /\ x.acc[s][w.term] <= y.acc[s][w.term]
      BY <2>5, ViewFields DEF Grown, Grows
    <2>7. r.commit <= End(y)
      BY <2>2, <2>3, <2>4
    <2> QED
      BY <2>2, <2>3, <2>5, <2>6, <2>7, StreamedStays
  <1> QED
    BY <1>1, <1>2 DEF RepOK

\* A connection.
LEMMA LinkStays ==
    ASSUME NEW x, NEW y, Grown(x, y), NEW s \in Safekeepers, NEW w \in ProposerOK,
           w.state = "elected" => w.term \in x.led, NEW c \in ConnOK, LinkOK(x, s, w, c)
    PROVE  LinkOK(y, s, w, c)
  <1>1. /\ c.req \in Seq(RequestType) /\ c.rep \in Seq(ReplyType) /\ c.ackFlush \in Nat
        /\ w.term \in Nat
    BY DEF ConnOK, ConnType, ProposerOK, ProposerType
  <1>2. QueueOK(y, s, c.req)
    BY <1>1, QueueStays DEF LinkOK
  <1>3. ASSUME NEW i \in 1..Len(c.rep) PROVE RepOK(y, s, w, c.rep[i])
    <2>1. c.rep[i] \in ReplyType
      BY <1>1, ElementOfSeq
    <2> QED
      BY <2>1, RepStays DEF LinkOK
  <1>4. Streamed(x, s, w.term) => Streamed(y, s, w.term)
    BY <1>1, StreamedStays
  <1>5. c.ackFlush # 0 =>
          w.state = "elected" /\ c.ackFlush <= y.acc[s][w.term] /\ Streamed(y, s, w.term)
    <2> SUFFICES ASSUME c.ackFlush # 0
                 PROVE  w.state = "elected" /\ c.ackFlush <= y.acc[s][w.term] /\ Streamed(y, s, w.term)
      OBVIOUS
    <2>1. w.state = "elected" /\ c.ackFlush <= x.acc[s][w.term] /\ Streamed(x, s, w.term)
      BY DEF LinkOK
    <2>2. /\ x.acc[s][w.term] \in Nat /\ y.acc[s][w.term] \in Nat
          /\ x.acc[s][w.term] <= y.acc[s][w.term]
      BY <1>1, <2>1, ViewFields DEF Grown, Grows
    <2> QED
      BY <1>1, <1>4, <2>1, <2>2
  <1> QED
    BY <1>2, <1>3, <1>4, <1>5 DEF LinkOK
\* An elected walproposer.
LEMMA LeaderStays ==
    ASSUME NEW x, NEW y, Grown(x, y), NEW p \in Computes, NEW w \in ProposerOK,
           w.state = "elected" => w.term \in x.led, LeaderOK(x, p, w)
    PROVE  LeaderOK(y, p, w)
  <1> SUFFICES ASSUME w.state = "elected" PROVE LeaderOK(y, p, w)
    BY DEF LeaderOK
  <1>1. /\ w.mine = w.term /\ w.history = x.hist[w.term] /\ w.start = StartOf(x, w.term)
        /\ w.commit # 0 => Committed(x, w.term, w.commit)
        /\ Everywhere(x, w.truncate)
        /\ \A d \in w.donors :
              /\ x.term[d] >= w.term
              /\ x.term[d] = w.term /\ x.at[d] # w.term => SameLog(x, x.at[d], w.term, w.start)
        /\ w.term \in 1..MaxTerm
    BY DEF LeaderOK
  <1>2. w.commit \in Nat /\ w.truncate \in Nat /\ w.donors \subseteq Safekeepers /\ w.term \in Nat
    BY DEF ProposerOK, ProposerType
  <1>3. w.history = y.hist[w.term] /\ w.start = StartOf(y, w.term)
    BY <1>1, StartStays DEF Grown, Grows
  <1>4. w.commit # 0 => Committed(y, w.term, w.commit)
    BY <1>1, <1>2, AcceptedStays
  <1>5. Everywhere(y, w.truncate)
    BY <1>1, <1>2, EverywhereStays
  <1>6. ASSUME NEW d \in w.donors
        PROVE  /\ y.term[d] >= w.term
               /\ y.term[d] = w.term /\ y.at[d] # w.term => SameLog(y, y.at[d], w.term, w.start)
    <2>1. /\ d \in Safekeepers /\ x.term[d] \in Nat /\ y.term[d] \in Nat
          /\ x.term[d] <= y.term[d] /\ x.term[d] >= w.term
      BY <1>1, <1>2, ViewFields DEF Grown, Grows
    <2>2. ASSUME y.term[d] = w.term, y.at[d] # w.term
          PROVE  SameLog(y, y.at[d], w.term, w.start)
      <3>1. x.term[d] = w.term
        BY <1>2, <2>1, <2>2
      <3>2. y.at[d] = x.at[d]
        BY <2>1, <2>2, <3>1 DEF Grown, Grows
      <3>3. x.at[d] \in x.led
        BY <2>1 DEF Grown, AccOK
      <3> QED
        BY <1>1, <2>2, <3>1, <3>2, <3>3, SameLogStays
    <2> QED
      BY <1>2, <2>1, <2>2
  <1> QED
    BY <1>1, <1>3, <1>4, <1>5, <1>6 DEF LeaderOK

\* The WAL of a compute.
LEMMA MineStays ==
    ASSUME NEW x, NEW y, Grown(x, y), NEW p \in Computes, NEW w \in ProposerOK, MineOK(x, p, w),
           w.mine \in x.led => y.limit[w.mine] = x.limit[w.mine]
    PROVE  MineOK(y, p, w)
  <1>1. w.base \in Nat
    BY DEF ProposerOK, ProposerType
  <1>2. End(x) \in Nat /\ End(y) \in Nat /\ End(x) <= End(y)
    BY EndIs DEF Grown, Grows
  <1>3. ASSUME w.mine # 0
        PROVE  /\ w.mine \in y.led /\ y.by[w.mine] = p
               /\ w.mode = "sync" => y.limit[w.mine] = StartOf(y, w.mine)
               /\ w.mode = "compute" =>
                     /\ y.limit[w.mine] = w.end
                     /\ w.base <= StartOf(y, w.mine)
                     /\ \A l \in Nat : l >= w.base => y.log[w.mine][l] = p
    <2>1. w.mine \in x.led
      BY <1>3 DEF MineOK
    <2>2. /\ w.mine \in y.led /\ y.by[w.mine] = x.by[w.mine] /\ y.log[w.mine] = x.log[w.mine]
          /\ StartOf(y, w.mine) = StartOf(x, w.mine)
      BY <2>1, StartStays DEF Grown, Grows
    <2> QED
      BY <1>3, <2>1, <2>2 DEF MineOK
  <1>4. w.base <= End(y)
    BY <1>1, <1>2 DEF MineOK
  <1> QED
    BY <1>3, <1>4 DEF MineOK

\* What is committed stays committed.
LEMMA CommittedStays ==
    ASSUME NEW x, NEW y, Grown(x, y), NEW t \in x.led, NEW c \in Nat, Committed(x, t, c)
    PROVE  Committed(y, t, c)
  <1>1. End(x) \in Nat /\ End(y) \in Nat /\ End(x) <= End(y)
    BY EndIs DEF Grown, Grows
  <1>2. c <= End(x) /\ Accepted(x, t, c) /\ t \in y.led
    BY DEF Committed, Grown, Grows
  <1>3. Accepted(y, t, c)
    BY <1>2, AcceptedStays
  <1> QED
    BY <1>1, <1>2, <1>3 DEF Committed

\* And what is known.
LEMMA KnownStays ==
    ASSUME NEW x, NEW y, Grown(x, y), NEW u, NEW h, NEW c \in Nat, KnownIn(x, u, h, c)
    PROVE  KnownIn(y, u, h, c)
  <1>1. PICK t \in x.led : t <= u /\ Committed(x, t, c) /\ Follows(h, x.hist[t], c)
    BY DEF KnownIn
  <1>2. t \in y.led /\ y.hist[t] = x.hist[t]
    BY DEF Grown, Grows
  <1>3. Committed(y, t, c)
    BY <1>1, CommittedStays
  <1> QED
    BY <1>1, <1>2, <1>3 DEF KnownIn

\* A message of the broker.
LEMMA InfoStays ==
    ASSUME NEW x, NEW y, Grown(x, y),
           NEW i \in [lastLogTerm : Nat, commit : Nat, horizon : Nat], InfoOK(x, i)
    PROVE  InfoOK(y, i)
  <1>1. i.commit \in Nat /\ i.horizon \in Nat
    OBVIOUS
  <1>2. End(x) \in Nat /\ End(y) \in Nat /\ End(x) <= End(y)
    BY EndIs DEF Grown, Grows
  <1>3. /\ i.lastLogTerm \in x.led /\ i.commit <= End(x)
        /\ \A l \in Nat : 1 <= l /\ l < i.commit => x.chosen[l] = x.log[i.lastLogTerm][l]
        /\ Everywhere(x, i.horizon)
    BY DEF InfoOK
  <1>4. i.lastLogTerm \in y.led /\ y.log[i.lastLogTerm] = x.log[i.lastLogTerm]
    BY <1>3 DEF Grown, Grows
  <1>5. ASSUME NEW l \in Nat, 1 <= l, l < i.commit
        PROVE  y.chosen[l] = y.log[i.lastLogTerm][l]
    <2>1. l < End(x)
      BY <1>1, <1>2, <1>3, <1>5
    <2> QED
      BY <1>3, <1>4, <1>5, <2>1 DEF Grown, Grows
  <1>6. Everywhere(y, i.horizon)
    BY <1>1, <1>3, EverywhereStays
  <1>7. i.commit <= End(y)
    BY <1>1, <1>2, <1>3
  <1>8. ASSUME Traced PROVE PassedOn(y, i)
    <2>1. PICK t \in x.led :
             /\ Committed(x, t, i.commit) /\ Follows(x.hist[i.lastLogTerm], x.hist[t], i.commit)
             /\ \A s \in Safekeepers : t <= i.lastLogTerm \/ t <= x.term[s]
      BY <1>8 DEF InfoOK, PassedOn
    <2>2. /\ t \in y.led /\ y.hist[t] = x.hist[t] /\ y.hist[i.lastLogTerm] = x.hist[i.lastLogTerm]
          /\ \A s \in Safekeepers : x.term[s] <= y.term[s]
      BY <1>3 DEF Grown, Grows
    <2>3. Committed(y, t, i.commit)
      BY <1>1, <2>1, CommittedStays
    <2>4. ASSUME NEW s \in Safekeepers PROVE t <= i.lastLogTerm \/ t <= y.term[s]
      <3>1. t \in Nat /\ x.term[s] \in Nat /\ y.term[s] \in Nat
        BY ViewFields, LeaderHistory DEF Grown
      <3> QED
        BY <2>1, <2>2, <3>1
    <2> QED
      BY <2>1, <2>2, <2>3, <2>4 DEF PassedOn
  <1> QED
    BY <1>4, <1>5, <1>6, <1>7, <1>8 DEF InfoOK

\* What a safekeeper serves.
LEMMA CommitStays ==
    ASSUME NEW x, NEW y, Grown(x, y), NEW s \in Safekeepers, NEW k \in SafekeeperOK,
           CommitOK(x, s, k), y.at[s] = x.at[s]
    PROVE  CommitOK(y, s, k)
  <1>1. k.commit \in Nat /\ k.horizon \in Nat /\ k.phorizon \in Nat
    BY SafekeeperFields
  <1>2. End(x) \in Nat /\ End(y) \in Nat /\ End(x) <= End(y)
    BY EndIs DEF Grown, Grows
  <1>3. x.at[s] \in x.led
    BY DEF Grown, AccOK
  <1>4. y.log[x.at[s]] = x.log[x.at[s]]
    BY <1>3 DEF Grown, Grows
  <1>5. k.commit <= End(x) /\ \A l \in Nat : 1 <= l /\ l < k.commit => x.chosen[l] = x.log[x.at[s]][l]
    BY DEF CommitOK
  <1>6. ASSUME NEW l \in Nat, 1 <= l, l < k.commit
        PROVE  y.chosen[l] = y.log[y.at[s]][l]
    <2>1. l < End(x)
      BY <1>1, <1>2, <1>5, <1>6
    <2> QED
      BY <1>4, <1>5, <1>6, <2>1 DEF Grown, Grows
  <1>7. Everywhere(y, k.horizon) /\ Everywhere(y, k.phorizon)
    BY <1>1, EverywhereStays DEF CommitOK
  <1>8. k.commit <= End(y)
    BY <1>1, <1>2, <1>5
  <1>9. ASSUME Traced PROVE KnownIn(y, y.term[s], y.hist[y.at[s]], k.commit)
    <2>1. KnownIn(x, x.term[s], x.hist[x.at[s]], k.commit)
      BY <1>9 DEF CommitOK
    <2>2. KnownIn(y, x.term[s], y.hist[y.at[s]], k.commit)
      BY <1>1, <1>3, <2>1, KnownStays DEF Grown, Grows
    <2>3. x.term[s] \in Nat /\ y.term[s] \in Nat /\ x.term[s] <= y.term[s] /\ y \in View
      BY ViewFields DEF Grown, Grows
    <2>4. PICK t \in y.led : /\ t <= x.term[s] /\ Committed(y, t, k.commit)
                             /\ Follows(y.hist[y.at[s]], y.hist[t], k.commit)
      BY <2>2 DEF KnownIn
    <2>5. t \in Nat
      BY <2>3, ViewFields
    <2> QED
      BY <2>3, <2>4, <2>5 DEF KnownIn
  <1> QED
    BY <1>6, <1>7, <1>8, <1>9 DEF CommitOK

\* A safekeeper that has not moved.
LEMMA SkStays ==
    ASSUME NEW x, NEW y, Grown(x, y), NEW s \in Safekeepers, NEW k \in SafekeeperOK,
           SkOK(x, s, k), y.at[s] = x.at[s], y.term[s] = x.term[s],
           \A t \in x.led : y.acc[s][t] = x.acc[s][t]
    PROVE  SkOK(y, s, k)
  <1>1. k.term \in Nat /\ k.term + 1 \in Nat /\ WriteLsn(k) \in Nat
    BY SafekeeperFields
  <1>2. x.at[s] \in x.led
    BY DEF Grown, AccOK
  <1>3. /\ y.hist[x.at[s]] = x.hist[x.at[s]] /\ y.log[x.at[s]] = x.log[x.at[s]]
        /\ x.limit[x.at[s]] <= y.limit[x.at[s]] /\ y.acc[s][x.at[s]] = x.acc[s][x.at[s]]
    BY <1>2 DEF Grown, Grows
  <1>4. x.limit[x.at[s]] \in Nat /\ y.limit[x.at[s]] \in Nat
    BY <1>2, ViewFields, ZenonT(40) DEF Grown
  <1>5. KeepsAccepted(y, s, k.history, k.flush, k.term + 1)
    BY <1>1, KeptStays DEF SkOK
  <1>6. CommitOK(y, s, k)
    BY CommitStays DEF SkOK
  <1>7. WalOK(x, s, k)
    BY DEF SkOK
  <1>8. WriteLsn(k) <= y.limit[y.at[s]]
    BY <1>1, <1>3, <1>4, <1>7 DEF WalOK
  <1>9. WalOK(y, s, k)
    BY <1>3, <1>7, <1>8 DEF WalOK
  <1> QED
    BY <1>5, <1>6, <1>9 DEF SkOK
\* The basebackup of a compute.
LEMMA BaseStays ==
    ASSUME NEW x, NEW y, Grown(x, y), NEW w \in ProposerOK, NEW cs, NEW ds, BaseOK(x, w, cs),
           \A s \in Safekeepers : ds[s].state # "offline" => cs[s].state # "offline"
    PROVE  BaseOK(y, w, ds)
  <1>1. CASE w.mode = "compute" /\ w.mine = 0
    <2>1. PICK t \in x.led, Q \in SUBSET Safekeepers :
              /\ IsQuorum(Q) /\ \A s \in Q : x.acc[s][t] >= Floor(x, t, w.base)
              /\ w.state = "collecting" =>
                    \A s \in Q : cs[s].state # "offline" => t <= w.term
              /\ w.state # "collecting" => t < w.term
      BY <1>1 DEF BaseOK
    <2>2. t \in y.led /\ Floor(y, t, w.base) = Floor(x, t, w.base)
      BY StartStays DEF Grown, Grows
    <2>3. w.base \in Nat /\ x \in View /\ y \in View /\ Tree(x) /\ t \in Nat
      BY LeaderHistory DEF ProposerOK, ProposerType, Grown
    <2>4. Floor(x, t, w.base) \in Nat
      BY <2>3, FloorIs
    <2>5. \A s \in Q : y.acc[s][t] >= Floor(y, t, w.base)
      <3> SUFFICES ASSUME NEW s \in Q PROVE y.acc[s][t] >= Floor(y, t, w.base)
        OBVIOUS
      <3>1. x.acc[s][t] \in Nat /\ y.acc[s][t] \in Nat
        BY <2>3, ViewFields
      <3>2. x.acc[s][t] <= y.acc[s][t]
        BY DEF Grown, Grows
      <3>3. x.acc[s][t] >= Floor(x, t, w.base)
        BY <2>1
      <3> QED
        BY <2>2, <2>4, <3>1, <3>2, <3>3
    <2>6. w.state = "collecting" => \A s \in Q : ds[s].state # "offline" => t <= w.term
      BY <2>1
    <2> QED
      BY <1>1, <2>1, <2>2, <2>5, <2>6 DEF BaseOK
  <1>2. CASE ~(w.mode = "compute" /\ w.mine = 0)
    BY <1>2 DEF BaseOK
  <1> QED
    BY <1>1, <1>2

\* Postgres starts on committed WAL, or a walproposer process starts again.
LEMMA BaseFresh ==
    ASSUME NEW x, Core(x), NEW v, v.mode = "compute", v.state = "collecting",
           v.base \in Nat, v.base <= End(x), NEW cs,
           \A s \in Safekeepers : cs[s].state = "offline"
    PROVE  BaseOK(x, v, cs)
  <1>1. x \in View /\ Tree(x) /\ ChosenOK(x)
    BY DEF Core
  <1>2. End(x) \in Nat
    BY <1>1, EndIs
  <1>3. PICK t \in x.led : Accepted(x, t, End(x))
    BY <1>1 DEF ChosenOK, Committed
  <1>4. Accepted(x, t, v.base)
    BY <1>1, <1>2, <1>3, AcceptedLess
  <1>5. PICK Q \in SUBSET Safekeepers :
          IsQuorum(Q) /\ \A s \in Q : x.acc[s][t] >= Floor(x, t, v.base)
    BY <1>4 DEF Accepted
  <1> QED
    BY <1>5 DEF BaseOK

-----------------------------------------------------------------------------
(***************************************************************************)
(* The steps of a safekeeper in the view: it moves to the record k, whose  *)
(* history is the one of leader a.                                         *)
(***************************************************************************)
Moved(x, s, k, a) ==
    [x EXCEPT !.term = [x.term EXCEPT ![s] = k.term],
              !.at   = [x.at EXCEPT ![s] = a],
              !.acc  = [x.acc EXCEPT ![s] =
                           [t \in Nat |-> IF t = k.term /\ t = a
                                          THEN Larger(x.acc[s][t], k.flush)
                                          ELSE x.acc[s][t]]]]

MayMove(x, s, k, a) ==
    /\ a \in x.led /\ k.history = x.hist[a] /\ a <= k.term
    /\ x.term[s] <= k.term
    /\ k.term = x.term[s] => a \in {x.at[s], k.term}
    /\ WriteLsn(k) <= x.limit[a]
    /\ \A l \in 1..Len(k.wal) : k.wal[l] = x.log[a][l]
    /\ KeepsAccepted(x, s, k.history, k.flush, k.term + 1)
    /\ 1 <= k.pcommit /\ k.pcommit <= k.commit /\ k.commit <= k.flush /\ k.commit <= End(x)
    /\ \A l \in Nat : 1 <= l /\ l < k.commit => x.chosen[l] = x.log[a][l]
    /\ k.horizon >= 1 /\ k.phorizon >= 1
    /\ Everywhere(x, k.horizon) /\ Everywhere(x, k.phorizon)
    /\ Traced => KnownIn(x, k.term, k.history, k.commit)

\* The view after the move.
LEMMA MovedFields ==
    ASSUME NEW x \in View, NEW s \in Safekeepers, NEW k \in SafekeeperOK, NEW a \in Nat,
           NEW y, y = Moved(x, s, k, a)
    PROVE  /\ y \in View /\ y.led = x.led /\ y.hist = x.hist /\ y.log = x.log
           /\ y.by = x.by /\ y.limit = x.limit /\ y.chosen = x.chosen
           /\ y.term[s] = k.term /\ y.at[s] = a
           /\ \A t \in Nat : y.acc[s][t] = IF t = k.term /\ t = a
                                           THEN Larger(x.acc[s][t], k.flush) ELSE x.acc[s][t]
           /\ \A z \in Safekeepers \ {s} :
                 y.term[z] = x.term[z] /\ y.at[z] = x.at[z] /\ y.acc[z] = x.acc[z]
  <1>1. k.term \in Nat /\ k.flush \in Nat
    BY SafekeeperFields
  <1>2. /\ x.acc \in [Safekeepers -> [Nat -> Nat]] /\ x.term \in [Safekeepers -> Nat]
        /\ x.at \in [Safekeepers -> Nat]
    BY Zenon DEF View
  <1> DEFINE f == [t \in Nat |-> IF t = k.term /\ t = a
                                 THEN Larger(x.acc[s][t], k.flush) ELSE x.acc[s][t]]
  <1>3. f \in [Nat -> Nat]
    BY <1>1, <1>2 DEF Larger
  <1>4. \A t \in Nat : f[t] = IF t = k.term /\ t = a
                              THEN Larger(x.acc[s][t], k.flush) ELSE x.acc[s][t]
    OBVIOUS
  <1>5. /\ y.led = x.led /\ y.hist = x.hist /\ y.log = x.log
        /\ y.by = x.by /\ y.limit = x.limit /\ y.chosen = x.chosen
        /\ y.term = [x.term EXCEPT ![s] = k.term] /\ y.at = [x.at EXCEPT ![s] = a]
        /\ y.acc = [x.acc EXCEPT ![s] = f]
    BY DEF Moved, View
  <1> HIDE DEF f
  <1>6. /\ y.term \in [Safekeepers -> Nat] /\ y.at \in [Safekeepers -> Nat]
        /\ y.acc \in [Safekeepers -> [Nat -> Nat]]
    BY <1>1, <1>2, <1>3, <1>5
  <1>7. y = [led |-> y.led, hist |-> y.hist, log |-> y.log, by |-> y.by, limit |-> y.limit,
             acc |-> y.acc, term |-> y.term, at |-> y.at, chosen |-> y.chosen]
    BY Zenon DEF Moved, View
  <1>8. y \in View
    BY <1>5, <1>6, <1>7, Zenon DEF View
  <1> QED
    BY <1>2, <1>4, <1>5, <1>8

\* A view has grown to itself.
LEMMA GrownItself ==
    ASSUME NEW x, Core(x)
    PROVE  Grown(x, x)
  <1>1. x \in View /\ Tree(x) /\ AccOK(x)
    BY DEF Core
  <1>2. End(x) \in Nat
    BY <1>1, EndIs
  <1>3. \A s \in Safekeepers : x.term[s] \in Nat /\ \A t \in Nat : x.acc[s][t] \in Nat
    BY <1>1, ViewFields
  <1>4. x.led \subseteq Nat /\ x.limit \in [Nat -> Nat]
    BY <1>1, ViewFields
  <1> QED
    BY <1>1, <1>2, <1>3, <1>4 DEF Grown, Grows

\* A view that grows without a new leader or new WAL keeps its core.
LEMMA CoreStays ==
    ASSUME NEW x, NEW y, Core(x), Grown(x, y), AccOK(y), y.led = x.led, y.chosen = x.chosen
    PROVE  Core(y)
  <1>1. x \in View /\ y \in View /\ Tree(x) /\ LeadersCover(x) /\ ChosenOK(x)
    BY DEF Core, Grown
  <1>2. Tree(y)
    BY <1>1, HistoryStays DEF Tree
  <1>3. LeadersCover(y)
    BY CoverStays, <1>1 DEF LeadersCover
  <1>4. ChosenOK(y)
    <2>1. End(y) = End(x) /\ End(x) \in Nat
      BY <1>1, EndIs DEF End
    <2>2. PICK t \in x.led : /\ Committed(x, t, End(x))
                             /\ \A l \in 1..Len(x.chosen) : x.chosen[l] = x.log[t][l]
      BY <1>1 DEF ChosenOK
    <2>3. Committed(y, t, End(y)) /\ y.log[t] = x.log[t]
      BY <2>1, <2>2, AcceptedStays DEF Grown, Grows
    <2> QED
      BY <2>2, <2>3 DEF ChosenOK
  <1> QED
    BY <1>1, <1>2, <1>3, <1>4 DEF Core

\* A move is a growth.
LEMMA MovedGrows ==
    ASSUME NEW x, Core(x), NEW s \in Safekeepers, NEW k \in SafekeeperOK, NEW a,
           MayMove(x, s, k, a), NEW y, y = Moved(x, s, k, a)
    PROVE  Grown(x, y) /\ Core(y)
  <1>1. x \in View /\ Tree(x) /\ AccOK(x) /\ a \in x.led /\ a \in Nat
    BY Zenon DEF Core, View, MayMove
  <1>2. /\ y \in View /\ y.led = x.led /\ y.hist = x.hist /\ y.log = x.log
        /\ y.by = x.by /\ y.limit = x.limit /\ y.chosen = x.chosen
        /\ y.term[s] = k.term /\ y.at[s] = a
        /\ \A t \in Nat : y.acc[s][t] = IF t = k.term /\ t = a
                                        THEN Larger(x.acc[s][t], k.flush) ELSE x.acc[s][t]
        /\ \A z \in Safekeepers \ {s} :
              y.term[z] = x.term[z] /\ y.at[z] = x.at[z] /\ y.acc[z] = x.acc[z]
    BY <1>1, MovedFields
  <1>3. k.term \in Nat /\ k.flush \in Nat /\ k.flush <= WriteLsn(k) /\ WriteLsn(k) \in Nat
    BY SafekeeperFields
  <1>4. /\ x.led \subseteq Nat /\ x.limit \in [Nat -> Nat]
        /\ \A z \in Safekeepers : x.term[z] \in Nat /\ \A t \in Nat : x.acc[z][t] \in Nat
    BY <1>1, ViewFields, Zenon
  <1>5. /\ x.term[s] <= k.term
        /\ k.term = x.term[s] => a \in {x.at[s], k.term}
        /\ a <= k.term /\ WriteLsn(k) <= x.limit[a]
    BY DEF MayMove
  <1>6. Grows(x, y)
    <2>1. End(x) = End(y) /\ End(x) \in Nat
      BY <1>1, <1>2, EndIs DEF End
    <2>2. ASSUME NEW z \in Safekeepers
          PROVE  /\ x.term[z] <= y.term[z]
                 /\ y.term[z] = x.term[z] => y.at[z] = x.at[z] \/ y.at[z] = y.term[z]
                 /\ \A t \in x.led : /\ x.acc[z][t] <= y.acc[z][t]
                                     /\ x.term[z] > t => y.acc[z][t] = x.acc[z][t]
                 /\ \A t \in y.led \ x.led : y.acc[z][t] = 0
      <3>1. CASE z # s
        BY <3>1, <1>2, <1>4
      <3>2. CASE z = s
        BY <3>2, <1>2, <1>3, <1>4, <1>5 DEF Larger
      <3> QED
        BY <3>1, <3>2
    <2>3. \A t \in x.led : x.limit[t] <= y.limit[t]
      BY <1>2, <1>4
    <2> QED
      BY <1>2, <2>1, <2>2, <2>3 DEF Grows
  <1>7. Grown(x, y)
    BY <1>1, <1>2, <1>6 DEF Grown
  <1>8. AccOK(y)
    <2>1. ASSUME NEW z \in Safekeepers
          PROVE  /\ y.at[z] \in y.led /\ y.at[z] <= y.term[z]
                 /\ \A t \in Nat : t > y.term[z] \/ t \notin y.led => y.acc[z][t] = 0
                 /\ \A t \in y.led : y.acc[z][t] <= y.limit[t]
      <3>0. /\ x.at[z] \in x.led /\ x.at[z] <= x.term[z]
            /\ \A t \in Nat : t > x.term[z] \/ t \notin x.led => x.acc[z][t] = 0
            /\ \A t \in x.led : x.acc[z][t] <= x.limit[t]
        BY <1>1 DEF AccOK
      <3>1. CASE z # s
        BY <3>0, <3>1, <1>2
      <3>2. CASE z = s
        BY <3>0, <3>2, <1>1, <1>2, <1>3, <1>4, <1>5, SMTT(30) DEF Larger
      <3> QED
        BY <3>1, <3>2
    <2> QED
      BY <2>1 DEF AccOK
  <1> QED
    BY <1>2, <1>7, <1>8, CoreStays
\* The safekeeper that has moved fits the view after it.
LEMMA MovedSafekeeper ==
    ASSUME NEW x, Core(x), NEW s \in Safekeepers, NEW k \in SafekeeperOK, NEW a,
           MayMove(x, s, k, a), NEW y, y = Moved(x, s, k, a)
    PROVE  SkOK(y, s, k)
  <1>1. Grown(x, y) /\ Core(y) /\ x \in View /\ Tree(x) /\ a \in x.led /\ a \in Nat
    BY MovedGrows, Zenon DEF Core, View, MayMove
  <1>2. /\ y \in View /\ y.led = x.led /\ y.hist = x.hist /\ y.log = x.log
        /\ y.limit = x.limit /\ y.chosen = x.chosen
        /\ y.term[s] = k.term /\ y.at[s] = a
        /\ \A t \in Nat : y.acc[s][t] = IF t = k.term /\ t = a
                                        THEN Larger(x.acc[s][t], k.flush) ELSE x.acc[s][t]
    BY <1>1, MovedFields
  <1>3. /\ k.term \in Nat /\ k.flush \in Nat /\ k.horizon \in Nat /\ k.phorizon \in Nat
        /\ \A t \in Nat : x.acc[s][t] \in Nat
    BY <1>1, SafekeeperFields, ViewFields
  <1>4. WalOK(y, s, k)
    BY <1>1, <1>2, <1>3 DEF WalOK, MayMove, Larger
  <1>5. KeepsAccepted(y, s, k.history, k.flush, k.term + 1)
    <2> SUFFICES ASSUME NEW t \in x.led, NEW c \in Nat, t < k.term + 1, 1 <= c, c <= y.acc[s][t]
                 PROVE  (c <= k.flush /\ Follows(k.history, x.hist[t], c)) \/ Excluded(y, t, c)
      BY <1>2 DEF KeepsAccepted
    <2>1. t \in Nat /\ x.hist[t] \in History
      BY <1>1, LeaderHistory
    <2>2. CASE c <= x.acc[s][t]
      <3>1. (c <= k.flush /\ Follows(k.history, x.hist[t], c)) \/ Excluded(x, t, c)
        BY <2>2 DEF MayMove, KeepsAccepted
      <3> QED
        BY <1>1, <3>1, ExcludedStays
    <2>3. CASE ~(c <= x.acc[s][t])
      <3>1. t = k.term /\ t = a /\ c <= k.flush
        BY <1>2, <1>3, <2>1, <2>3 DEF Larger
      <3>2. Follows(k.history, x.hist[t], c)
        BY <2>1, <3>1, FollowsItself DEF MayMove
      <3> QED
        BY <3>1, <3>2
    <2> QED
      BY <2>2, <2>3
  <1>6. CommitOK(y, s, k)
    <2>1. End(y) = End(x)
      BY <1>2 DEF End
    <2>2. Everywhere(y, k.horizon) /\ Everywhere(y, k.phorizon)
      BY <1>1, <1>3, EverywhereStays DEF MayMove
    <2>3. ASSUME Traced PROVE KnownIn(y, y.term[s], y.hist[y.at[s]], k.commit)
      <3>1. KnownIn(x, k.term, x.hist[a], k.commit) /\ k.commit \in Nat
        BY <2>3, SafekeeperFields DEF MayMove
      <3> QED
        BY <1>1, <1>2, <3>1, KnownStays
    <2> QED
      BY <1>2, <2>1, <2>2, <2>3 DEF CommitOK, MayMove
  <1> QED
    BY <1>4, <1>5, <1>6 DEF SkOK

\* An elected walproposer is the leader of its term.
LEMMA ElectedIsLeader ==
    ASSUME NEW x, NEW p, NEW w, MineOK(x, p, w), LeaderOK(x, p, w), w.state = "elected"
    PROVE  /\ w.term \in x.led /\ w.term \in Nat /\ w.term >= 1 /\ w.mine = w.term
           /\ x.by[w.term] = p /\ w.mode \notin {"off", "dead"}
    BY BoundsAssumption DEF MineOK, LeaderOK

\* Whose records a log ends with stays, while nothing is written to it.
LEMMA OwnerStays ==
    ASSUME NEW x, NEW y, Grown(x, y), NEW t \in x.led, y.limit[t] = x.limit[t],
           NEW w, NEW v, \A q \in Computes : w[q].base # 0 => v[q].base = w[q].base,
           OwnerOK(x, w, t)
    PROVE  OwnerOK(y, v, t)
    BY DEF OwnerOK, Grown, Grows

(***************************************************************************)
(* The frame of a step of one safekeeper, with the connections it changes. *)
(***************************************************************************)
LinksFit(y) ==
    \A p \in Computes, z \in Safekeepers :
        /\ conn'[p][z] = conn[p][z] \/ LinkOK(y, z, wp[p], conn'[p][z])
        /\ conn'[p][z].ackFlush = conn[p][z].ackFlush
        /\ conn'[p][z].state # "offline" => conn[p][z].state # "offline"
        /\ old'[p][z] = old[p][z] \/ QueueOK(y, z, old'[p][z].req)

\* A step of one safekeeper keeps the invariant.
LEMMA MoveFits ==
    ASSUME TypeInv, TypeInv', NEW x, Fits(x), NEW s \in Safekeepers, NEW k \in SafekeeperOK, NEW a,
           MayMove(x, s, k, a), NEW y, y = Moved(x, s, k, a),
           sk' = [sk EXCEPT ![s] = k], UNCHANGED <<wp, info, wins, chosen>>,
           LinksFit(y)
    PROVE  Fitting'
  <1>1. Core(x) /\ Grown(x, y) /\ Core(y) /\ SkOK(y, s, k) /\ x \in View
    BY MovedGrows, MovedSafekeeper DEF Fits, Core
  <1>2. /\ a \in Nat /\ y.led = x.led /\ y.limit = x.limit /\ y.chosen = x.chosen
        /\ \A z \in Safekeepers \ {s} :
              y.term[z] = x.term[z] /\ y.at[z] = x.at[z] /\ y.acc[z] = x.acc[z]
    <2>1. a \in Nat
      BY <1>1 DEF View, MayMove
    <2> QED
      BY <1>1, <2>1, MovedFields
  <1>3. sk \in [Safekeepers -> SafekeeperOK] /\ wp \in [Computes -> ProposerOK]
        /\ conn \in [Computes -> [Safekeepers -> ConnOK]]
        /\ old \in [Computes -> [Safekeepers -> OldType]]
        /\ info \in [lastLogTerm : Nat, commit : Nat, horizon : Nat]
    BY DEF TypeInv
  <1>4. ASSUME NEW z \in Safekeepers PROVE SkOK(y, z, sk'[z])
    <2>1. CASE z = s
      BY <1>1, <1>3, <2>1
    <2>2. CASE z # s
      <3>1. sk'[z] = sk[z] /\ sk[z] \in SafekeeperOK /\ SkOK(x, z, sk[z])
        BY <1>3, <2>2 DEF Fits
      <3> QED
        BY <1>1, <1>2, <2>2, <3>1, SkStays
    <2> QED
      BY <2>1, <2>2
  <1>5. ASSUME NEW p \in Computes
        PROVE  /\ wp[p] \in ProposerOK /\ MineOK(x, p, wp[p]) /\ LeaderOK(x, p, wp[p])
               /\ wp[p].state = "elected" => wp[p].term \in x.led
    BY <1>3, ElectedIsLeader DEF Fits
  <1>6. ASSUME NEW p \in Computes
        PROVE  MineOK(y, p, wp[p]) /\ LeaderOK(y, p, wp[p])
    BY <1>1, <1>2, <1>5, MineStays, LeaderStays
  <1>7. ASSUME NEW p \in Computes
        PROVE  CountedOK(wp[p], conn'[p]) /\ BaseOK(y, wp[p], conn'[p])
    <2>1. CountedOK(wp[p], conn[p]) /\ BaseOK(x, wp[p], conn[p])
      BY DEF Fits
    <2>2. [z \in Safekeepers |-> conn'[p][z].ackFlush] = [z \in Safekeepers |-> conn[p][z].ackFlush]
      BY DEF LinksFit
    <2>3. CountedOK(wp[p], conn'[p])
      BY <2>1, <2>2 DEF CountedOK
    <2>4. \A z \in Safekeepers : conn'[p][z].state # "offline" => conn[p][z].state # "offline"
      BY DEF LinksFit
    <2>5. BaseOK(y, wp[p], conn'[p])
      BY <1>1, <1>5, <2>1, <2>4, BaseStays, Zenon
    <2> QED
      BY <2>3, <2>5
  <1>8. ASSUME NEW p \in Computes, NEW z \in Safekeepers
        PROVE  LinkOK(y, z, wp[p], conn'[p][z]) /\ QueueOK(y, z, old'[p][z].req)
    <2>1. LinkOK(x, z, wp[p], conn[p][z]) /\ QueueOK(x, z, old[p][z].req)
      BY DEF Fits
    <2>2. conn[p][z] \in ConnOK /\ old[p][z].req \in Seq(RequestType)
      BY <1>3 DEF OldType
    <2>3. LinkOK(y, z, wp[p], conn[p][z])
      BY <1>1, <1>5, <2>1, <2>2, LinkStays
    <2>4. QueueOK(y, z, old[p][z].req)
      BY <1>1, <2>1, <2>2, QueueStays
    <2> QED
      BY <2>3, <2>4 DEF LinksFit
  <1>9. InfoOK(y, info)
    BY <1>1, <1>3, InfoStays DEF Fits
  <1>10. \A t \in y.led : OwnerOK(y, wp, t)
    BY <1>1, <1>2, OwnerStays DEF Fits
  <1>11. WinsOK(y, wins)
    BY <1>2 DEF Fits, WinsOK
  <1>12. Core(y) /\ y.chosen = chosen'
    BY <1>1, <1>2 DEF Fits
  <1> QED
    BY <1>4, <1>6, <1>7, <1>8, <1>9, <1>10, <1>11, <1>12 DEF Fits, Fitting

(***************************************************************************)
(* The frame of a step of one compute, in which no safekeeper moves: what  *)
(* is new in the view y is what p has done.                                *)
(***************************************************************************)
SameSafekeepers(x, y) ==
    /\ \A s \in Safekeepers : y.term[s] = x.term[s] /\ y.at[s] = x.at[s]
    /\ \A s \in Safekeepers, t \in x.led : y.acc[s][t] = x.acc[s][t]

\* A step of one compute keeps the invariant.
LEMMA ComputeFits ==
    ASSUME TypeInv, TypeInv', NEW x, Fits(x), NEW y, Grown(x, y), Core(y), SameSafekeepers(x, y),
           y.chosen = chosen', UNCHANGED <<sk, info>>,
           NEW p \in Computes,
           \A q \in Computes \ {p} : /\ wp'[q] = wp[q] /\ conn'[q] = conn[q]
                                     /\ wp[q].mine \in x.led =>
                                           y.limit[wp[q].mine] = x.limit[wp[q].mine],
           MineOK(y, p, wp'[p]), LeaderOK(y, p, wp'[p]), CountedOK(wp'[p], conn'[p]),
           BaseOK(y, wp'[p], conn'[p]),
           \A s \in Safekeepers : LinkOK(y, s, wp'[p], conn'[p][s]),
           \A q \in Computes, s \in Safekeepers :
              old'[q][s] = old[q][s] \/ QueueOK(y, s, old'[q][s].req),
           wp[p].base # 0 => wp'[p].base = wp[p].base,
           \A t \in y.led : \/ t \in x.led /\ y.limit[t] = x.limit[t]
                            \/ OwnerOK(y, wp', t),
           WinsOK(y, wins')
    PROVE  Fitting'
  <1>3. sk \in [Safekeepers -> SafekeeperOK] /\ wp \in [Computes -> ProposerOK]
        /\ conn \in [Computes -> [Safekeepers -> ConnOK]]
        /\ old \in [Computes -> [Safekeepers -> OldType]]
        /\ info \in [lastLogTerm : Nat, commit : Nat, horizon : Nat]
    BY DEF TypeInv
  <1>4. ASSUME NEW s \in Safekeepers PROVE SkOK(y, s, sk'[s])
    <2>1. SkOK(x, s, sk[s]) /\ sk'[s] = sk[s] /\ sk[s] \in SafekeeperOK
      BY <1>3 DEF Fits
    <2> QED
      BY <2>1, SkStays DEF SameSafekeepers
  <1>5. ASSUME NEW q \in Computes, q # p
        PROVE  /\ MineOK(y, q, wp'[q]) /\ LeaderOK(y, q, wp'[q])
               /\ CountedOK(wp'[q], conn'[q]) /\ BaseOK(y, wp'[q], conn'[q])
               /\ \A s \in Safekeepers : LinkOK(y, s, wp'[q], conn'[q][s])
    <2>1. /\ wp[q] \in ProposerOK /\ MineOK(x, q, wp[q]) /\ LeaderOK(x, q, wp[q])
          /\ wp[q].state = "elected" => wp[q].term \in x.led
      BY <1>3, ElectedIsLeader DEF Fits
    <2>2. wp'[q] = wp[q] /\ conn'[q] = conn[q]
      BY <1>5
    <2>3. MineOK(y, q, wp[q]) /\ LeaderOK(y, q, wp[q])
      BY <1>5, <2>1, MineStays, LeaderStays
    <2>4. CountedOK(wp[q], conn[q]) /\ BaseOK(y, wp[q], conn[q])
      <3>1. CountedOK(wp[q], conn[q]) /\ BaseOK(x, wp[q], conn[q])
        BY DEF Fits
      <3> QED
        BY <2>1, <3>1, BaseStays, Zenon
    <2>5. ASSUME NEW s \in Safekeepers PROVE LinkOK(y, s, wp[q], conn[q][s])
      <3>1. LinkOK(x, s, wp[q], conn[q][s]) /\ conn[q][s] \in ConnOK
        BY <1>3 DEF Fits
      <3> QED
        BY <2>1, <3>1, LinkStays
    <2> QED
      BY <2>2, <2>3, <2>4, <2>5
  <1>6. ASSUME NEW q \in Computes, NEW s \in Safekeepers
        PROVE  QueueOK(y, s, old'[q][s].req)
    <2>1. QueueOK(x, s, old[q][s].req) /\ old[q][s].req \in Seq(RequestType)
      BY <1>3 DEF Fits, OldType
    <2>2. QueueOK(y, s, old[q][s].req)
      BY <2>1, QueueStays
    <2> QED
      BY <2>2
  <1>7. InfoOK(y, info)
    BY <1>3, InfoStays DEF Fits
  <1>8. ASSUME NEW t \in y.led PROVE OwnerOK(y, wp', t)
    <2>1. ASSUME t \in x.led, y.limit[t] = x.limit[t] PROVE OwnerOK(y, wp', t)
      <3>1. OwnerOK(x, wp, t)
        BY <2>1 DEF Fits
      <3>2. \A q \in Computes : wp[q].base # 0 => wp'[q].base = wp[q].base
        OBVIOUS
      <3> QED
        BY <2>1, <3>1, <3>2, OwnerStays
    <2> QED
      BY <2>1
  <1>9. Fits(y)'
    BY <1>4, <1>5, <1>6, <1>7, <1>8 DEF Fits
  <1> QED
    BY <1>9 DEF Fitting

\* Nothing moves in a view that stays as it is.
LEMMA SameSafekeepersItself ==
    ASSUME NEW x PROVE SameSafekeepers(x, x)
    BY DEF SameSafekeepers

-----------------------------------------------------------------------------
(***************************************************************************)
(* Connections.                                                            *)
(***************************************************************************)
\* A request is taken from a queue.
LEMMA QueueTail ==
    ASSUME NEW y, NEW s \in Safekeepers, NEW q \in Seq(RequestType), q # <<>>, QueueOK(y, s, q),
           Head(q).type = "elected" => Streamed(y, s, Head(q).term)
    PROVE  /\ QueueOK(y, s, Tail(q))
           /\ \A t : Announced(q, Len(q), t) =>
                        Announced(Tail(q), Len(Tail(q)), t) \/ Streamed(y, s, t)
  <1>1. /\ Len(q) \in Nat /\ Len(q) >= 1 /\ Tail(q) \in Seq(RequestType)
        /\ Len(Tail(q)) = Len(q) - 1 /\ \A i \in 1..Len(Tail(q)) : Tail(q)[i] = q[i + 1]
        /\ Head(q) = q[1]
    BY EmptySeq, HeadTailProperties, LenProperties
  <1>2. ASSUME NEW n \in 0..Len(Tail(q)), NEW t, Announced(q, n + 1, t)
        PROVE  Announced(Tail(q), n, t) \/ Streamed(y, s, t)
    <2>1. PICK j \in 1..(n + 1) : q[j].type = "elected" /\ q[j].term = t
      BY <1>2 DEF Announced
    <2>2. CASE j = 1
      BY <1>1, <2>1, <2>2
    <2>3. CASE j # 1
      <3>1. j - 1 \in 1..n /\ j - 1 \in 1..Len(Tail(q)) /\ (j - 1) + 1 = j
        BY <1>1, <2>3
      <3>2. Tail(q)[j - 1] = q[j]
        BY <1>1, <3>1
      <3> QED
        BY <2>1, <3>1, <3>2 DEF Announced
    <2> QED
      BY <2>2, <2>3
  <1>3. ASSUME NEW i \in 1..Len(Tail(q))
        PROVE  /\ ReqOK(y, Tail(q)[i])
               /\ Tail(q)[i].type = "append" =>
                     Announced(Tail(q), i - 1, Tail(q)[i].term) \/ Streamed(y, s, Tail(q)[i].term)
    <2>1. i + 1 \in 1..Len(q) /\ (i + 1) - 1 = (i - 1) + 1 /\ i - 1 \in 0..Len(Tail(q))
      BY <1>1
    <2>2. /\ ReqOK(y, q[i + 1])
          /\ q[i + 1].type = "append" => Announced(q, (i + 1) - 1, q[i + 1].term) \/ Streamed(y, s, q[i + 1].term)
      BY <2>1 DEF QueueOK
    <2>3. q[i + 1] = Tail(q)[i]
      BY <1>1
    <2> QED
      BY <1>2, <2>1, <2>2, <2>3, Zenon
  <1>4. ASSUME NEW t, Announced(q, Len(q), t)
        PROVE  Announced(Tail(q), Len(Tail(q)), t) \/ Streamed(y, s, t)
    <2>1. Len(q) = Len(Tail(q)) + 1 /\ Len(Tail(q)) \in 0..Len(Tail(q))
      BY <1>1
    <2> QED
      BY <1>2, <1>4, <2>1
  <1> QED
    BY <1>3, <1>4, Zenon DEF QueueOK

\* The safekeeper has handled a request of a connection.
LEMMA DoneLink ==
    ASSUME NEW y, NEW s \in Safekeepers, NEW w, NEW c \in ConnOK, NEW d \in ConnOK, LinkOK(y, s, w, c),
           c.req # <<>>, Head(c.req).type = "elected" => Streamed(y, s, Head(c.req).term),
           d.req = Tail(c.req), NEW reply \in Seq(ReplyType), d.rep = c.rep \o reply,
           \A i \in 1..Len(reply) : RepOK(y, s, w, reply[i]),
           d.dirty => c.dirty \/ (w.state = "elected" /\ Streamed(y, s, w.term)),
           d.state = c.state, d.ackFlush = c.ackFlush
    PROVE  LinkOK(y, s, w, d)
  <1>1. c.req \in Seq(RequestType) /\ c.rep \in Seq(ReplyType)
    BY DEF ConnOK, ConnType
  <1>2. QueueOK(y, s, d.req)
    BY <1>1, QueueTail, Zenon DEF LinkOK
  <1>3. d.state = "active" =>
          w.state = "elected" /\ (Announced(d.req, Len(d.req), w.term) \/ Streamed(y, s, w.term))
    BY <1>1, QueueTail, Zenon DEF LinkOK
  <1>4. ASSUME NEW i \in 1..Len(d.req), d.req[i].type # "vote"
        PROVE  w.state = "elected" /\ d.req[i].term = w.term
    <2>1. /\ Len(c.req) \in Nat /\ Len(c.req) >= 1
          /\ Len(d.req) = Len(c.req) - 1 /\ d.req[i] = c.req[i + 1]
      BY <1>1, EmptySeq, HeadTailProperties, LenProperties
    <2>2. i + 1 \in 1..Len(c.req)
      BY <2>1
    <2> QED
      BY <1>4, <2>1, <2>2 DEF LinkOK
  <1>5. ASSUME NEW i \in 1..Len(d.rep)
        PROVE  RepOK(y, s, w, d.rep[i])
    <2>1. /\ Len(c.rep) \in Nat /\ Len(reply) \in Nat /\ Len(d.rep) = Len(c.rep) + Len(reply)
          /\ d.rep[i] = IF i <= Len(c.rep) THEN c.rep[i] ELSE reply[i - Len(c.rep)]
      BY <1>1, ConcatProperties, LenProperties
    <2>2. CASE i <= Len(c.rep)
      <3>1. i \in 1..Len(c.rep)
        BY <2>1, <2>2
      <3> QED
        BY <2>1, <2>2, <3>1 DEF LinkOK
    <2>3. CASE ~(i <= Len(c.rep))
      <3>1. i - Len(c.rep) \in 1..Len(reply)
        BY <2>1, <2>3
      <3> QED
        BY <2>1, <2>3, <3>1, Zenon
    <2> QED
      BY <2>2, <2>3
  <1> QED
    BY <1>2, <1>3, <1>4, <1>5 DEF LinkOK

\* A closed connection.
LEMMA EmptyLink ==
    ASSUME NEW y, NEW s \in Safekeepers, NEW w, NEW d, d.req = <<>>, d.rep = <<>>, d.state = "offline",
           d.dirty = FALSE,
           \/ d.ackFlush = 0
           \/ \E c : LinkOK(y, s, w, c) /\ d.ackFlush = c.ackFlush
    PROVE  LinkOK(y, s, w, d)
  <1>1. Len(d.req) = 0 /\ Len(d.rep) = 0
    OBVIOUS
  <1>2. 1..Len(d.req) = {} /\ 1..Len(d.rep) = {}
    BY <1>1
  <1> QED
    BY <1>2 DEF LinkOK, QueueOK

\* The fields of closed connections.
LEMMA ClosedFields ==
    ASSUME NEW c
    PROVE  /\ NewConn.req = <<>> /\ NewConn.rep = <<>> /\ NewConn.state = "offline"
           /\ NewConn.dirty = FALSE /\ NewConn.ackFlush = 0 /\ NoOld.req = <<>>
           /\ Offline(c).req = <<>> /\ Offline(c).rep = <<>> /\ Offline(c).state = "offline"
           /\ Offline(c).dirty = FALSE /\ Offline(c).ackFlush = c.ackFlush
           /\ \A y, s : QueueOK(y, s, NoOld.req)
  <1>1. /\ NewConn.req = <<>> /\ NewConn.rep = <<>> /\ NewConn.state = "offline"
        /\ NewConn.dirty = FALSE /\ NewConn.ackFlush = 0 /\ NoOld.req = <<>>
    BY DEF NewConn, NoOld
  <1>2. /\ Offline(c).req = <<>> /\ Offline(c).rep = <<>> /\ Offline(c).state = "offline"
        /\ Offline(c).dirty = FALSE /\ Offline(c).ackFlush = c.ackFlush
    BY DEF NewConn, Offline
  <1>3. 1..Len(NoOld.req) = {}
    BY <1>1
  <1> QED
    BY <1>1, <1>2, <1>3 DEF QueueOK
\* What Bail changes.
LEMMA BailFields ==
    ASSUME TypeInv, NEW p \in Computes, NEW s \in Safekeepers, NEW live \in BOOLEAN,
           Bail(p, s, live)
    PROVE  /\ \A q \in Computes, z \in Safekeepers :
                 \/ conn'[q][z] = conn[q][z]
                 \/ q = p /\ z = s /\ conn'[q][z] = Offline(conn[p][s])
           /\ \A q \in Computes, z \in Safekeepers :
                 old'[q][z] = old[q][z] \/ old'[q][z] = NoOld
  <1>1. /\ conn \in [Computes -> [Safekeepers -> ConnOK]]
        /\ old \in [Computes -> [Safekeepers -> OldType]]
    BY DEF TypeInv
  <1>2. CASE live
    BY <1>1, <1>2 DEF Bail
  <1>3. CASE ~live
    BY <1>1, <1>3 DEF Bail
  <1> QED
    BY <1>2, <1>3

(***************************************************************************)
(* The frames of a handler that is done with its message, and of one that  *)
(* gives up its connection.                                                *)
(***************************************************************************)
AnswerOK(y, s, w, reply, dirty) ==
    /\ \A i \in 1..Len(reply) : RepOK(y, s, w, reply[i])
    /\ dirty => w.state = "elected" /\ Streamed(y, s, w.term)

HandlerStep(x, y, p, s, live, type, m, k, a, reply, dirty) ==
    /\ Fits(x) /\ IsNext(p, s, live, type) /\ m = Head(Incoming(p, s, live))
    /\ MayMove(x, s, k, a) /\ y = Moved(x, s, k, a)
    /\ sk' = [sk EXCEPT ![s] = k] /\ UNCHANGED <<wp, info, wins, chosen>>
    /\ type = "elected" => Streamed(y, s, m.term)
    /\ Done(p, s, live, reply, dirty)
    /\ live => AnswerOK(y, s, wp[p], reply, dirty)

\* A handler that answers its message keeps the invariant.
LEMMA HandlerFits ==
    ASSUME TypeInv, TypeInv', NEW x, NEW y, NEW p \in Computes, NEW s \in Safekeepers,
           NEW live \in BOOLEAN, NEW type, NEW m, NEW k \in SafekeeperOK, NEW a,
           NEW reply \in Seq(ReplyType), NEW dirty \in BOOLEAN,
           HandlerStep(x, y, p, s, live, type, m, k, a, reply, dirty)
    PROVE  Fitting'
  <1> USE DEF HandlerStep
  <1>1. /\ Incoming(p, s, live) \in Seq(RequestType) /\ Incoming(p, s, live) # <<>>
        /\ Head(Incoming(p, s, live)).type = type
    BY IncomingType
  <1>2. /\ conn' \in [Computes -> [Safekeepers -> ConnOK]]
        /\ \A q \in Computes, z \in Safekeepers : q # p \/ z # s => conn'[q][z] = conn[q][z]
        /\ live => /\ conn'[p][s].req = Tail(conn[p][s].req)
                   /\ conn'[p][s].rep = conn[p][s].rep \o reply
                   /\ conn'[p][s].dirty = (conn[p][s].dirty \/ dirty)
                   /\ conn'[p][s].state = conn[p][s].state
                   /\ conn'[p][s].ackFlush = conn[p][s].ackFlush
                   /\ old' = old
        /\ ~live => /\ conn' = conn /\ old'[p][s].req = Tail(old[p][s].req)
                    /\ \A q \in Computes, z \in Safekeepers :
                          q # p \/ z # s => old'[q][z] = old[q][z]
    BY <1>1, DoneEffect
  <1>3. Grown(x, y) /\ Core(y)
    BY MovedGrows DEF Fits
  <1>4. /\ wp[p] \in ProposerOK /\ conn[p][s] \in ConnOK /\ conn'[p][s] \in ConnOK
        /\ old[p][s].req \in Seq(RequestType)
        /\ wp[p].state = "elected" => wp[p].term \in x.led
    BY <1>2, ElectedIsLeader DEF TypeInv, Fits, OldType
  <1>5. LinkOK(y, s, wp[p], conn[p][s]) /\ QueueOK(y, s, old[p][s].req)
    <2>1. LinkOK(x, s, wp[p], conn[p][s]) /\ QueueOK(x, s, old[p][s].req)
      BY DEF Fits
    <2> QED
      BY <1>3, <1>4, <2>1, LinkStays, QueueStays
  <1>6. CASE live
    <2>1. conn[p][s].req # <<>> /\ Head(conn[p][s].req) = m /\ m.type = type
      BY <1>1, <1>6 DEF Incoming
    <2>2. LinkOK(y, s, wp[p], conn'[p][s])
      BY <1>2, <1>4, <1>5, <1>6, <2>1, DoneLink, Zenon DEF AnswerOK
    <2>3. LinksFit(y)
      BY <1>2, <1>6, <2>2 DEF LinksFit
    <2> QED
      BY <2>3, MoveFits, Zenon
  <1>7. CASE ~live
    <2>1. old[p][s].req # <<>> /\ Head(old[p][s].req) = m /\ m.type = type
      BY <1>1, <1>7 DEF Incoming
    <2>2. QueueOK(y, s, old'[p][s].req)
      BY <1>2, <1>4, <1>5, <1>7, <2>1, QueueTail, Zenon
    <2>3. LinksFit(y)
      BY <1>2, <1>7, <2>2 DEF LinksFit
    <2> QED
      BY <2>3, MoveFits, Zenon
  <1> QED
    BY <1>6, <1>7

\* Connections that end, or stay.
LEMMA DroppingFits ==
    ASSUME TypeInv, TypeInv', NEW x, Fits(x), NEW s \in Safekeepers,
           NEW k \in SafekeeperOK, NEW a, MayMove(x, s, k, a),
           sk' = [sk EXCEPT ![s] = k], UNCHANGED <<wp, info, wins, chosen>>,
           \A q \in Computes, z \in Safekeepers :
              /\ conn'[q][z] = conn[q][z] \/ conn'[q][z] = Offline(conn[q][z])
              /\ old'[q][z] = old[q][z] \/ old'[q][z] = NoOld
    PROVE  Fitting'
  <1>1. PICK y : y = Moved(x, s, k, a)
    OBVIOUS
  <1>2. Grown(x, y) /\ Core(y)
    BY <1>1, MovedGrows DEF Fits
  <1>3. ASSUME NEW q \in Computes, NEW z \in Safekeepers
        PROVE  /\ conn'[q][z] = conn[q][z] \/ LinkOK(y, z, wp[q], conn'[q][z])
               /\ conn'[q][z].ackFlush = conn[q][z].ackFlush
               /\ conn'[q][z].state # "offline" => conn[q][z].state # "offline"
               /\ old'[q][z] = old[q][z] \/ QueueOK(y, z, old'[q][z].req)
    <2>1. /\ wp[q] \in ProposerOK /\ conn[q][z] \in ConnOK
          /\ wp[q].state = "elected" => wp[q].term \in x.led
      BY ElectedIsLeader DEF TypeInv, Fits
    <2>2. LinkOK(x, z, wp[q], conn[q][z])
      BY DEF Fits
    <2>3. LinkOK(y, z, wp[q], conn[q][z])
      BY <1>2, <2>1, <2>2, LinkStays
    <2>4. conn'[q][z] = conn[q][z] \/ LinkOK(y, z, wp[q], conn'[q][z])
      BY <2>3, EmptyLink, ClosedFields, ZenonT(40)
    <2>5. /\ conn'[q][z].ackFlush = conn[q][z].ackFlush
          /\ conn'[q][z].state # "offline" => conn[q][z].state # "offline"
      BY ClosedFields, Zenon
    <2>6. old'[q][z] = old[q][z] \/ QueueOK(y, z, old'[q][z].req)
      BY ClosedFields, Zenon
    <2> QED
      BY <2>4, <2>5, <2>6
  <1>4. LinksFit(y)
    BY <1>3 DEF LinksFit
  <1> QED
    BY <1>1, <1>4, MoveFits, Zenon

-----------------------------------------------------------------------------
(***************************************************************************)
(* The handlers of the safekeeper are moves.                               *)
(***************************************************************************)
\* The history stays, and no WAL is lost.
LEMMA HistoryKept ==
    ASSUME TypeInv, NEW x, Fits(x), NEW s \in Safekeepers, NEW k \in SafekeeperOK,
           k.history = sk[s].history, k.term >= sk[s].term, k.flush >= sk[s].flush,
           WriteLsn(k) <= x.limit[x.at[s]],
           \A l \in 1..Len(k.wal) : k.wal[l] = x.log[x.at[s]][l],
           CommitOK(x, s, k)
    PROVE  MayMove(x, s, k, x.at[s])
  <1>1. /\ x \in View /\ AccOK(x) /\ SkOK(x, s, sk[s]) /\ x.at[s] \in x.led
        /\ x.term[s] = sk[s].term /\ sk[s].history = x.hist[x.at[s]] /\ sk[s] \in SafekeeperOK
    BY FitsFields
  <1>2. /\ k.term \in Nat /\ k.flush \in Nat /\ sk[s].term \in Nat /\ sk[s].flush \in Nat
        /\ x.at[s] \in Nat /\ x.led \subseteq Nat
    BY <1>1, SafekeeperFields, ViewFields, Zenon
  <1>3. x.at[s] <= k.term
    BY <1>1, <1>2 DEF AccOK
  <1>4. KeepsAccepted(x, s, k.history, k.flush, k.term + 1)
    <2> SUFFICES ASSUME NEW t \in x.led, NEW c \in Nat, t < k.term + 1, 1 <= c, c <= x.acc[s][t]
                 PROVE  (c <= k.flush /\ Follows(k.history, x.hist[t], c)) \/ Excluded(x, t, c)
      BY DEF KeepsAccepted
    <2>1. t \in Nat /\ x.acc[s][t] \in Nat
      BY <1>1, <1>2, ViewFields
    <2>2. t < sk[s].term + 1
      BY <1>1, <1>2, <2>1 DEF AccOK
    <2>3. (c <= sk[s].flush /\ Follows(sk[s].history, x.hist[t], c)) \/ Excluded(x, t, c)
      BY <1>1, <2>2 DEF SkOK, KeepsAccepted
    <2> QED
      BY <1>2, <2>3
  <1>5. ASSUME Traced PROVE KnownIn(x, k.term, k.history, k.commit)
    <2>1. KnownIn(x, x.term[s], k.history, k.commit)
      BY <1>1, <1>5 DEF CommitOK
    <2>2. k.commit \in Nat /\ k.history \in History /\ Tree(x)
      BY SafekeeperFields, FitsFields
    <2> QED
      BY <1>1, <1>2, <2>1, <2>2, KnownLess
  <1> QED
    BY <1>1, <1>3, <1>4, <1>5 DEF MayMove, CommitOK

\* So do steps that only raise the term, flush, or write the control file.
LEMMA WalKept ==
    ASSUME TypeInv, NEW x, Fits(x), NEW s \in Safekeepers, NEW k \in SafekeeperOK,
           k.history = sk[s].history, k.wal = sk[s].wal, k.term >= sk[s].term,
           k.flush >= sk[s].flush, k.commit = sk[s].commit, k.horizon = sk[s].horizon,
           k.pcommit \in {sk[s].pcommit, sk[s].commit},
           k.phorizon \in {sk[s].phorizon, sk[s].horizon}
    PROVE  MayMove(x, s, k, x.at[s])
  <1>1. /\ WalOK(x, s, sk[s]) /\ CommitOK(x, s, sk[s]) /\ sk[s] \in SafekeeperOK
    BY FitsFields
  <1>2. /\ k.flush \in Nat /\ sk[s].flush \in Nat /\ sk[s].commit \in Nat
        /\ sk[s].pcommit \in Nat /\ WriteLsn(k) = WriteLsn(sk[s])
    BY <1>1, SafekeeperFields, Zenon DEF WriteLsn
  <1>3. CommitOK(x, s, k)
    BY <1>1, <1>2 DEF CommitOK
  <1>4. WriteLsn(k) <= x.limit[x.at[s]]
    BY <1>1, <1>2 DEF WalOK
  <1>5. \A l \in 1..Len(k.wal) : k.wal[l] = x.log[x.at[s]][l]
    BY <1>1 DEF WalOK
  <1> QED
    BY <1>3, <1>4, <1>5, HistoryKept

\* The fields of a safekeeper after these steps.
LEMMA SimpleFields ==
    ASSUME NEW k \in SafekeeperOK, NEW t \in Nat
    PROVE  /\ Flushed(k).history = k.history /\ Flushed(k).wal = k.wal
           /\ Flushed(k).term = k.term /\ Flushed(k).flush = WriteLsn(k)
           /\ Flushed(k).commit = k.commit /\ Flushed(k).horizon = k.horizon
           /\ Flushed(k).pcommit = k.pcommit /\ Flushed(k).phorizon = k.phorizon
           /\ Persisted(k).history = k.history /\ Persisted(k).wal = k.wal
           /\ Persisted(k).term = k.term /\ Persisted(k).flush = k.flush
           /\ Persisted(k).commit = k.commit /\ Persisted(k).horizon = k.horizon
           /\ Persisted(k).pcommit = k.commit /\ Persisted(k).phorizon = k.horizon
           /\ WithTerm(k, t).history = k.history /\ WithTerm(k, t).wal = k.wal
           /\ WithTerm(k, t).term >= k.term /\ WithTerm(k, t).term >= t
           /\ k.term <= t => WithTerm(k, t).term = t
           /\ WithTerm(k, t).flush = k.flush
           /\ WithTerm(k, t).commit = k.commit /\ WithTerm(k, t).horizon = k.horizon
           /\ WithTerm(k, t).pcommit \in {k.pcommit, k.commit}
           /\ WithTerm(k, t).phorizon \in {k.phorizon, k.horizon}
  <1>1. k \in SafekeeperType
    BY DEF SafekeeperOK
  <1>2. k.term \in Nat
    BY SafekeeperFields
  <1>3. /\ Flushed(k).history = k.history /\ Flushed(k).wal = k.wal
        /\ Flushed(k).term = k.term /\ Flushed(k).flush = WriteLsn(k)
        /\ Flushed(k).commit = k.commit /\ Flushed(k).horizon = k.horizon
        /\ Flushed(k).pcommit = k.pcommit /\ Flushed(k).phorizon = k.phorizon
    BY <1>1 DEF Flushed, SafekeeperType
  <1>4. /\ Persisted(k).history = k.history /\ Persisted(k).wal = k.wal
        /\ Persisted(k).term = k.term /\ Persisted(k).flush = k.flush
        /\ Persisted(k).commit = k.commit /\ Persisted(k).horizon = k.horizon
        /\ Persisted(k).pcommit = k.commit /\ Persisted(k).phorizon = k.horizon
    BY <1>1 DEF Persisted, SafekeeperType
  <1>5. CASE k.term < t
    <2>1. WithTerm(k, t) = [Persisted(k) EXCEPT !.term = t]
      BY <1>5 DEF WithTerm
    <2>2. WithTerm(k, t) = [k EXCEPT !.pcommit = k.commit, !.phorizon = k.horizon, !.term = t]
      BY <1>1, <2>1 DEF Persisted, SafekeeperType
    <2>3. /\ WithTerm(k, t).history = k.history /\ WithTerm(k, t).wal = k.wal
          /\ WithTerm(k, t).term = t
          /\ WithTerm(k, t).flush = k.flush
          /\ WithTerm(k, t).commit = k.commit /\ WithTerm(k, t).horizon = k.horizon
          /\ WithTerm(k, t).pcommit = k.commit
          /\ WithTerm(k, t).phorizon = k.horizon
      BY <1>1, <2>2 DEF SafekeeperType
    <2> QED
      BY <1>2, <1>3, <1>4, <1>5, <2>3
  <1>6. CASE ~(k.term < t)
    <2>1. WithTerm(k, t) = k
      BY <1>6 DEF WithTerm
    <2> QED
      BY <1>2, <1>3, <1>4, <1>6, <2>1
  <1> QED
    BY <1>5, <1>6

\* A safekeeper that flushes, saves, takes a higher term, or votes.
LEMMA SimpleMoves ==
    ASSUME TypeInv, NEW x, Fits(x), NEW s \in Safekeepers, NEW t \in Nat, NEW m \in VoteRequestType
    PROVE  /\ MayMove(x, s, sk[s], x.at[s])
           /\ MayMove(x, s, Flushed(sk[s]), x.at[s])
           /\ MayMove(x, s, Persisted(sk[s]), x.at[s])
           /\ MayMove(x, s, WithTerm(sk[s], t), x.at[s])
           /\ MayMove(x, s, AfterVoteRequest(sk[s], m), x.at[s])
  <1> DEFINE k == sk[s]
  <1>1. k \in SafekeeperOK
    BY FitsFields
  <1>2. /\ k.term \in Nat /\ k.flush \in Nat /\ k.flush <= WriteLsn(k) /\ WriteLsn(k) \in Nat
    BY <1>1, SafekeeperFields
  <1>3. /\ Flushed(k) \in SafekeeperOK /\ Persisted(k) \in SafekeeperOK
        /\ WithTerm(k, t) \in SafekeeperOK /\ AfterVoteRequest(k, m) \in SafekeeperOK
        /\ WithTerm(Flushed(k), m.term) \in SafekeeperOK /\ m.term \in Nat
    BY <1>1, FlushedType, PersistedType, WithTermType, AfterVoteType, Zenon DEF VoteRequestType
  <1>4. MayMove(x, s, k, x.at[s])
    BY <1>1, <1>2, WalKept
  <1>5. MayMove(x, s, Flushed(k), x.at[s])
    BY <1>1, <1>2, <1>3, WalKept, SimpleFields
  <1>6. MayMove(x, s, Persisted(k), x.at[s])
    BY <1>1, <1>2, <1>3, WalKept, SimpleFields
  <1>7. MayMove(x, s, WithTerm(k, t), x.at[s])
    BY <1>1, <1>2, <1>3, WalKept, SimpleFields
  <1>8. MayMove(x, s, AfterVoteRequest(k, m), x.at[s])
    <2> DEFINE v == WithTerm(Flushed(k), m.term)
    <2>1. /\ v.history = k.history /\ v.wal = k.wal /\ v.term >= k.term
          /\ v.flush >= k.flush /\ v.commit = k.commit /\ v.horizon = k.horizon
          /\ v.pcommit \in {k.pcommit, k.commit} /\ v.phorizon \in {k.phorizon, k.horizon}
      BY <1>1, <1>2, <1>3, SimpleFields
    <2>2. AfterVoteRequest(k, m) = v
      BY DEF AfterVoteRequest
    <2> HIDE DEF v
    <2> QED
      BY <1>3, <2>1, <2>2, WalKept
  <1> QED
    BY <1>4, <1>5, <1>6, <1>7, <1>8
\* The records below an LSN.
LEMMA BelowFields ==
    ASSUME NEW wal \in Seq(Computes), NEW lsn \in 1..EndOf(wal)
    PROVE  /\ Below(wal, lsn) \in Seq(Computes) /\ Len(Below(wal, lsn)) = lsn - 1
           /\ \A l \in 1..(lsn - 1) : Below(wal, lsn)[l] = wal[l]
  <1>1. Len(wal) \in Nat /\ lsn \in Nat /\ lsn - 1 <= Len(wal) /\ lsn - 1 \in Int /\ lsn - 1 >= 0
    BY LenProperties DEF EndOf
  <1>2. Below(wal, lsn) = SubSeq(wal, 1, lsn - 1)
    BY <1>1 DEF Below, Smaller
  <1> QED
    BY <1>1, <1>2, PrefixType

\* The fields of a safekeeper after a restart.
LEMMA RestartedFields ==
    ASSUME NEW k \in SafekeeperOK, NEW end \in 1..WriteLsn(k)
    PROVE  /\ Restarted(k, end).history = k.history /\ Restarted(k, end).term = k.term
           /\ Restarted(k, end).flush = end /\ Restarted(k, end).commit = k.pcommit
           /\ Restarted(k, end).pcommit = k.pcommit /\ Restarted(k, end).horizon = k.phorizon
           /\ Restarted(k, end).phorizon = k.phorizon
           /\ Restarted(k, end).wal = Below(k.wal, end)
           /\ WriteLsn(Restarted(k, end)) = end
           /\ Len(Restarted(k, end).wal) = end - 1
           /\ \A l \in 1..(end - 1) : Restarted(k, end).wal[l] = k.wal[l]
  <1>1. /\ Restarted(k, end).history = k.history /\ Restarted(k, end).term = k.term
        /\ Restarted(k, end).flush = end /\ Restarted(k, end).commit = k.pcommit
        /\ Restarted(k, end).pcommit = k.pcommit /\ Restarted(k, end).horizon = k.phorizon
        /\ Restarted(k, end).phorizon = k.phorizon
        /\ Restarted(k, end).wal = Below(k.wal, end)
    BY DEF Restarted, SafekeeperOK, SafekeeperType
  <1>2. k.wal \in Seq(Computes) /\ end \in 1..EndOf(k.wal)
    BY SafekeeperFields DEF WriteLsn
  <1>3. /\ Len(Below(k.wal, end)) = end - 1
        /\ \A l \in 1..(end - 1) : Below(k.wal, end)[l] = k.wal[l]
    BY <1>2, BelowFields
  <1>4. WriteLsn(Restarted(k, end)) = end
    BY <1>1, <1>3 DEF WriteLsn, EndOf
  <1> QED
    BY <1>1, <1>3, <1>4

\* A restart.
LEMMA RestartMoves ==
    ASSUME TypeInv, NEW x, Fits(x), NEW s \in Safekeepers,
           NEW end \in sk[s].flush..WriteLsn(sk[s])
    PROVE  Restarted(sk[s], end) \in SafekeeperOK /\ MayMove(x, s, Restarted(sk[s], end), x.at[s])
  <1> DEFINE k == sk[s]
             r == Restarted(k, end)
  <1>1. /\ k \in SafekeeperOK /\ WalOK(x, s, k) /\ CommitOK(x, s, k) /\ x \in View
        /\ x.at[s] \in x.led /\ Tree(x)
    BY FitsFields
  <1>2. /\ k.flush \in Nat /\ k.flush >= 1 /\ WriteLsn(k) \in Nat /\ WriteLsn(k) = 1 + Len(k.wal)
        /\ k.commit \in Nat /\ k.pcommit \in Nat /\ k.term \in Nat
    BY <1>1, SafekeeperFields
  <1>3. end \in 1..WriteLsn(k)
    BY <1>2
  <1>4. r \in SafekeeperOK
    BY <1>1, <1>3, RestartedType
  <1>5. /\ r.history = k.history /\ r.term = k.term
        /\ r.flush = end /\ r.commit = k.pcommit
        /\ r.pcommit = k.pcommit /\ r.horizon = k.phorizon /\ r.phorizon = k.phorizon
        /\ WriteLsn(r) = end /\ Len(r.wal) = end - 1
        /\ \A l \in 1..(end - 1) : r.wal[l] = k.wal[l]
    BY <1>1, <1>3, RestartedFields
  <1> HIDE DEF r
  <1>6. CommitOK(x, s, r)
    <2>1. End(x) \in Nat
      BY <1>1, EndIs
    <2>2. ASSUME Traced PROVE KnownIn(x, x.term[s], x.hist[x.at[s]], r.commit)
      <3>1. KnownIn(x, x.term[s], x.hist[x.at[s]], k.commit) /\ k.pcommit <= k.commit
        BY <1>1, <2>2 DEF CommitOK
      <3>2. x.term[s] \in Nat /\ x.hist[x.at[s]] \in History
        BY <1>1, ViewFields, LeaderHistory
      <3> QED
        BY <1>1, <1>2, <1>5, <3>1, <3>2, KnownLess
    <2> QED
      BY <1>1, <1>2, <1>3, <1>5, <2>1, <2>2 DEF CommitOK
  <1>7. x.limit[x.at[s]] \in Nat
    BY <1>1, ViewFields, Zenon
  <1>8. WriteLsn(r) <= x.limit[x.at[s]]
    BY <1>1, <1>2, <1>3, <1>5, <1>7 DEF WalOK
  <1>9. \A l \in 1..Len(r.wal) : r.wal[l] = x.log[x.at[s]][l]
    BY <1>1, <1>2, <1>3, <1>5 DEF WalOK
  <1>10. r.term >= k.term /\ r.flush >= k.flush
    BY <1>2, <1>5
  <1>11. MayMove(x, s, r, x.at[s])
    BY <1>4, <1>5, <1>6, <1>8, <1>9, <1>10, HistoryKept
  <1> QED
    BY <1>4, <1>11 DEF r

\* update_commit_lsn with an LSN below which the WAL is committed.
LEMMA WithCommitKeeps ==
    ASSUME NEW x \in View, Tree(x), NEW s \in Safekeepers, NEW k \in SafekeeperOK,
           CommitOK(x, s, k), x.at[s] \in x.led, NEW c \in Nat, c <= End(x),
           \A l \in Nat : 1 <= l /\ l < c /\ l < k.flush => x.chosen[l] = x.log[x.at[s]][l],
           Traced => \A d \in Nat : d <= c /\ d <= k.flush =>
                     KnownIn(x, x.term[s], x.hist[x.at[s]], d)
    PROVE  /\ CommitOK(x, s, WithCommit(k, c))
           /\ WithCommit(k, c).history = k.history /\ WithCommit(k, c).wal = k.wal
           /\ WithCommit(k, c).term = k.term /\ WithCommit(k, c).flush = k.flush
           /\ WithCommit(k, c).horizon = k.horizon
  <1>1. /\ k.flush \in Nat /\ k.commit \in Nat /\ k.pcommit \in Nat /\ k.termStart \in Nat
    BY SafekeeperFields
  <1>2. End(x) \in Nat
    BY EndIs
  <1> DEFINE e == Smaller(Larger(c, k.commit), k.flush)
             k1 == [k EXCEPT !.commit = e]
             k2 == [k EXCEPT !.commit = e, !.pcommit = e, !.phorizon = k.horizon]
  <1>3. k.pcommit <= k.commit /\ k.commit <= k.flush /\ 1 <= k.pcommit /\ k.commit <= End(x)
    BY DEF CommitOK
  <1>4. e \in Nat /\ e >= k.commit /\ e <= k.flush /\ e <= End(x) /\ (e <= k.commit \/ e <= c)
    BY <1>1, <1>2, <1>3 DEF Smaller, Larger
  <1>5. \A l \in Nat : 1 <= l /\ l < e => x.chosen[l] = x.log[x.at[s]][l]
    BY <1>1, <1>4 DEF CommitOK
  <1> HIDE DEF e
  <1>50. ASSUME Traced PROVE KnownIn(x, x.term[s], x.hist[x.at[s]], e)
    <2>1. CASE e <= c
      BY <1>4, <1>50, <2>1
    <2>2. CASE e <= k.commit
      <3>1. KnownIn(x, x.term[s], x.hist[x.at[s]], k.commit)
        BY <1>50 DEF CommitOK
      <3>2. x.term[s] \in Nat /\ x.hist[x.at[s]] \in History
        BY ViewFields, LeaderHistory
      <3> QED
        BY <1>1, <1>4, <2>2, <3>1, <3>2, KnownLess
    <2> QED
      BY <1>4, <2>1, <2>2
  <1>6. WithCommit(k, c) = k1 \/ WithCommit(k, c) = k2
    BY DEF WithCommit, Persisted, SafekeeperOK, SafekeeperType, e
  <1>7. /\ k1.commit = e /\ k1.pcommit = k.pcommit /\ k1.horizon = k.horizon
        /\ k1.phorizon = k.phorizon /\ k1.flush = k.flush
        /\ k1.history = k.history /\ k1.wal = k.wal /\ k1.term = k.term
    BY DEF SafekeeperOK, SafekeeperType
  <1>8. /\ k2.commit = e /\ k2.pcommit = e /\ k2.horizon = k.horizon
        /\ k2.phorizon = k.horizon /\ k2.flush = k.flush
        /\ k2.history = k.history /\ k2.wal = k.wal /\ k2.term = k.term
    BY DEF SafekeeperOK, SafekeeperType
  <1> HIDE DEF k1, k2
  <1>9. CommitOK(x, s, k1)
    BY <1>1, <1>3, <1>4, <1>5, <1>50, <1>7 DEF CommitOK
  <1>10. CommitOK(x, s, k2)
    BY <1>1, <1>3, <1>4, <1>5, <1>50, <1>8 DEF CommitOK
  <1> QED
    BY <1>6, <1>7, <1>8, <1>9, <1>10

\* A higher peer_horizon_lsn.
LEMMA HorizonMoves ==
    ASSUME NEW x, NEW s \in Safekeepers, NEW k \in SafekeeperOK, CommitOK(x, s, k),
           NEW h \in Nat, Everywhere(x, h), NEW j \in Nat, Everywhere(x, j), j >= 1
    PROVE  LET r == [k EXCEPT !.horizon = Larger(j, h)]
           IN  /\ CommitOK(x, s, r)
               /\ r.history = k.history /\ r.wal = k.wal /\ r.term = k.term /\ r.flush = k.flush
  <1> DEFINE r == [k EXCEPT !.horizon = Larger(j, h)]
  <1>1. /\ r.horizon = Larger(j, h) /\ r.commit = k.commit /\ r.pcommit = k.pcommit
        /\ r.phorizon = k.phorizon /\ r.flush = k.flush
        /\ r.history = k.history /\ r.wal = k.wal /\ r.term = k.term
    BY DEF SafekeeperOK, SafekeeperType
  <1> HIDE DEF r
  <1>2. Everywhere(x, Larger(j, h)) /\ Larger(j, h) >= 1
    BY DEF Larger
  <1>3. CommitOK(x, s, r)
    BY <1>1, <1>2 DEF CommitOK
  <1> QED
    BY <1>1, <1>3 DEF r
\* One WAL after another.
LEMMA ConcatFields ==
    ASSUME NEW a \in Seq(Computes), NEW b \in Seq(Computes), NEW c, c = a \o b
    PROVE  /\ c \in Seq(Computes) /\ Len(c) = Len(a) + Len(b)
           /\ Len(a) \in Nat /\ Len(b) \in Nat
           /\ \A l \in 1..Len(a) : c[l] = a[l]
           /\ \A i \in 1..Len(b) : c[Len(a) + i] = b[i]
  <1>1. Len(a) \in Nat /\ Len(b) \in Nat
    BY LenProperties
  <1>2. /\ c \in Seq(Computes) /\ Len(c) = Len(a) + Len(b)
        /\ \A i \in 1..(Len(a) + Len(b)) : c[i] = IF i <= Len(a) THEN a[i] ELSE b[i - Len(a)]
    BY <1>1, ConcatProperties
  <1>3. ASSUME NEW l \in 1..Len(a) PROVE c[l] = a[l]
    BY <1>1, <1>2
  <1>4. ASSUME NEW i \in 1..Len(b) PROVE c[Len(a) + i] = b[i]
    <2>1. Len(a) + i \in 1..(Len(a) + Len(b)) /\ ~(Len(a) + i <= Len(a)) /\ (Len(a) + i) - Len(a) = i
      BY <1>1
    <2> QED
      BY <1>2, <2>1
  <1> QED
    BY <1>1, <1>2, <1>3, <1>4

\* handle_append_request.
LEMMA AppendMoves ==
    ASSUME TypeInv, NEW x, Fits(x), NEW s \in Safekeepers, NEW m \in AppendRequestType,
           ReqOK(x, m), m.type = "append", Streamed(x, s, m.term),
           ~AppendStale(sk[s], m), ~AppendRefused(sk[s], m)
    PROVE  /\ AfterAppend(sk[s], m) \in SafekeeperOK
           /\ MayMove(x, s, AfterAppend(sk[s], m), x.at[s])
           /\ AfterAppend(sk[s], m).term = m.term /\ x.at[s] = m.term
  <1>0. PICK k : k = sk[s]
    OBVIOUS
  <1>00. PICK wal : wal = k.wal \o m.recs
    BY Zenon
  <1> DEFINE k1 == [k EXCEPT !.wal = wal]
             k2 == IF m.commit # 0 THEN WithCommit(k1, m.commit) ELSE k1
             r  == AfterAppend(k, m)
  <1>1. /\ k \in SafekeeperOK /\ WalOK(x, s, k) /\ CommitOK(x, s, k) /\ x \in View
        /\ x.at[s] \in x.led /\ Core(x) /\ x.term[s] = k.term /\ Tree(x)
    BY <1>0, FitsFields
  <1>2. /\ k.flush \in Nat /\ k.flush >= 1 /\ k.flush <= 1 + Len(k.wal) /\ WriteLsn(k) = 1 + Len(k.wal)
        /\ k.term \in Nat /\ k.wal \in Seq(Computes) /\ Len(k.wal) \in Nat
        /\ k.horizon \in Nat
    BY <1>1, SafekeeperFields
  <1>3. /\ m.term \in Nat /\ m.begin \in Nat /\ m.recs \in Seq(Computes) /\ m.commit \in Nat
        /\ m.truncate \in Nat
    BY DEF AppendRequestType
  <1>4. k.term = m.term /\ WriteLsn(k) = m.begin /\ x.at[s] = m.term /\ m.term \in x.led
    BY <1>0, <1>1, <1>2, <1>3 DEF AppendStale, AppendRefused, Streamed, ReqOK
  <1>5. /\ k1.wal = wal /\ k1.flush = k.flush /\ k1.commit = k.commit
        /\ k1.pcommit = k.pcommit /\ k1.horizon = k.horizon /\ k1.phorizon = k.phorizon
        /\ k1.history = k.history /\ k1.term = k.term
    BY <1>1 DEF SafekeeperOK, SafekeeperType
  <1>6. PICK n \in Nat, j \in Nat :
           /\ n = Len(k.wal) /\ j = Len(m.recs) /\ wal \in Seq(Computes) /\ Len(wal) = n + j
           /\ \A l \in 1..n : wal[l] = k.wal[l]
           /\ \A i \in 1..j : wal[n + i] = m.recs[i]
    <2>1. k.wal \in Seq(Computes) /\ m.recs \in Seq(Computes)
      BY <1>2, <1>3
    <2>2. PICK a : a = k.wal
      OBVIOUS
    <2>3. PICK b : b = m.recs
      OBVIOUS
    <2>4. a \in Seq(Computes) /\ b \in Seq(Computes) /\ wal = a \o b
      BY <1>00, <2>1, <2>2, <2>3
    <2>5. /\ wal \in Seq(Computes) /\ Len(wal) = Len(a) + Len(b)
          /\ Len(a) \in Nat /\ Len(b) \in Nat
          /\ \A l \in 1..Len(a) : wal[l] = a[l]
          /\ \A i \in 1..Len(b) : wal[Len(a) + i] = b[i]
      BY <2>4, ConcatFields
    <2> QED
      BY <2>2, <2>3, <2>5, Zenon
  <1>60. Len(k.wal) = n /\ Len(m.recs) = j /\ Len(wal) = n + j /\ wal \in Seq(Computes)
    BY <1>6
  <1>7. k1 \in SafekeeperOK
    <2>1. k1 \in SafekeeperType
      BY <1>1, <1>60, Zenon DEF SafekeeperOK, SafekeeperType
    <2> HIDE DEF k1
    <2>2. k1.flush \in 1..WriteLsn(k1)
      <3>1. WriteLsn(k1) = 1 + (n + j)
        BY <1>5, <1>60 DEF WriteLsn, EndOf
      <3>2. k1.flush \in Nat /\ k1.flush >= 1 /\ k1.flush <= 1 + n
        BY <1>2, <1>5, <1>60
      <3> QED
        BY <3>1, <3>2
    <2> QED
      BY <2>1, <2>2 DEF SafekeeperOK
  <1> HIDE DEF k1
  <1>8. CommitOK(x, s, k1)
    BY <1>1, <1>5 DEF CommitOK
  <1>9. /\ CommitOK(x, s, k2) /\ k2 \in SafekeeperOK
        /\ k2.history = k1.history /\ k2.wal = k1.wal /\ k2.term = k1.term /\ k2.flush = k1.flush
        /\ k2.horizon = k1.horizon
    <2>1. CASE m.commit = 0
      BY <1>7, <1>8, <2>1
    <2>2. CASE m.commit # 0
      <3>1. Committed(x, m.term, m.commit)
        BY <2>2 DEF ReqOK
      <3>2. m.commit <= End(x) /\ Accepted(x, m.term, m.commit)
        BY <3>1 DEF Committed
      <3>3. \A l \in Nat : 1 <= l /\ l < m.commit /\ l < k1.flush => x.chosen[l] = x.log[x.at[s]][l]
        <4>1. End(x) \in Nat
          BY <1>1, EndIs
        <4>2. \A l \in Nat : 1 <= l /\ l < m.commit /\ l < End(x) => x.log[m.term][l] = x.chosen[l]
          BY <1>1, <1>3, <1>4, <3>2, AcceptedIsChosen
        <4> QED
          BY <1>3, <1>4, <3>2, <4>1, <4>2
      <3>4. WithCommit(k1, m.commit) \in SafekeeperOK
        BY <1>3, <1>7, WithCommitType
      <3>5. ASSUME NEW d \in Nat, d <= m.commit
            PROVE  KnownIn(x, x.term[s], x.hist[x.at[s]], d)
        <4>1. Committed(x, m.term, d)
          BY <1>1, <1>3, <1>4, <3>1, <3>5, CommittedLess
        <4>2. Follows(x.hist[m.term], x.hist[m.term], d)
          BY <1>1, <1>4, LeaderHistory, FollowsItself
        <4> QED
          BY <1>1, <1>3, <1>4, <4>1, <4>2 DEF KnownIn
      <3> QED
        BY <1>1, <1>3, <1>7, <1>8, <2>2, <3>2, <3>3, <3>4, <3>5, WithCommitKeeps
    <2> QED
      BY <2>1, <2>2
  <1>10. r = [k2 EXCEPT !.horizon = Larger(k2.horizon, m.truncate)]
    BY <1>00 DEF AfterAppend, k1
  <1> HIDE DEF k2, r
  <1>11. Everywhere(x, m.truncate) /\ Everywhere(x, k2.horizon) /\ k2.horizon \in Nat /\ k2.horizon >= 1
    BY <1>1, <1>2, <1>5, <1>9 DEF ReqOK, CommitOK
  <1>12. /\ CommitOK(x, s, r) /\ r.history = k.history /\ r.wal = wal
         /\ r.term = k.term /\ r.flush = k.flush
    BY <1>3, <1>5, <1>9, <1>10, <1>11, HorizonMoves
  <1>13. r \in SafekeeperOK
    BY <1>1, AfterAppendType DEF r
  <1>14. WriteLsn(r) <= x.limit[x.at[s]]
    <2>1. WriteLsn(r) = m.begin + Len(m.recs)
      <3>1. WriteLsn(r) = 1 + (n + j)
        BY <1>12, <1>60 DEF WriteLsn, EndOf
      <3>2. m.begin = 1 + n
        BY <1>2, <1>4, <1>60
      <3> QED
        BY <1>60, <3>1, <3>2
    <2>2. CASE m.recs = <<>>
      BY <1>1, <1>3, <1>4, <2>1, <2>2 DEF WalOK
    <2>3. CASE m.recs # <<>>
      BY <1>4, <2>1, <2>3 DEF ReqOK
    <2> QED
      BY <2>2, <2>3
  <1>15. ASSUME NEW l \in 1..Len(r.wal) PROVE r.wal[l] = x.log[x.at[s]][l]
    <2>0. l \in 1..(n + j) /\ m.begin = 1 + n
      BY <1>2, <1>4, <1>12, <1>60
    <2>1. CASE l <= n
      <3>1. l \in 1..n /\ l \in 1..Len(k.wal)
        BY <1>60, <2>0, <2>1
      <3>2. wal[l] = k.wal[l]
        BY <1>6, <3>1, Zenon
      <3>3. k.wal[l] = x.log[x.at[s]][l]
        BY <1>1, <3>1 DEF WalOK
      <3> QED
        BY <1>12, <3>2, <3>3
    <2>2. CASE ~(l <= n)
      <3> DEFINE i == l - n
      <3>1. i \in 1..j /\ n + i = l /\ m.begin + i - 1 = l /\ i \in 1..Len(m.recs)
        BY <1>60, <2>0, <2>2
      <3>2. m.recs[i] = x.log[m.term][m.begin + i - 1]
        BY <3>1, Zenon DEF ReqOK
      <3> HIDE DEF i
      <3>3. wal[l] = m.recs[i]
        BY <1>6, <3>1, Zenon
      <3> QED
        BY <1>4, <1>12, <3>1, <3>2, <3>3
    <2> QED
      BY <2>1, <2>2
  <1>16. r.term >= k.term /\ r.flush >= k.flush
    BY <1>2, <1>12
  <1>17. MayMove(x, s, r, x.at[s])
    BY <1>0, <1>12, <1>13, <1>14, <1>15, <1>16, HistoryKept
  <1> QED
    BY <1>0, <1>4, <1>12, <1>13, <1>17 DEF r

\* What a peer with the same last log term says is known.
LEMMA InfoIsKnown ==
    ASSUME TypeInv, NEW x, Fits(x), Traced, NEW s \in Safekeepers,
           info.lastLogTerm = LastLogTerm(sk[s]),
           NEW d \in Nat, d <= info.commit, d <= sk[s].flush
    PROVE  KnownIn(x, x.term[s], x.hist[x.at[s]], d)
  <1> DEFINE z == LastLogTerm(sk[s])
             f == sk[s].flush
             a == x.at[s]
  <1>1. /\ x \in View /\ Tree(x) /\ AccOK(x) /\ sk[s] \in SafekeeperOK /\ a \in x.led
        /\ sk[s].history = x.hist[a]
    BY FitsFields
  <1>2. z \in x.led /\ z <= a /\ x.hist[z] = UpTo(x.hist[a], f)
    BY <1>1, LastLogTermIs DEF TermHistoryOf
  <1>3. InfoOK(x, info) /\ info.commit \in Nat
    BY DEF TypeInv, Fits
  <1>4. PICK t \in x.led :
           /\ Committed(x, t, info.commit) /\ Follows(x.hist[z], x.hist[t], info.commit)
           /\ \A r \in Safekeepers : t <= z \/ t <= x.term[r]
    BY <1>3 DEF InfoOK, PassedOn
  <1>5. /\ x.hist[z] \in History /\ x.hist[t] \in History /\ x.hist[a] \in History
        /\ z \in Nat /\ t \in Nat /\ a \in Nat /\ x.term[s] \in Nat /\ f \in Nat
    BY <1>1, <1>2, LeaderHistory, ViewFields, SafekeeperFields
  <1>6. a <= x.term[s]
    BY <1>1 DEF AccOK
  <1> HIDE DEF z, f, a
  <1>7. t <= x.term[s]
    <2>1. t <= z \/ t <= x.term[s]
      BY <1>4
    <2> QED
      BY <1>2, <1>5, <1>6, <2>1
  <1>8. Follows(x.hist[z], x.hist[t], d)
    BY <1>3, <1>4, <1>5, FollowsLess
  <1>9. Follows(x.hist[a], x.hist[t], d)
    BY <1>2, <1>5, <1>8, FollowsUncut DEF f
  <1>10. Committed(x, t, d)
    BY <1>1, <1>3, <1>4, CommittedLess
  <1> QED
    BY <1>7, <1>9, <1>10 DEF KnownIn, a

\* record_safekeeper_info.
LEMMA PeerInfoMoves ==
    ASSUME TypeInv, NEW x, Fits(x), NEW s \in Safekeepers
    PROVE  /\ AfterPeerInfo(sk[s], info) \in SafekeeperOK
           /\ MayMove(x, s, AfterPeerInfo(sk[s], info), x.at[s])
  <1> DEFINE k == sk[s]
             k1 == IF info.lastLogTerm = LastLogTerm(k) THEN WithCommit(k, info.commit) ELSE k
             r  == AfterPeerInfo(k, info)
  <1>1. /\ k \in SafekeeperOK /\ WalOK(x, s, k) /\ CommitOK(x, s, k) /\ x \in View
        /\ x.at[s] \in x.led /\ Core(x) /\ x.term[s] = k.term /\ Tree(x)
    BY FitsFields
  <1>2. /\ k.flush \in Nat /\ k.term \in Nat /\ k.horizon \in Nat /\ WriteLsn(k) = EndOf(k.wal)
    BY <1>1, SafekeeperFields DEF WriteLsn
  <1>3. /\ info \in [lastLogTerm : Nat, commit : Nat, horizon : Nat]
        /\ info.commit \in Nat /\ info.horizon \in Nat /\ InfoOK(x, info)
    BY DEF TypeInv, Fits
  <1>4. /\ CommitOK(x, s, k1) /\ k1 \in SafekeeperOK
        /\ k1.history = k.history /\ k1.wal = k.wal /\ k1.term = k.term /\ k1.flush = k.flush
    <2>1. CASE info.lastLogTerm # LastLogTerm(k)
      BY <1>1, <2>1
    <2>2. CASE info.lastLogTerm = LastLogTerm(k)
      <3>1. SameLog(x, x.at[s], info.lastLogTerm, k.flush)
        BY <2>2, LastLogTermIs
      <3>2. /\ info.commit <= End(x)
            /\ \A l \in Nat : 1 <= l /\ l < info.commit => x.chosen[l] = x.log[info.lastLogTerm][l]
        BY <1>3 DEF InfoOK
      <3>3. \A l \in Nat : 1 <= l /\ l < info.commit /\ l < k.flush => x.chosen[l] = x.log[x.at[s]][l]
        BY <3>1, <3>2 DEF SameLog
      <3>4. WithCommit(k, info.commit) \in SafekeeperOK
        BY <1>1, <1>3, WithCommitType
      <3>5. ASSUME Traced, NEW d \in Nat, d <= info.commit, d <= k.flush
            PROVE  KnownIn(x, x.term[s], x.hist[x.at[s]], d)
        BY <2>2, <3>5, InfoIsKnown
      <3> QED
        BY <1>1, <1>3, <2>2, <3>2, <3>3, <3>4, <3>5, WithCommitKeeps
    <2> QED
      BY <2>1, <2>2
  <1>5. r = [k1 EXCEPT !.horizon = Larger(k.horizon, info.horizon)]
    BY DEF AfterPeerInfo
  <1> HIDE DEF k1, r
  <1>6. Everywhere(x, info.horizon) /\ Everywhere(x, k.horizon) /\ k.horizon >= 1
    BY <1>1, <1>3 DEF InfoOK, CommitOK
  <1>7. /\ CommitOK(x, s, r) /\ r.history = k.history /\ r.wal = k.wal
        /\ r.term = k.term /\ r.flush = k.flush
    BY <1>2, <1>3, <1>4, <1>5, <1>6, HorizonMoves
  <1>8. r \in SafekeeperOK
    BY <1>1, <1>3, AfterPeerInfoType DEF r
  <1>9. WriteLsn(r) <= x.limit[x.at[s]]
    BY <1>1, <1>7 DEF WriteLsn, WalOK
  <1>10. \A l \in 1..Len(r.wal) : r.wal[l] = x.log[x.at[s]][l]
    BY <1>1, <1>7 DEF WalOK
  <1>11. r.term >= k.term /\ r.flush >= k.flush
    BY <1>2, <1>7
  <1>12. MayMove(x, s, r, x.at[s])
    BY <1>7, <1>8, <1>9, <1>10, <1>11, HistoryKept
  <1> QED
    BY <1>8, <1>12 DEF r

-----------------------------------------------------------------------------
(***************************************************************************)
(* handle_elected: the truncation.                                         *)
(***************************************************************************)
\* Where a safekeeper truncates its WAL, and what is below.
LEMMA TruncationPoint ==
    ASSUME TypeInv, NEW x, Fits(x), NEW s \in Safekeepers, NEW m \in ElectedType, ReqOK(x, m),
           ~ElectedIgnored(sk[s], m), ~ElectedRefused(sk[s], m)
    PROVE  /\ m.start \in Nat /\ 1 <= m.start /\ m.start <= WriteLsn(sk[s]) /\ m.start <= sk[s].flush
           /\ sk[s].commit <= m.start /\ sk[s].term <= m.term
           /\ m.term \in x.led /\ m.history = x.hist[m.term] /\ m.start <= x.limit[m.term]
           /\ SameLog(x, m.term, x.at[s], m.start)
           /\ \A t \in x.led, c \in Nat : 1 <= c /\ c <= x.acc[s][t] =>
                 \/ Excluded(x, t, c)
                 \/ /\ c <= m.start
                    /\ Follows(sk[s].history, x.hist[t], c) /\ Follows(m.history, x.hist[t], c)
  <1>0. PICK k : k = sk[s]
    OBVIOUS
  <1>1. /\ k \in SafekeeperOK /\ SkOK(x, s, k) /\ x \in View /\ Tree(x) /\ AccOK(x)
        /\ x.at[s] \in x.led /\ Core(x) /\ x.term[s] = k.term /\ k.history = x.hist[x.at[s]]
        /\ k.flush <= x.limit[x.at[s]]
    BY <1>0, FitsFields
  <1>2. /\ k.flush \in Nat /\ k.flush >= 1 /\ WriteLsn(k) \in Nat /\ k.term \in Nat
        /\ k.commit \in Nat /\ k.flush <= WriteLsn(k)
    BY <1>1, SafekeeperFields
  <1>3. m.type = "elected" /\ m.term \in Nat /\ m.start \in Nat /\ m.history \in History
    BY DEF ElectedType
  <1>4. m.term \in x.led /\ m.history = x.hist[m.term]
    BY <1>3 DEF ReqOK
  <1>5. k.term <= m.term /\ CommonPoint(k, m) = m.start /\ k.commit <= m.start
        /\ m.start <= WriteLsn(k)
    BY <1>0, <1>2, <1>3 DEF ElectedIgnored, ElectedRefused
  <1> DEFINE cp == HighestCommonPoint(x.hist[m.term], UpTo(x.hist[x.at[s]], k.flush), k.flush)
  <1>6. x.at[s] <= m.term
    BY <1>1, <1>2, <1>3, <1>5, ViewFields DEF AccOK
  <1>7. /\ cp \in Nat /\ 1 <= cp /\ cp <= k.flush /\ cp <= x.limit[m.term]
        /\ SameLog(x, m.term, x.at[s], cp)
    BY <1>1, <1>2, <1>4, <1>6, CommonPointLog
  <1>8. cp = m.start
    <2>1. cp = HighestCommonPoint(m.history, TermHistoryOf(k), k.flush)
      BY <1>1, <1>4 DEF TermHistoryOf
    <2> HIDE DEF cp
    <2> QED
      BY <1>5, <1>7, <2>1 DEF CommonPoint
  <1>9. KeepsAccepted(x, s, x.hist[x.at[s]], k.flush, x.term[s] + 1)
    BY <1>1 DEF SkOK
  <1>10. \A t \in x.led, c \in Nat : 1 <= c /\ c <= x.acc[s][t] =>
             \/ Excluded(x, t, c)
             \/ /\ c <= k.flush /\ c <= cp
                /\ Follows(x.hist[x.at[s]], x.hist[t], c) /\ Follows(x.hist[m.term], x.hist[t], c)
    BY <1>1, <1>2, <1>4, <1>5, <1>9, CommonPointKeeps
  <1> HIDE DEF cp
  <1> QED
    BY <1>0, <1>1, <1>2, <1>3, <1>4, <1>5, <1>7, <1>8, <1>10

\* The fields of a safekeeper after handle_elected.
LEMMA ElectedFields ==
    ASSUME NEW k \in SafekeeperOK, NEW m \in ElectedType, k.term <= m.term,
           1 <= m.start, m.start <= WriteLsn(k)
    PROVE  LET r == AfterElected(k, m)
           IN  /\ r.term = m.term /\ r.history = m.history /\ r.flush = m.start
               /\ r.commit = k.commit /\ r.pcommit = k.commit
               /\ r.horizon = k.horizon /\ r.phorizon = k.horizon
               /\ WriteLsn(r) = m.start /\ Len(r.wal) = m.start - 1
               /\ \A l \in 1..(m.start - 1) : r.wal[l] = k.wal[l]
  <1> DEFINE k0 == WithTerm(k, m.term)
             k1 == Truncated(k0, m.start)
             r == AfterElected(k, m)
  <1>1. m.term \in Nat /\ m.start \in Nat
    BY DEF ElectedType
  <1>2. /\ k0 \in SafekeeperOK /\ k0.term = m.term /\ k0.wal = k.wal /\ k0.commit = k.commit
        /\ k0.horizon = k.horizon
    BY <1>1, WithTermType, SimpleFields, Zenon
  <1> HIDE DEF k0
  <1>3. /\ k1.term = k0.term /\ k1.commit = k0.commit /\ k1.horizon = k0.horizon
        /\ k1.flush = m.start /\ k1.wal = Below(k0.wal, m.start)
    BY <1>2 DEF Truncated, SafekeeperOK, SafekeeperType
  <1>4. r = [k1 EXCEPT !.pcommit = k1.commit, !.phorizon = k1.horizon, !.history = m.history,
                       !.termStart = m.history[Len(m.history)].lsn]
    BY <1>2 DEF AfterElected, Persisted, Truncated, SafekeeperOK, SafekeeperType, k0
  <1>5. /\ r.term = k1.term /\ r.history = m.history /\ r.flush = k1.flush /\ r.wal = k1.wal
        /\ r.commit = k1.commit /\ r.pcommit = k1.commit
        /\ r.horizon = k1.horizon /\ r.phorizon = k1.horizon
    BY <1>2, <1>4 DEF Truncated, SafekeeperOK, SafekeeperType
  <1> HIDE DEF k1, r
  <1>6. k.wal \in Seq(Computes) /\ m.start \in 1..EndOf(k.wal)
    BY <1>1, SafekeeperFields DEF WriteLsn
  <1>7. /\ Len(r.wal) = m.start - 1
        /\ \A l \in 1..(m.start - 1) : r.wal[l] = k.wal[l]
    BY <1>2, <1>3, <1>5, <1>6, BelowFields
  <1>8. WriteLsn(r) = m.start
    BY <1>1, <1>7 DEF WriteLsn, EndOf
  <1> QED
    BY <1>2, <1>3, <1>5, <1>7, <1>8 DEF r

\* A leader that is not behind a safekeeper knows what is committed there.
LEMMA LeaderKnows ==
    ASSUME TypeInv, NEW x, Fits(x), Traced, NEW s \in Safekeepers,
           NEW u \in x.led, sk[s].term <= u
    PROVE  /\ KnownIn(x, u, x.hist[u], sk[s].commit)
           /\ \E t \in x.led : /\ Follows(x.hist[u], x.hist[t], sk[s].commit)
                               /\ Follows(x.hist[x.at[s]], x.hist[t], sk[s].commit)
  <1> DEFINE c == sk[s].commit
  <1>1. /\ x \in View /\ Tree(x) /\ LeadersCover(x) /\ CommitOK(x, s, sk[s])
        /\ sk[s] \in SafekeeperOK /\ x.term[s] = sk[s].term
    BY FitsFields
  <1>2. PICK t \in x.led : /\ t <= x.term[s] /\ Committed(x, t, c)
                           /\ Follows(x.hist[x.at[s]], x.hist[t], c)
    BY <1>1 DEF CommitOK, KnownIn
  <1>3. t \in Nat /\ u \in Nat /\ c \in Nat /\ sk[s].term \in Nat /\ x.hist[u] \in History
    BY <1>1, LeaderHistory, SafekeeperFields
  <1>4. t <= u
    BY <1>1, <1>2, <1>3
  <1>5. Accepted(x, t, c)
    BY <1>2 DEF Committed
  <1> HIDE DEF c
  <1>6. Follows(x.hist[u], x.hist[t], c)
    <2>1. CASE t = u
      BY <1>3, <2>1, FollowsItself
    <2>2. CASE t < u
      BY <1>1, <1>3, <1>5, <2>2, LaterLeaderCovers
    <2> QED
      BY <1>3, <1>4, <2>1, <2>2
  <1> QED
    BY <1>2, <1>4, <1>6 DEF KnownIn, c

\* So no point that handle_elected truncates to is below what it serves.
LEMMA CommittedSpared == SafetyInv /\ Traced => CommittedIsNotTruncated
  <1> SUFFICES ASSUME SafetyInv, Traced, NEW p \in Computes, NEW s \in Safekeepers,
                      NEW live \in BOOLEAN, IsNext(p, s, live, "elected"),
                      ~ElectedIgnored(sk[s], Head(Incoming(p, s, live))),
                      CommonPoint(sk[s], Head(Incoming(p, s, live)))
                          = Head(Incoming(p, s, live)).start
               PROVE  Head(Incoming(p, s, live)).start >= sk[s].commit
    BY DEF CommittedIsNotTruncated
  <1>0. TypeInv
    BY DEF SafetyInv, ElectionInv
  <1>1. PICK x : Fits(x)
    BY DEF SafetyInv, Fitting
  <1>2. PICK m : m = Head(Incoming(p, s, live))
    OBVIOUS
  <1>3. PICK k : k = sk[s]
    OBVIOUS
  <1>4. m \in ElectedType /\ m.type = "elected" /\ ReqOK(x, m)
    BY <1>0, <1>1, <1>2, IncomingType, NextRequestFits
  <1>5. m.term \in x.led /\ m.history = x.hist[m.term]
    BY <1>4 DEF ReqOK
  <1>6. /\ x \in View /\ Tree(x) /\ k \in SafekeeperOK /\ x.at[s] \in x.led
        /\ k.history = x.hist[x.at[s]] /\ CommitOK(x, s, k)
    BY <1>0, <1>1, <1>3, FitsFields
  <1>7. k.flush \in Nat /\ k.commit \in Nat /\ k.term \in Nat /\ k.pcommit \in Nat
    BY <1>6, SafekeeperFields
  <1>8. 1 <= k.commit /\ k.commit <= k.flush
    BY <1>6, <1>7 DEF CommitOK
  <1>9. m.term \in Nat /\ k.term <= m.term
    <2>1. m.term \in Nat
      BY <1>5, <1>6, LeaderHistory
    <2> QED
      BY <1>2, <1>3, <1>7, <2>1 DEF ElectedIgnored
  <1>10. PICK t \in x.led : /\ Follows(x.hist[m.term], x.hist[t], k.commit)
                            /\ Follows(x.hist[x.at[s]], x.hist[t], k.commit)
    BY <1>0, <1>1, <1>3, <1>5, <1>9, LeaderKnows
  <1>11. /\ x.hist[t] \in History /\ x.hist[t] # <<>> /\ x.hist[t][1].lsn <= k.commit
         /\ m.history \in History /\ Ordered(m.history)
         /\ k.history \in History /\ Ordered(k.history)
    BY <1>5, <1>6, <1>8, <1>10, LeaderHistory
  <1>12. HighestCommonPoint(m.history, TermHistoryOf(k), k.flush) >= k.commit
    BY <1>5, <1>6, <1>7, <1>8, <1>10, <1>11, CommonPointReaches DEF TermHistoryOf
  <1>13. HighestCommonPoint(m.history, TermHistoryOf(k), k.flush) # InvalidLsn
    BY <1>7, <1>8, <1>12 DEF InvalidLsn
  <1>14. CommonPoint(k, m) >= k.commit
    BY <1>12, <1>13 DEF CommonPoint
  <1> QED
    BY <1>2, <1>3, <1>14

\* handle_elected.
LEMMA ElectedMoves ==
    ASSUME TypeInv, NEW x, Fits(x), NEW s \in Safekeepers, NEW m \in ElectedType, ReqOK(x, m),
           ~ElectedIgnored(sk[s], m), ~ElectedRefused(sk[s], m)
    PROVE  /\ AfterElected(sk[s], m) \in SafekeeperOK
           /\ AfterElected(sk[s], m).term = m.term
           /\ MayMove(x, s, AfterElected(sk[s], m), m.term)
  <1>0. PICK k : k = sk[s]
    OBVIOUS
  <1>1. /\ k \in SafekeeperOK /\ WalOK(x, s, k) /\ CommitOK(x, s, k) /\ x \in View /\ Tree(x)
        /\ x.at[s] \in x.led /\ Core(x) /\ x.term[s] = k.term
    BY <1>0, FitsFields
  <1>2. /\ m.start \in Nat /\ 1 <= m.start /\ m.start <= WriteLsn(k) /\ m.start <= k.flush
        /\ k.commit <= m.start /\ k.term <= m.term
        /\ m.term \in x.led /\ m.history = x.hist[m.term] /\ m.start <= x.limit[m.term]
        /\ SameLog(x, m.term, x.at[s], m.start)
    BY <1>0, TruncationPoint
  <1>3. \A t \in x.led, c \in Nat : 1 <= c /\ c <= x.acc[s][t] =>
                 \/ Excluded(x, t, c)
                 \/ c <= m.start /\ Follows(m.history, x.hist[t], c)
    BY TruncationPoint
  <1> DEFINE r == AfterElected(k, m)
  <1>4. r \in SafekeeperOK
    BY <1>0, <1>1, AfterElectedType
  <1>5. /\ r.term = m.term /\ r.history = m.history /\ r.flush = m.start
        /\ r.commit = k.commit /\ r.pcommit = k.commit
        /\ r.horizon = k.horizon /\ r.phorizon = k.horizon
        /\ WriteLsn(r) = m.start /\ Len(r.wal) = m.start - 1
        /\ \A l \in 1..(m.start - 1) : r.wal[l] = k.wal[l]
    BY <1>1, <1>2, ElectedFields
  <1> HIDE DEF r
  <1>6. /\ k.commit \in Nat /\ k.pcommit \in Nat /\ k.term \in Nat /\ WriteLsn(k) = 1 + Len(k.wal)
        /\ Len(k.wal) \in Nat /\ m.term \in Nat /\ End(x) \in Nat
    BY <1>1, SafekeeperFields, EndIs DEF ElectedType
  <1>7. \A l \in 1..Len(r.wal) : r.wal[l] = x.log[m.term][l]
    <2> SUFFICES ASSUME NEW l \in 1..(m.start - 1) PROVE r.wal[l] = x.log[m.term][l]
      BY <1>5
    <2>1. l \in 1..Len(k.wal) /\ l \in Nat /\ 1 <= l /\ l < m.start
      BY <1>2, <1>6
    <2>2. k.wal[l] = x.log[x.at[s]][l]
      BY <1>1, <2>1 DEF WalOK
    <2>3. x.log[m.term][l] = x.log[x.at[s]][l]
      BY <1>2, <2>1 DEF SameLog
    <2> QED
      BY <1>5, <2>2, <2>3
  <1>8. \A l \in Nat : 1 <= l /\ l < r.commit => x.chosen[l] = x.log[m.term][l]
    BY <1>1, <1>2, <1>5, <1>6 DEF SameLog, CommitOK
  <1>9. KeepsAccepted(x, s, r.history, r.flush, r.term + 1)
    BY <1>3, <1>5 DEF KeepsAccepted
  <1>10. /\ 1 <= r.pcommit /\ r.pcommit <= r.commit /\ r.commit <= r.flush /\ r.commit <= End(x)
         /\ r.horizon >= 1 /\ r.phorizon >= 1
         /\ Everywhere(x, r.horizon) /\ Everywhere(x, r.phorizon)
    BY <1>1, <1>2, <1>5, <1>6 DEF CommitOK
  <1>11. Traced => KnownIn(x, r.term, r.history, r.commit)
    BY <1>0, <1>1, <1>2, <1>5, LeaderKnows
  <1>12. MayMove(x, s, r, m.term)
    BY <1>1, <1>2, <1>5, <1>6, <1>7, <1>8, <1>9, <1>10, <1>11 DEF MayMove
  <1> QED
    BY <1>0, <1>4, <1>5, <1>12 DEF r

\* A crash in the middle of it.
LEMMA CrashInElectedMoves ==
    ASSUME TypeInv, NEW x, Fits(x), NEW s \in Safekeepers, NEW m \in ElectedType, ReqOK(x, m),
           ~ElectedIgnored(sk[s], m), ~ElectedRefused(sk[s], m),
           NEW end \in m.start..WriteLsn(sk[s])
    PROVE  /\ Restarted(WithTerm(sk[s], m.term), end) \in SafekeeperOK
           /\ MayMove(x, s, Restarted(WithTerm(sk[s], m.term), end), x.at[s])
  <1>0. PICK k : k = sk[s]
    OBVIOUS
  <1>1. /\ k \in SafekeeperOK /\ WalOK(x, s, k) /\ CommitOK(x, s, k) /\ x \in View /\ Tree(x)
        /\ x.at[s] \in x.led /\ Core(x) /\ x.term[s] = k.term /\ k.history = x.hist[x.at[s]]
        /\ AccOK(x)
    BY <1>0, FitsFields
  <1>2. /\ m.start \in Nat /\ 1 <= m.start /\ k.commit <= m.start /\ k.term <= m.term
    BY <1>0, TruncationPoint
  <1>3. \A t \in x.led, c \in Nat : 1 <= c /\ c <= x.acc[s][t] =>
                 \/ Excluded(x, t, c)
                 \/ c <= m.start /\ Follows(k.history, x.hist[t], c)
    BY <1>0, TruncationPoint
  <1>4. /\ k.commit \in Nat /\ k.pcommit \in Nat /\ k.term \in Nat /\ WriteLsn(k) = 1 + Len(k.wal)
        /\ Len(k.wal) \in Nat /\ m.term \in Nat /\ End(x) \in Nat /\ WriteLsn(k) \in Nat
    BY <1>1, SafekeeperFields, EndIs DEF ElectedType
  <1>5. PICK k0 : k0 = WithTerm(k, m.term)
    OBVIOUS
  <1>6. /\ k0 \in SafekeeperOK /\ k0.term = m.term /\ k0.wal = k.wal /\ k0.history = k.history
        /\ k0.pcommit \in {k.pcommit, k.commit} /\ k0.phorizon \in {k.phorizon, k.horizon}
    BY <1>1, <1>2, <1>4, <1>5, WithTermType, SimpleFields, Zenon
  <1>7. end \in 1..WriteLsn(k0) /\ end \in Nat /\ m.start <= end /\ end <= WriteLsn(k)
    BY <1>0, <1>2, <1>4, <1>6 DEF WriteLsn
  <1>8. PICK r : r = Restarted(k0, end)
    OBVIOUS
  <1>9. r \in SafekeeperOK
    BY <1>6, <1>7, <1>8, RestartedType
  <1>10. /\ r.history = k0.history /\ r.term = k0.term
         /\ r.flush = end /\ r.commit = k0.pcommit
         /\ r.pcommit = k0.pcommit /\ r.horizon = k0.phorizon /\ r.phorizon = k0.phorizon
         /\ WriteLsn(r) = end /\ Len(r.wal) = end - 1
         /\ \A l \in 1..(end - 1) : r.wal[l] = k0.wal[l]
    BY <1>6, <1>7, <1>8, RestartedFields
  <1>11. k0.pcommit \in Nat /\ k0.pcommit <= k.commit /\ 1 <= k0.pcommit /\ k.commit <= End(x)
    BY <1>1, <1>4, <1>6 DEF CommitOK
  <1>12. /\ 1 <= r.pcommit /\ r.pcommit <= r.commit /\ r.commit <= r.flush /\ r.commit <= End(x)
         /\ r.horizon >= 1 /\ r.phorizon >= 1
         /\ Everywhere(x, r.horizon) /\ Everywhere(x, r.phorizon)
    BY <1>1, <1>2, <1>4, <1>6, <1>7, <1>10, <1>11 DEF CommitOK
  <1>13. \A l \in Nat : 1 <= l /\ l < r.commit => x.chosen[l] = x.log[x.at[s]][l]
    BY <1>1, <1>4, <1>10, <1>11 DEF CommitOK
  <1>14. \A l \in 1..Len(r.wal) : r.wal[l] = x.log[x.at[s]][l]
    BY <1>1, <1>4, <1>6, <1>7, <1>10 DEF WalOK
  <1>15. WriteLsn(r) <= x.limit[x.at[s]]
    <2>1. x.limit[x.at[s]] \in Nat
      BY <1>1, ViewFields, Zenon
    <2> QED
      BY <1>1, <1>4, <1>7, <1>10, <2>1 DEF WalOK
  <1>16. KeepsAccepted(x, s, r.history, r.flush, r.term + 1)
    BY <1>2, <1>3, <1>6, <1>7, <1>10 DEF KeepsAccepted
  <1>17. x.at[s] <= m.term /\ x.at[s] \in Nat
    BY <1>1, <1>2, <1>4, ViewFields DEF AccOK
  <1>18. ASSUME Traced PROVE KnownIn(x, r.term, r.history, r.commit)
    <2>1. KnownIn(x, x.term[s], k.history, k.commit)
      BY <1>1, <1>18 DEF CommitOK
    <2>2. k.history \in History
      BY <1>1, SafekeeperFields
    <2> QED
      BY <1>1, <1>2, <1>4, <1>6, <1>10, <1>11, <2>1, <2>2, KnownLess
  <1>19. MayMove(x, s, r, x.at[s])
    BY <1>1, <1>2, <1>6, <1>10, <1>12, <1>13, <1>14, <1>15, <1>16, <1>17, <1>18 DEF MayMove
  <1> QED
    BY <1>0, <1>5, <1>8, <1>9, <1>19
-----------------------------------------------------------------------------
(***************************************************************************)
(* Every step of a safekeeper keeps the invariant.                         *)
(***************************************************************************)
\* A vote reports all that its voter has accepted.
LEMMA VoteFits ==
    ASSUME TypeInv, NEW x, Fits(x), NEW s \in Safekeepers, NEW m \in VoteRequestType,
           NEW y, y = Moved(x, s, AfterVoteRequest(sk[s], m), x.at[s])
    PROVE  VoteOK(y, s, VoteResponse(sk[s], m))
  <1>0. PICK k : k = sk[s]
    OBVIOUS
  <1>00. PICK k1 : k1 = AfterVoteRequest(k, m)
    OBVIOUS
  <1>000. PICK r : r = VoteResponse(k, m)
    OBVIOUS
  <1>1. /\ k \in SafekeeperOK /\ x \in View /\ Tree(x) /\ AccOK(x) /\ CommitOK(x, s, k)
        /\ x.at[s] \in x.led /\ Core(x) /\ x.term[s] = k.term /\ k.history = x.hist[x.at[s]]
        /\ WalOK(x, s, k)
    BY <1>0, FitsFields
  <1>2. /\ k.term \in Nat /\ WriteLsn(k) \in Nat /\ WriteLsn(k) >= 1 /\ k.horizon \in Nat
        /\ m.term \in Nat
    BY <1>1, SafekeeperFields DEF VoteRequestType
  <1>3. /\ k1 \in SafekeeperOK /\ k1.history = k.history /\ k1.flush = WriteLsn(k)
        /\ k1.term = Larger(k.term, m.term)
    <2>1. Flushed(k) \in SafekeeperOK
      BY <1>1, FlushedType
    <2>2. k1 = WithTerm(Flushed(k), m.term)
      BY <1>00 DEF AfterVoteRequest
    <2>3. k1.history = k.history /\ k1.flush = WriteLsn(k)
      BY <1>1, <1>2, <2>1, <2>2, SimpleFields
    <2> QED
      BY <1>1, <1>00, <2>3, AfterVoteType
  <1>4. /\ r.term = k1.term /\ r.given = (k.term < m.term) /\ r.flush = k1.flush
        /\ r.truncate = k.horizon /\ r.history = UpTo(k1.history, k1.flush)
    BY <1>00, <1>000 DEF VoteResponse, TermHistoryOf
  <1> SUFFICES ASSUME r.given PROVE VoteOK(y, s, r)
    BY <1>0, <1>000 DEF VoteOK
  <1>5. MayMove(x, s, k1, x.at[s]) /\ y = Moved(x, s, k1, x.at[s])
    BY <1>0, <1>00, SimpleMoves
  <1>6. Grown(x, y) /\ Core(y) /\ SkOK(y, s, k1)
    BY <1>1, <1>3, <1>5, MovedGrows, MovedSafekeeper
  <1>7. /\ y \in View /\ y.led = x.led /\ y.hist = x.hist /\ y.limit = x.limit
        /\ y.term[s] = k1.term /\ y.at[s] = x.at[s] /\ x.at[s] \in Nat /\ Tree(y)
    <2>1. x.at[s] \in Nat
      BY <1>1, ViewFields
    <2> QED
      BY <1>1, <1>3, <1>5, <1>6, <2>1, MovedFields DEF Core
  <1>8. k1.term = m.term /\ k.term < m.term /\ x.at[s] < m.term
    <2>1. k.term < m.term
      BY <1>4, Zenon
    <2> QED
      BY <1>1, <1>2, <1>3, <1>7, <2>1 DEF Larger, AccOK
  <1> DEFINE a == x.at[s]
             z == HighestTerm(r.history)
  <1>9. WriteLsn(k) <= y.limit[a] /\ a \in y.led
    BY <1>1, <1>7 DEF WalOK
  <1>10. r.history = UpTo(y.hist[a], k1.flush)
    BY <1>1, <1>3, <1>4, <1>7
  <1>11. /\ z \in y.led /\ z <= a /\ y.hist[z] = r.history
         /\ StartOf(y, z) <= r.flush /\ r.flush <= y.limit[z] /\ SameLog(y, a, z, r.flush)
    BY <1>2, <1>3, <1>4, <1>7, <1>9, <1>10, CutLog
  <1>12. z < m.term
    <2>1. z \in Nat /\ a \in Nat
      BY <1>7, <1>11, ViewFields, Zenon
    <2> HIDE DEF z
    <2> QED
      BY <1>2, <1>8, <1>11, <2>1
  <1>13. Everywhere(y, r.truncate)
    BY <1>1, <1>2, <1>4, <1>6, EverywhereStays DEF CommitOK
  <1>14. KeepsAccepted(y, s, r.history, r.flush, m.term)
    <2> SUFFICES ASSUME NEW t \in y.led, NEW c \in Nat, t < m.term, 1 <= c, c <= y.acc[s][t]
                 PROVE  (c <= r.flush /\ Follows(r.history, y.hist[t], c)) \/ Excluded(y, t, c)
      BY DEF KeepsAccepted
    <2>1. t \in Nat /\ y.hist[t] \in History /\ k1.history \in History /\ k1.flush \in Nat
      BY <1>3, <1>7, LeaderHistory, SafekeeperFields
    <2>2. t < k1.term + 1
      BY <1>2, <1>8, <2>1
    <2>3. (c <= k1.flush /\ Follows(k1.history, y.hist[t], c)) \/ Excluded(y, t, c)
      BY <1>6, <2>2 DEF SkOK, KeepsAccepted
    <2> QED
      BY <1>4, <2>1, <2>3, FollowsCut
  <1> HIDE DEF z
  <1>15. y.term[s] >= r.term /\ r.term = m.term
    BY <1>2, <1>4, <1>7, <1>8
  <1> QED
    BY <1>4, <1>7, <1>11, <1>12, <1>13, <1>14, <1>15 DEF VoteOK, z

\* handle_vote_request.
LEMMA HandleVoteFits ==
    ASSUME TypeInv, TypeInv', Fitting, NEW p \in Computes, NEW s \in Safekeepers,
           NEW live \in BOOLEAN, HandleVoteRequest(p, s, live)
    PROVE  Fitting'
  <1>1. PICK x : Fits(x)
    BY DEF Fitting
  <1>2. PICK m : m = Head(Incoming(p, s, live))
    OBVIOUS
  <1>3. /\ IsNext(p, s, live, "vote") /\ sk' = [sk EXCEPT ![s] = AfterVoteRequest(sk[s], m)]
        /\ Done(p, s, live, <<VoteResponse(sk[s], m)>>, FALSE)
        /\ UNCHANGED <<wp, info, wins, chosen>>
    BY <1>2, Zenon DEF HandleVoteRequest, TypeInv
  <1>4. m \in VoteRequestType
    BY <1>2, <1>3, IncomingType
  <1>5. PICK k : k = AfterVoteRequest(sk[s], m)
    OBVIOUS
  <1>6. PICK r : r = VoteResponse(sk[s], m)
    OBVIOUS
  <1>7. sk[s] \in SafekeeperOK
    BY DEF TypeInv
  <1>8. k \in SafekeeperOK /\ r \in VoteResponseType /\ MayMove(x, s, k, x.at[s])
    BY <1>1, <1>4, <1>5, <1>6, <1>7, AfterVoteType, VoteResponseIsTyped, SimpleMoves
  <1>9. PICK y : y = Moved(x, s, k, x.at[s])
    OBVIOUS
  <1>10. VoteOK(y, s, r)
    BY <1>1, <1>4, <1>5, <1>6, <1>9, VoteFits
  <1>11. r.type = "vote"
    BY <1>8 DEF VoteResponseType
  <1>12. RepOK(y, s, wp[p], r)
    BY <1>10, <1>11 DEF RepOK
  <1>13. <<r>> \in Seq(ReplyType) /\ \A i \in 1..Len(<<r>>) : <<r>>[i] = r
    BY <1>8 DEF ReplyType
  <1>14. PICK reply : reply = <<r>>
    BY Zenon
  <1>17. PICK dirty \in BOOLEAN : dirty = FALSE
    BY Zenon
  <1>15. reply \in Seq(ReplyType) /\ AnswerOK(y, s, wp[p], reply, dirty)
    BY <1>12, <1>13, <1>14, <1>17 DEF AnswerOK
  <1>16. /\ sk' = [sk EXCEPT ![s] = k] /\ Done(p, s, live, reply, dirty)
    BY <1>3, <1>5, <1>6, <1>14, <1>17, Zenon
  <1>18. HandlerStep(x, y, p, s, live, "vote", m, k, x.at[s], reply, dirty)
    BY <1>1, <1>2, <1>3, <1>8, <1>9, <1>15, <1>16, Zenon DEF HandlerStep
  <1> QED
    BY <1>8, <1>15, <1>18, HandlerFits

\* handle_elected.
LEMMA HandleElectedFits ==
    ASSUME TypeInv, TypeInv', Fitting, NEW p \in Computes, NEW s \in Safekeepers,
           NEW live \in BOOLEAN, HandleElected(p, s, live)
    PROVE  Fitting'
  <1>1. PICK x : Fits(x)
    BY DEF Fitting
  <1>2. PICK m : m = Head(Incoming(p, s, live))
    OBVIOUS
  <1>3. /\ IsNext(p, s, live, "elected") /\ UNCHANGED <<wp, info, wins, chosen>>
        /\ \/ ElectedIgnored(sk[s], m) /\ Done(p, s, live, <<>>, FALSE) /\ UNCHANGED sk
           \/ /\ sk' = [sk EXCEPT ![s] = WithTerm(sk[s], m.term)]
              /\ Bail(p, s, live)
           \/ /\ ~ElectedIgnored(sk[s], m) /\ ~ElectedRefused(sk[s], m)
              /\ sk' = [sk EXCEPT ![s] = AfterElected(sk[s], m)]
              /\ Done(p, s, live, <<>>, FALSE)
    BY <1>2, Zenon DEF HandleElected, TypeInv
  <1>4. m \in ElectedType /\ ReqOK(x, m) /\ m.term \in Nat
    <2>1. m \in ElectedType /\ ReqOK(x, m)
      BY <1>1, <1>2, <1>3, IncomingType, NextRequestFits
    <2> QED
      BY <2>1 DEF ElectedType
  <1>5. /\ sk[s] \in SafekeeperOK /\ sk[s].term \in Nat /\ sk \in [Safekeepers -> SafekeeperOK]
        /\ x \in View /\ x.at[s] \in Nat
    BY <1>1, FitsFields, SafekeeperFields, ViewFields DEF TypeInv
  <1>6. PICK reply : reply = <<>>
    OBVIOUS
  <1>70. PICK dirty \in BOOLEAN : dirty = FALSE
    BY Zenon
  <1>7. reply \in Seq(ReplyType) /\ \A y : AnswerOK(y, s, wp[p], reply, dirty)
    <2>1. Len(reply) = 0 /\ reply \in Seq(ReplyType)
      BY <1>6
    <2>2. 1..Len(reply) = {}
      BY <2>1
    <2> QED
      BY <1>70, <2>1, <2>2 DEF AnswerOK
  <1>8. CASE ElectedIgnored(sk[s], m) /\ Done(p, s, live, <<>>, FALSE) /\ UNCHANGED sk
    <2>1. PICK k : k = sk[s]
      OBVIOUS
    <2>2. k \in SafekeeperOK /\ MayMove(x, s, k, x.at[s]) /\ sk' = [sk EXCEPT ![s] = k]
      <3>1. [type |-> "vote", term |-> 0] \in VoteRequestType
        BY DEF VoteRequestType
      <3> QED
        BY <1>1, <1>4, <1>5, <1>8, <2>1, <3>1, SimpleMoves
    <2>3. PICK y : y = Moved(x, s, k, x.at[s])
      OBVIOUS
    <2>4. y.term[s] = k.term
      BY <1>5, <2>2, <2>3, MovedFields
    <2>5. Streamed(y, s, m.term)
      BY <1>8, <2>1, <2>4 DEF Streamed, ElectedIgnored
    <2>6. Done(p, s, live, reply, dirty)
      BY <1>6, <1>8, <1>70, Zenon
    <2>7. HandlerStep(x, y, p, s, live, "elected", m, k, x.at[s], reply, dirty)
      BY <1>1, <1>2, <1>3, <1>7, <2>2, <2>3, <2>5, <2>6 DEF HandlerStep
    <2> QED
      BY <1>7, <2>2, <2>7, HandlerFits
  <1>9. CASE sk' = [sk EXCEPT ![s] = WithTerm(sk[s], m.term)] /\ Bail(p, s, live)
    <2>1. PICK k : k = WithTerm(sk[s], m.term)
      OBVIOUS
    <2>2. k \in SafekeeperOK /\ MayMove(x, s, k, x.at[s]) /\ sk' = [sk EXCEPT ![s] = k]
      <3>1. [type |-> "vote", term |-> 0] \in VoteRequestType
        BY DEF VoteRequestType
      <3> QED
        BY <1>1, <1>4, <1>5, <1>9, <2>1, <3>1, SimpleMoves, WithTermType
    <2>3. \A q \in Computes, z \in Safekeepers :
              /\ conn'[q][z] = conn[q][z] \/ conn'[q][z] = Offline(conn[q][z])
              /\ old'[q][z] = old[q][z] \/ old'[q][z] = NoOld
      BY <1>9, BailFields
    <2> QED
      BY <1>1, <1>3, <2>2, <2>3, DroppingFits, Zenon
  <1>10. CASE /\ ~ElectedIgnored(sk[s], m) /\ ~ElectedRefused(sk[s], m)
              /\ sk' = [sk EXCEPT ![s] = AfterElected(sk[s], m)]
              /\ Done(p, s, live, <<>>, FALSE)
    <2>1. PICK k : k = AfterElected(sk[s], m)
      OBVIOUS
    <2>2. k \in SafekeeperOK /\ MayMove(x, s, k, m.term) /\ k.term = m.term
      BY <1>1, <1>4, <1>10, <2>1, ElectedMoves
    <2>3. PICK y : y = Moved(x, s, k, m.term)
      OBVIOUS
    <2>4. y.term[s] = m.term /\ y.at[s] = m.term
      BY <1>4, <1>5, <2>2, <2>3, MovedFields
    <2>5. Streamed(y, s, m.term)
      BY <2>4 DEF Streamed
    <2>6. Done(p, s, live, reply, dirty) /\ sk' = [sk EXCEPT ![s] = k]
      BY <1>6, <1>10, <1>70, <2>1, Zenon
    <2>7. HandlerStep(x, y, p, s, live, "elected", m, k, m.term, reply, dirty)
      BY <1>1, <1>2, <1>3, <1>7, <2>2, <2>3, <2>5, <2>6 DEF HandlerStep
    <2> QED
      BY <1>7, <2>2, <2>7, HandlerFits
  <1> QED
    BY <1>3, <1>8, <1>9, <1>10, Zenon

\* Whoever sends WAL is elected, in the term of what is sent.
LEMMA SenderIsElected ==
    ASSUME TypeInv, NEW x, Fits(x), NEW p \in Computes, NEW s \in Safekeepers,
           NEW type, IsNext(p, s, TRUE, type), type # "vote"
    PROVE  wp[p].state = "elected" /\ Head(Incoming(p, s, TRUE)).term = wp[p].term
  <1>1. PICK q : q = conn[p][s].req
    OBVIOUS
  <1>2. Incoming(p, s, TRUE) = q
    BY <1>1 DEF Incoming
  <1>3. q \in Seq(RequestType) /\ q # <<>> /\ Head(q).type = type
    BY <1>2, IncomingType, Zenon
  <1>4. 1 \in 1..Len(q) /\ Head(q) = q[1]
    BY <1>3, EmptySeq, LenProperties
  <1>5. LinkOK(x, s, wp[p], conn[p][s])
    BY DEF Fits
  <1>6. \A i \in 1..Len(q) : q[i].type # "vote" => wp[p].state = "elected" /\ q[i].term = wp[p].term
    BY <1>1, <1>5 DEF LinkOK
  <1>7. q[1].type # "vote"
    BY <1>3, <1>4
  <1>8. wp[p].state = "elected" /\ q[1].term = wp[p].term
    BY <1>4, <1>6, <1>7
  <1> QED
    BY <1>2, <1>4, <1>8, Zenon

\* An answer that has nothing to say.
LEMMA NoAnswer ==
    ASSUME NEW y, NEW s, NEW w, NEW dirty \in BOOLEAN,
           dirty => w.state = "elected" /\ Streamed(y, s, w.term)
    PROVE  <<>> \in Seq(ReplyType) /\ AnswerOK(y, s, w, <<>>, dirty)
  <1>1. 1..Len(<<>>) = {}
    OBVIOUS
  <1> QED
    BY <1>1 DEF AnswerOK

\* An answer.
LEMMA OneAnswer ==
    ASSUME NEW y, NEW s, NEW w, NEW dirty \in BOOLEAN, NEW r \in ReplyType, RepOK(y, s, w, r),
           dirty => w.state = "elected" /\ Streamed(y, s, w.term)
    PROVE  <<r>> \in Seq(ReplyType) /\ AnswerOK(y, s, w, <<r>>, dirty)
  <1>1. <<r>> \in Seq(ReplyType) /\ \A i \in 1..Len(<<r>>) : <<r>>[i] = r
    OBVIOUS
  <1> QED
    BY <1>1 DEF AnswerOK

\* A safekeeper may stay as it is.
LEMMA StayMoves ==
    ASSUME TypeInv, NEW x, Fits(x), NEW s \in Safekeepers
    PROVE  /\ sk[s] \in SafekeeperOK /\ MayMove(x, s, sk[s], x.at[s])
           /\ sk = [sk EXCEPT ![s] = sk[s]] /\ x.at[s] \in Nat /\ x \in View
  <1>1. [type |-> "vote", term |-> 0] \in VoteRequestType /\ 0 \in Nat
    BY DEF VoteRequestType
  <1>2. MayMove(x, s, sk[s], x.at[s])
    BY <1>1, SimpleMoves
  <1>3. sk \in [Safekeepers -> SafekeeperOK]
    BY DEF TypeInv
  <1>4. x \in View
    BY FitsFields
  <1> QED
    BY <1>2, <1>3, <1>4, ViewFields

\* handle_append_request.
LEMMA HandleAppendFits ==
    ASSUME TypeInv, TypeInv', Fitting, NEW p \in Computes, NEW s \in Safekeepers,
           NEW live \in BOOLEAN, HandleAppendRequest(p, s, live)
    PROVE  Fitting'
  <1>1. PICK x : Fits(x)
    BY DEF Fitting
  <1>2. PICK m : m = Head(Incoming(p, s, live))
    OBVIOUS
  <1>3. /\ IsNext(p, s, live, "append") /\ UNCHANGED <<wp, info, wins, chosen>>
        /\ \/ /\ AppendStale(sk[s], m) /\ Done(p, s, live, <<TermOnlyResponse(sk[s])>>, TRUE)
              /\ UNCHANGED sk
           \/ Bail(p, s, live) /\ UNCHANGED sk
           \/ /\ ~AppendStale(sk[s], m) /\ ~AppendRefused(sk[s], m)
              /\ sk' = [sk EXCEPT ![s] = AfterAppend(sk[s], m)]
              /\ Done(p, s, live, <<>>, OwesFlush(p, s, AfterAppend(sk[s], m)))
    BY <1>2, Zenon DEF HandleAppendRequest, TypeInv
  <1>4. m \in AppendRequestType /\ ReqOK(x, m) /\ Streamed(x, s, m.term)
    BY <1>1, <1>2, <1>3, IncomingType, NextRequestFits
  <1>5. m.type = "append" /\ m.term \in Nat
    BY <1>4 DEF AppendRequestType
  <1>6. /\ sk[s] \in SafekeeperOK /\ MayMove(x, s, sk[s], x.at[s])
        /\ sk = [sk EXCEPT ![s] = sk[s]] /\ x.at[s] \in Nat /\ x \in View
    BY <1>1, StayMoves
  <1>7. live => wp[p].state = "elected" /\ m.term = wp[p].term
    BY <1>1, <1>2, <1>3, SenderIsElected, Zenon
  <1>8. CASE /\ AppendStale(sk[s], m) /\ Done(p, s, live, <<TermOnlyResponse(sk[s])>>, TRUE)
             /\ UNCHANGED sk
    <2>1. PICK k : k = sk[s]
      OBVIOUS
    <2>2. PICK y : y = Moved(x, s, k, x.at[s])
      OBVIOUS
    <2>3. y.term[s] = k.term /\ k.term > m.term /\ y \in View
      BY <1>6, <1>8, <2>1, <2>2, MovedFields DEF AppendStale
    <2>4. PICK dirty \in BOOLEAN : dirty = TRUE
      BY Zenon
    <2>5. PICK r : r = TermOnlyResponse(k)
      OBVIOUS
    <2>6. r \in ReplyType /\ r.type = "append" /\ r.term = k.term /\ r.commit = 0
      BY <1>6, <2>1, <2>5, AppendResponseIsTyped DEF ReplyType, TermOnlyResponse
    <2>7. End(y) \in Nat /\ End(y) >= 1
      BY <2>3, EndIs
    <2>8. PICK reply : reply = <<r>>
      BY Zenon
    <2>9. reply \in Seq(ReplyType)
      BY <2>6, <2>8
    <2>10. ASSUME live PROVE AnswerOK(y, s, wp[p], reply, dirty)
      <3>1. Streamed(y, s, wp[p].term) /\ wp[p].state = "elected" /\ r.term > wp[p].term
        BY <1>7, <2>3, <2>6, <2>10 DEF Streamed
      <3>2. RepOK(y, s, wp[p], r)
        BY <2>6, <2>7, <3>1 DEF RepOK
      <3> QED
        BY <2>6, <2>8, <3>1, <3>2, OneAnswer
    <2>11. HandlerStep(x, y, p, s, live, "append", m, k, x.at[s], reply, dirty)
      BY <1>1, <1>2, <1>3, <1>6, <1>8, <2>1, <2>2, <2>4, <2>5, <2>8, <2>10, Zenon DEF HandlerStep
    <2> QED
      BY <1>6, <2>1, <2>9, <2>11, HandlerFits
  <1>9. CASE Bail(p, s, live) /\ UNCHANGED sk
    <2>1. PICK k : k = sk[s]
      OBVIOUS
    <2>2. k \in SafekeeperOK /\ MayMove(x, s, k, x.at[s]) /\ sk' = [sk EXCEPT ![s] = k]
      BY <1>6, <1>9, <2>1
    <2>3. \A q \in Computes, z \in Safekeepers :
              /\ conn'[q][z] = conn[q][z] \/ conn'[q][z] = Offline(conn[q][z])
              /\ old'[q][z] = old[q][z] \/ old'[q][z] = NoOld
      BY <1>9, BailFields
    <2> QED
      BY <1>1, <1>3, <2>2, <2>3, DroppingFits, Zenon
  <1>10. CASE /\ ~AppendStale(sk[s], m) /\ ~AppendRefused(sk[s], m)
              /\ sk' = [sk EXCEPT ![s] = AfterAppend(sk[s], m)]
              /\ Done(p, s, live, <<>>, OwesFlush(p, s, AfterAppend(sk[s], m)))
    <2>1. PICK k : k = AfterAppend(sk[s], m)
      OBVIOUS
    <2>2. k \in SafekeeperOK /\ MayMove(x, s, k, x.at[s]) /\ k.term = m.term /\ x.at[s] = m.term
      BY <1>1, <1>4, <1>5, <1>10, <2>1, AppendMoves
    <2>3. PICK y : y = Moved(x, s, k, x.at[s])
      OBVIOUS
    <2>4. y.term[s] = m.term /\ y.at[s] = m.term
      BY <1>6, <2>2, <2>3, MovedFields
    <2>5. OwesFlush(p, s, k) \in BOOLEAN
      BY DEF OwesFlush
    <2>6. PICK dirty \in BOOLEAN : dirty = OwesFlush(p, s, k)
      BY <2>5
    <2>7. PICK reply : reply = <<>>
      OBVIOUS
    <2>8. reply \in Seq(ReplyType)
      BY <2>7
    <2>9. ASSUME live PROVE AnswerOK(y, s, wp[p], reply, dirty)
      <3>1. Streamed(y, s, wp[p].term) /\ wp[p].state = "elected"
        BY <1>7, <2>4, <2>9 DEF Streamed
      <3> QED
        BY <2>7, <3>1, NoAnswer
    <2>10. Done(p, s, live, reply, dirty)
      BY <1>10, <2>1, <2>6, <2>7
    <2>11. HandlerStep(x, y, p, s, live, "append", m, k, x.at[s], reply, dirty)
      BY <1>1, <1>2, <1>3, <1>10, <2>1, <2>2, <2>3, <2>9, <2>10 DEF HandlerStep
    <2> QED
      BY <2>2, <2>8, <2>11, HandlerFits
  <1> QED
    BY <1>3, <1>8, <1>9, <1>10, Zenon

\* A reply is sent.
LEMMA ReplyLink ==
    ASSUME NEW y, NEW s, NEW w, NEW c \in ConnOK, NEW d, LinkOK(y, s, w, c),
           d.req = c.req, d.state = c.state, d.ackFlush = c.ackFlush, d.dirty = FALSE,
           NEW r \in ReplyType, d.rep = Append(c.rep, r), RepOK(y, s, w, r)
    PROVE  LinkOK(y, s, w, d)
  <1>1. c.rep \in Seq(ReplyType)
    BY DEF ConnOK, ConnType
  <1>2. ASSUME NEW i \in 1..Len(d.rep) PROVE RepOK(y, s, w, d.rep[i])
    <2>1. /\ Len(c.rep) \in Nat /\ i \in 1..(Len(c.rep) + 1)
          /\ i \in 1..Len(c.rep) => d.rep[i] = c.rep[i]
          /\ i = Len(c.rep) + 1 => d.rep[i] = r
      BY <1>1, AppendProperties, LenProperties
    <2> QED
      BY <2>1 DEF LinkOK
  <1> QED
    BY <1>2 DEF LinkOK

\* The flush of WalAcceptor.
LEMMA FlushWalFits ==
    ASSUME TypeInv, TypeInv', Fitting, NEW p \in Computes, NEW s \in Safekeepers, FlushWal(p, s)
    PROVE  Fitting'
  <1>1. PICK x : Fits(x)
    BY DEF Fitting
  <1>2. PICK k : k = Flushed(sk[s])
    OBVIOUS
  <1>3. PICK c : c = conn[p][s]
    OBVIOUS
  <1>4. PICK r : r = AppendResponse(k)
    OBVIOUS
  <1>5. /\ c.dirty /\ sk' = [sk EXCEPT ![s] = k] /\ UNCHANGED <<wp, old, info, wins, chosen>>
        /\ conn' = [conn EXCEPT ![p][s] = [c EXCEPT !.dirty = FALSE, !.rep = Append(c.rep, r)]]
        /\ c \in ConnOK /\ conn \in [Computes -> [Safekeepers -> ConnOK]]
    <2>1. c \in ConnOK /\ conn \in [Computes -> [Safekeepers -> ConnOK]]
      BY <1>3 DEF TypeInv
    <2>2. c.dirty /\ sk' = [sk EXCEPT ![s] = k] /\ UNCHANGED <<wp, old, info, wins, chosen>>
      BY <1>2, <1>3 DEF FlushWal
    <2>3. conn' = [conn EXCEPT ![p][s].dirty = FALSE, ![p][s].rep = Append(@, r)]
      BY <1>2, <1>4 DEF FlushWal
    <2>4. conn' = [conn EXCEPT ![p][s] = [c EXCEPT !.dirty = FALSE, !.rep = Append(c.rep, r)]]
      BY <1>3, <2>1, <2>3, Zenon DEF ConnOK, ConnType
    <2> QED
      BY <2>1, <2>2, <2>4
  <1>6. sk[s] \in SafekeeperOK /\ x.at[s] \in Nat /\ x \in View
    BY <1>1, StayMoves
  <1>7. k \in SafekeeperOK /\ MayMove(x, s, k, x.at[s])
    <2>1. [type |-> "vote", term |-> 0] \in VoteRequestType /\ 0 \in Nat
      BY DEF VoteRequestType
    <2> QED
      BY <1>1, <1>2, <1>6, <2>1, SimpleMoves, FlushedType
  <1>8. PICK y : y = Moved(x, s, k, x.at[s])
    OBVIOUS
  <1>9. Grown(x, y) /\ Core(y) /\ SkOK(y, s, k)
    BY <1>1, <1>7, <1>8, MovedGrows, MovedSafekeeper DEF Fits
  <1>10. /\ r \in ReplyType /\ r.type = "append" /\ r.term = k.term /\ r.flush = k.flush
         /\ r.commit = k.pcommit
    BY <1>4, <1>7, AppendResponseIsTyped DEF ReplyType, AppendResponse
  <1>11. /\ wp[p] \in ProposerOK
         /\ wp[p].state = "elected" => wp[p].term \in x.led
    BY <1>1, ElectedIsLeader DEF TypeInv, Fits
  <1>12. LinkOK(y, s, wp[p], c)
    <2>1. LinkOK(x, s, wp[p], c)
      BY <1>1, <1>3 DEF Fits
    <2> QED
      BY <1>5, <1>9, <1>11, <2>1, LinkStays
  <1>13. wp[p].state = "elected" /\ Streamed(y, s, wp[p].term)
    BY <1>5, <1>12 DEF LinkOK
  <1>14. RepOK(y, s, wp[p], r)
    <2>1. /\ y.term[s] = k.term /\ k.history = y.hist[y.at[s]]
          /\ y.at[s] = k.term => y.acc[s][k.term] >= k.flush
          /\ k.pcommit <= k.commit /\ k.commit <= End(y)
      BY <1>9 DEF SkOK, WalOK, CommitOK
    <2>2. k.pcommit \in Nat /\ k.commit \in Nat /\ k.term \in Nat /\ k.flush \in Nat
      BY <1>7, SafekeeperFields
    <2>3. End(y) \in Nat /\ y.acc[s][k.term] \in Nat
      BY <1>9, <2>2, EndIs, ViewFields DEF Core
    <2>4. r.commit <= End(y)
      BY <1>10, <2>1, <2>2, <2>3
    <2>5. r.term > wp[p].term \/ (r.term = wp[p].term /\ r.flush <= y.acc[s][wp[p].term])
      BY <1>10, <1>13, <2>1, <2>2, <2>3 DEF Streamed
    <2> QED
      BY <1>10, <1>13, <2>4, <2>5 DEF RepOK
  <1>15. PICK d : d = [c EXCEPT !.dirty = FALSE, !.rep = Append(c.rep, r)]
    OBVIOUS
  <1>16. /\ d.req = c.req /\ d.state = c.state /\ d.ackFlush = c.ackFlush /\ d.dirty = FALSE
         /\ d.rep = Append(c.rep, r)
    BY <1>5, <1>15 DEF ConnOK, ConnType
  <1>17. LinkOK(y, s, wp[p], d)
    BY <1>5, <1>10, <1>12, <1>14, <1>16, ReplyLink, Zenon
  <1>18. LinksFit(y)
    <2>1. \A q \in Computes, z \in Safekeepers :
             IF q = p /\ z = s THEN conn'[q][z] = d ELSE conn'[q][z] = conn[q][z]
      BY <1>5, <1>15
    <2> QED
      BY <1>3, <1>5, <1>16, <1>17, <2>1 DEF LinksFit
  <1> QED
    BY <1>1, <1>5, <1>7, <1>8, <1>18, MoveFits, Zenon

\* The end of an abandoned connection.
LEMMA OldEndsFits ==
    ASSUME TypeInv, TypeInv', Fitting, NEW p \in Computes, NEW s \in Safekeepers, OldEnds(p, s)
    PROVE  Fitting'
  <1>1. PICK x : Fits(x)
    BY DEF Fitting
  <1>2. PICK k : k = IF old[p][s].dirty THEN Flushed(sk[s]) ELSE sk[s]
    OBVIOUS
  <1>3. k \in SafekeeperOK /\ MayMove(x, s, k, x.at[s])
    <2>1. [type |-> "vote", term |-> 0] \in VoteRequestType /\ 0 \in Nat
      BY DEF VoteRequestType
    <2>2. sk[s] \in SafekeeperOK /\ Flushed(sk[s]) \in SafekeeperOK
      BY FlushedType DEF TypeInv
    <2> QED
      BY <1>1, <1>2, <2>1, <2>2, SimpleMoves
  <1>4. sk' = [sk EXCEPT ![s] = k] /\ UNCHANGED <<wp, conn, info, wins, chosen>>
    BY <1>2 DEF OldEnds
  <1>5. \A q \in Computes, z \in Safekeepers : old'[q][z] = old[q][z] \/ old'[q][z] = NoOld
    BY DEF OldEnds, TypeInv
  <1> QED
    BY <1>1, <1>3, <1>4, <1>5, DroppingFits, Zenon

\* What is left when all connections of a safekeeper end.
LEMMA DroppedFields ==
    ASSUME TypeInv, NEW s \in Safekeepers, DropConnections(s)
    PROVE  \A q \in Computes, z \in Safekeepers :
              /\ conn'[q][z] = conn[q][z] \/ conn'[q][z] = Offline(conn[q][z])
              /\ old'[q][z] = old[q][z] \/ old'[q][z] = NoOld
    BY DEF DropConnections, TypeInv

\* A restart.
LEMMA CrashSafekeeperFits ==
    ASSUME TypeInv, TypeInv', Fitting, NEW s \in Safekeepers, CrashSafekeeper(s)
    PROVE  Fitting'
  <1>1. PICK x : Fits(x)
    BY DEF Fitting
  <1>2. PICK end \in sk[s].flush..WriteLsn(sk[s]) : sk' = [sk EXCEPT ![s] = Restarted(sk[s], end)]
    BY Zenon DEF CrashSafekeeper
  <1>3. PICK k : k = Restarted(sk[s], end)
    OBVIOUS
  <1>4. k \in SafekeeperOK /\ MayMove(x, s, k, x.at[s])
    BY <1>1, <1>3, RestartMoves
  <1>5. UNCHANGED <<wp, info, wins, chosen>> /\ DropConnections(s)
    BY DEF CrashSafekeeper
  <1> QED
    BY <1>1, <1>2, <1>3, <1>4, <1>5, DroppedFields, DroppingFits, Zenon

\* A restart in the middle of handle_elected.
LEMMA CrashInElectedFits ==
    ASSUME TypeInv, TypeInv', Fitting, NEW p \in Computes, NEW s \in Safekeepers,
           CrashInElected(p, s)
    PROVE  Fitting'
  <1>1. PICK x : Fits(x)
    BY DEF Fitting
  <1>2. PICK m : m = Head(conn[p][s].req)
    OBVIOUS
  <1>3. /\ IsNext(p, s, TRUE, "elected") /\ ~ElectedIgnored(sk[s], m) /\ ~ElectedRefused(sk[s], m)
        /\ UNCHANGED <<wp, info, wins, chosen>> /\ DropConnections(s)
    BY <1>2, Zenon DEF CrashInElected
  <1>4. PICK end \in m.start..WriteLsn(sk[s]) :
            sk' = [sk EXCEPT ![s] = Restarted(WithTerm(sk[s], m.term), end)]
    BY <1>2, Zenon DEF CrashInElected
  <1>5. m \in ElectedType /\ ReqOK(x, m)
    <2>1. PICK live \in BOOLEAN : live = TRUE
      BY Zenon
    <2>2. IsNext(p, s, live, "elected") /\ m = Head(Incoming(p, s, live))
      BY <1>2, <1>3, <2>1, Zenon DEF Incoming
    <2> QED
      BY <1>1, <2>2, IncomingType, NextRequestFits
  <1>6. PICK k : k = Restarted(WithTerm(sk[s], m.term), end)
    OBVIOUS
  <1>7. k \in SafekeeperOK /\ MayMove(x, s, k, x.at[s])
    BY <1>1, <1>3, <1>5, <1>6, CrashInElectedMoves
  <1> QED
    BY <1>1, <1>3, <1>4, <1>6, <1>7, DroppedFields, DroppingFits, Zenon

\* The control file is written, or the term bumped.
LEMMA SaveAndBumpFits ==
    ASSUME TypeInv, TypeInv', Fitting, NEW s \in Safekeepers, SaveControlFile(s) \/ TermBump(s)
    PROVE  Fitting'
  <1>1. PICK x : Fits(x)
    BY DEF Fitting
  <1>2. sk[s] \in SafekeeperOK /\ sk[s].term + 1 \in Nat
    BY SafekeeperFields DEF TypeInv
  <1>3. PICK k : k = IF SaveControlFile(s) THEN Persisted(sk[s]) ELSE WithTerm(sk[s], sk[s].term + 1)
    OBVIOUS
  <1>4. k \in SafekeeperOK
    BY <1>2, <1>3, PersistedType, WithTermType
  <1>5. MayMove(x, s, k, x.at[s])
    <2>1. [type |-> "vote", term |-> 0] \in VoteRequestType
      BY DEF VoteRequestType
    <2> QED
      BY <1>1, <1>2, <1>3, <2>1, SimpleMoves
  <1>6. sk' = [sk EXCEPT ![s] = k] /\ UNCHANGED <<wp, conn, old, info, wins, chosen>>
    BY <1>3 DEF SaveControlFile, TermBump, TermBumped
  <1> QED
    BY <1>1, <1>4, <1>5, <1>6, DroppingFits, Zenon

\* A message of the broker is received.
LEMMA RecordInfoFits ==
    ASSUME TypeInv, TypeInv', Fitting, NEW s \in Safekeepers, RecordSafekeeperInfo(s)
    PROVE  Fitting'
  <1>1. PICK x : Fits(x)
    BY DEF Fitting
  <1>2. PICK k : k = AfterPeerInfo(sk[s], info)
    OBVIOUS
  <1>3. k \in SafekeeperOK /\ MayMove(x, s, k, x.at[s])
    BY <1>1, <1>2, PeerInfoMoves
  <1>4. sk' = [sk EXCEPT ![s] = k] /\ UNCHANGED <<wp, conn, old, info, wins, chosen>>
    BY <1>2 DEF RecordSafekeeperInfo
  <1> QED
    BY <1>1, <1>3, <1>4, DroppingFits, Zenon

\* Of four safekeepers, a quorum leaves out one.
LEMMA OneIsLeftOut ==
    ASSUME Few, NEW Q \in SUBSET Safekeepers, IsQuorum(Q),
           NEW s \in Safekeepers, s \notin Q, NEW r \in Safekeepers, r # s
    PROVE  r \in Q
  <1> SUFFICES ASSUME r \notin Q PROVE FALSE
    OBVIOUS
  <1> DEFINE n == Cardinality(Safekeepers)
             R == Q \cup {s}
  <1>1. IsFiniteSet(Safekeepers) /\ IsFiniteSet(Q) /\ n \in Nat /\ Cardinality(Q) \in Nat
    BY SafekeepersAssumption, FS_Subset, FS_CardinalityType
  <1>2. IsFiniteSet(R) /\ Cardinality(R) = Cardinality(Q) + 1 /\ r \notin R
    BY <1>1, FS_AddElement
  <1>3. IsFiniteSet(R \cup {r}) /\ Cardinality(R \cup {r}) = Cardinality(R) + 1
    BY <1>2, FS_AddElement
  <1>4. Cardinality(R \cup {r}) <= n
    <2>1. R \cup {r} \subseteq Safekeepers
      OBVIOUS
    <2> QED
      BY <1>1, <2>1, FS_Subset
  <1>5. n <= 4 /\ Cardinality(Q) >= n \div 2 + 1
    BY DEF Few, IsQuorum
  <1> HIDE DEF n, R
  <1>6. Cardinality(Q) + 2 <= n
    BY <1>1, <1>2, <1>3, <1>4
  <1>7. n \in {0, 1, 2, 3, 4}
    BY <1>1, <1>5
  <1> QED
    BY <1>1, <1>5, <1>6, <1>7

\* Its commit_lsn is known to all that have heard of the leader it comes from.
LEMMA InfoIsPassedOn ==
    ASSUME TypeInv, NEW x, Fits(x), Few, NEW r \in Safekeepers
    PROVE  PassedOn(x, PeerInfo(sk[r]))
  <1> DEFINE k == sk[r]
             z == LastLogTerm(k)
             a == x.at[r]
             c == k.commit
  <1>1. /\ x \in View /\ Tree(x) /\ AccOK(x) /\ SkOK(x, r, k) /\ CommitOK(x, r, k)
        /\ k \in SafekeeperOK /\ x.term[r] = k.term /\ k.history = x.hist[a] /\ a \in x.led
    BY FitsFields
  <1>2. z \in x.led /\ x.hist[z] = UpTo(x.hist[a], k.flush)
    BY <1>1, LastLogTermIs DEF TermHistoryOf
  <1>3. PeerInfo(k).lastLogTerm = z /\ PeerInfo(k).commit = c
    BY DEF PeerInfo
  <1>4. PICK t \in x.led : t <= x.term[r] /\ Committed(x, t, c) /\ Follows(x.hist[a], x.hist[t], c)
    BY <1>1 DEF CommitOK, KnownIn, Traced
  <1>5. /\ t \in Nat /\ z \in Nat /\ x.hist[t] \in History /\ x.hist[a] \in History
        /\ c \in Nat /\ k.flush \in Nat /\ k.term \in Nat /\ c <= k.flush
    BY <1>1, <1>2, LeaderHistory, SafekeeperFields DEF CommitOK
  <1>6. Follows(x.hist[z], x.hist[t], c)
    BY <1>2, <1>4, <1>5, FollowsCut
  <1> HIDE DEF z, a, c
  <1>7. ASSUME NEW s \in Safekeepers, ~(t <= x.term[s]) PROVE t <= z
    <2> DEFINE d == Floor(x, t, c)
    <2>1. PICK Q \in SUBSET Safekeepers : IsQuorum(Q) /\ \A y \in Q : x.acc[y][t] >= d
      BY <1>4 DEF Committed, Accepted
    <2>2. d \in Nat /\ d >= StartOf(x, t) /\ StartOf(x, t) >= 1 /\ Floor(x, t, d) = d
          /\ StartOf(x, t) \in Nat
      BY <1>1, <1>5, FloorIs, LeaderHistory
    <2>3. x.acc[s][t] = 0
      <3>1. t > x.term[s]
        BY <1>1, <1>5, <1>7, ViewFields
      <3> QED
        BY <1>1, <1>5, <3>1 DEF AccOK
    <2> HIDE DEF d
    <2>4. s \notin Q
      <3>1. ~(x.acc[s][t] >= d)
        BY <2>2, <2>3
      <3> QED
        BY <2>1, <3>1
    <2>5. r # s
      BY <1>4, <1>7
    <2>6. r \in Q
      BY <2>1, <2>4, <2>5, OneIsLeftOut
    <2>7. x.acc[r][t] >= d /\ x.acc[r][t] \in Nat
      BY <1>1, <1>5, <2>1, <2>6, ViewFields
    <2>8. ~Excluded(x, t, d)
      <3>1. Accepted(x, t, d)
        BY <2>1, <2>2 DEF Accepted
      <3> QED
        BY <1>1, <2>2, <3>1, AcceptedIsNotExcluded
    <2>9. d <= k.flush /\ Follows(k.history, x.hist[t], d)
      <3>1. KeepsAccepted(x, r, k.history, k.flush, k.term + 1)
        BY <1>1 DEF SkOK
      <3>2. t < k.term + 1 /\ 1 <= d /\ d <= x.acc[r][t]
        BY <1>1, <1>4, <1>5, <2>2, <2>7
      <3> QED
        BY <2>2, <2>8, <3>1, <3>2 DEF KeepsAccepted
    <2>10. Follows(x.hist[z], x.hist[t], d)
      BY <1>1, <1>2, <1>5, <2>2, <2>9, FollowsCut
    <2> QED
      BY <1>1, <1>2, <2>2, <2>10, FollowerIsLater
  <1> QED
    BY <1>3, <1>4, <1>6, <1>7 DEF PassedOn, c

\* What a safekeeper says about itself is right.
LEMMA PeerInfoFits ==
    ASSUME TypeInv, NEW x, Fits(x), NEW s \in Safekeepers, ~NoBroker
    PROVE  InfoOK(x, PeerInfo(sk[s]))
  <1>1. PICK z : z = LastLogTerm(sk[s])
    OBVIOUS
  <1>2. z \in x.led /\ SameLog(x, x.at[s], z, sk[s].flush)
    BY <1>1, LastLogTermIs
  <1>3. CommitOK(x, s, sk[s]) /\ sk[s] \in SafekeeperOK
    BY FitsFields
  <1>4. PICK k : k = sk[s]
    OBVIOUS
  <1>5. /\ k.commit <= End(x) /\ Everywhere(x, k.horizon) /\ k.commit <= k.flush
        /\ \A l \in Nat : 1 <= l /\ l < k.commit => x.chosen[l] = x.log[x.at[s]][l]
    BY <1>3, <1>4 DEF CommitOK
  <1>6. k.commit \in Nat /\ k.flush \in Nat
    BY <1>3, <1>4, SafekeeperFields
  <1>7. \A l \in Nat : 1 <= l /\ l < k.commit => x.chosen[l] = x.log[z][l]
    BY <1>2, <1>4, <1>5, <1>6 DEF SameLog
  <1>8. /\ PeerInfo(k).lastLogTerm = z /\ PeerInfo(k).commit = k.commit
        /\ PeerInfo(k).horizon = k.horizon
    BY <1>1, <1>4 DEF PeerInfo
  <1>9. Traced => PassedOn(x, PeerInfo(k))
    BY <1>4, InfoIsPassedOn DEF Traced
  <1> QED
    BY <1>2, <1>4, <1>5, <1>7, <1>8, <1>9 DEF InfoOK

\* It is published.
LEMMA PublishInfoFits ==
    ASSUME TypeInv, TypeInv', Fitting, Unpublished, NEW s \in Safekeepers, PublishInfo(s)
    PROVE  Fitting'
  <1>0. ~NoBroker
    BY DEF Unpublished, PublishInfo, Spend
  <1>1. PICK x : Fits(x)
    BY DEF Fitting
  <1>2. InfoOK(x, info')
    BY <1>0, <1>1, PeerInfoFits DEF PublishInfo
  <1>3. UNCHANGED <<sk, wp, conn, old, wins, chosen>>
    BY DEF PublishInfo
  <1>4. Fits(x)'
    BY <1>1, <1>2, <1>3 DEF Fits
  <1> QED
    BY <1>4 DEF Fitting

-----------------------------------------------------------------------------
(***************************************************************************)
(* The steps of a compute that leave the view as it is.                    *)
(***************************************************************************)
ComputeStep(x, p) ==
    /\ UNCHANGED <<sk, info, wins, chosen>>
    /\ \A q \in Computes \ {p} : wp'[q] = wp[q] /\ conn'[q] = conn[q]
    /\ MineOK(x, p, wp'[p]) /\ LeaderOK(x, p, wp'[p]) /\ CountedOK(wp'[p], conn'[p])
    /\ BaseOK(x, wp'[p], conn'[p])
    /\ \A s \in Safekeepers : LinkOK(x, s, wp'[p], conn'[p][s])
    /\ \A q \in Computes, s \in Safekeepers :
          old'[q][s] = old[q][s] \/ QueueOK(x, s, old'[q][s].req)
    /\ wp[p].base # 0 => wp'[p].base = wp[p].base

\* They keep the invariant.
LEMMA ComputeStepFits ==
    ASSUME TypeInv, TypeInv', NEW x, Fits(x), NEW p \in Computes, ComputeStep(x, p)
    PROVE  Fitting'
  <1>1. Core(x) /\ x.chosen = chosen' /\ WinsOK(x, wins')
    BY DEF Fits, ComputeStep
  <1>2. Grown(x, x) /\ SameSafekeepers(x, x)
    BY <1>1, GrownItself, SameSafekeepersItself
  <1>3. \A t \in x.led : \/ t \in x.led /\ x.limit[t] = x.limit[t]
                         \/ OwnerOK(x, wp', t)
    OBVIOUS
  <1>4. \A q \in Computes \ {p} : /\ wp'[q] = wp[q] /\ conn'[q] = conn[q]
                                  /\ wp[q].mine \in x.led =>
                                        x.limit[wp[q].mine] = x.limit[wp[q].mine]
    BY DEF ComputeStep
  <1> QED
    BY <1>1, <1>2, <1>3, <1>4, ComputeFits DEF ComputeStep

\* A connection does not depend on who is not elected.
LEMMA LinkOfCandidate ==
    ASSUME NEW x, NEW s, NEW w, NEW v, NEW c, LinkOK(x, s, w, c),
           w.state # "elected", v.state # "elected"
    PROVE  LinkOK(x, s, v, c)
    BY DEF LinkOK, RepOK

\* What a walproposer leaves behind.
LEMMA AbandonFits ==
    ASSUME TypeInv, NEW x, NEW p \in Computes, NEW cs \in [Safekeepers -> ConnOK],
           \A s \in Safekeepers : QueueOK(x, s, cs[s].req), Abandon(p, cs)
    PROVE  \A q \in Computes, s \in Safekeepers :
              old'[q][s] = old[q][s] \/ QueueOK(x, s, old'[q][s].req)
  <1>1. PICK K \in SUBSET Safekeepers :
            old' = [old EXCEPT ![p] = [s \in Safekeepers |->
                       IF s \in K THEN Leftover(cs[s]) ELSE old[p][s]]]
    BY Zenon DEF Abandon
  <1>2. \A s \in Safekeepers : Leftover(cs[s]).req = cs[s].req
    BY DEF Leftover
  <1>3. old \in [Computes -> [Safekeepers -> OldType]]
    BY DEF TypeInv
  <1> QED
    BY <1>1, <1>2, <1>3

\* A walproposer process that starts again.
LEMMA RestartingFields ==
    ASSUME NEW w \in ProposerOK
    PROVE  LET r == Restarting(w)
           IN  /\ r.mode = w.mode /\ r.mine = w.mine /\ r.base = w.base /\ r.end = w.end
               /\ r.state = "collecting" /\ r.commit = 0 /\ r.term = 0
    BY DEF Restarting, ProposerOK, ProposerType

\* It has what the one before it had.
LEMMA RestartingFits ==
    ASSUME NEW x, NEW p, NEW w \in ProposerOK, MineOK(x, p, w)
    PROVE  MineOK(x, p, Restarting(w)) /\ LeaderOK(x, p, Restarting(w))
  <1>1. PICK r : r = Restarting(w)
    OBVIOUS
  <1>2. /\ r.mode = w.mode /\ r.mine = w.mine /\ r.base = w.base /\ r.end = w.end
        /\ r.state = "collecting" /\ r.commit = 0 /\ r.term = 0
    BY <1>1, RestartingFields
  <1> QED
    BY <1>1, <1>2 DEF MineOK, LeaderOK

\* The connections of a process that has just started.
LEMMA FreshFits ==
    ASSUME TypeInv, NEW x, NEW p, NEW w, w.state # "elected"
    PROVE  /\ \A s \in Safekeepers : LinkOK(x, s, w, NewConn)
           /\ \A cs : CountedOK(w, cs)
  <1>1. /\ NewConn.req = <<>> /\ NewConn.rep = <<>> /\ NewConn.state = "offline"
        /\ NewConn.dirty = FALSE /\ NewConn.ackFlush = 0
    BY ClosedFields, Zenon
  <1> QED
    BY <1>1, EmptyLink, Zenon DEF CountedOK

\* The end of a walproposer process, with what is left of it.
LEMMA ProcessEndsStep ==
    ASSUME TypeInv, NEW x, Fits(x), NEW p \in Computes, NEW w \in ProposerOK,
           MineOK(x, p, w), LeaderOK(x, p, w), w.state = "collecting",
           wp[p].base # 0 => w.base = wp[p].base,
           ProcessEnds(p, w), UNCHANGED <<sk, info, wins, chosen>>
    PROVE  ComputeStep(x, p)
  <1>1. /\ wp'[p] = w
        /\ \A q \in Computes \ {p} : wp'[q] = wp[q] /\ conn'[q] = conn[q]
        /\ \A s \in Safekeepers : conn'[p][s] = NewConn
    BY ProcessEndsType
  <1>2. \A q \in Computes, s \in Safekeepers :
           old'[q][s] = old[q][s] \/ QueueOK(x, s, old'[q][s].req)
    <2>1. conn[p] \in [Safekeepers -> ConnOK] /\ Abandon(p, conn[p])
      BY DEF TypeInv, ProcessEnds
    <2>2. \A s \in Safekeepers : QueueOK(x, s, conn[p][s].req)
      BY DEF Fits, LinkOK
    <2> QED
      BY <2>1, <2>2, AbandonFits, Zenon
  <1>3. CountedOK(wp'[p], conn'[p]) /\ \A s \in Safekeepers : LinkOK(x, s, wp'[p], conn'[p][s])
    BY <1>1, FreshFits
  <1>4. BaseOK(x, wp'[p], conn'[p])
    <2>1. Core(x) /\ w.base \in Nat /\ w.base <= End(x)
      BY DEF Fits, MineOK, ProposerOK, ProposerType
    <2>2. \A s \in Safekeepers : conn'[p][s].state = "offline"
      BY <1>1, ClosedFields, Zenon
    <2>3. BaseOK(x, w, conn'[p])
      <3>1. CASE w.mode = "compute"
        BY <2>1, <2>2, <3>1, BaseFresh
      <3>2. CASE w.mode # "compute"
        BY <2>2, <3>2 DEF BaseOK
      <3> QED
        BY <3>1, <3>2
    <2> QED
      BY <1>1, <2>3
  <1> QED
    BY <1>1, <1>2, <1>3, <1>4 DEF ComputeStep

\* wp_log(FATAL, ...)
LEMMA FatalFits ==
    ASSUME TypeInv, TypeInv', Fitting, NEW p \in Computes, Fatal(p),
           UNCHANGED <<sk, info, wins, chosen>>
    PROVE  Fitting'
  <1>1. PICK x : Fits(x)
    BY DEF Fitting
  <1>2. wp[p] \in ProposerOK /\ MineOK(x, p, wp[p])
    BY <1>1 DEF TypeInv, Fits
  <1>3. PICK w : w = Restarting(wp[p])
    OBVIOUS
  <1>4. /\ w \in ProposerOK /\ MineOK(x, p, w) /\ LeaderOK(x, p, w) /\ w.state = "collecting"
        /\ w.base = wp[p].base
    BY <1>2, <1>3, RestartingType, RestartingFits, RestartingFields
  <1>5. ProcessEnds(p, w)
    BY <1>3 DEF Fatal
  <1>6. ComputeStep(x, p)
    BY <1>1, <1>4, <1>5, ProcessEndsStep
  <1> QED
    BY <1>1, <1>6, ComputeStepFits

\* A compute that does not have a walproposer yet, or starts Postgres.
LEMMA OffStep ==
    ASSUME TypeInv, NEW x, Fits(x), NEW p \in Computes, wp[p].mode = "off", NEW w,
           w.state = "collecting", w.commit = 0, w.mine = 0,
           \/ w.mode \in {"off", "sync"} /\ w.base = 0
           \/ /\ w.mode = "compute" /\ w.base \in Nat
              /\ 1 <= w.base /\ w.base <= w.end /\ w.base <= End(x),
           wp' = [wp EXCEPT ![p] = w], UNCHANGED <<sk, conn, old, info, wins, chosen>>
    PROVE  ComputeStep(x, p)
  <1>1. MineOK(x, p, wp[p]) /\ \A s \in Safekeepers : LinkOK(x, s, wp[p], conn[p][s])
    BY DEF Fits
  <1>2. wp[p].base = 0 /\ wp[p].state = "collecting"
    BY <1>1 DEF MineOK
  <1>3. wp'[p] = w /\ \A q \in Computes \ {p} : wp'[q] = wp[q]
    BY DEF TypeInv
  <1>4. x \in View
    BY DEF Fits, Core
  <1>5. End(x) \in Nat /\ End(x) >= 1
    BY <1>4, EndIs
  <1>6. MineOK(x, p, w) /\ LeaderOK(x, p, w)
    BY <1>5 DEF MineOK, LeaderOK
  <1>7. CountedOK(w, conn[p]) /\ \A s \in Safekeepers : LinkOK(x, s, w, conn[p][s])
    BY <1>1, <1>2, LinkOfCandidate DEF CountedOK
  <1>8. BaseOK(x, w, conn[p])
    <2>1. \A s \in Safekeepers : conn[p][s].state = "offline"
      BY DEF Fits, BaseOK
    <2>2. CASE w.mode = "compute"
      BY <2>1, <2>2, BaseFresh DEF Fits
    <2>3. CASE w.mode # "compute"
      BY <2>1, <2>3 DEF BaseOK
    <2> QED
      BY <2>2, <2>3
  <1> QED
    BY <1>2, <1>3, <1>6, <1>7, <1>8 DEF ComputeStep

\* The fields of a compute when Postgres starts.
LEMMA PostgresAtFields ==
    ASSUME NEW w \in ProposerOK, NEW lsn \in Nat
    PROVE  LET r == PostgresAt(w, lsn)
           IN  /\ r.mode = "compute" /\ r.base = lsn /\ r.end = lsn /\ r.mine = 0
               /\ r.state = "collecting" /\ r.commit = 0
    BY DEF PostgresAt, Restarting, SyncedOn, ProposerOK, ProposerType

\* sync-safekeepers starts, or the safekeepers are found to be synced.
LEMMA StartingFits ==
    ASSUME TypeInv, TypeInv', Fitting, NEW p \in Computes,
           StartSync(p) \/ \E s \in Safekeepers : PingSafekeeper(p, s)
    PROVE  Fitting'
  <1>1. PICK x : Fits(x)
    BY DEF Fitting
  <1>2. wp[p] \in ProposerOK /\ MineOK(x, p, wp[p]) /\ LeaderOK(x, p, wp[p])
    BY <1>1 DEF TypeInv, Fits
  <1>3. wp[p].mode = "off" /\ UNCHANGED <<sk, conn, old, info, wins, chosen>>
    BY Zenon DEF StartSync, PingSafekeeper
  <1>4. /\ wp[p].base = 0 /\ wp[p].state = "collecting" /\ wp[p].mine = 0 /\ wp[p].commit = 0
    BY <1>2, <1>3 DEF MineOK, LeaderOK
  <1>5. \E w : /\ w.state = "collecting" /\ w.commit = 0 /\ w.mine = 0
               /\ \/ w.mode \in {"off", "sync"} /\ w.base = 0
                  \/ /\ w.mode = "compute" /\ w.base \in Nat
                     /\ 1 <= w.base /\ w.base <= w.end /\ w.base <= End(x)
               /\ wp' = [wp EXCEPT ![p] = w]
    <2>1. CASE StartSync(p)
      <3>1. PICK w : w = Synchronizing(wp[p])
        OBVIOUS
      <3>2. /\ w.state = "collecting" /\ w.commit = 0 /\ w.mine = 0 /\ w.mode = "sync"
            /\ w.base = 0
        BY <1>2, <1>4, <3>1 DEF Synchronizing, SyncedOn, ProposerOK, ProposerType
      <3>3. wp' = [wp EXCEPT ![p] = w]
        BY <2>1, <3>1 DEF StartSync
      <3> QED
        BY <3>2, <3>3, Zenon
    <2>2. CASE \E s \in Safekeepers : PingSafekeeper(p, s)
      <3>1. PICK s \in Safekeepers : PingSafekeeper(p, s)
        BY <2>2
      <3>2. PICK by : by = wp[p].syncedBy \cup {s}
        BY Zenon
      <3>3. PICK lsn : lsn = sk[s].flush
        OBVIOUS
      <3>4. CommitOK(x, s, sk[s]) /\ sk[s] \in SafekeeperOK
        BY <1>1, FitsFields
      <3>5. sk[s].commit = lsn
        BY <3>1, <3>3 DEF PingSafekeeper
      <3>6. lsn \in Nat /\ 1 <= lsn /\ lsn <= End(x)
        BY <3>3, <3>4, <3>5, SafekeeperFields DEF CommitOK
      <3>7. wp' = [wp EXCEPT ![p] = IF IsQuorum(by) THEN PostgresAt(wp[p], lsn)
                                    ELSE SyncedOn(wp[p], by, lsn)]
        BY <3>1, <3>2, <3>3 DEF PingSafekeeper
      <3>8. CASE IsQuorum(by)
        <4>1. PICK w : w = PostgresAt(wp[p], lsn)
          OBVIOUS
        <4>2. /\ w.mode = "compute" /\ w.base = lsn /\ w.end = lsn /\ w.mine = 0
              /\ w.state = "collecting" /\ w.commit = 0
          BY <1>2, <3>6, <4>1, PostgresAtFields
        <4>3. w.base \in Nat /\ 1 <= w.base /\ w.base <= w.end /\ w.base <= End(x)
          BY <3>6, <4>2
        <4>4. wp' = [wp EXCEPT ![p] = w]
          BY <3>7, <3>8, <4>1
        <4> QED
          BY <4>2, <4>3, <4>4, Zenon
      <3>9. CASE ~IsQuorum(by)
        <4>1. PICK w : w = SyncedOn(wp[p], by, lsn)
          OBVIOUS
        <4>2. /\ w.mode = "off" /\ w.base = 0 /\ w.mine = 0
              /\ w.state = "collecting" /\ w.commit = 0
          BY <1>2, <1>3, <1>4, <4>1 DEF SyncedOn, ProposerOK, ProposerType
        <4> QED
          BY <3>7, <3>9, <4>1, <4>2, Zenon
      <3> QED
        BY <3>8, <3>9
    <2> QED
      BY <2>1, <2>2
  <1>6. ComputeStep(x, p)
    BY <1>1, <1>3, <1>5, OffStep, Zenon
  <1> QED
    BY <1>1, <1>6, ComputeStepFits

-----------------------------------------------------------------------------
(***************************************************************************)
(* Greetings, and what an elected walproposer sends.                       *)
(***************************************************************************)
\* The acknowledgements a walproposer counts are the same.
LEMMA CountedSame ==
    ASSUME NEW w, NEW cs, NEW ds, CountedOK(w, cs),
           \A s \in Safekeepers : ds[s].ackFlush = cs[s].ackFlush
    PROVE  CountedOK(w, ds)
  <1>1. [s \in Safekeepers |-> ds[s].ackFlush] = [s \in Safekeepers |-> cs[s].ackFlush]
    OBVIOUS
  <1> QED
    BY <1>1 DEF CountedOK

\* A connection in another state, with nothing new in flight.
LEMMA WaitingLink ==
    ASSUME NEW x, NEW s, NEW w, NEW c, NEW d, LinkOK(x, s, w, c),
           d.req = c.req, d.rep = c.rep, d.dirty = c.dirty, d.ackFlush = c.ackFlush,
           d.state # "active"
    PROVE  LinkOK(x, s, w, d)
    BY DEF LinkOK

\* A vote is asked for on a connection.
LEMMA AskedLink ==
    ASSUME NEW x, NEW s, NEW w, NEW c, NEW d, LinkOK(x, s, w, c), NEW m, m.type = "vote",
           d.req = <<m>>, d.rep = c.rep, d.dirty = c.dirty, d.ackFlush = c.ackFlush,
           d.state # "active"
    PROVE  LinkOK(x, s, w, d)
  <1>1. Len(<<m>>) = 1 /\ \A i \in 1..Len(<<m>>) : <<m>>[i] = m
    OBVIOUS
  <1>2. QueueOK(x, s, d.req)
    BY <1>1 DEF QueueOK, ReqOK
  <1>3. \A i \in 1..Len(d.req) : d.req[i].type = "vote"
    BY <1>1
  <1> QED
    BY <1>2, <1>3 DEF LinkOK

\* What AskVotes does to the connections of p.
LEMMA AskVotesLinks ==
    ASSUME TypeInv, NEW p \in Computes, NEW w, NEW S, AskVotes(p, w, S)
    PROVE  /\ \A q \in Computes \ {p} : conn'[q] = conn[q]
           /\ \A s \in Safekeepers :
                 \/ conn'[p][s] = conn[p][s]
                 \/ /\ conn'[p][s].state = "wait_verdict" /\ conn'[p][s].req = <<VoteRequest(w)>>
                    /\ conn'[p][s].rep = conn[p][s].rep /\ conn'[p][s].dirty = conn[p][s].dirty
                    /\ conn'[p][s].ackFlush = conn[p][s].ackFlush
  <1>1. conn \in [Computes -> [Safekeepers -> ConnOK]]
    BY DEF TypeInv
  <1>2. /\ \A q \in Computes \ {p} : conn'[q] = conn[q]
        /\ \A s \in Safekeepers :
              conn'[p][s] = IF s \in S THEN [conn[p][s] EXCEPT !.state = "wait_verdict",
                                                             !.req   = <<VoteRequest(w)>>]
                                       ELSE conn[p][s]
    BY <1>1, Zenon DEF AskVotes
  <1>3. ASSUME NEW s \in Safekeepers
        PROVE  \/ conn'[p][s] = conn[p][s]
               \/ /\ conn'[p][s].state = "wait_verdict" /\ conn'[p][s].req = <<VoteRequest(w)>>
                  /\ conn'[p][s].rep = conn[p][s].rep /\ conn'[p][s].dirty = conn[p][s].dirty
                  /\ conn'[p][s].ackFlush = conn[p][s].ackFlush
    <2>1. PICK c \in ConnOK : c = conn[p][s]
      BY <1>1
    <2>2. PICK d : d = [c EXCEPT !.state = "wait_verdict", !.req = <<VoteRequest(w)>>]
      OBVIOUS
    <2>3. /\ d.state = "wait_verdict" /\ d.req = <<VoteRequest(w)>>
          /\ d.rep = c.rep /\ d.dirty = c.dirty /\ d.ackFlush = c.ackFlush
      BY <2>2 DEF ConnOK, ConnType
    <2>4. conn'[p][s] = c \/ conn'[p][s] = d
      BY <1>2, <2>1, <2>2, Zenon
    <2> QED
      BY <2>1, <2>3, <2>4
  <1> QED
    BY <1>2, <1>3, Zenon

\* Votes are asked for.
LEMMA AskVotesFit ==
    ASSUME TypeInv, NEW x, NEW p \in Computes, NEW w, NEW v, NEW S, AskVotes(p, w, S),
           \A s \in Safekeepers : LinkOK(x, s, v, conn[p][s]), CountedOK(v, conn[p])
    PROVE  /\ \A s \in Safekeepers : LinkOK(x, s, v, conn'[p][s])
           /\ CountedOK(v, conn'[p])
  <1>1. VoteRequest(w).type = "vote"
    BY DEF VoteRequest
  <1>2. \A s \in Safekeepers :
                 \/ conn'[p][s] = conn[p][s]
                 \/ /\ conn'[p][s].state = "wait_verdict" /\ conn'[p][s].req = <<VoteRequest(w)>>
                    /\ conn'[p][s].rep = conn[p][s].rep /\ conn'[p][s].dirty = conn[p][s].dirty
                    /\ conn'[p][s].ackFlush = conn[p][s].ackFlush
    BY AskVotesLinks
  <1>3. ASSUME NEW s \in Safekeepers PROVE LinkOK(x, s, v, conn'[p][s])
    <2>1. PICK c : c = conn[p][s]
      OBVIOUS
    <2>2. PICK d : d = conn'[p][s]
      OBVIOUS
    <2>3. PICK m : m = VoteRequest(w)
      OBVIOUS
    <2>4. LinkOK(x, s, v, c)
      BY <2>1
    <2>5. d = c \/ (/\ d.state = "wait_verdict" /\ d.req = <<m>>
                    /\ d.rep = c.rep /\ d.dirty = c.dirty /\ d.ackFlush = c.ackFlush)
      BY <1>2, <2>1, <2>2, <2>3
    <2>6. LinkOK(x, s, v, d)
      BY <1>1, <2>3, <2>4, <2>5, AskedLink
    <2> QED
      BY <2>2, <2>6
  <1>4. \A s \in Safekeepers : conn'[p][s].ackFlush = conn[p][s].ackFlush
    BY <1>2
  <1> QED
    BY <1>3, <1>4, CountedSame

\* A quorum has the basebackup, in a term that is not above theirs.
LEMMA BaseQuorum ==
    ASSUME TypeInv, NEW x, Fits(x), NEW p \in Computes, wp[p].state = "collecting",
           wp[p].mode = "compute", wp[p].mine = 0
    PROVE  \E t \in x.led, Q \in SUBSET Safekeepers :
              /\ IsQuorum(Q) /\ \A s \in Q : x.acc[s][t] >= Floor(x, t, wp[p].base)
              /\ \A s \in Q : conn[p][s].state # "offline" => t <= wp[p].term
              /\ \A s \in Q : t <= sk[s].term
              /\ t \in Nat
  <1>1. BaseOK(x, wp[p], conn[p]) /\ x \in View /\ Tree(x) /\ AccOK(x)
    BY DEF Fits, Core
  <1>2. PICK t \in x.led, Q \in SUBSET Safekeepers :
              /\ IsQuorum(Q) /\ \A s \in Q : x.acc[s][t] >= Floor(x, t, wp[p].base)
              /\ \A s \in Q : conn[p][s].state # "offline" => t <= wp[p].term
    BY <1>1 DEF BaseOK
  <1>3. t \in Nat /\ wp[p].base \in Nat
    BY <1>1, LeaderHistory DEF TypeInv, ProposerOK, ProposerType
  <1>4. Floor(x, t, wp[p].base) \in Nat /\ Floor(x, t, wp[p].base) >= 1
    <2>1. StartOf(x, t) \in Nat /\ StartOf(x, t) >= 1
      BY <1>1, LeaderHistory
    <2> QED
      BY <1>1, <1>3, <2>1, FloorIs
  <1>5. ASSUME NEW s \in Q PROVE t <= sk[s].term
    <2>1. x.acc[s][t] \in Nat /\ x.term[s] \in Nat /\ x.acc[s][t] >= Floor(x, t, wp[p].base)
      BY <1>1, <1>2, <1>3, ViewFields
    <2>2. x.acc[s][t] # 0
      BY <1>4, <2>1
    <2>3. ~(t > x.term[s])
      BY <1>1, <1>3, <2>2 DEF AccOK
    <2>4. x.term[s] = sk[s].term
      BY DEF Fits, SkOK, WalOK
    <2> QED
      BY <1>3, <2>1, <2>3, <2>4
  <1> QED
    BY <1>2, <1>3, <1>5

\* A greeting does not overlook the term of the basebackup.
LEMMA GreetedBase ==
    ASSUME TypeInv, NEW x, Fits(x), NEW p \in Computes, NEW s \in Safekeepers,
           wp[p].state = "collecting", wp[p].mode # "off", NEW v, v.state = "collecting",
           v.mode = wp[p].mode, v.mine = wp[p].mine, v.base = wp[p].base,
           v.term = Larger(wp[p].term, sk[s].term), NEW cs,
           \A z \in Safekeepers \ {s} : cs[z] = conn[p][z]
    PROVE  BaseOK(x, v, cs)
  <1>1. CASE wp[p].mode = "compute" /\ wp[p].mine = 0
    <2>1. PICK t \in x.led, Q \in SUBSET Safekeepers :
              /\ IsQuorum(Q) /\ \A z \in Q : x.acc[z][t] >= Floor(x, t, wp[p].base)
              /\ \A z \in Q : conn[p][z].state # "offline" => t <= wp[p].term
              /\ \A z \in Q : t <= sk[z].term
              /\ t \in Nat
      BY <1>1, BaseQuorum
    <2>2. wp[p].term \in Nat /\ sk[s].term \in Nat
      BY DEF TypeInv, ProposerOK, ProposerType, SafekeeperOK, SafekeeperType
    <2>3. ASSUME NEW z \in Q, cs[z].state # "offline" PROVE t <= v.term
      <3>1. CASE z = s
        BY <2>1, <2>2, <3>1 DEF Larger
      <3>2. CASE z # s
        BY <2>1, <2>2, <2>3, <3>2 DEF Larger
      <3> QED
        BY <3>1, <3>2
    <2> QED
      BY <2>1, <2>3 DEF BaseOK
  <1>2. CASE ~(wp[p].mode = "compute" /\ wp[p].mine = 0)
    BY <1>2 DEF BaseOK
  <1> QED
    BY <1>1, <1>2

\* Nor does the campaign after a quorum of greetings.
LEMMA CampaignBase ==
    ASSUME TypeInv, NEW x, Fits(x), NEW p \in Computes, NEW s \in Safekeepers,
           wp[p].state = "collecting", wp[p].mode # "off", NEW w, w.state = "campaign",
           w.mode = wp[p].mode, w.mine = wp[p].mine, w.base = wp[p].base,
           w.term = Larger(wp[p].term, sk[s].term) + 1, NEW greeted,
           greeted = {z \in Safekeepers : conn[p][z].state = "wait_voting"} \cup {s},
           IsQuorum(greeted), NEW cs
    PROVE  BaseOK(x, w, cs)
  <1>1. CASE wp[p].mode = "compute" /\ wp[p].mine = 0
    <2>1. PICK t \in x.led, Q \in SUBSET Safekeepers :
              /\ IsQuorum(Q) /\ \A z \in Q : x.acc[z][t] >= Floor(x, t, wp[p].base)
              /\ \A z \in Q : conn[p][z].state # "offline" => t <= wp[p].term
              /\ \A z \in Q : t <= sk[z].term
              /\ t \in Nat
      BY <1>1, BaseQuorum
    <2>2. wp[p].term \in Nat /\ sk[s].term \in Nat
      BY DEF TypeInv, ProposerOK, ProposerType, SafekeeperOK, SafekeeperType
    <2>3. greeted \in SUBSET Safekeepers
      OBVIOUS
    <2>4. PICK z \in Safekeepers : z \in Q /\ z \in greeted
      BY <2>1, <2>3, QuorumsMeet
    <2>5. t <= Larger(wp[p].term, sk[s].term)
      <3>1. CASE z = s
        BY <2>1, <2>2, <2>4, <3>1 DEF Larger
      <3>2. CASE z # s
        <4>1. conn[p][z].state = "wait_voting"
          BY <2>4, <3>2
        <4> QED
          BY <2>1, <2>2, <2>4, <4>1 DEF Larger
      <3> QED
        BY <3>1, <3>2
    <2>6. t < w.term
      BY <2>1, <2>2, <2>5 DEF Larger
    <2> QED
      BY <2>1, <2>6 DEF BaseOK
  <1>2. CASE ~(wp[p].mode = "compute" /\ wp[p].mine = 0)
    BY <1>2 DEF BaseOK
  <1> QED
    BY <1>1, <1>2

\* Greetings while terms are collected.
LEMMA GreetFits ==
    ASSUME TypeInv, TypeInv', Fitting, NEW p \in Computes, NEW s \in Safekeepers,
           GreetWhileCollecting(p, s)
    PROVE  Fitting'
  <1>1. PICK x : Fits(x)
    BY DEF Fitting
  <1>2. /\ wp[p] \in ProposerOK /\ MineOK(x, p, wp[p]) /\ LeaderOK(x, p, wp[p])
        /\ \A z \in Safekeepers : LinkOK(x, z, wp[p], conn[p][z])
    BY <1>1 DEF TypeInv, Fits
  <1>3. /\ wp[p].state = "collecting" /\ wp[p].mode \notin {"off", "dead"}
        /\ UNCHANGED <<sk, old, info, wins, chosen>>
    BY DEF GreetWhileCollecting, CanConnect, Running
  <1>4. PICK highest : highest = Larger(wp[p].term, sk[s].term)
    OBVIOUS
  <1>5. highest \in Nat
    <2>1. wp[p].term \in Nat /\ sk[s] \in SafekeeperOK
      BY DEF TypeInv, ProposerOK, ProposerType
    <2>2. sk[s].term \in Nat
      BY <2>1, SafekeeperFields
    <2> QED
      BY <1>4, <2>1, <2>2, SmallerLarger, Zenon
  <1>6. PICK v : v = [wp[p] EXCEPT !.term = highest]
    BY Zenon
  <1>7. PICK w : w = [wp[p] EXCEPT !.term = highest + 1, !.state = "campaign"]
    OBVIOUS
  <1>8. /\ v.state = "collecting" /\ v.mode = wp[p].mode /\ v.mine = wp[p].mine
        /\ v.base = wp[p].base /\ v.end = wp[p].end /\ v.commit = wp[p].commit
        /\ w.state = "campaign" /\ w.mode = wp[p].mode /\ w.mine = wp[p].mine
        /\ w.base = wp[p].base /\ w.end = wp[p].end /\ w.commit = wp[p].commit
        /\ w.term = highest + 1 /\ v.term = highest
    BY <1>2, <1>3, <1>6, <1>7 DEF ProposerOK, ProposerType
  <1>9. MineOK(x, p, v) /\ MineOK(x, p, w)
    BY <1>2, <1>3, <1>8 DEF MineOK
  <1>10. wp[p].commit = 0
    BY <1>2, <1>3 DEF LeaderOK
  <1>11. PICK greeted : greeted = {z \in Safekeepers : conn[p][z].state = "wait_voting"} \cup {s}
    BY Zenon
  <1>12. \/ wp' = [wp EXCEPT ![p] = v] /\ conn' = [conn EXCEPT ![p][s].state = "wait_voting"]
         \/ /\ highest < MaxTerm /\ IsQuorum(greeted)
            /\ wp' = [wp EXCEPT ![p] = w] /\ AskVotes(p, w, greeted)
    <2>1. \/ wp' = [wp EXCEPT ![p].term = highest] /\ conn' = [conn EXCEPT ![p][s].state = "wait_voting"]
          \/ /\ highest < MaxTerm /\ IsQuorum(greeted)
             /\ wp' = [wp EXCEPT ![p] = w] /\ AskVotes(p, w, greeted)
      BY <1>4, <1>7, <1>11 DEF GreetWhileCollecting
    <2>2. wp' = [wp EXCEPT ![p].term = highest] => wp' = [wp EXCEPT ![p] = v]
      BY <1>6 DEF TypeInv
    <2> QED
      BY <2>1, <2>2
  <1>13. \A z \in Safekeepers : LinkOK(x, z, v, conn[p][z]) /\ LinkOK(x, z, w, conn[p][z])
    BY <1>2, <1>3, <1>8, LinkOfCandidate
  <1>14. CASE wp' = [wp EXCEPT ![p] = v] /\ conn' = [conn EXCEPT ![p][s].state = "wait_voting"]
    <2>1. wp'[p] = v /\ \A q \in Computes \ {p} : wp'[q] = wp[q]
      BY <1>14 DEF TypeInv
    <2>2. LeaderOK(x, p, v) /\ CountedOK(v, conn'[p])
      BY <1>8, <1>10 DEF LeaderOK, CountedOK
    <2>3. conn \in [Computes -> [Safekeepers -> ConnOK]]
      BY DEF TypeInv
    <2>4. PICK c \in ConnOK : c = conn[p][s]
      BY <2>3
    <2>5. PICK d : d = [c EXCEPT !.state = "wait_voting"]
      BY Zenon
    <2>6. /\ \A q \in Computes \ {p} : conn'[q] = conn[q]
          /\ \A z \in Safekeepers : conn'[p][z] = IF z = s THEN d ELSE conn[p][z]
      BY <1>14, <2>3, <2>4, <2>5
    <2>7. LinkOK(x, s, v, d)
      <3>1. /\ d.req = c.req /\ d.rep = c.rep /\ d.dirty = c.dirty /\ d.ackFlush = c.ackFlush
            /\ d.state # "active"
        BY <2>5 DEF ConnOK, ConnType
      <3> QED
        BY <1>13, <2>4, <3>1, WaitingLink
    <2>8. BaseOK(x, v, conn'[p])
      <3>1. \A z \in Safekeepers \ {s} : conn'[p][z] = conn[p][z]
        BY <2>6
      <3> QED
        BY <1>1, <1>3, <1>4, <1>8, <3>1, GreetedBase
    <2>9. ComputeStep(x, p)
      BY <1>3, <1>8, <1>9, <1>13, <2>1, <2>2, <2>6, <2>7, <2>8 DEF ComputeStep
    <2> QED
      BY <1>1, <2>9, ComputeStepFits
  <1>15. CASE highest < MaxTerm /\ IsQuorum(greeted) /\ wp' = [wp EXCEPT ![p] = w] /\ AskVotes(p, w, greeted)
    <2>1. wp'[p] = w /\ \A q \in Computes \ {p} : wp'[q] = wp[q]
      BY <1>15 DEF TypeInv
    <2>2. w.term \in 1..MaxTerm
      BY <1>5, <1>8, <1>15, BoundsAssumption
    <2>3. LeaderOK(x, p, w) /\ CountedOK(w, conn[p])
      BY <1>8, <1>10, <2>2 DEF LeaderOK, CountedOK
    <2>4. /\ \A z \in Safekeepers : LinkOK(x, z, w, conn'[p][z])
          /\ CountedOK(w, conn'[p])
      BY <1>13, <1>15, <2>3, AskVotesFit, Zenon
    <2>5. \A q \in Computes \ {p} : conn'[q] = conn[q]
      BY <1>15, AskVotesLinks
    <2>6. BaseOK(x, w, conn'[p])
      BY <1>1, <1>3, <1>4, <1>8, <1>11, <1>15, CampaignBase
    <2>7. ComputeStep(x, p)
      BY <1>3, <1>8, <1>9, <2>1, <2>3, <2>4, <2>5, <2>6 DEF ComputeStep
    <2> QED
      BY <1>1, <2>7, ComputeStepFits
  <1> QED
    BY <1>12, <1>14, <1>15

\* A greeting during or after the campaign.
LEMMA GreetLateFits ==
    ASSUME TypeInv, TypeInv', Fitting, NEW p \in Computes, NEW s \in Safekeepers, GreetLate(p, s)
    PROVE  Fitting'
  <1>1. PICK x : Fits(x)
    BY DEF Fitting
  <1>2. UNCHANGED <<sk, info, wins, chosen>>
    BY DEF GreetLate
  <1>3. CASE Fatal(p)
    BY <1>2, <1>3, FatalFits
  <1>4. CASE AskVotes(p, wp[p], {s}) /\ UNCHANGED <<wp, old>>
    <2>1. /\ MineOK(x, p, wp[p]) /\ LeaderOK(x, p, wp[p]) /\ CountedOK(wp[p], conn[p])
          /\ \A z \in Safekeepers : LinkOK(x, z, wp[p], conn[p][z])
      BY <1>1 DEF Fits
    <2>2. PICK w : w = wp[p]
      OBVIOUS
    <2>3. /\ \A z \in Safekeepers : LinkOK(x, z, w, conn'[p][z])
          /\ CountedOK(w, conn'[p])
      BY <1>4, <2>1, <2>2, AskVotesFit, Zenon
    <2>4. \A q \in Computes \ {p} : conn'[q] = conn[q]
      BY <1>4, AskVotesLinks
    <2>5. BaseOK(x, wp[p], conn'[p])
      <3>1. wp[p].state # "collecting" /\ wp[p].mode # "off"
        BY DEF GreetLate, CanConnect, Running
      <3>2. BaseOK(x, wp[p], conn[p])
        BY <1>1 DEF Fits
      <3> QED
        BY <3>1, <3>2 DEF BaseOK
    <2>6. ComputeStep(x, p)
      BY <1>2, <1>4, <2>1, <2>2, <2>3, <2>4, <2>5 DEF ComputeStep
    <2> QED
      BY <1>1, <2>6, ComputeStepFits
  <1> QED
    BY <1>3, <1>4 DEF GreetLate

\* A walproposer that gives up.
LEMMA GivingUpFits ==
    ASSUME TypeInv, TypeInv', Fitting, NEW p \in Computes, NEW s \in Safekeepers,
           VoteRefused(p, s) \/ AppendRejected(p, s)
    PROVE  Fitting'
    BY FatalFits DEF VoteRefused, AppendRejected

\* ProposerElected on a connection.
LEMMA ElectedLink ==
    ASSUME NEW x, NEW s \in Safekeepers, NEW w \in ProposerOK, w.state = "elected",
           w.term \in x.led, w.history = x.hist[w.term],
           NEW c \in ConnOK, NEW v,
           c.dirty => Streamed(x, s, w.term),
           c.ackFlush # 0 => c.ackFlush <= x.acc[s][w.term] /\ Streamed(x, s, w.term)
    PROVE  LinkOK(x, s, w, SendElected(c, w, v)) /\ SendElected(c, w, v).ackFlush = c.ackFlush
  <1>1. PICK start : start = StartStreamingAt(w.history, w.term, v.history, v.flush)
    OBVIOUS
  <1>2. PICK m : m = ProposerElected(w, start)
    OBVIOUS
  <1>3. PICK d : d = SendElected(c, w, v)
    OBVIOUS
  <1>4. d = [c EXCEPT !.state = "active", !.sent = start, !.rep = <<>>,
                      !.told = <<InvalidLsn, w.truncate>>, !.req = <<m>>]
    BY <1>1, <1>2, <1>3 DEF SendElected
  <1>5. /\ d.state = "active" /\ d.rep = <<>> /\ d.req = <<m>> /\ d.dirty = c.dirty
        /\ d.ackFlush = c.ackFlush
    BY <1>4 DEF ConnOK, ConnType
  <1>6. m.type = "elected" /\ m.term = w.term /\ m.history = w.history
    BY <1>2 DEF ProposerElected
  <1>7. Len(<<m>>) = 1 /\ \A i \in 1..Len(<<m>>) : <<m>>[i] = m
    OBVIOUS
  <1>8. QueueOK(x, s, d.req)
    BY <1>5, <1>6, <1>7 DEF QueueOK, ReqOK
  <1>9. Announced(d.req, Len(d.req), w.term)
    BY <1>5, <1>6, <1>7 DEF Announced
  <1>10. \A i \in 1..Len(d.req) : d.req[i].term = w.term
    BY <1>5, <1>6, <1>7
  <1>11. 1..Len(d.rep) = {}
    BY <1>5
  <1>12. LinkOK(x, s, w, d)
    BY <1>5, <1>8, <1>9, <1>10, <1>11 DEF LinkOK
  <1> QED
    BY <1>3, <1>5, <1>12

\* The frame of a step on one connection of a walproposer.
LEMMA ConnectionStep ==
    ASSUME TypeInv, NEW x, Fits(x), NEW p \in Computes, NEW s \in Safekeepers, NEW d,
           conn' = [conn EXCEPT ![p][s] = d], LinkOK(x, s, wp[p], d),
           d.ackFlush = conn[p][s].ackFlush,
           d.state = "offline" \/ wp[p].state = "elected",
           UNCHANGED <<sk, wp, info, wins, chosen>>,
           \A q \in Computes, z \in Safekeepers :
              old'[q][z] = old[q][z] \/ QueueOK(x, z, old'[q][z].req)
    PROVE  ComputeStep(x, p)
  <1>1. /\ MineOK(x, p, wp[p]) /\ LeaderOK(x, p, wp[p]) /\ CountedOK(wp[p], conn[p])
        /\ \A z \in Safekeepers : LinkOK(x, z, wp[p], conn[p][z])
    BY DEF Fits
  <1>2. /\ \A q \in Computes \ {p} : conn'[q] = conn[q]
        /\ \A z \in Safekeepers : conn'[p][z] = IF z = s THEN d ELSE conn[p][z]
    BY DEF TypeInv
  <1>3. CountedOK(wp[p], conn'[p])
    <2>1. PICK w : w = wp[p]
      OBVIOUS
    <2>2. \A z \in Safekeepers : conn'[p][z].ackFlush = conn[p][z].ackFlush
      BY <1>2
    <2>3. CountedOK(w, conn'[p])
      BY <1>1, <2>1, <2>2, CountedSame, Zenon
    <2> QED
      BY <2>1, <2>3
  <1>4. \A z \in Safekeepers : LinkOK(x, z, wp[p], conn'[p][z])
    BY <1>1, <1>2
  <1>5. BaseOK(x, wp[p], conn'[p])
    <2>1. CASE wp[p].state = "elected"
      <3>1. wp[p].mine # 0 /\ wp[p].mode # "off"
        BY <1>1, <2>1, ElectedIsLeader
      <3> QED
        BY <3>1 DEF BaseOK
    <2>2. CASE d.state = "offline"
      <3>1. \A z \in Safekeepers : conn'[p][z].state # "offline" => conn[p][z].state # "offline"
        BY <1>2, <2>2
      <3>2. Core(x) /\ BaseOK(x, wp[p], conn[p]) /\ wp[p] \in ProposerOK
        BY DEF Fits, TypeInv
      <3> QED
        BY <3>1, <3>2, GrownItself, BaseStays, Zenon
    <2> QED
      BY <2>1, <2>2
  <1> QED
    BY <1>1, <1>2, <1>3, <1>4, <1>5 DEF ComputeStep

\* ProposerElected for a safekeeper that votes late.
LEMMA VoteAfterElectionFits ==
    ASSUME TypeInv, TypeInv', Fitting, NEW p \in Computes, NEW s \in Safekeepers,
           VoteAfterElection(p, s)
    PROVE  Fitting'
  <1>1. PICK x : Fits(x)
    BY DEF Fitting
  <1>2. PICK v : v = Head(conn[p][s].rep)
    OBVIOUS
  <1>3. PICK c \in ConnOK : c = conn[p][s]
    BY DEF TypeInv
  <1>4. PICK w \in ProposerOK : w = wp[p]
    BY DEF TypeInv
  <1>5. PICK d : d = SendElected(c, w, v)
    OBVIOUS
  <1>6. /\ wp[p].state = "elected" /\ conn' = [conn EXCEPT ![p][s] = d]
        /\ UNCHANGED <<sk, wp, old, info, wins, chosen>>
    BY <1>2, <1>3, <1>4, <1>5 DEF VoteAfterElection
  <1>7. MineOK(x, p, w) /\ LeaderOK(x, p, w) /\ LinkOK(x, s, w, c)
    BY <1>1, <1>3, <1>4 DEF Fits
  <1>8. w.state = "elected"
    BY <1>4, <1>6
  <1>9. w.term \in x.led /\ w.history = x.hist[w.term]
    BY <1>7, <1>8, ElectedIsLeader DEF LeaderOK
  <1>10. /\ c.dirty => Streamed(x, s, w.term)
         /\ c.ackFlush # 0 => c.ackFlush <= x.acc[s][w.term] /\ Streamed(x, s, w.term)
    BY <1>7 DEF LinkOK
  <1>11. LinkOK(x, s, w, d) /\ d.ackFlush = c.ackFlush
    BY <1>5, <1>8, <1>9, <1>10, ElectedLink
  <1>12. ComputeStep(x, p)
    BY <1>1, <1>3, <1>4, <1>6, <1>11, ConnectionStep, Zenon
  <1> QED
    BY <1>1, <1>12, ComputeStepFits

\* A connection is lost.
LEMMA DisconnectFits ==
    ASSUME TypeInv, TypeInv', Fitting, NEW p \in Computes, NEW s \in Safekeepers,
           Disconnect(p, s)
    PROVE  Fitting'
  <1>1. PICK x : Fits(x)
    BY DEF Fitting
  <1>2. PICK c \in ConnOK : c = conn[p][s]
    BY DEF TypeInv
  <1>3. PICK d : d = Offline(c)
    OBVIOUS
  <1>4. conn' = [conn EXCEPT ![p][s] = d] /\ UNCHANGED <<sk, wp, info, wins, chosen>>
    BY <1>2, <1>3 DEF Disconnect
  <1>5. LinkOK(x, s, wp[p], c)
    BY <1>1, <1>2 DEF Fits
  <1>6. /\ d.req = <<>> /\ d.rep = <<>> /\ d.state = "offline" /\ d.dirty = FALSE
        /\ d.ackFlush = c.ackFlush
    BY <1>3, ClosedFields, Zenon
  <1>7. LinkOK(x, s, wp[p], d)
    BY <1>5, <1>6, EmptyLink, Zenon
  <1>8. \A q \in Computes, z \in Safekeepers :
            old'[q][z] = old[q][z] \/ QueueOK(x, z, old'[q][z].req)
    <2>1. PICK cs : cs = [z \in Safekeepers |-> IF z = s THEN conn[p][s] ELSE NewConn]
      BY Zenon
    <2>2. Abandon(p, cs)
      BY <2>1 DEF Disconnect
    <2>3. cs \in [Safekeepers -> ConnOK]
      BY <1>2, <2>1, NewConnType
    <2>4. QueueOK(x, s, c.req) /\ \A z : QueueOK(x, z, NewConn.req)
      <3>1. NewConn.req = NoOld.req
        BY ClosedFields, Zenon
      <3> QED
        BY <1>5, <3>1, ClosedFields, Zenon DEF LinkOK
    <2>5. \A z \in Safekeepers : QueueOK(x, z, cs[z].req)
      BY <1>2, <2>1, <2>4
    <2> QED
      BY <2>2, <2>3, <2>5, AbandonFits, Zenon
  <1>9. ComputeStep(x, p)
    BY <1>1, <1>2, <1>4, <1>6, <1>7, <1>8, ConnectionStep, Zenon
  <1> QED
    BY <1>1, <1>9, ComputeStepFits

\* What a walproposer reads is the WAL of its term.
LEMMA ReadableIsOwn ==
    ASSUME TypeInv, NEW x, Fits(x), NEW p \in Computes, wp[p].state = "elected",
           NEW lsn \in Nat, 1 <= lsn, lsn < Available(wp[p]), NEW r \in Readable(p, lsn)
    PROVE  r = x.log[wp[p].term][lsn] /\ lsn + 1 <= x.limit[wp[p].term] /\ r \in Computes
  <1>1. PICK w \in ProposerOK : w = wp[p]
    BY DEF TypeInv
  <1>2. MineOK(x, p, w) /\ LeaderOK(x, p, w) /\ w.state = "elected"
    BY <1>1 DEF Fits
  <1>3. w.mine = w.term /\ w.term \in x.led /\ w.term >= 1 /\ w.mode \notin {"off", "dead"}
    BY <1>2, ElectedIsLeader
  <1>4. w.mode \in {"sync", "compute"} /\ w.base \in Nat /\ w.end \in Nat /\ w.start \in Nat
        /\ w.term \in Nat
    BY <1>3 DEF ProposerOK, ProposerType
  <1>5. /\ w.start = StartOf(x, w.term)
        /\ w.mode = "sync" => x.limit[w.term] = w.start
        /\ w.mode = "compute" => /\ x.limit[w.term] = w.end /\ w.base <= w.start
                                 /\ \A l \in Nat : l >= w.base => x.log[w.term][l] = p
    BY <1>2, <1>3, <1>4 DEF MineOK, LeaderOK
  <1>6. lsn + 1 <= x.limit[w.term]
    BY <1>1, <1>4, <1>5 DEF Available
  <1>7. CASE w.mode = "compute" /\ lsn >= w.base
    BY <1>1, <1>5, <1>6, <1>7 DEF Readable
  <1>8. CASE ~(w.mode = "compute" /\ lsn >= w.base)
    <2>1. PICK d \in Donors(p, lsn) : r = sk[d].wal[lsn]
      BY <1>1, <1>8 DEF Readable
    <2>2. /\ d \in Safekeepers
          /\ d \in w.donors \/ conn[p][d].ackFlush # 0
          /\ sk[d].term = w.term /\ lsn < sk[d].flush
      BY <1>1, <2>1 DEF Donors
    <2>3. PICK k \in SafekeeperOK : k = sk[d]
      BY <2>2 DEF TypeInv
    <2>4. k.flush \in Nat /\ k.flush <= 1 + Len(k.wal) /\ Len(k.wal) \in Nat /\ k.wal \in Seq(Computes)
      BY SafekeeperFields
    <2>5. lsn \in 1..Len(k.wal)
      BY <2>2, <2>3, <2>4
    <2>6. WalOK(x, d, k) /\ x.term[d] = w.term
      BY <2>2, <2>3, FitsFields
    <2>7. r = x.log[x.at[d]][lsn]
      BY <2>1, <2>3, <2>5, <2>6 DEF WalOK
    <2>8. r \in Computes
      <3>1. k.wal[lsn] \in Computes
        BY <2>4, <2>5, ElementOfSeq
      <3> QED
        BY <2>1, <2>3, <3>1
    <2>9. x.at[d] # w.term => SameLog(x, x.at[d], w.term, w.start)
      <3>1. CASE d \in w.donors
        BY <1>2, <2>6, <3>1 DEF LeaderOK
      <3>2. CASE conn[p][d].ackFlush # 0
        <4>1. LinkOK(x, d, w, conn[p][d])
          BY <1>1, <2>2 DEF Fits
        <4>2. Streamed(x, d, w.term)
          BY <3>2, <4>1 DEF LinkOK
        <4> QED
          BY <1>4, <2>6, <4>2 DEF Streamed
      <3> QED
        BY <2>2, <3>1, <3>2
    <2>10. lsn < w.start
      BY <1>1, <1>4, <1>5, <1>8 DEF Available
    <2>11. r = x.log[w.term][lsn]
      BY <2>7, <2>9, <2>10 DEF SameLog
    <2> QED
      BY <1>1, <1>6, <2>8, <2>11
  <1> QED
    BY <1>7, <1>8

\* One more request on a connection that streams.
LEMMA AppendLink ==
    ASSUME NEW x, NEW s \in Safekeepers, NEW w, NEW c \in ConnOK, LinkOK(x, s, w, c),
           c.state = "active", NEW m \in AppendRequestType, m.term = w.term, ReqOK(x, m),
           NEW d, d.req = Append(c.req, m), d.rep = c.rep, d.dirty = c.dirty,
           d.ackFlush = c.ackFlush, d.state = c.state
    PROVE  LinkOK(x, s, w, d)
  <1>1. PICK q \in Seq(RequestType) : q = c.req
    BY DEF ConnOK, ConnType
  <1>2. PICK n \in Nat : n = Len(q)
    BY LenProperties
  <1>3. PICK r : r = Append(q, m)
    BY Zenon
  <1>4. Len(r) = n + 1 /\ r[n + 1] = m /\ \A i \in 1..n : r[i] = q[i]
    BY <1>2, <1>3, AppendProperties
  <1>5. w.state = "elected" /\ (Announced(q, n, w.term) \/ Streamed(x, s, w.term))
    BY <1>1, <1>2 DEF LinkOK
  <1>6. \A j \in 0..n : \A t : Announced(q, j, t) => Announced(r, j, t)
    BY <1>4 DEF Announced
  <1>7. Announced(r, n, w.term) \/ Streamed(x, s, w.term)
    BY <1>5, <1>6
  <1>8. Announced(r, Len(r), w.term) \/ Streamed(x, s, w.term)
    <2>1. Announced(r, n, w.term) => Announced(r, n + 1, w.term)
      BY DEF Announced
    <2> QED
      BY <1>4, <1>7, <2>1
  <1>9. QueueOK(x, s, r)
    <2> SUFFICES ASSUME NEW i \in 1..Len(r)
                 PROVE  /\ ReqOK(x, r[i])
                        /\ r[i].type = "append" => Announced(r, i - 1, r[i].term) \/ Streamed(x, s, r[i].term)
      BY DEF QueueOK
    <2>1. CASE i = n + 1
      BY <1>4, <1>7, <2>1
    <2>2. CASE i \in 1..n
      <3>1. QueueOK(x, s, q)
        BY <1>1 DEF LinkOK
      <3>2. /\ ReqOK(x, q[i])
            /\ q[i].type = "append" => Announced(q, i - 1, q[i].term) \/ Streamed(x, s, q[i].term)
        BY <1>2, <2>2, <3>1 DEF QueueOK
      <3>3. i - 1 \in 0..n
        BY <2>2
      <3> QED
        BY <1>4, <1>6, <2>2, <3>2, <3>3
    <2> QED
      BY <1>4, <2>1, <2>2
  <1>10. ASSUME NEW i \in 1..Len(r), r[i].type # "vote"
         PROVE  r[i].term = w.term
    <2>1. \A j \in 1..n : q[j].type # "vote" => q[j].term = w.term
      BY <1>1, <1>2 DEF LinkOK
    <2> QED
      BY <1>4, <1>10, <2>1
  <1>11. d.req = r
    BY <1>1, <1>3
  <1> QED
    BY <1>5, <1>8, <1>9, <1>10, <1>11 DEF LinkOK
\* Requests of an elected walproposer say what its leader has said.
LEMMA AppendRequestFits ==
    ASSUME NEW x, NEW p \in Computes, NEW w \in ProposerOK, MineOK(x, p, w), LeaderOK(x, p, w),
           w.state = "elected", NEW lsn \in Nat, NEW recs \in Seq(Computes),
           recs # <<>> => 1 <= lsn /\ lsn + Len(recs) <= x.limit[w.term],
           \A i \in 1..Len(recs) : recs[i] = x.log[w.term][lsn + i - 1]
    PROVE  /\ AppendRequest(w, lsn, recs) \in AppendRequestType
           /\ ReqOK(x, AppendRequest(w, lsn, recs))
           /\ AppendRequest(w, lsn, recs).term = w.term
  <1>1. PICK m : m = AppendRequest(w, lsn, recs)
    OBVIOUS
  <1>2. m \in AppendRequestType
    BY <1>1, RequestsAreTyped
  <1>3. /\ m.type = "append" /\ m.term = w.term /\ m.begin = lsn /\ m.recs = recs
        /\ m.commit = w.commit /\ m.truncate = w.truncate
    BY <1>1 DEF AppendRequest
  <1>4. w.term \in x.led
    BY ElectedIsLeader
  <1>5. /\ w.commit # 0 => Committed(x, w.term, w.commit)
        /\ Everywhere(x, w.truncate)
    BY DEF LeaderOK
  <1>6. ReqOK(x, m)
    BY <1>3, <1>4, <1>5 DEF ReqOK
  <1> QED
    BY <1>1, <1>2, <1>3, <1>6

\* SendAppendRequests.
LEMMA SendAppendFits ==
    ASSUME TypeInv, TypeInv', Fitting, NEW p \in Computes, NEW s \in Safekeepers,
           SendAppendRequest(p, s)
    PROVE  Fitting'
  <1>1. PICK x : Fits(x)
    BY DEF Fitting
  <1>2. PICK c \in ConnOK : c = conn[p][s]
    BY DEF TypeInv
  <1>3. PICK w \in ProposerOK : w = wp[p]
    BY DEF TypeInv
  <1>4. MineOK(x, p, w) /\ LeaderOK(x, p, w) /\ LinkOK(x, s, w, c)
    BY <1>1, <1>2, <1>3 DEF Fits
  <1>5. /\ w.state = "elected" /\ c.state = "active"
        /\ UNCHANGED <<sk, wp, old, info, wins, chosen>>
    BY <1>2, <1>3, Zenon DEF SendAppendRequest
  <1>6. PICK lsn : lsn = c.sent
    OBVIOUS
  <1>7. lsn \in Nat /\ 1 <= lsn
    BY <1>5, <1>6 DEF ConnOK, ConnType
  <1>8. conn \in [Computes -> [Safekeepers -> ConnOK]]
    BY DEF TypeInv
  <1>9. \E m, d :
            /\ m \in AppendRequestType /\ ReqOK(x, m) /\ m.term = w.term
            /\ conn' = [conn EXCEPT ![p][s] = d]
            /\ d.req = Append(c.req, m) /\ d.rep = c.rep /\ d.dirty = c.dirty
            /\ d.ackFlush = c.ackFlush /\ d.state = c.state
    <2>1. ASSUME lsn < Available(w), NEW r \in Readable(p, lsn),
                 conn' = [conn EXCEPT
                        ![p][s].req  = Append(@, AppendRequest(w, lsn, <<r>>)),
                        ![p][s].sent = lsn + 1,
                        ![p][s].told = <<w.commit, w.truncate>>]
          PROVE  \E m, d :
            /\ m \in AppendRequestType /\ ReqOK(x, m) /\ m.term = w.term
            /\ conn' = [conn EXCEPT ![p][s] = d]
            /\ d.req = Append(c.req, m) /\ d.rep = c.rep /\ d.dirty = c.dirty
            /\ d.ackFlush = c.ackFlush /\ d.state = c.state
      <3>1. r = x.log[w.term][lsn] /\ lsn + 1 <= x.limit[w.term] /\ r \in Computes
        <4>1. wp[p].state = "elected" /\ lsn < Available(wp[p])
          BY <1>3, <1>5, <2>1
        <4> QED
          BY <1>1, <1>3, <1>7, <2>1, <4>1, ReadableIsOwn
      <3>2. PICK recs : recs = <<r>>
        BY Zenon
      <3>3. recs \in Seq(Computes) /\ Len(recs) = 1 /\ recs[1] = r
        BY <3>1, <3>2
      <3>4. PICK m : m = AppendRequest(w, lsn, recs)
        OBVIOUS
      <3>5. \A i \in 1..Len(recs) : recs[i] = x.log[w.term][lsn + i - 1]
        <4>1. lsn + 1 - 1 = lsn /\ \A i \in 1..1 : i = 1
          BY <1>7
        <4> QED
          BY <3>1, <3>3, <4>1
      <3>6. m \in AppendRequestType /\ ReqOK(x, m) /\ m.term = w.term
        BY <1>4, <1>5, <1>7, <3>1, <3>3, <3>4, <3>5, AppendRequestFits, ZenonT(40)
      <3>7. PICK d : d = [c EXCEPT !.req = Append(c.req, m), !.sent = lsn + 1,
                                   !.told = <<w.commit, w.truncate>>]
        OBVIOUS
      <3>8. /\ d.req = Append(c.req, m) /\ d.rep = c.rep /\ d.dirty = c.dirty
            /\ d.ackFlush = c.ackFlush /\ d.state = c.state
        BY <3>7 DEF ConnOK, ConnType
      <3>9. conn' = [conn EXCEPT ![p][s].req  = Append(@, m), ![p][s].sent = lsn + 1,
                                 ![p][s].told = <<w.commit, w.truncate>>]
        BY <2>1, <3>2, <3>4
      <3>10. conn' = [conn EXCEPT ![p][s] = d]
        BY <1>2, <1>8, <3>7, <3>9, ZenonT(40) DEF ConnOK, ConnType
      <3> QED
        BY <3>6, <3>8, <3>10, Zenon
    <2>2. ASSUME conn' = [conn EXCEPT
                     ![p][s].req  = Append(@, AppendRequest(w, lsn, <<>>)),
                     ![p][s].told = <<w.commit, w.truncate>>]
          PROVE  \E m, d :
            /\ m \in AppendRequestType /\ ReqOK(x, m) /\ m.term = w.term
            /\ conn' = [conn EXCEPT ![p][s] = d]
            /\ d.req = Append(c.req, m) /\ d.rep = c.rep /\ d.dirty = c.dirty
            /\ d.ackFlush = c.ackFlush /\ d.state = c.state
      <3>1. PICK recs : recs = <<>>
        OBVIOUS
      <3>2. recs \in Seq(Computes) /\ 1..Len(recs) = {}
        BY <3>1
      <3>3. PICK m : m = AppendRequest(w, lsn, recs)
        OBVIOUS
      <3>4. m \in AppendRequestType /\ ReqOK(x, m) /\ m.term = w.term
        BY <1>4, <1>5, <1>7, <3>1, <3>2, <3>3, AppendRequestFits, Zenon
      <3>5. PICK d : d = [c EXCEPT !.req = Append(c.req, m), !.told = <<w.commit, w.truncate>>]
        OBVIOUS
      <3>6. /\ d.req = Append(c.req, m) /\ d.rep = c.rep /\ d.dirty = c.dirty
            /\ d.ackFlush = c.ackFlush /\ d.state = c.state
        BY <3>5 DEF ConnOK, ConnType
      <3>7. conn' = [conn EXCEPT ![p][s].req  = Append(@, m),
                                 ![p][s].told = <<w.commit, w.truncate>>]
        BY <2>2, <3>1, <3>3
      <3>8. conn' = [conn EXCEPT ![p][s] = d]
        BY <1>2, <1>8, <3>5, <3>7, Zenon DEF ConnOK, ConnType
      <3> QED
        BY <3>4, <3>6, <3>8, Zenon
    <2> QED
      BY <1>2, <1>3, <1>6, <2>1, <2>2, Zenon DEF SendAppendRequest
  <1>10. PICK m, d :
            /\ m \in AppendRequestType /\ ReqOK(x, m) /\ m.term = w.term
            /\ conn' = [conn EXCEPT ![p][s] = d]
            /\ d.req = Append(c.req, m) /\ d.rep = c.rep /\ d.dirty = c.dirty
            /\ d.ackFlush = c.ackFlush /\ d.state = c.state
    BY <1>9, Zenon
  <1>11. LinkOK(x, s, w, d)
    BY <1>4, <1>5, <1>10, AppendLink
  <1>12. ComputeStep(x, p)
    BY <1>1, <1>2, <1>3, <1>5, <1>10, <1>11, ConnectionStep, Zenon
  <1> QED
    BY <1>1, <1>12, ComputeStepFits

-----------------------------------------------------------------------------
(***************************************************************************)
(* Postgres writes WAL: the log of its term ends one record later.         *)
(***************************************************************************)
Written(x, u, n) == [x EXCEPT !.limit = [x.limit EXCEPT ![u] = n]]

\* The view after it.
LEMMA WrittenGrows ==
    ASSUME NEW x, Core(x), NEW u \in x.led, NEW n \in Nat, x.limit[u] <= n,
           NEW y, y = Written(x, u, n)
    PROVE  /\ Grown(x, y) /\ Core(y) /\ SameSafekeepers(x, y)
           /\ y.led = x.led /\ y.hist = x.hist /\ y.log = x.log /\ y.by = x.by
           /\ y.chosen = x.chosen
           /\ y.limit[u] = n /\ \A t \in x.led \ {u} : y.limit[t] = x.limit[t]
  <1>1. x \in View /\ Tree(x) /\ AccOK(x)
    BY DEF Core
  <1>2. x.limit \in [Nat -> Nat] /\ x.led \subseteq Nat
    BY <1>1, ViewFields, Zenon
  <1>3. y \in View
    BY <1>1, <1>2, Zenon DEF Written, View
  <1>4. /\ y.led = x.led /\ y.hist = x.hist /\ y.log = x.log /\ y.by = x.by
        /\ y.chosen = x.chosen /\ y.acc = x.acc /\ y.term = x.term /\ y.at = x.at
        /\ y.limit = [x.limit EXCEPT ![u] = n]
    BY <1>1 DEF Written, View
  <1>5. y.limit[u] = n /\ \A t \in x.led \ {u} : y.limit[t] = x.limit[t]
    BY <1>2, <1>4
  <1>6. \A t \in x.led : x.limit[t] <= y.limit[t] /\ x.limit[t] \in Nat /\ y.limit[t] \in Nat
    BY <1>2, <1>4, <1>5
  <1>7. End(y) = End(x) /\ End(x) \in Nat
    BY <1>1, <1>4, EndIs DEF End
  <1>8. \A s \in Safekeepers, t \in Nat : x.acc[s][t] \in Nat /\ x.term[s] \in Nat
    BY <1>1, ViewFields, Zenon
  <1>9. Grows(x, y)
    BY <1>2, <1>4, <1>6, <1>7, <1>8 DEF Grows
  <1>10. Grown(x, y)
    BY <1>1, <1>3, <1>9 DEF Grown
  <1>11. AccOK(y)
    <2>1. \A s \in Safekeepers, t \in x.led : x.acc[s][t] <= y.limit[t]
      BY <1>1, <1>2, <1>6, <1>8 DEF AccOK
    <2> QED
      BY <1>1, <1>4, <2>1 DEF AccOK
  <1>12. Core(y)
    BY <1>4, <1>10, <1>11, CoreStays
  <1>13. SameSafekeepers(x, y)
    BY <1>4 DEF SameSafekeepers
  <1> QED
    BY <1>4, <1>5, <1>10, <1>12, <1>13

\* A connection depends on the state and the term of its walproposer.
LEMMA LinkSameTerm ==
    ASSUME NEW x, NEW s, NEW w, NEW v, NEW c, LinkOK(x, s, w, c),
           v.state = w.state, v.term = w.term
    PROVE  LinkOK(x, s, v, c)
    BY DEF LinkOK, RepOK

\* Postgres writes a record.
LEMMA WriteWalFits ==
    ASSUME TypeInv, TypeInv', Fitting, NEW p \in Computes, WriteWal(p)
    PROVE  Fitting'
  <1>1. PICK x : Fits(x)
    BY DEF Fitting
  <1>2. PICK w \in ProposerOK : w = wp[p]
    BY DEF TypeInv
  <1>3. PICK v : v = [w EXCEPT !.end = w.end + 1]
    BY Zenon
  <1>4. /\ w.mode = "compute" /\ w.state = "elected"
        /\ UNCHANGED <<sk, conn, old, info, wins, chosen>>
        /\ wp' = [wp EXCEPT ![p] = v]
    BY <1>2, <1>3 DEF WriteWal, TypeInv
  <1>5. wp'[p] = v /\ \A q \in Computes \ {p} : wp'[q] = wp[q]
    BY <1>4 DEF TypeInv
  <1>6. /\ v.state = w.state /\ v.term = w.term /\ v.mode = w.mode /\ v.mine = w.mine
        /\ v.base = w.base /\ v.end = w.end + 1 /\ v.commit = w.commit /\ v.start = w.start
        /\ v.history = w.history /\ v.truncate = w.truncate /\ v.donors = w.donors
        /\ w.end \in Nat /\ w.base \in Nat
    BY <1>3 DEF ProposerOK, ProposerType
  <1>7. MineOK(x, p, w) /\ LeaderOK(x, p, w) /\ CountedOK(w, conn[p]) /\ Core(x)
    BY <1>1, <1>2 DEF Fits
  <1>8. PICK u : u = w.term
    OBVIOUS
  <1>9. u \in x.led /\ u >= 1 /\ w.mine = u /\ x.by[u] = p /\ u \in Nat
    BY <1>4, <1>7, <1>8, ElectedIsLeader
  <1>10. /\ x.limit[u] = w.end /\ w.base <= StartOf(x, u) /\ 1 <= w.base /\ w.base <= w.end
         /\ \A l \in Nat : l >= w.base => x.log[u][l] = p
    BY <1>4, <1>7, <1>9 DEF MineOK
  <1>11. PICK n \in Nat : n = w.end + 1
    BY <1>6
  <1>12. PICK y : y = Written(x, u, n)
    OBVIOUS
  <1>13. /\ Grown(x, y) /\ Core(y) /\ SameSafekeepers(x, y)
         /\ y.led = x.led /\ y.hist = x.hist /\ y.log = x.log /\ y.by = x.by
         /\ y.chosen = x.chosen
         /\ y.limit[u] = n /\ \A t \in x.led \ {u} : y.limit[t] = x.limit[t]
    BY <1>6, <1>7, <1>9, <1>10, <1>11, <1>12, WrittenGrows
  <1>14. \A q \in Computes \ {p} : /\ wp'[q] = wp[q] /\ conn'[q] = conn[q]
                                   /\ wp[q].mine \in x.led =>
                                         y.limit[wp[q].mine] = x.limit[wp[q].mine]
    <2>1. ASSUME NEW q \in Computes \ {p} PROVE wp[q].mine # u
      <3>1. MineOK(x, q, wp[q])
        BY <1>1 DEF Fits
      <3> QED
        BY <1>9, <3>1 DEF MineOK
    <2> QED
      BY <1>4, <1>5, <1>13, <2>1
  <1>15. MineOK(y, p, v)
    <2>1. StartOf(y, u) = StartOf(x, u) /\ End(y) = End(x)
      BY <1>13 DEF StartOf, End
    <2>2. v.base <= v.end
      BY <1>6, <1>10
    <2> QED
      BY <1>4, <1>6, <1>7, <1>9, <1>10, <1>11, <1>13, <2>1, <2>2 DEF MineOK
  <1>16. LeaderOK(y, p, v)
    <2>1. LeaderOK(y, p, w)
      BY <1>7, <1>8, <1>9, <1>13, LeaderStays
    <2> QED
      BY <1>6, <2>1 DEF LeaderOK
  <1>17. CountedOK(v, conn[p])
    BY <1>6, <1>7 DEF CountedOK
  <1>18. \A s \in Safekeepers : LinkOK(y, s, v, conn[p][s])
    <2>1. ASSUME NEW s \in Safekeepers PROVE LinkOK(y, s, v, conn[p][s])
      <3>1. PICK c \in ConnOK : c = conn[p][s]
        BY DEF TypeInv
      <3>2. LinkOK(x, s, w, c)
        BY <1>1, <1>2, <3>1 DEF Fits
      <3>3. LinkOK(y, s, w, c)
        BY <1>8, <1>9, <1>13, <3>2, LinkStays
      <3> QED
        BY <1>6, <3>1, <3>3, LinkSameTerm
    <2> QED
      BY <2>1
  <1>19. OwnerOK(y, wp', u)
    BY <1>5, <1>6, <1>10, <1>13 DEF OwnerOK
  <1>25. BaseOK(y, v, conn[p])
    <2>1. v.mine # 0 /\ v.mode = "compute"
      BY <1>4, <1>6, <1>9
    <2> QED
      BY <2>1 DEF BaseOK
  <1>20. \A t \in y.led : \/ t \in x.led /\ y.limit[t] = x.limit[t]
                          \/ OwnerOK(y, wp', t)
    BY <1>13, <1>19
  <1>21. WinsOK(y, wins') /\ y.chosen = chosen'
    <2>1. 0 \in x.led /\ 0 # u
      BY <1>7, <1>9 DEF Core, Tree
    <2>2. WinsOK(x, wins) /\ x.chosen = chosen
      BY <1>1 DEF Fits
    <2>3. y.limit[0] = x.limit[0]
      BY <1>13, <2>1
    <2> QED
      BY <1>4, <1>13, <2>2, <2>3 DEF WinsOK
  <1>22. MineOK(y, p, wp'[p]) /\ LeaderOK(y, p, wp'[p]) /\ CountedOK(wp'[p], conn'[p])
         /\ BaseOK(y, wp'[p], conn'[p])
    BY <1>4, <1>5, <1>15, <1>16, <1>17, <1>25
  <1>23. \A s \in Safekeepers : LinkOK(y, s, wp'[p], conn'[p][s])
    BY <1>4, <1>5, <1>18
  <1>24. /\ UNCHANGED <<sk, info>> /\ \A q \in Computes, s \in Safekeepers :
              old'[q][s] = old[q][s] \/ QueueOK(y, s, old'[q][s].req)
         /\ wp[p].base # 0 => wp'[p].base = wp[p].base
    BY <1>2, <1>4, <1>5, <1>6
  <1> QED
    BY <1>1, <1>13, <1>14, <1>20, <1>21, <1>22, <1>23, <1>24, ComputeFits

-----------------------------------------------------------------------------
(***************************************************************************)
(* WAL is committed: a quorum has acknowledged it in the term of p.        *)
(***************************************************************************)
\* The view in which n is committed.
LEMMA CommitGrows ==
    ASSUME NEW x, Core(x), NEW u \in x.led, NEW q \in Nat, Accepted(x, u, q), q > End(x),
           NEW n \in Seq(Computes), Len(n) = q - 1,
           \A l \in 1..Len(n) : n[l] = x.log[u][l],
           NEW y, y = [x EXCEPT !.chosen = n]
    PROVE  /\ Grown(x, y) /\ Core(y) /\ SameSafekeepers(x, y)
           /\ y.led = x.led /\ y.limit = x.limit /\ y.chosen = n /\ End(y) = q
  <1>1. x \in View /\ Tree(x) /\ AccOK(x) /\ LeadersCover(x)
    BY DEF Core
  <1>2. y \in View
    BY <1>1, Zenon DEF View
  <1>3. /\ y.led = x.led /\ y.hist = x.hist /\ y.log = x.log /\ y.by = x.by
        /\ y.limit = x.limit /\ y.acc = x.acc /\ y.term = x.term /\ y.at = x.at
        /\ y.chosen = n
    BY <1>1 DEF View
  <1>4. x.led \subseteq Nat /\ x.limit \in [Nat -> Nat]
    BY <1>1, ViewFields, Zenon
  <1>5. End(y) = q /\ End(x) \in Nat /\ End(x) >= 1
    <2>1. Len(n) + 1 = q
      OBVIOUS
    <2> QED
      BY <1>1, <1>2, <1>3, <2>1, EndIs, Zenon
  <1>6. \A l \in Nat : 1 <= l /\ l < End(x) => y.chosen[l] = x.chosen[l]
    <2>1. \A l \in Nat : 1 <= l /\ l < q /\ l < End(x) => x.log[u][l] = x.chosen[l]
      BY AcceptedIsChosen
    <2>2. \A l \in Nat : 1 <= l /\ l < q => l \in 1..Len(n)
      OBVIOUS
    <2> QED
      BY <1>3, <1>5, <2>1, <2>2
  <1>7. \A s \in Safekeepers, t \in Nat : x.acc[s][t] \in Nat /\ x.term[s] \in Nat
    BY <1>1, ViewFields
  <1>8. \A t \in x.led : x.limit[t] \in Nat
    BY <1>4, Zenon
  <1>9. Grows(x, y)
    <2>1. \A t \in x.led : /\ y.hist[t] = x.hist[t] /\ y.log[t] = x.log[t] /\ y.by[t] = x.by[t]
                           /\ x.limit[t] <= y.limit[t]
      BY <1>3, <1>8
    <2>2. ASSUME NEW s \in Safekeepers
          PROVE  /\ x.term[s] <= y.term[s]
                 /\ y.at[s] = x.at[s]
                 /\ \A t \in x.led : x.acc[s][t] <= y.acc[s][t] /\ y.acc[s][t] = x.acc[s][t]
      <3>1. y.term[s] = x.term[s] /\ y.at[s] = x.at[s] /\ \A t : y.acc[s][t] = x.acc[s][t]
        BY <1>3
      <3>2. \A t \in x.led : x.acc[s][t] \in Nat /\ x.term[s] \in Nat
        BY <1>4, <1>7, Zenon
      <3> QED
        BY <3>1, <3>2
    <2>3. y.led \ x.led = {} /\ x.led \subseteq y.led
      BY <1>3
    <2>4. End(x) <= End(y)
      BY <1>5
    <2> QED
      BY <1>6, <2>1, <2>2, <2>3, <2>4 DEF Grows
  <1>10. Grown(x, y)
    BY <1>1, <1>2, <1>9 DEF Grown
  <1>11. Tree(y)
    BY <1>1, <1>3, <1>10, HistoryStays DEF Tree
  <1>12. AccOK(y)
    BY <1>1, <1>3 DEF AccOK
  <1>13. LeadersCover(y)
    BY <1>1, <1>3, <1>10, CoverStays, Zenon DEF LeadersCover
  <1>14. ChosenOK(y)
    <2>1. Accepted(y, u, q)
      BY <1>10, AcceptedStays
    <2>2. Committed(y, u, End(y))
      BY <1>3, <1>5, <2>1 DEF Committed
    <2> QED
      BY <1>3, <2>2 DEF ChosenOK
  <1>15. Core(y)
    BY <1>2, <1>11, <1>12, <1>13, <1>14 DEF Core
  <1>16. SameSafekeepers(x, y)
    BY <1>3 DEF SameSafekeepers
  <1> QED
    BY <1>3, <1>5, <1>10, <1>15, <1>16

\* What a quorum has acknowledged since the start of the term is accepted.
LEMMA AckedIsAccepted ==
    ASSUME NEW x \in View, Tree(x), NEW u \in x.led, NEW start, start = StartOf(x, u),
           NEW ack \in [Safekeepers -> Nat],
           \A z \in Safekeepers : ack[z] <= x.acc[z][u],
           NEW q \in Nat, AckedBy(start, ack, q)
    PROVE  Accepted(x, u, q)
  <1>1. PICK Q : Q = {z \in Safekeepers : ack[z] >= start /\ ack[z] >= q}
    BY Zenon
  <1>2. Q \in SUBSET Safekeepers /\ IsQuorum(Q)
    BY <1>1 DEF AckedBy
  <1>3. start \in Nat /\ u \in Nat
    BY LeaderHistory
  <1>4. \A z \in Safekeepers : x.acc[z][u] \in Nat
    BY <1>3, ViewFields
  <1>5. \A z \in Q : x.acc[z][u] >= Floor(x, u, q)
    BY <1>1, <1>3, <1>4 DEF Floor, Larger
  <1> QED
    BY <1>2, <1>5 DEF Accepted

\* The safekeeper whose acknowledgement completes a quorum has it all.
LEMMA LastAckReaches ==
    ASSUME NEW start \in Nat, NEW ack \in [Safekeepers -> Nat], NEW s \in Safekeepers, NEW f \in Nat,
           NEW q \in Nat, AckedBy(start, [ack EXCEPT ![s] = f], q), ~AckedBy(start, ack, q)
    PROVE  f >= q
  <1> SUFFICES ASSUME ~(f >= q) PROVE FALSE
    OBVIOUS
  <1>1. PICK new : new = [ack EXCEPT ![s] = f]
    BY Zenon
  <1>2. PICK Q : Q = {z \in Safekeepers : new[z] >= start /\ new[z] >= q}
    BY Zenon
  <1>3. PICK R : R = {z \in Safekeepers : ack[z] >= start /\ ack[z] >= q}
    BY Zenon
  <1>4. Q \in SUBSET Safekeepers /\ R \in SUBSET Safekeepers /\ IsQuorum(Q) /\ ~IsQuorum(R)
    BY <1>1, <1>2, <1>3 DEF AckedBy
  <1>5. new[s] = f /\ \A z \in Safekeepers \ {s} : new[z] = ack[z]
    BY <1>1
  <1>6. Q \subseteq R
    BY <1>2, <1>3, <1>5
  <1> QED
    BY <1>4, <1>6, QuorumGrows

\* The WAL that is committed is the one of the term of p.
LEMMA CommittedWalIs ==
    ASSUME TypeInv, NEW x, Fits(x), NEW p \in Computes, NEW s \in Safekeepers,
           wp[p].state = "elected", NEW q \in Nat, q > End(x), Accepted(x, wp[p].term, q),
           q <= x.acc[s][wp[p].term]
    PROVE  /\ CommittedWal(p, s, q) \in Seq(Computes) /\ Len(CommittedWal(p, s, q)) = q - 1
           /\ \A l \in 1..(q - 1) : CommittedWal(p, s, q)[l] = x.log[wp[p].term][l]
  <1>1. PICK w \in ProposerOK : w = wp[p]
    BY DEF TypeInv
  <1>2. MineOK(x, p, w) /\ LeaderOK(x, p, w) /\ w.state = "elected" /\ Core(x)
    BY <1>1 DEF Fits
  <1>3. PICK u : u = w.term
    OBVIOUS
  <1>4. w.mine = u /\ u \in x.led /\ u \in Nat /\ u >= 1 /\ Accepted(x, u, q) /\ q <= x.acc[s][u]
    BY <1>1, <1>2, <1>3, ElectedIsLeader
  <1>5. /\ x.chosen = chosen /\ chosen \in Seq(Computes) /\ End(x) = EndOf(chosen) /\ x \in View
        /\ sk[s] \in SafekeeperOK /\ SkOK(x, s, sk[s])
    BY FitsFields
  <1>6. End(x) \in Nat /\ End(x) >= 1 /\ End(x) = Len(chosen) + 1 /\ Len(chosen) \in Nat
    BY <1>5, EndIs
  <1>7. PICK n : n = CommittedWal(p, s, q)
    OBVIOUS
  <1>8. CASE w.mode = "compute"
    <2>1. PICK b \in Nat : b = w.base
      BY DEF ProposerOK, ProposerType
    <2>2. b <= End(x) /\ 1 <= b /\ \A l \in Nat : l >= b => x.log[u][l] = p
      BY <1>2, <1>4, <1>8, <2>1 DEF MineOK
    <2>3. PICK f : f = Below(chosen, b)
      OBVIOUS
    <2>4. f \in Seq(Computes) /\ Len(f) = b - 1 /\ \A l \in 1..(b - 1) : f[l] = chosen[l]
      <3>1. b \in 1..EndOf(chosen)
        BY <1>5, <1>6, <2>2
      <3> QED
        BY <1>5, <2>3, <3>1, BelowFields, Zenon
    <2>5. PICK g : g = [i \in 1..(q - b) |-> p]
      BY Zenon
    <2>6. q - b \in Nat
      BY <1>6, <2>1, <2>2
    <2>7. g \in Seq(Computes) /\ Len(g) = q - b /\ \A i \in 1..(q - b) : g[i] = p
      BY <2>5, <2>6
    <2>8. n = f \o g
      BY <1>1, <1>7, <1>8, <2>1, <2>3, <2>5 DEF CommittedWal
    <2>9. /\ n \in Seq(Computes) /\ Len(n) = Len(f) + Len(g)
          /\ \A l \in 1..Len(f) : n[l] = f[l]
          /\ \A i \in 1..Len(g) : n[Len(f) + i] = g[i]
      <3>1. f \in Seq(Computes) /\ g \in Seq(Computes)
        BY <2>4, <2>7
      <3> QED
        BY <2>8, <3>1, ConcatFields
    <2>10. Len(n) = q - 1
      BY <2>1, <2>4, <2>7, <2>9
    <2>11. ASSUME NEW l \in 1..(q - 1) PROVE n[l] = x.log[u][l]
      <3>1. CASE l < b
        <4>0. l \in 1..(b - 1) /\ l \in 1..Len(chosen)
          BY <1>6, <2>2, <3>1
        <4>1. n[l] = chosen[l] /\ l \in 1..Len(chosen)
          BY <2>4, <2>9, <4>0
        <4>2. \A k \in Nat : 1 <= k /\ k < q /\ k < End(x) => x.log[u][k] = x.chosen[k]
          BY <1>2, <1>4, AcceptedIsChosen
        <4>3. x.log[u][l] = x.chosen[l]
          BY <1>6, <4>1, <4>2
        <4> QED
          BY <1>5, <4>1, <4>3
      <3>2. CASE l >= b
        <4>1. PICK i : i = l - b + 1
          OBVIOUS
        <4>2. i \in 1..(q - b) /\ (b - 1) + i = l
          BY <3>2, <4>1
        <4>3. n[l] = p
          BY <2>4, <2>7, <2>9, <4>2, Zenon
        <4> QED
          BY <2>2, <3>2, <4>3
      <3> QED
        BY <2>1, <3>1, <3>2
    <2> QED
      BY <1>1, <1>3, <1>7, <2>9, <2>10, <2>11
  <1>9. CASE w.mode # "compute"
    <2>1. PICK k \in SafekeeperOK : k = sk[s]
      BY <1>5
    <2>2. n = Below(k.wal, q)
      BY <1>1, <1>7, <1>9, <2>1 DEF CommittedWal
    <2>3. 1 <= q
      BY <1>6
    <2>4. /\ q <= k.flush
          /\ \A l \in Nat : 1 <= l /\ l < q => l \in 1..Len(k.wal) /\ k.wal[l] = x.log[u][l]
      BY <1>2, <1>4, <1>5, <2>1, <2>3, HoldsAccepted
    <2>5. k.flush \in Nat /\ k.flush <= 1 + Len(k.wal) /\ k.wal \in Seq(Computes) /\ Len(k.wal) \in Nat
      BY SafekeeperFields
    <2>6. q \in 1..EndOf(k.wal)
      BY <2>3, <2>4, <2>5 DEF EndOf
    <2>7. n \in Seq(Computes) /\ Len(n) = q - 1 /\ \A l \in 1..(q - 1) : n[l] = k.wal[l]
      BY <2>2, <2>5, <2>6, BelowFields, Zenon
    <2>8. \A l \in 1..(q - 1) : n[l] = x.log[u][l]
      BY <2>4, <2>7
    <2> QED
      BY <1>1, <1>3, <1>7, <2>7, <2>8
  <1> QED
    BY <1>8, <1>9

\* The fields of a walproposer that has counted an acknowledgement.
LEMMA WithAcksFields ==
    ASSUME NEW w \in ProposerOK, NEW q \in Nat, NEW f \in Nat, NEW v, v = WithAcks(w, q, f)
    PROVE  /\ v \in ProposerOK /\ v.state = w.state /\ v.mode = w.mode /\ v.term = w.term
           /\ v.base = w.base /\ v.end = w.end /\ v.mine = w.mine /\ v.start = w.start
           /\ v.history = w.history /\ v.donors = w.donors
           /\ v.commit = Larger(w.commit, q)
           /\ v.truncate = Larger(w.truncate, Smaller(f, v.commit))
           /\ w.commit \in Nat /\ w.truncate \in Nat /\ v.commit \in Nat /\ v.truncate \in Nat
  <1>1. w.commit \in Nat /\ w.truncate \in Nat
    BY DEF ProposerOK, ProposerType
  <1>2. v \in ProposerOK
    BY WithAcksType
  <1>3. v.commit \in Nat /\ v.truncate \in Nat
    BY <1>2 DEF ProposerOK, ProposerType
  <1> QED
    BY <1>1, <1>2, <1>3, Zenon DEF WithAcks, ProposerOK, ProposerType

\* An acknowledgement is taken from a connection.
LEMMA AckedLink ==
    ASSUME NEW x, NEW s \in Safekeepers, NEW w, w.term \in Nat, NEW c \in ConnOK, LinkOK(x, s, w, c),
           c.rep # <<>>, NEW r, r = Head(c.rep), r.type = "append", r.term \in Nat, r.term <= w.term,
           NEW d, d.rep = Tail(c.rep), d.req = c.req, d.state = c.state, d.dirty = c.dirty,
           d.ackFlush = r.flush
    PROVE  /\ LinkOK(x, s, w, d)
           /\ r.flush <= x.acc[s][w.term] /\ w.state = "elected"
  <1>1. PICK q \in Seq(ReplyType) : q = c.rep
    BY DEF ConnOK, ConnType
  <1>2. PICK n \in Nat : n = Len(q)
    BY LenProperties
  <1>3. n >= 1 /\ Len(Tail(q)) = n - 1 /\ r = q[1] /\ \A i \in 1..(n - 1) : Tail(q)[i] = q[i + 1]
    <2>1. n # 0
      BY <1>1, <1>2, EmptySeq
    <2>2. r = q[1]
      BY <1>1, <2>1, HeadTailProperties
    <2> QED
      BY <1>1, <1>2, <2>1, <2>2, HeadTailProperties
  <1>4. \A i \in 1..n : RepOK(x, s, w, q[i])
    BY <1>1, <1>2 DEF LinkOK
  <1>5. RepOK(x, s, w, r)
    BY <1>3, <1>4
  <1>6. w.state = "elected" /\ r.flush <= x.acc[s][w.term] /\ Streamed(x, s, w.term)
    BY <1>5 DEF RepOK
  <1>7. \A i \in 1..Len(d.rep) : RepOK(x, s, w, d.rep[i])
    <2>1. Len(d.rep) = n - 1 /\ \A i \in 1..(n - 1) : d.rep[i] = q[i + 1]
      BY <1>1, <1>3
    <2>2. \A i \in 1..(n - 1) : i + 1 \in 1..n
      OBVIOUS
    <2> QED
      BY <1>4, <2>1, <2>2
  <1> QED
    BY <1>6, <1>7 DEF LinkOK

\* There is a view in which more WAL is committed.
LEMMA CommitView ==
    ASSUME NEW x, Core(x), NEW u \in x.led, NEW q \in Nat, Accepted(x, u, q), q > End(x),
           NEW n \in Seq(Computes), Len(n) = q - 1,
           \A l \in 1..Len(n) : n[l] = x.log[u][l]
    PROVE  \E y : /\ Grown(x, y) /\ Core(y) /\ SameSafekeepers(x, y)
                  /\ y.led = x.led /\ y.limit = x.limit /\ y.chosen = n /\ End(y) = q
  <1>1. PICK y : y = [x EXCEPT !.chosen = n]
    BY Zenon
  <1>2. /\ Grown(x, y) /\ Core(y) /\ SameSafekeepers(x, y)
        /\ y.led = x.led /\ y.limit = x.limit /\ y.chosen = n /\ End(y) = q
    BY <1>1, CommitGrows
  <1> QED
    BY <1>2

\* What is known about the acknowledgements when they are counted.
AcksKnown(x, p, s, w, ack, q, f, v, n) ==
    /\ w \in ProposerOK /\ w = wp[p] /\ w.state = "elected"
    /\ ack \in [Safekeepers -> Nat] /\ \A z \in Safekeepers : ack[z] <= x.acc[z][w.term]
    /\ q \in Nat /\ f \in Nat
    /\ q # 0 => AckedBy(w.start, ack, q)
    /\ q > w.commit => q <= x.acc[s][w.term]
    /\ \A z \in Safekeepers : ack[z] >= f
    /\ v.commit = Larger(w.commit, q) /\ v.truncate = Larger(w.truncate, Smaller(f, v.commit))
    /\ v.commit \in Nat /\ v.truncate \in Nat
    /\ n = IF v.commit > EndOf(chosen) THEN CommittedWal(p, s, v.commit) ELSE chosen

\* What the acknowledgements commit, and what all safekeepers have of it.
LEMMA AcksCommit ==
    ASSUME TypeInv, NEW x, Fits(x), NEW p \in Computes, NEW s \in Safekeepers,
           NEW w, NEW ack, NEW q, NEW f, NEW v, NEW n, AcksKnown(x, p, s, w, ack, q, f, v, n)
    PROVE  \E y : /\ Grown(x, y) /\ Core(y) /\ SameSafekeepers(x, y)
                  /\ y.led = x.led /\ y.limit = x.limit /\ y.chosen = n
                  /\ v.commit # 0 => Committed(y, w.term, v.commit)
                  /\ Everywhere(y, v.truncate)
  <1>0. /\ w \in ProposerOK /\ w = wp[p] /\ w.state = "elected"
        /\ ack \in [Safekeepers -> Nat] /\ \A z \in Safekeepers : ack[z] <= x.acc[z][w.term]
        /\ q \in Nat /\ f \in Nat
        /\ q # 0 => AckedBy(w.start, ack, q)
        /\ q > w.commit => q <= x.acc[s][w.term]
        /\ \A z \in Safekeepers : ack[z] >= f
        /\ v.commit = Larger(w.commit, q) /\ v.truncate = Larger(w.truncate, Smaller(f, v.commit))
        /\ v.commit \in Nat /\ v.truncate \in Nat
        /\ n = IF v.commit > EndOf(chosen) THEN CommittedWal(p, s, v.commit) ELSE chosen
    BY DEF AcksKnown
  <1>1. MineOK(x, p, w) /\ LeaderOK(x, p, w) /\ Core(x) /\ x \in View /\ Tree(x)
    BY <1>0 DEF Fits, Core
  <1>2. PICK u : u = w.term
    OBVIOUS
  <1>3. u \in x.led /\ u \in Nat /\ w.start = StartOf(x, u)
    BY <1>0, <1>1, <1>2, ElectedIsLeader DEF LeaderOK
  <1>4. /\ v.commit = Larger(w.commit, q) /\ v.truncate = Larger(w.truncate, Smaller(f, v.commit))
        /\ w.commit \in Nat /\ w.truncate \in Nat /\ v.commit \in Nat /\ v.truncate \in Nat
    BY <1>0 DEF ProposerOK, ProposerType
  <1>5. /\ w.commit # 0 => Committed(x, u, w.commit)
        /\ Everywhere(x, w.truncate)
    BY <1>0, <1>1, <1>2 DEF LeaderOK
  <1>6. End(x) = EndOf(chosen) /\ x.chosen = chosen /\ End(x) \in Nat /\ End(x) >= 1
    BY <1>0, <1>1, FitsFields, EndIs
  <1>7. q # 0 => Accepted(x, u, q)
    BY <1>0, <1>1, <1>2, <1>3, AckedIsAccepted
  <1>8. v.commit # 0 => Accepted(x, u, v.commit)
    BY <1>0, <1>4, <1>5, <1>7 DEF Committed, Larger
  <1>9. w.commit <= End(x)
    BY <1>0, <1>4, <1>5, <1>6 DEF Committed
  <1>10. PICK y : /\ Grown(x, y) /\ Core(y) /\ SameSafekeepers(x, y)
                  /\ y.led = x.led /\ y.limit = x.limit /\ y.chosen = n
                  /\ v.commit <= End(y)
    <2>1. CASE v.commit > End(x)
      <3>1. v.commit = q /\ q > w.commit /\ q > End(x)
        <4>1. \A a, b, c, e \in Nat : a <= e /\ c = Larger(a, b) /\ c > e => c = b /\ b > a /\ b > e
          BY DEF Larger
        <4> QED
          BY <1>0, <1>4, <1>6, <1>9, <2>1, <4>1, Zenon
      <3>2. Accepted(x, u, q) /\ q <= x.acc[s][u]
        BY <1>0, <1>2, <1>6, <1>7, <3>1
      <3>3. n = CommittedWal(p, s, q)
        BY <1>0, <1>6, <2>1, <3>1
      <3>4. /\ CommittedWal(p, s, q) \in Seq(Computes) /\ Len(CommittedWal(p, s, q)) = q - 1
            /\ \A l \in 1..(q - 1) : CommittedWal(p, s, q)[l] = x.log[wp[p].term][l]
        <4>1. wp[p].state = "elected" /\ Accepted(x, wp[p].term, q) /\ q <= x.acc[s][wp[p].term]
          BY <1>0, <1>2, <3>2
        <4> QED
          BY <1>0, <3>1, <4>1, CommittedWalIs
      <3>5. n \in Seq(Computes) /\ Len(n) = q - 1 /\ \A l \in 1..(q - 1) : n[l] = x.log[u][l]
        BY <1>0, <1>2, <3>3, <3>4
      <3>6. \A l \in 1..Len(n) : n[l] = x.log[u][l]
        BY <3>5
      <3>7. \E y : /\ Grown(x, y) /\ Core(y) /\ SameSafekeepers(x, y)
                   /\ y.led = x.led /\ y.limit = x.limit /\ y.chosen = n /\ End(y) = q
        <4>1. /\ Core(x) /\ u \in x.led /\ q \in Nat /\ Accepted(x, u, q) /\ q > End(x)
              /\ n \in Seq(Computes) /\ Len(n) = q - 1
          BY <1>0, <1>1, <1>3, <3>1, <3>2, <3>5
        <4> QED
          BY <3>6, <4>1, CommitView
      <3>8. v.commit = q /\ q \in Nat
        BY <1>0, <3>1
      <3> QED
        BY <3>7, <3>8
    <2>2. CASE v.commit <= End(x)
      <3>1. n = x.chosen
        BY <1>0, <1>4, <1>6, <2>2
      <3>2. Grown(x, x) /\ SameSafekeepers(x, x)
        BY <1>0, <1>1, GrownItself, SameSafekeepersItself
      <3> QED
        BY <1>0, <1>1, <2>2, <3>1, <3>2
    <2> QED
      BY <1>0, <1>4, <1>6, <2>1, <2>2
  <1>11. v.commit # 0 => Committed(y, u, v.commit)
    BY <1>0, <1>3, <1>4, <1>8, <1>10, AcceptedStays DEF Committed
  <1>12. Everywhere(y, v.truncate)
    <2>1. CASE v.truncate = w.truncate
      BY <1>0, <1>4, <1>5, <1>10, <2>1, EverywhereStays
    <2>2. CASE v.truncate # w.truncate
      <3>1. /\ v.truncate = Smaller(f, v.commit) /\ v.truncate # 0
            /\ v.truncate <= f /\ v.truncate <= v.commit /\ v.commit # 0
        BY <1>0, <1>4, <2>2 DEF Larger, Smaller
      <3>2. y \in View /\ Tree(y)
        BY <1>0, <1>10 DEF Core
      <3>3. End(y) \in Nat
        BY <1>0, <3>2, EndIs
      <3>4. u \in y.led /\ v.truncate <= End(y)
        BY <1>0, <1>3, <1>4, <1>10, <3>1, <3>3
      <3>5. Accepted(y, u, v.truncate)
        BY <1>0, <1>4, <1>11, <3>1, <3>2, <3>4, AcceptedLess DEF Committed
      <3>6. Committed(y, u, v.truncate)
        BY <3>4, <3>5 DEF Committed
      <3>7. ASSUME NEW z \in Safekeepers PROVE y.acc[z][u] >= v.truncate
        <4>1. y.acc[z][u] = x.acc[z][u] /\ ack[z] \in Nat /\ ack[z] <= x.acc[z][u] /\ ack[z] >= f
          BY <1>0, <1>2, <1>3, <1>10 DEF SameSafekeepers
        <4>2. x.acc[z][u] \in Nat
          BY <1>0, <1>1, <1>3, ViewFields
        <4> QED
          BY <1>0, <1>4, <3>1, <4>1, <4>2
      <3> QED
        BY <3>4, <3>6, <3>7 DEF Everywhere
    <2> QED
      BY <2>1, <2>2
  <1> QED
    BY <1>0, <1>2, <1>10, <1>11, <1>12

\* An acknowledgement is counted: what walproposer p knows of it.
AckCounted(p, s, w, c, cs, ack, q, f, v, n) ==
    /\ w = wp[p] /\ w.state = "elected" /\ cs = [conn[p] EXCEPT ![s] = c]
    /\ ack = [z \in Safekeepers |-> cs[z].ackFlush]
    /\ IsQuorumLsn(w.start, ack, q) /\ IsMinFlush(ack, f)
    /\ v = WithAcks(w, q, f)
    /\ n = IF v.commit > EndOf(chosen) THEN CommittedWal(p, s, v.commit) ELSE chosen

\* The acknowledgements before and after.
LEMMA AcksFit ==
    ASSUME TypeInv, NEW x, Fits(x), NEW p \in Computes, NEW s \in Safekeepers,
           NEW w \in ProposerOK, NEW c \in ConnOK, NEW cs, NEW ack,
           NEW q \in 0..MaxLsn, NEW f \in 0..MaxLsn, NEW v, NEW n,
           AckCounted(p, s, w, c, cs, ack, q, f, v, n), LinkOK(x, s, w, c)
    PROVE  /\ cs \in [Safekeepers -> ConnOK]
           /\ \A z \in Safekeepers : LinkOK(x, z, w, cs[z])
           /\ ack \in [Safekeepers -> Nat]
           /\ \A z \in Safekeepers : ack[z] <= x.acc[z][w.term]
           /\ q > w.commit => q <= x.acc[s][w.term]
  <1>1. conn[p] \in [Safekeepers -> ConnOK] /\ w = wp[p] /\ w.state = "elected"
    BY DEF AckCounted, TypeInv
  <1>2. cs = [conn[p] EXCEPT ![s] = c] /\ ack = [z \in Safekeepers |-> cs[z].ackFlush]
    BY DEF AckCounted
  <1>3. cs \in [Safekeepers -> ConnOK] /\ cs[s] = c /\ \A z \in Safekeepers \ {s} : cs[z] = conn[p][z]
    BY <1>1, <1>2
  <1>4. \A z \in Safekeepers : LinkOK(x, z, w, conn[p][z])
    BY <1>1 DEF Fits
  <1>5. \A z \in Safekeepers : LinkOK(x, z, w, cs[z])
    BY <1>3, <1>4
  <1>6. \A e \in ConnOK : e.ackFlush \in Nat
    BY DEF ConnOK, ConnType
  <1>7. ack \in [Safekeepers -> Nat] /\ \A z \in Safekeepers : ack[z] = cs[z].ackFlush
    BY <1>2, <1>3, <1>6
  <1>8. x \in View /\ w.term \in Nat /\ w.start \in Nat /\ w.commit \in Nat
    BY DEF Fits, Core, ProposerOK, ProposerType
  <1>9. \A z \in Safekeepers : ack[z] <= x.acc[z][w.term]
    <2>1. \A z \in Safekeepers : x.acc[z][w.term] \in Nat
      BY <1>8, ViewFields
    <2>2. \A z \in Safekeepers : cs[z].ackFlush # 0 => cs[z].ackFlush <= x.acc[z][w.term]
      BY <1>5 DEF LinkOK
    <2> QED
      BY <1>7, <2>1, <2>2
  <1>10. ASSUME q > w.commit PROVE q <= x.acc[s][w.term]
    <2>1. q \in 1..MaxLsn /\ q \in Nat
      BY <1>8, <1>10, BoundsAssumption
    <2>2. AckedBy(w.start, ack, q)
      BY <2>1 DEF AckCounted, IsQuorumLsn
    <2>3. PICK b : b = [z \in Safekeepers |-> conn[p][z].ackFlush]
      BY Zenon
    <2>4. b \in [Safekeepers -> Nat]
      BY <1>1, <1>6, <2>3
    <2>5. ~AckedBy(w.start, b, q)
      <3>1. CountedOK(w, conn[p])
        BY <1>1 DEF Fits
      <3>2. AckedBy(w.start, b, q) => q <= w.commit
        BY <1>1, <2>1, <2>3, <3>1 DEF CountedOK
      <3> QED
        BY <1>8, <1>10, <2>1, <3>2
    <2>6. ack = [b EXCEPT ![s] = c.ackFlush]
      BY <1>2, <1>3, <2>3
    <2>7. c.ackFlush \in Nat
      BY <1>6
    <2>8. c.ackFlush >= q
      BY <1>8, <2>1, <2>2, <2>4, <2>5, <2>6, <2>7, LastAckReaches, Zenon
    <2>9. ack[s] = c.ackFlush /\ x.acc[s][w.term] \in Nat
      BY <1>3, <1>7, <1>8, ViewFields
    <2> QED
      BY <1>9, <2>1, <2>7, <2>8, <2>9
  <1> QED
    BY <1>3, <1>5, <1>7, <1>9, <1>10

\* commitLsn is where the acknowledgements of a quorum are.
LEMMA AcksCounted ==
    ASSUME NEW p, NEW s, NEW w \in ProposerOK, NEW c, NEW cs, NEW ack,
           NEW q \in 0..MaxLsn, NEW f \in 0..MaxLsn, NEW v, NEW n,
           AckCounted(p, s, w, c, cs, ack, q, f, v, n)
    PROVE  /\ CountedOK(v, cs) /\ q \in Nat /\ f \in Nat
           /\ q # 0 => AckedBy(w.start, ack, q)
           /\ \A z \in Safekeepers : ack[z] >= f
  <1>1. q \in Nat /\ f \in Nat /\ MaxLsn \in Nat
    BY BoundsAssumption
  <1>2. v = WithAcks(w, q, f)
    BY DEF AckCounted
  <1>3. v.start = w.start /\ v.commit = Larger(w.commit, q) /\ w.commit \in Nat /\ v.commit \in Nat
    <2>1. \A a, b \in Nat : WithAcks(w, a, b) \in ProposerOK
      BY WithAcksType
    <2>2. v \in ProposerOK
      BY <1>1, <1>2, <2>1
    <2>3. w.commit \in Nat /\ v.commit \in Nat
      BY <2>2 DEF ProposerOK, ProposerType
    <2> QED
      BY <1>2, <2>3 DEF WithAcks, ProposerOK, ProposerType
  <1>4. \A l \in (q + 1)..MaxLsn : ~AckedBy(w.start, ack, l)
    BY DEF AckCounted, IsQuorumLsn
  <1>5. v.commit >= q
    BY <1>1, <1>3 DEF Larger
  <1>6. ASSUME NEW l \in 1..MaxLsn, AckedBy(w.start, ack, l) PROVE l <= v.commit
    <2>1. ~(l \in (q + 1)..MaxLsn)
      BY <1>4, <1>6
    <2> QED
      BY <1>1, <1>3, <1>5, <2>1
  <1>7. CountedOK(v, cs)
    <2>1. ack = [z \in Safekeepers |-> cs[z].ackFlush]
      BY DEF AckCounted
    <2> QED
      BY <1>3, <1>6, <2>1 DEF CountedOK
  <1> QED
    BY <1>1, <1>7 DEF AckCounted, IsQuorumLsn, IsMinFlush

\* The last requests of sync-safekeepers.
LEMMA BroadcastFits ==
    ASSUME NEW y, NEW z \in Safekeepers, NEW p \in Computes, NEW v \in ProposerOK, MineOK(y, p, v),
           LeaderOK(y, p, v), v.state = "elected", NEW c \in ConnOK, LinkOK(y, z, v, c)
    PROVE  QueueOK(y, z, LastBroadcast(c, v).req)
  <1>1. CASE c.state # "active"
    BY <1>1 DEF LastBroadcast, LinkOK
  <1>2. CASE c.state = "active"
    <2>1. PICK lsn \in Nat : lsn = c.sent
      BY DEF ConnOK, ConnType
    <2>2. PICK e : e = <<>>
      OBVIOUS
    <2>3. e \in Seq(Computes) /\ 1..Len(e) = {}
      BY <2>2
    <2>4. PICK m : m = AppendRequest(v, lsn, e)
      OBVIOUS
    <2>5. m \in AppendRequestType /\ ReqOK(y, m) /\ m.term = v.term
      BY <2>2, <2>3, <2>4, AppendRequestFits, Zenon
    <2>6. PICK d : d = LastBroadcast(c, v)
      OBVIOUS
    <2>7. /\ d.req = Append(c.req, m) /\ d.rep = c.rep /\ d.dirty = c.dirty
          /\ d.ackFlush = c.ackFlush /\ d.state = c.state
      BY <1>2, <2>1, <2>2, <2>4, <2>6 DEF LastBroadcast, ConnOK, ConnType
    <2>8. LinkOK(y, z, v, d)
      BY <1>2, <2>5, <2>7, AppendLink
    <2> QED
      BY <2>6, <2>8 DEF LinkOK
  <1> QED
    BY <1>1, <1>2

\* A walproposer that has counted an acknowledgement fits the view after it.
LEMMA AckedLeader ==
    ASSUME NEW x, NEW y, Grown(x, y), NEW p \in Computes, NEW w \in ProposerOK, w.state = "elected",
           MineOK(x, p, w), LeaderOK(x, p, w), y.limit = x.limit,
           NEW q \in Nat, NEW f \in Nat, NEW v, v = WithAcks(w, q, f),
           v.commit # 0 => Committed(y, w.term, v.commit), Everywhere(y, v.truncate)
    PROVE  /\ MineOK(y, p, v) /\ LeaderOK(y, p, v)
  <1>1. /\ v.state = w.state /\ v.mode = w.mode /\ v.term = w.term
        /\ v.base = w.base /\ v.end = w.end /\ v.mine = w.mine /\ v.start = w.start
        /\ v.history = w.history /\ v.donors = w.donors
    BY DEF WithAcks, ProposerOK, ProposerType
  <1>2. MineOK(y, p, w)
    BY MineStays
  <1>3. w.term \in x.led
    BY ElectedIsLeader
  <1>4. LeaderOK(y, p, w)
    BY <1>3, LeaderStays
  <1>5. MineOK(y, p, v)
    BY <1>1, <1>2 DEF MineOK
  <1>6. LeaderOK(y, p, v)
    BY <1>1, <1>4 DEF LeaderOK
  <1> QED
    BY <1>5, <1>6

\* HandleSafekeeperResponse goes on.
LEMMA AckedGoesOn ==
    ASSUME TypeInv, TypeInv', NEW x, Fits(x), NEW p \in Computes, NEW s \in Safekeepers,
           NEW w \in ProposerOK, NEW c \in ConnOK, NEW cs, NEW ack,
           NEW q \in 0..MaxLsn, NEW f \in 0..MaxLsn, NEW v, NEW n,
           AckCounted(p, s, w, c, cs, ack, q, f, v, n), LinkOK(x, s, w, c),
           UNCHANGED <<sk, info, wins>>, chosen' = n,
           \/ /\ v.mode = "sync" /\ q >= v.start
              /\ wp' = [wp EXCEPT ![p] = PostgresAt(v, v.start)]
              /\ conn' = [conn EXCEPT ![p] = [z \in Safekeepers |-> NewConn]]
              /\ Abandon(p, [z \in Safekeepers |-> LastBroadcast(cs[z], v)])
           \/ /\ wp' = [wp EXCEPT ![p] = v] /\ conn' = [conn EXCEPT ![p] = cs]
              /\ UNCHANGED old
    PROVE  Fitting'
  <1>1. /\ w = wp[p] /\ w.state = "elected" /\ v = WithAcks(w, q, f)
        /\ n = IF v.commit > EndOf(chosen) THEN CommittedWal(p, s, v.commit) ELSE chosen
    BY DEF AckCounted
  <1>2. /\ cs \in [Safekeepers -> ConnOK]
        /\ \A z \in Safekeepers : LinkOK(x, z, w, cs[z])
        /\ ack \in [Safekeepers -> Nat]
        /\ \A z \in Safekeepers : ack[z] <= x.acc[z][w.term]
        /\ q > w.commit => q <= x.acc[s][w.term]
    BY AcksFit, Zenon
  <1>3. /\ CountedOK(v, cs) /\ q \in Nat /\ f \in Nat
        /\ q # 0 => AckedBy(w.start, ack, q)
        /\ \A z \in Safekeepers : ack[z] >= f
    BY AcksCounted, Zenon
  <1>4. /\ v \in ProposerOK /\ v.state = w.state /\ v.mode = w.mode /\ v.term = w.term
        /\ v.base = w.base /\ v.end = w.end /\ v.mine = w.mine /\ v.start = w.start
        /\ v.commit = Larger(w.commit, q)
        /\ v.truncate = Larger(w.truncate, Smaller(f, v.commit))
    <2>1. \A a, b \in Nat : WithAcks(w, a, b) \in ProposerOK
      BY WithAcksType
    <2>2. v \in ProposerOK
      BY <1>1, <1>3, <2>1
    <2> QED
      BY <1>1, <2>2, ZenonT(40) DEF WithAcks, ProposerOK, ProposerType
  <1>5. v.commit \in Nat /\ v.truncate \in Nat /\ w.commit \in Nat /\ v.start \in Nat
    BY <1>4 DEF ProposerOK, ProposerType
  <1>6. PICK y : /\ Grown(x, y) /\ Core(y) /\ SameSafekeepers(x, y)
                 /\ y.led = x.led /\ y.limit = x.limit /\ y.chosen = n
                 /\ v.commit # 0 => Committed(y, w.term, v.commit)
                 /\ Everywhere(y, v.truncate)
    <2>1. AcksKnown(x, p, s, w, ack, q, f, v, n)
      BY <1>1, <1>2, <1>3, <1>4, <1>5 DEF AcksKnown
    <2> QED
      BY <2>1, AcksCommit
  <1>7. MineOK(x, p, w) /\ LeaderOK(x, p, w) /\ x \in View /\ Tree(x)
    BY <1>1 DEF Fits, Core
  <1>8. MineOK(y, p, v) /\ LeaderOK(y, p, v)
    BY <1>1, <1>3, <1>6, <1>7, AckedLeader
  <1>9. w.term \in x.led /\ w.start = StartOf(x, w.term) /\ w.start >= 1
    <2>1. w.term \in x.led /\ w.start = StartOf(x, w.term)
      BY <1>1, <1>7, ElectedIsLeader DEF LeaderOK
    <2> QED
      BY <1>7, <2>1, LeaderHistory
  <1>10. \A z \in Safekeepers : LinkOK(y, z, v, cs[z])
    <2> SUFFICES ASSUME NEW z \in Safekeepers PROVE LinkOK(y, z, v, cs[z])
      OBVIOUS
    <2>1. cs[z] \in ConnOK /\ LinkOK(x, z, w, cs[z])
      BY <1>2
    <2>2. LinkOK(y, z, w, cs[z])
      BY <1>6, <1>9, <2>1, LinkStays
    <2> QED
      BY <1>4, <2>2, LinkSameTerm
  <1>11. /\ \A t \in y.led : \/ t \in x.led /\ y.limit[t] = x.limit[t]
                             \/ OwnerOK(y, wp', t)
         /\ WinsOK(y, wins')
         /\ \A r \in Computes : wp[r].mine \in x.led => y.limit[wp[r].mine] = x.limit[wp[r].mine]
    BY <1>6 DEF Fits, WinsOK
  <1>12. wp \in [Computes -> ProposerOK] /\ conn \in [Computes -> [Safekeepers -> ConnOK]]
    BY DEF TypeInv
  <1>13. CASE /\ wp' = [wp EXCEPT ![p] = v] /\ conn' = [conn EXCEPT ![p] = cs]
              /\ UNCHANGED old
    <2>1. wp'[p] = v /\ conn'[p] = cs /\ old' = old
      BY <1>12, <1>13
    <2>2. \A r \in Computes \ {p} : wp'[r] = wp[r] /\ conn'[r] = conn[r]
      BY <1>12, <1>13
    <2>5. BaseOK(y, v, cs)
      <3>1. w.mine >= 1
        BY <1>1, <1>7, ElectedIsLeader
      <3>2. v.mode # "off" /\ v.mine # 0
        BY <1>1, <1>4, <1>7, <3>1 DEF MineOK
      <3> QED
        BY <3>2 DEF BaseOK
    <2>3. /\ MineOK(y, p, wp'[p]) /\ LeaderOK(y, p, wp'[p]) /\ CountedOK(wp'[p], conn'[p])
          /\ BaseOK(y, wp'[p], conn'[p])
          /\ \A z \in Safekeepers : LinkOK(y, z, wp'[p], conn'[p][z])
      BY <1>3, <1>8, <1>10, <2>1, <2>5
    <2>4. wp[p].base # 0 => wp'[p].base = wp[p].base
      BY <1>1, <1>4, <2>1
    <2> QED
      BY <1>6, <1>11, <2>1, <2>2, <2>3, <2>4, ComputeFits
  <1>14. CASE /\ v.mode = "sync" /\ q >= v.start
              /\ wp' = [wp EXCEPT ![p] = PostgresAt(v, v.start)]
              /\ conn' = [conn EXCEPT ![p] = [z \in Safekeepers |-> NewConn]]
              /\ Abandon(p, [z \in Safekeepers |-> LastBroadcast(cs[z], v)])
    <2>1. PICK g : g = PostgresAt(v, v.start)
      OBVIOUS
    <2>2. /\ g.mode = "compute" /\ g.base = v.start /\ g.end = v.start /\ g.mine = 0
          /\ g.state = "collecting" /\ g.commit = 0
      BY <1>4, <1>5, <2>1, PostgresAtFields
    <2>3. v.start <= End(y) /\ v.start >= 1
      <3>1. v.commit >= q /\ v.commit # 0
        BY <1>3, <1>4, <1>5, <1>9, <1>14 DEF Larger
      <3>2. v.commit <= End(y)
        BY <1>6, <3>1 DEF Committed
      <3>3. End(y) \in Nat
        BY <1>6, EndIs DEF Core
      <3> QED
        BY <1>3, <1>4, <1>5, <1>9, <1>14, <3>1, <3>2, <3>3
    <2>4. MineOK(y, p, g) /\ LeaderOK(y, p, g)
      BY <1>5, <2>2, <2>3 DEF MineOK, LeaderOK
    <2>5. wp'[p] = g /\ \A z \in Safekeepers : conn'[p][z] = NewConn
      BY <1>12, <1>14, <2>1
    <2>6. \A r \in Computes \ {p} : wp'[r] = wp[r] /\ conn'[r] = conn[r]
      BY <1>12, <1>14
    <2>7. /\ MineOK(y, p, wp'[p]) /\ LeaderOK(y, p, wp'[p]) /\ CountedOK(wp'[p], conn'[p])
          /\ BaseOK(y, wp'[p], conn'[p])
          /\ \A z \in Safekeepers : LinkOK(y, z, wp'[p], conn'[p][z])
      <3>1. g.state # "elected"
        BY <2>2
      <3>2. CountedOK(g, conn'[p]) /\ \A z \in Safekeepers : LinkOK(y, z, g, NewConn)
        BY <3>1, FreshFits
      <3>3. \A z \in Safekeepers : conn'[p][z].state = "offline"
        BY <2>5, ClosedFields, Zenon
      <3>4. BaseOK(y, g, conn'[p])
        BY <1>5, <1>6, <2>2, <2>3, <3>3, BaseFresh
      <3> QED
        BY <2>4, <2>5, <3>2, <3>4
    <2>8. wp[p].base # 0 => wp'[p].base = wp[p].base
      BY <1>1, <1>4, <1>7, <1>14 DEF MineOK
    <2>9. PICK ls : ls = [z \in Safekeepers |-> LastBroadcast(cs[z], v)]
      OBVIOUS
    <2>10. ls \in [Safekeepers -> ConnOK] /\ \A z \in Safekeepers : ls[z] = LastBroadcast(cs[z], v)
      BY <1>2, <1>4, <2>9, LastBroadcastType
    <2>11. \A z \in Safekeepers : QueueOK(y, z, ls[z].req)
      BY <1>1, <1>2, <1>4, <1>8, <1>10, <2>10, BroadcastFits
    <2>12. \A r \in Computes, z \in Safekeepers :
              old'[r][z] = old[r][z] \/ QueueOK(y, z, old'[r][z].req)
      BY <1>14, <2>9, <2>10, <2>11, AbandonFits, Zenon
    <2> QED
      BY <1>6, <1>11, <2>6, <2>7, <2>8, <2>12, ComputeFits
  <1> QED
    BY <1>13, <1>14

(***************************************************************************)
(* What AppendAcked does: the acknowledgement is counted, and              *)
(* sync-safekeepers ends when s has the start of the term committed.       *)
(***************************************************************************)
AckTaken(x, p, s, w, c, cs, ack, q, f, v, n) ==
    /\ w \in ProposerOK /\ c \in ConnOK /\ LinkOK(x, s, w, c)
    /\ AckCounted(p, s, w, c, cs, ack, q, f, v, n)
    /\ chosen' = n /\ UNCHANGED <<sk, info, wins>>
    /\ \/ /\ v.mode = "sync" /\ q >= v.start /\ v.start <= End(x)
          /\ wp' = [wp EXCEPT ![p] = PostgresAt(v, v.start)]
          /\ conn' = [conn EXCEPT ![p] = [z \in Safekeepers |-> NewConn]]
          /\ Abandon(p, [z \in Safekeepers |-> LastBroadcast(cs[z], v)])
       \/ /\ wp' = [wp EXCEPT ![p] = v] /\ conn' = [conn EXCEPT ![p] = cs]
          /\ UNCHANGED old

\* Receiving an acknowledgement is that.
LEMMA AckIsTaken ==
    ASSUME TypeInv, NEW x, Fits(x), NEW p \in Computes, NEW s \in Safekeepers, AppendAcked(p, s)
    PROVE  \E w, c, cs, ack, v, n : \E q, f \in 0..MaxLsn : AckTaken(x, p, s, w, c, cs, ack, q, f, v, n)
  <1>2. PICK w : w = wp[p]
    OBVIOUS
  <1>3. PICK c : c = conn[p][s]
    OBVIOUS
  <1>4. w \in ProposerOK /\ c \in ConnOK /\ conn[p] \in [Safekeepers -> ConnOK]
    BY <1>2, <1>3 DEF TypeInv
  <1>5. PICK r : r = Head(c.rep)
    OBVIOUS
  <1>6. c.rep \in Seq(ReplyType) /\ c.rep # <<>> /\ r \in AppendResponseType /\ r.type = "append"
    BY <1>3, <1>5, ReceivedType, Zenon DEF AppendAcked
  <1>7. PICK c1 : c1 = [c EXCEPT !.rep = Tail(c.rep), !.ackFlush = r.flush, !.ackCommit = r.commit]
    OBVIOUS
  <1>8. PICK cs : cs = [conn[p] EXCEPT ![s] = c1]
    BY Zenon
  <1>9. PICK q, f \in 0..MaxLsn :
          /\ IsQuorumLsn(wp[p].start, [z \in Safekeepers |-> cs[z].ackFlush], q)
          /\ IsMinFlush([z \in Safekeepers |-> cs[z].ackFlush], f)
          /\ LET v == WithAcks(wp[p], q, f)
             IN  /\ chosen' = IF v.commit > EndOf(chosen)
                              THEN CommittedWal(p, s, v.commit) ELSE chosen
                 /\ \/ /\ SyncDone(p, v, cs, q)
                       /\ wp' = [wp EXCEPT ![p] = PostgresAt(v, v.start)]
                       /\ conn' = [conn EXCEPT ![p] = [z \in Safekeepers |-> NewConn]]
                       /\ Abandon(p, [z \in Safekeepers |-> LastBroadcast(cs[z], v)])
                    \/ /\ wp'   = [wp EXCEPT ![p] = v]
                       /\ conn' = [conn EXCEPT ![p] = cs]
                       /\ UNCHANGED old
    <2> DEFINE ds == [conn[p] EXCEPT ![s].rep = Tail(@), ![s].ackFlush = Head(conn[p][s].rep).flush,
                                     ![s].ackCommit = Head(conn[p][s].rep).commit]
    <2>1. cs = ds
      BY <1>3, <1>4, <1>5, <1>7, <1>8, Zenon
    <2>2. \E q, f \in 0..MaxLsn :
            /\ IsQuorumLsn(wp[p].start, [z \in Safekeepers |-> ds[z].ackFlush], q)
            /\ IsMinFlush([z \in Safekeepers |-> ds[z].ackFlush], f)
            /\ LET v == WithAcks(wp[p], q, f)
               IN  /\ chosen' = IF v.commit > EndOf(chosen)
                                THEN CommittedWal(p, s, v.commit) ELSE chosen
                   /\ \/ /\ SyncDone(p, v, ds, q)
                         /\ wp' = [wp EXCEPT ![p] = PostgresAt(v, v.start)]
                         /\ conn' = [conn EXCEPT ![p] = [z \in Safekeepers |-> NewConn]]
                         /\ Abandon(p, [z \in Safekeepers |-> LastBroadcast(ds[z], v)])
                      \/ /\ wp'   = [wp EXCEPT ![p] = v]
                         /\ conn' = [conn EXCEPT ![p] = ds]
                         /\ UNCHANGED old
      BY Zenon DEF AppendAcked
    <2> HIDE DEF ds
    <2> QED
      BY <2>1, <2>2, Zenon
  <1>10. PICK ack : ack = [z \in Safekeepers |-> cs[z].ackFlush]
    BY Zenon
  <1>11. PICK v : v = WithAcks(w, q, f)
    OBVIOUS
  <1>12. PICK n : n = IF v.commit > EndOf(chosen) THEN CommittedWal(p, s, v.commit) ELSE chosen
    OBVIOUS
  <1>13. /\ r.term \in Nat /\ r.term <= w.term /\ w.term \in Nat
         /\ r.flush \in Nat /\ r.commit \in Nat
    BY <1>2, <1>3, <1>4, <1>5, <1>6, Zenon DEF AppendAcked, AppendResponseType, ProposerOK, ProposerType
  <1>14. /\ c1 \in ConnOK /\ c1.rep = Tail(c.rep) /\ c1.req = c.req /\ c1.state = c.state
         /\ c1.dirty = c.dirty /\ c1.ackFlush = r.flush
    <2>1. Tail(c.rep) \in Seq(ReplyType)
      BY <1>6, HeadTailProperties
    <2> QED
      BY <1>4, <1>7, <1>13, <2>1, Zenon DEF ConnOK, ConnType
  <1>15. LinkOK(x, s, w, c)
    BY <1>2, <1>3 DEF Fits
  <1>16. LinkOK(x, s, w, c1) /\ w.state = "elected"
    BY <1>4, <1>5, <1>6, <1>13, <1>14, <1>15, AckedLink, Zenon
  <1>17. AckCounted(p, s, w, c1, cs, ack, q, f, v, n)
    BY <1>2, <1>8, <1>9, <1>10, <1>11, <1>12, <1>16 DEF AckCounted
  <1>18. UNCHANGED <<sk, info, wins>>
    BY Zenon DEF AppendAcked
  <1>19. /\ chosen' = n
         /\ \/ /\ SyncDone(p, v, cs, q)
               /\ wp' = [wp EXCEPT ![p] = PostgresAt(v, v.start)]
               /\ conn' = [conn EXCEPT ![p] = [z \in Safekeepers |-> NewConn]]
               /\ Abandon(p, [z \in Safekeepers |-> LastBroadcast(cs[z], v)])
            \/ /\ wp' = [wp EXCEPT ![p] = v] /\ conn' = [conn EXCEPT ![p] = cs]
               /\ UNCHANGED old
    BY <1>2, <1>9, <1>11, <1>12, Zenon
  <1>20. SyncDone(p, v, cs, q) => v.mode = "sync" /\ q >= v.start /\ v.start <= End(x)
    <2>1. cs[s] = c1 /\ c1.state = "active" /\ c1.ackCommit = r.commit
      BY <1>3, <1>4, <1>7, <1>8, <1>14, Zenon DEF AppendAcked, ConnOK, ConnType
    <2>2. r = c.rep[1] /\ 1 \in 1..Len(c.rep)
      BY <1>5, <1>6
    <2>3. r.commit <= End(x)
      BY <1>6, <1>15, <2>2 DEF LinkOK, RepOK
    <2>4. v.start \in Nat
      <3>1. q \in Nat /\ f \in Nat
        BY BoundsAssumption
      <3> QED
        BY <1>4, <1>11, <3>1, WithAcksFields DEF ProposerOK, ProposerType
    <2>5. End(x) \in Nat
      BY EndIs DEF Fits, Core
    <2>6. SyncDone(p, v, cs, q) => v.mode = "sync" /\ q >= v.start /\ cs[s].ackCommit >= v.start
      BY <2>1 DEF SyncDone
    <2> QED
      BY <1>13, <2>1, <2>3, <2>4, <2>5, <2>6
  <1>21. AckTaken(x, p, s, w, c1, cs, ack, q, f, v, n)
    BY <1>4, <1>14, <1>16, <1>17, <1>18, <1>19, <1>20, Zenon DEF AckTaken
  <1> QED
    BY <1>21, Zenon

\* An acknowledgement is counted.
LEMMA AppendAckedFits ==
    ASSUME TypeInv, TypeInv', Fitting, NEW p \in Computes, NEW s \in Safekeepers, AppendAcked(p, s)
    PROVE  Fitting'
  <1>1. PICK x : Fits(x)
    BY DEF Fitting
  <1>2. PICK w, c, cs, ack, v, n : \E q, f \in 0..MaxLsn : AckTaken(x, p, s, w, c, cs, ack, q, f, v, n)
    BY <1>1, AckIsTaken, Zenon
  <1>3. PICK q, f \in 0..MaxLsn : AckTaken(x, p, s, w, c, cs, ack, q, f, v, n)
    BY <1>2
  <1>4. /\ w \in ProposerOK /\ c \in ConnOK /\ LinkOK(x, s, w, c)
        /\ AckCounted(p, s, w, c, cs, ack, q, f, v, n)
        /\ chosen' = n /\ UNCHANGED <<sk, info, wins>>
        /\ \/ /\ v.mode = "sync" /\ q >= v.start
              /\ wp' = [wp EXCEPT ![p] = PostgresAt(v, v.start)]
              /\ conn' = [conn EXCEPT ![p] = [z \in Safekeepers |-> NewConn]]
              /\ Abandon(p, [z \in Safekeepers |-> LastBroadcast(cs[z], v)])
           \/ /\ wp' = [wp EXCEPT ![p] = v] /\ conn' = [conn EXCEPT ![p] = cs]
              /\ UNCHANGED old
    BY <1>3, Zenon DEF AckTaken
  <1> QED
    BY <1>1, <1>4, AckedGoesOn

-----------------------------------------------------------------------------
(***************************************************************************)
(* An election.  The votes m[s] of a quorum V make p the leader of term u, *)
(* with the history of the highest one, the vote of d.                     *)
(***************************************************************************)
Votes(x, u, V, m, d) ==
    /\ V \in SUBSET Safekeepers /\ IsQuorum(V) /\ d \in V
    /\ u \in Nat /\ u >= 1 /\ u \notin x.led
    /\ \A s \in V : /\ m[s] \in VoteResponseType /\ m[s].given /\ m[s].term = u
                    /\ VoteOK(x, s, m[s]) /\ VoteGe(m[d], m[s])

\* The view after it: the leader of z is the one before u, and f is where
\* the WAL of u goes on.
Led(x, u, z, f, log, n, p) ==
    [x EXCEPT !.led   = x.led \cup {u},
              !.hist  = [x.hist EXCEPT ![u] = Append(x.hist[z], [term |-> u, lsn |-> f])],
              !.log   = [x.log EXCEPT ![u] = log],
              !.by    = [x.by EXCEPT ![u] = p],
              !.limit = [x.limit EXCEPT ![u] = n]]

Election(x, y, u, V, m, d, z, f, log, n, p) ==
    /\ Core(x) /\ Votes(x, u, V, m, d) /\ z = HighestTerm(m[d].history) /\ f = m[d].flush
    /\ log \in [Nat -> Records] /\ \A l \in Nat : 1 <= l /\ l < f => log[l] = x.log[z][l]
    /\ n \in Nat /\ f <= n /\ p \in Computes
    /\ y = Led(x, u, z, f, log, n, p)

\* What a vote says.
LEMMA VoteFields ==
    ASSUME NEW x, NEW u, NEW V, NEW m, NEW d, Votes(x, u, V, m, d), NEW s \in V
    PROVE  LET a == HighestTerm(m[s].history)
           IN  /\ s \in Safekeepers /\ a \in x.led /\ m[s].history = x.hist[a] /\ a < u
               /\ m[s].flush \in Nat /\ StartOf(x, a) <= m[s].flush /\ m[s].flush <= x.limit[a]
               /\ x.term[s] >= u
               /\ KeepsAccepted(x, s, x.hist[a], m[s].flush, u)
               /\ \/ HighestTerm(m[d].history) > a
                  \/ HighestTerm(m[d].history) = a /\ m[d].flush >= m[s].flush
  <1>1. /\ s \in Safekeepers /\ m[s] \in VoteResponseType /\ m[s].given /\ m[s].term = u
        /\ VoteOK(x, s, m[s]) /\ VoteGe(m[d], m[s])
    BY DEF Votes
  <1>2. m[s].flush \in Nat
    BY <1>1 DEF VoteResponseType
  <1>3. /\ HighestTerm(m[s].history) \in x.led /\ m[s].history = x.hist[HighestTerm(m[s].history)]
        /\ HighestTerm(m[s].history) < u
        /\ StartOf(x, HighestTerm(m[s].history)) <= m[s].flush
        /\ m[s].flush <= x.limit[HighestTerm(m[s].history)]
        /\ x.term[s] >= u
        /\ KeepsAccepted(x, s, m[s].history, m[s].flush, u)
    BY <1>1 DEF VoteOK
  <1>4. \/ HighestTerm(m[d].history) > HighestTerm(m[s].history)
        \/ HighestTerm(m[d].history) = HighestTerm(m[s].history) /\ m[d].flush >= m[s].flush
    BY <1>1 DEF VoteGe
  <1> QED
    BY <1>1, <1>2, <1>3, <1>4

\* The new view.
LEMMA LedFields ==
    ASSUME NEW x, NEW y, NEW u, NEW V, NEW m, NEW d, NEW z, NEW f, NEW log, NEW n, NEW p,
           Election(x, y, u, V, m, d, z, f, log, n, p)
    PROVE  /\ x \in View /\ y \in View /\ Tree(x) /\ AccOK(x) /\ LeadersCover(x) /\ ChosenOK(x)
           /\ u \in Nat /\ u >= 1 /\ u \notin x.led /\ f \in Nat /\ f >= 1 /\ n \in Nat /\ f <= n
           /\ z \in x.led /\ z \in Nat /\ z < u /\ StartOf(x, z) <= f /\ f <= x.limit[z]
           /\ y.led = x.led \cup {u}
           /\ y.hist[u] = Append(x.hist[z], [term |-> u, lsn |-> f])
           /\ y.log[u] = log /\ y.by[u] = p /\ y.limit[u] = n
           /\ \A t \in x.led : /\ y.hist[t] = x.hist[t] /\ y.log[t] = x.log[t]
                               /\ y.by[t] = x.by[t] /\ y.limit[t] = x.limit[t]
           /\ y.acc = x.acc /\ y.term = x.term /\ y.at = x.at /\ y.chosen = x.chosen
           /\ \A s \in Safekeepers : x.acc[s][u] = 0
           /\ [term |-> u, lsn |-> f] \in Entry
  <1>1. x \in View /\ Tree(x) /\ AccOK(x) /\ LeadersCover(x) /\ ChosenOK(x)
    BY DEF Election, Core
  <1>2. u \in Nat /\ u >= 1 /\ u \notin x.led /\ d \in V /\ Votes(x, u, V, m, d)
    BY DEF Election, Votes
  <1>3. /\ z \in x.led /\ z < u /\ f \in Nat /\ StartOf(x, z) <= f /\ f <= x.limit[z]
    BY <1>2, VoteFields DEF Election
  <1>4. /\ z \in Nat /\ x.hist[z] \in History /\ StartOf(x, z) \in Nat /\ StartOf(x, z) >= 1
    BY <1>1, <1>3, LeaderHistory
  <1>5. f >= 1
    BY <1>3, <1>4
  <1>6. n \in Nat /\ f <= n /\ p \in Computes /\ log \in [Nat -> Records]
        /\ y = Led(x, u, z, f, log, n, p)
    BY DEF Election
  <1>7. PICK e : e = [term |-> u, lsn |-> f]
    BY Zenon
  <1>8. e \in Entry
    BY <1>2, <1>3, <1>5, <1>7 DEF Entry
  <1>9. PICK g : g = Append(x.hist[z], e)
    BY Zenon
  <1>10. g \in History
    BY <1>4, <1>8, <1>9, AppendProperties DEF History
  <1>11. y = [x EXCEPT !.led   = x.led \cup {u},
                       !.hist  = [x.hist EXCEPT ![u] = g],
                       !.log   = [x.log EXCEPT ![u] = log],
                       !.by    = [x.by EXCEPT ![u] = p],
                       !.limit = [x.limit EXCEPT ![u] = n]]
    BY <1>6, <1>7, <1>9 DEF Led
  <1>12. /\ x.led \subseteq Nat /\ x.hist \in [Nat -> History]
         /\ x.log \in [Nat -> [Nat -> Records]] /\ x.by \in [Nat -> Records]
         /\ x.limit \in [Nat -> Nat]
    BY <1>1, ViewFields, Zenon
  <1>13. p \in Records
    BY <1>6 DEF Records
  <1>14. /\ y.led = x.led \cup {u} /\ y.hist = [x.hist EXCEPT ![u] = g]
         /\ y.log = [x.log EXCEPT ![u] = log] /\ y.by = [x.by EXCEPT ![u] = p]
         /\ y.limit = [x.limit EXCEPT ![u] = n]
         /\ y.acc = x.acc /\ y.term = x.term /\ y.at = x.at /\ y.chosen = x.chosen
    BY <1>1, <1>11 DEF View
  <1>15. y \in View
    <2>1. /\ x.led \cup {u} \in SUBSET Nat /\ [x.hist EXCEPT ![u] = g] \in [Nat -> History]
          /\ [x.log EXCEPT ![u] = log] \in [Nat -> [Nat -> Records]]
          /\ [x.by EXCEPT ![u] = p] \in [Nat -> Records]
          /\ [x.limit EXCEPT ![u] = n] \in [Nat -> Nat]
      BY <1>2, <1>6, <1>10, <1>12, <1>13
    <2> QED
      BY <1>1, <1>11, <2>1, Zenon DEF View
  <1>16. /\ y.hist[u] = g /\ y.log[u] = log /\ y.by[u] = p /\ y.limit[u] = n
         /\ \A t \in x.led : /\ y.hist[t] = x.hist[t] /\ y.log[t] = x.log[t]
                             /\ y.by[t] = x.by[t] /\ y.limit[t] = x.limit[t]
    BY <1>2, <1>12, <1>14
  <1>17. \A s \in Safekeepers : x.acc[s][u] = 0
    BY <1>1, <1>2 DEF AccOK
  <1> QED
    BY <1>1, <1>2, <1>3, <1>4, <1>5, <1>6, <1>7, <1>8, <1>9, <1>14, <1>15, <1>16, <1>17

\* A new leader is a growth.
LEMMA LedGrows ==
    ASSUME NEW x, NEW y, NEW u, NEW V, NEW m, NEW d, NEW z, NEW f, NEW log, NEW n, NEW p,
           Election(x, y, u, V, m, d, z, f, log, n, p)
    PROVE  Grown(x, y) /\ SameSafekeepers(x, y)
  <1>1. /\ x \in View /\ y \in View /\ Tree(x) /\ AccOK(x)
        /\ y.led = x.led \cup {u}
        /\ \A t \in x.led : /\ y.hist[t] = x.hist[t] /\ y.log[t] = x.log[t]
                            /\ y.by[t] = x.by[t] /\ y.limit[t] = x.limit[t]
        /\ y.acc = x.acc /\ y.term = x.term /\ y.at = x.at /\ y.chosen = x.chosen
        /\ \A s \in Safekeepers : x.acc[s][u] = 0
    BY LedFields, Zenon
  <1>2. x.led \subseteq Nat /\ x.limit \in [Nat -> Nat]
    BY <1>1, ViewFields, Zenon
  <1>3. \A s \in Safekeepers : x.term[s] \in Nat /\ \A t \in Nat : x.acc[s][t] \in Nat
    BY <1>1, ViewFields
  <1>4. End(y) = End(x) /\ End(x) \in Nat
    BY <1>1, EndIs DEF End
  <1>5. \A t \in x.led : x.limit[t] <= y.limit[t]
    BY <1>1, <1>2
  <1>6. \A s \in Safekeepers :
          /\ x.term[s] <= y.term[s]
          /\ y.term[s] = x.term[s] => y.at[s] = x.at[s] \/ y.at[s] = y.term[s]
          /\ \A t \in x.led : /\ x.acc[s][t] <= y.acc[s][t]
                              /\ x.term[s] > t => y.acc[s][t] = x.acc[s][t]
          /\ \A t \in y.led \ x.led : y.acc[s][t] = 0
    BY <1>1, <1>2, <1>3
  <1>7. Grows(x, y)
    BY <1>1, <1>4, <1>5, <1>6 DEF Grows
  <1> QED
    BY <1>1, <1>7 DEF Grown, SameSafekeepers

\* A history g with one entry more than h.
Longer(g, h, e) ==
    /\ g \in History /\ Len(g) = Len(h) + 1 /\ Len(h) \in Nat /\ g[Len(h) + 1] = e
    /\ \A i \in 1..Len(h) : g[i] = h[i] /\ SubSeq(g, 1, i) = SubSeq(h, 1, i)
    /\ SubSeq(g, 1, Len(h) + 1) = g

\* A history with one more entry.
LEMMA AppendShape ==
    ASSUME NEW h \in History, NEW e \in Entry, NEW g, g = Append(h, e)
    PROVE  Longer(g, h, e)
  <1>1. /\ g \in Seq(Entry) /\ Len(g) = Len(h) + 1 /\ Len(h) \in Nat /\ g[Len(h) + 1] = e
        /\ \A i \in 1..Len(h) : g[i] = h[i]
    BY AppendProperties, LenProperties DEF History
  <1>2. ASSUME NEW i \in 1..Len(h) PROVE SubSeq(g, 1, i) = SubSeq(h, 1, i)
    <2>1. /\ SubSeq(g, 1, i) \in Seq(Entry) /\ Len(SubSeq(g, 1, i)) = i
          /\ \A j \in 1..i : SubSeq(g, 1, i)[j] = g[j]
      BY <1>1, PrefixType
    <2>2. /\ SubSeq(h, 1, i) \in Seq(Entry) /\ Len(SubSeq(h, 1, i)) = i
          /\ \A j \in 1..i : SubSeq(h, 1, i)[j] = h[j]
      BY <1>1, PrefixType DEF History
    <2>3. \A j \in 1..i : SubSeq(g, 1, i)[j] = SubSeq(h, 1, i)[j]
      BY <1>1, <2>1, <2>2
    <2> QED
      BY <2>1, <2>2, <2>3, SeqEqual
  <1>3. SubSeq(g, 1, Len(h) + 1) = g
    BY <1>1, SubSeqFull
  <1> QED
    BY <1>1, <1>2, <1>3 DEF History, Longer

\* The history of a new leader is in order.
LEMMA AppendOrdered ==
    ASSUME NEW h \in History, NEW e \in Entry, NEW g, g = Append(h, e), h # <<>>, Ordered(h),
           h[Len(h)].term < e.term, h[Len(h)].lsn <= e.lsn
    PROVE  Ordered(g)
  <1>1. /\ g \in History /\ Len(g) = Len(h) + 1 /\ Len(h) \in Nat /\ g[Len(h) + 1] = e
        /\ \A i \in 1..Len(h) : g[i] = h[i] /\ SubSeq(g, 1, i) = SubSeq(h, 1, i)
        /\ SubSeq(g, 1, Len(h) + 1) = g
    <2>1. Longer(g, h, e)
      BY AppendShape, Zenon
    <2> QED
      BY <2>1 DEF Longer
  <1>2. /\ Len(h) >= 1 /\ \A i \in 1..Len(h) : h[i].term \in Nat /\ h[i].lsn \in Nat
    BY HistoryShape
  <1>3. e.term \in Nat /\ e.lsn \in Nat
    BY DEF Entry
  <1>4. \A i \in 1..Len(h) : h[i].term <= h[Len(h)].term /\ h[i].lsn <= h[Len(h)].lsn
    BY <1>2 DEF Ordered
  <1>5. ASSUME NEW i \in 1..Len(g), NEW j \in 1..Len(g), i < j
        PROVE  g[i].term < g[j].term /\ g[i].lsn <= g[j].lsn
    <2>1. i \in 1..Len(h) /\ g[i] = h[i]
      BY <1>1, <1>5
    <2>2. CASE j \in 1..Len(h)
      BY <1>1, <1>5, <2>1, <2>2 DEF Ordered
    <2>3. CASE j = Len(h) + 1
      <3>1. h[i].term <= h[Len(h)].term /\ h[i].lsn <= h[Len(h)].lsn
        BY <1>4, <2>1
      <3>2. /\ h[i].term \in Nat /\ h[i].lsn \in Nat
            /\ h[Len(h)].term \in Nat /\ h[Len(h)].lsn \in Nat
        BY <1>1, <1>2, <2>1
      <3> QED
        BY <1>1, <1>3, <2>1, <2>3, <3>1, <3>2
    <2>4. j \in 1..Len(h) \/ j = Len(h) + 1
      BY <1>1, <1>5
    <2> QED
      BY <2>2, <2>3, <2>4
  <1> QED
    BY <1>5, Zenon DEF Ordered

\* The leaders still form a tree.
LEMMA LedTree ==
    ASSUME NEW x, NEW y, NEW u, NEW V, NEW m, NEW d, NEW z, NEW f, NEW log, NEW n, NEW p,
           Election(x, y, u, V, m, d, z, f, log, n, p)
    PROVE  Tree(y) /\ AccOK(y) /\ StartOf(y, u) = f
  <1>1. /\ x \in View /\ y \in View /\ Tree(x) /\ AccOK(x)
        /\ u \in Nat /\ u >= 1 /\ u \notin x.led /\ f \in Nat /\ f >= 1 /\ n \in Nat /\ f <= n
        /\ z \in x.led /\ z \in Nat /\ z < u /\ StartOf(x, z) <= f /\ f <= x.limit[z]
        /\ y.led = x.led \cup {u}
        /\ y.hist[u] = Append(x.hist[z], [term |-> u, lsn |-> f])
        /\ y.log[u] = log /\ y.limit[u] = n
        /\ y.acc = x.acc /\ y.term = x.term /\ y.at = x.at
        /\ \A s \in Safekeepers : x.acc[s][u] = 0
    BY LedFields, ZenonT(40)
  <1>2. \A t \in x.led : /\ y.hist[t] = x.hist[t] /\ y.log[t] = x.log[t]
                         /\ y.by[t] = x.by[t] /\ y.limit[t] = x.limit[t]
    BY LedFields, Zenon
  <1>3. Grown(x, y)
    BY LedGrows
  <1>4. PICK e : e = [term |-> u, lsn |-> f]
    BY Zenon
  <1>5. e \in Entry /\ e.term = u /\ e.lsn = f
    BY <1>4, LedFields, Zenon
  <1>6. PICK h : h = x.hist[z]
    OBVIOUS
  <1>7. PICK g : g = y.hist[u]
    OBVIOUS
  <1>8. /\ h \in History /\ h # <<>> /\ Ordered(h) /\ Len(h) \in Nat /\ Len(h) >= 1
        /\ h[Len(h)].term = z /\ h[Len(h)].lsn = StartOf(x, z) /\ StartOf(x, z) \in Nat
        /\ \A i \in 1..Len(h) : h[i].term \in Nat /\ h[i].lsn \in Nat /\ h[i].lsn >= 1
    BY <1>1, <1>6, LeaderHistory DEF StartOf
  <1>9. /\ g \in History /\ Len(g) = Len(h) + 1 /\ Len(h) \in Nat /\ g[Len(h) + 1] = e
        /\ \A i \in 1..Len(h) : g[i] = h[i] /\ SubSeq(g, 1, i) = SubSeq(h, 1, i)
        /\ SubSeq(g, 1, Len(h) + 1) = g
    <2>1. g = Append(h, e)
      BY <1>1, <1>4, <1>6, <1>7, Zenon
    <2>2. Longer(g, h, e)
      BY <1>5, <1>8, <2>1, AppendShape, Zenon
    <2> QED
      BY <2>2 DEF Longer
  <1>10. Ordered(g)
    <2>1. g = Append(h, e)
      BY <1>1, <1>4, <1>6, <1>7, Zenon
    <2>2. h[Len(h)].term < e.term /\ h[Len(h)].lsn <= e.lsn
      BY <1>1, <1>5, <1>8
    <2> QED
      BY <1>5, <1>8, <2>1, <2>2, AppendOrdered, Zenon
  <1>11. g # <<>>
    BY <1>8, <1>9
  <1>12. h[1] = [term |-> 0, lsn |-> 1]
    BY <1>1, <1>6 DEF Tree, HistoryOK
  <1>13. g[1] = [term |-> 0, lsn |-> 1] /\ g[Len(g)].term = u /\ g[Len(g)].lsn = f
    BY <1>5, <1>8, <1>9, <1>12
  <1>14. StartOf(y, u) = f
    BY <1>7, <1>13 DEF StartOf
  <1>15. ASSUME NEW i \in 1..Len(g)
         PROVE  g[i].term \in y.led /\ y.hist[g[i].term] = SubSeq(g, 1, i)
    <2>1. CASE i \in 1..Len(h)
      <3>1. h[i].term \in x.led /\ x.hist[h[i].term] = SubSeq(h, 1, i)
        BY <1>1, <1>6, <2>1, EntryIsLeader
      <3> QED
        BY <1>1, <1>2, <1>9, <2>1, <3>1, Zenon
    <2>2. CASE i = Len(h) + 1
      BY <1>1, <1>5, <1>7, <1>9, <2>2, ZenonT(40)
    <2> QED
      BY <1>8, <1>9, <2>1, <2>2
  <1>16. \A l \in Nat : 1 <= l /\ l < f => y.log[u][l] = y.log[z][l]
    BY <1>1, <1>2 DEF Election
  <1>17. ASSUME NEW i \in 1..(Len(g) - 1)
         PROVE  /\ g[i + 1].lsn <= y.limit[g[i].term]
                /\ SameLog(y, u, g[i].term, g[i + 1].lsn)
    <2>1. i \in 1..Len(h) /\ g[i] = h[i]
      BY <1>8, <1>9
    <2>2. CASE i < Len(h)
      <3>1. g[i + 1] = h[i + 1] /\ i + 1 \in 1..Len(h)
        BY <1>8, <1>9, <2>1, <2>2
      <3>2. /\ h[i].term \in x.led /\ h[i + 1].lsn <= x.limit[h[i].term]
            /\ SameLog(x, z, h[i].term, h[i + 1].lsn)
        BY <1>1, <1>6, <2>1, <2>2, EntryIsLeader, Zenon
      <3>3. h[i + 1].lsn \in Nat /\ h[i + 1].lsn <= f
        <4>1. h[i + 1].lsn <= h[Len(h)].lsn /\ h[i + 1].lsn \in Nat
          BY <1>8, <3>1 DEF Ordered
        <4> QED
          BY <1>1, <1>8, <4>1
      <3>4. \A l \in Nat : 1 <= l /\ l < h[i + 1].lsn => y.log[u][l] = y.log[h[i].term][l]
        <4> SUFFICES ASSUME NEW l \in Nat, 1 <= l, l < h[i + 1].lsn
                     PROVE  y.log[u][l] = y.log[h[i].term][l]
          OBVIOUS
        <4>1. l < f
          BY <1>1, <3>3
        <4>2. y.log[u][l] = y.log[z][l]
          BY <1>16, <4>1
        <4>3. x.log[z][l] = x.log[h[i].term][l]
          BY <3>2 DEF SameLog
        <4> QED
          BY <1>1, <1>2, <3>2, <4>2, <4>3, Zenon
      <3> QED
        BY <1>2, <2>1, <3>1, <3>2, <3>4 DEF SameLog
    <2>3. CASE i = Len(h)
      <3>1. g[i + 1].lsn = f /\ g[i].term = z
        BY <1>5, <1>8, <1>9, <2>1, <2>3
      <3> QED
        BY <1>1, <1>2, <1>16, <3>1 DEF SameLog
    <2> QED
      BY <1>8, <2>1, <2>2, <2>3
  <1>18. \E Q \in SUBSET Safekeepers : IsQuorum(Q) /\ \A s \in Q : y.term[s] >= u
    <2>1. V \in SUBSET Safekeepers /\ IsQuorum(V) /\ Votes(x, u, V, m, d)
      BY DEF Election, Votes
    <2>2. \A s \in V : x.term[s] >= u
      BY <2>1, VoteFields
    <2> QED
      BY <1>1, <2>1, <2>2
  <1>19. HistoryOK(y, u)
    BY <1>1, <1>7, <1>10, <1>11, <1>13, <1>14, <1>15, <1>17, <1>18, Zenon DEF HistoryOK
  <1>20. Tree(y)
    <2>1. \A t \in x.led : HistoryOK(y, t)
      BY <1>3, HistoryStays
    <2> QED
      BY <1>1, <1>19, <2>1 DEF Tree
  <1>21. AccOK(y)
    <2> SUFFICES ASSUME NEW s \in Safekeepers
                 PROVE  /\ y.at[s] \in y.led /\ y.at[s] <= y.term[s]
                        /\ \A t \in Nat : t > y.term[s] \/ t \notin y.led => y.acc[s][t] = 0
                        /\ \A t \in y.led : y.acc[s][t] <= y.limit[t]
      BY DEF AccOK
    <2>1. /\ x.at[s] \in x.led /\ x.at[s] <= x.term[s]
          /\ \A t \in Nat : t > x.term[s] \/ t \notin x.led => x.acc[s][t] = 0
          /\ \A t \in x.led : x.acc[s][t] <= x.limit[t]
      BY <1>1 DEF AccOK
    <2>2. \A t \in y.led : y.acc[s][t] <= y.limit[t]
      BY <1>1, <1>2, <2>1
    <2> QED
      BY <1>1, <2>1, <2>2
  <1> QED
    BY <1>14, <1>20, <1>21

(***************************************************************************)
(* The heart of the argument: the WAL of an earlier term that a voter has  *)
(* accepted, and some quorum may still accept, is in the WAL of the        *)
(* highest vote.                                                           *)
(***************************************************************************)
LEMMA HighestVoteCovers ==
    ASSUME NEW x, Core(x), NEW u, NEW V, NEW m, NEW d, Votes(x, u, V, m, d),
           NEW z, z = HighestTerm(m[d].history), NEW f, f = m[d].flush,
           NEW t \in x.led, t < u, NEW c \in Nat, c >= StartOf(x, t), ~Excluded(x, t, c)
    PROVE  c <= f /\ Follows(x.hist[z], x.hist[t], c) /\ t <= z
  <1>1. x \in View /\ Tree(x) /\ AccOK(x) /\ LeadersCover(x)
    BY DEF Core
  <1>2. V \in SUBSET Safekeepers /\ IsQuorum(V) /\ d \in V /\ u \in Nat
    BY DEF Votes
  <1>3. t \in Nat /\ StartOf(x, t) \in Nat /\ StartOf(x, t) >= 1 /\ Floor(x, t, c) = c
    <2>1. t \in Nat /\ StartOf(x, t) \in Nat /\ StartOf(x, t) >= 1
      BY <1>1, LeaderHistory
    <2> QED
      BY <2>1 DEF Floor, Larger
  <1>4. \A s \in Safekeepers : x.acc[s][t] \in Nat /\ x.term[s] \in Nat
    BY <1>1, <1>3, ViewFields
  <1>5. PICK s \in V : x.acc[s][t] >= c
    <2> SUFFICES ASSUME \A s \in V : ~(x.acc[s][t] >= c) PROVE FALSE
      OBVIOUS
    <2>1. \A s \in V : x.term[s] >= u
      BY VoteFields
    <2>2. \A s \in V : x.term[s] > t /\ x.acc[s][t] < Floor(x, t, c)
      BY <1>2, <1>3, <1>4, <2>1
    <2> QED
      BY <1>2, <2>2 DEF Excluded
  <1>6. PICK a : a = HighestTerm(m[s].history)
    OBVIOUS
  <1>7. PICK e : e = m[s].flush
    OBVIOUS
  <1>8. /\ s \in Safekeepers /\ a \in x.led /\ a < u /\ e \in Nat
        /\ KeepsAccepted(x, s, x.hist[a], e, u)
        /\ z > a \/ (z = a /\ f >= e)
    BY <1>6, <1>7, VoteFields
  <1>9. c <= e /\ Follows(x.hist[a], x.hist[t], c)
    BY <1>3, <1>4, <1>5, <1>8 DEF KeepsAccepted
  <1>10. /\ z \in x.led /\ z < u /\ f \in Nat /\ StartOf(x, z) <= f
    BY <1>2, VoteFields
  <1>11. z \in Nat /\ a \in Nat /\ StartOf(x, z) \in Nat
    BY <1>1, <1>8, <1>10, LeaderHistory
  <1>12. t <= a
    BY <1>1, <1>8, <1>9, FollowerIsLater
  <1>13. CASE z = a
    BY <1>8, <1>9, <1>10, <1>11, <1>12, <1>13
  <1>14. CASE z > a
    <2>1. t < z
      BY <1>3, <1>11, <1>12, <1>14
    <2>2. c <= StartOf(x, z) /\ Follows(x.hist[z], x.hist[t], c)
      BY <1>1, <1>10, <2>1 DEF LeadersCover
    <2> QED
      BY <1>3, <1>10, <1>11, <2>1, <2>2
  <1> QED
    BY <1>8, <1>13, <1>14

\* The new leader covers all earlier ones, and is no past of a later one.
LEMMA LedCovers ==
    ASSUME NEW x, NEW y, NEW u, NEW V, NEW m, NEW d, NEW z, NEW f, NEW log, NEW n, NEW p,
           Election(x, y, u, V, m, d, z, f, log, n, p)
    PROVE  LeadersCover(y)
  <1>1. /\ x \in View /\ y \in View /\ Tree(x) /\ AccOK(x) /\ LeadersCover(x)
        /\ u \in Nat /\ u >= 1 /\ u \notin x.led /\ f \in Nat /\ f >= 1
        /\ z \in x.led /\ z \in Nat /\ z < u
        /\ y.led = x.led \cup {u}
        /\ y.hist[u] = Append(x.hist[z], [term |-> u, lsn |-> f])
        /\ y.acc = x.acc /\ y.term = x.term
        /\ \A s \in Safekeepers : x.acc[s][u] = 0
        /\ [term |-> u, lsn |-> f] \in Entry
    BY LedFields, ZenonT(40)
  <1>2. Grown(x, y)
    BY LedGrows
  <1>3. Tree(y) /\ StartOf(y, u) = f
    BY LedTree
  <1>4. \A t \in x.led : y.hist[t] = x.hist[t]
    BY <1>2 DEF Grown, Grows
  <1> SUFFICES ASSUME NEW t \in y.led, NEW r \in y.led, NEW c \in Nat, t < r, c >= StartOf(y, t)
               PROVE  \/ c <= StartOf(y, r) /\ Follows(y.hist[r], y.hist[t], c)
                      \/ Excluded(y, t, c)
    BY DEF LeadersCover
  <1>5. CASE t \in x.led /\ r \in x.led
    BY <1>1, <1>2, <1>5, CoverStays
  <1>6. CASE t \in x.led /\ r = u
    <2>1. c >= StartOf(x, t)
      BY <1>2, <1>6, StartStays
    <2>2. CASE Excluded(x, t, c)
      BY <1>2, <1>6, <2>2, ExcludedStays
    <2>3. CASE ~Excluded(x, t, c)
      <3>1. c <= f /\ Follows(x.hist[z], x.hist[t], c)
        BY <1>6, <2>1, <2>3, HighestVoteCovers DEF Election
      <3>2. x.hist[z] \in History /\ x.hist[t] \in History
        BY <1>1, <1>6, LeaderHistory, Zenon
      <3>3. PICK e \in Entry : e = [term |-> u, lsn |-> f]
        BY <1>1
      <3>4. e.lsn = f
        BY <3>3
      <3>5. Follows(Append(x.hist[z], e), x.hist[t], c)
        BY <3>1, <3>2, <3>4, FollowsAppend
      <3> QED
        BY <1>1, <1>3, <1>4, <1>6, <3>1, <3>3, <3>5, Zenon
    <2> QED
      BY <2>2, <2>3
  <1>7. CASE t = u /\ r \in x.led
    <2>1. PICK Q \in SUBSET Safekeepers : IsQuorum(Q) /\ \A s \in Q : x.term[s] >= r
      BY <1>1, <1>7, Zenon DEF Tree, HistoryOK
    <2>2. r \in Nat
      BY <1>1, <1>7, LeaderHistory
    <2>3. Floor(y, u, c) \in Nat /\ Floor(y, u, c) >= 1
      BY <1>1, <1>3, <1>7 DEF Floor, Larger
    <2>4. \A s \in Safekeepers : x.term[s] \in Nat
      BY <1>1, ViewFields
    <2>5. \A s \in Q : y.term[s] > u /\ y.acc[s][u] < Floor(y, u, c)
      BY <1>1, <1>7, <2>1, <2>2, <2>3, <2>4
    <2>6. Excluded(y, u, c)
      BY <2>1, <2>5 DEF Excluded
    <2> QED
      BY <1>7, <2>6
  <1>8. ~(t = u /\ r = u)
    BY <1>1
  <1> QED
    BY <1>1, <1>5, <1>6, <1>7, <1>8

\* The core of the view after an election.
LEMMA LedCore ==
    ASSUME NEW x, NEW y, NEW u, NEW V, NEW m, NEW d, NEW z, NEW f, NEW log, NEW n, NEW p,
           Election(x, y, u, V, m, d, z, f, log, n, p)
    PROVE  Core(y)
  <1>1. y \in View /\ y.chosen = x.chosen /\ y.led = x.led \cup {u} /\ ChosenOK(x) /\ x \in View
    BY LedFields, Zenon
  <1>2. Grown(x, y)
    BY LedGrows
  <1>3. Tree(y) /\ AccOK(y) /\ LeadersCover(y)
    BY LedTree, LedCovers
  <1>4. PICK t \in x.led : /\ Committed(x, t, End(x))
                           /\ \A l \in 1..Len(x.chosen) : x.chosen[l] = x.log[t][l]
    BY <1>1 DEF ChosenOK
  <1>5. End(y) = End(x) /\ End(x) \in Nat
    BY <1>1, EndIs DEF End
  <1>6. Committed(y, t, End(y))
    BY <1>2, <1>4, <1>5, AcceptedStays
  <1>7. y.log[t] = x.log[t]
    BY <1>2, <1>4 DEF Grown, Grows
  <1>8. ChosenOK(y)
    BY <1>1, <1>4, <1>6, <1>7 DEF ChosenOK
  <1> QED
    BY <1>1, <1>3, <1>8 DEF Core

\* A walproposer with the highest vote, before HandleElectedProposer goes on.
Won(x, p, V, m, d, h, w, v) ==
    /\ w = wp[p] /\ w \in ProposerOK /\ w.state = "campaign"
    /\ Votes(x, w.term, V, m, d) /\ h \in V
    /\ v = ElectedOn(w, {s \in V : VoteGe(m[s], m[d])}, m[d], m[h].truncate)

\* What it does then.
Goes(p, V, m, d, w, v) ==
    /\ wins' = [wins EXCEPT ![w.term] = @ + 1]
    /\ \/ BasebackupSpoiled(w, m[d]) /\ ProcessEnds(p, Panicked(v))
       \/ SyncNotNeeded(v) /\ ProcessEnds(p, PostgresAt(v, v.start))
       \/ /\ ~BasebackupSpoiled(w, m[d])
          /\ wp' = [wp EXCEPT ![p] = v]
          /\ conn' = [conn EXCEPT ![p] = [s \in Safekeepers |->
                 IF s \in V THEN SendElected(conn[p][s], v, m[s]) ELSE conn[p][s]]]
          /\ UNCHANGED old
    /\ UNCHANGED <<sk, info, chosen>>

\* The votes m of V are collected, one of d is the highest.
Collected(p, V, m, w) ==
    /\ w.state = "campaign" /\ IsQuorum(V)
    /\ \A s \in V : Received(p, s, "vote") /\ m[s].given
    /\ \E d, h \in V :
          /\ \A s \in V : VoteGe(m[d], m[s])
          /\ Goes(p, V, m, d, w,
                  ElectedOn(w, {s \in V : VoteGe(m[s], m[d])}, m[d], m[h].truncate))

\* What Elected does.
LEMMA ElectedGoes ==
    ASSUME TypeInv, NEW p \in Computes, NEW V \in SUBSET Safekeepers, Elected(p, V),
           NEW m, m = [s \in V |-> Head(conn[p][s].rep)], NEW w, w = wp[p]
    PROVE  Collected(p, V, m, w)
  <1> DEFINE v(x) == Head(conn[p][x].rep)
  <1>1. w.state = "campaign" /\ \A s \in V : Received(p, s, "vote") /\ v(s).given
    BY Zenon DEF Elected
  <1>2. IsQuorum(V)
    <2>1. Cardinality(V) = Cardinality(Safekeepers) \div 2 + 1
      BY Zenon DEF Elected, IsMinQuorum
    <2>2. Cardinality(Safekeepers) \in Nat
      BY SafekeepersAssumption, FS_CardinalityType
    <2> QED
      BY <2>1, <2>2 DEF IsQuorum
  <1>3. UNCHANGED <<sk, info, chosen>>
    BY Zenon DEF Elected
  <1>4. PICK d, h \in V :
           /\ \A x \in V : VoteGe(v(d), v(x))
           /\ LET e == ElectedOn(wp[p], {x \in V : VoteGe(v(x), v(d))}, v(d), v(h).truncate)
              IN  /\ wins' = [wins EXCEPT ![e.term] = @ + 1]
                  /\ \/ /\ BasebackupSpoiled(wp[p], v(d))
                        /\ ProcessEnds(p, Panicked(e))
                     \/ /\ SyncNotNeeded(e)
                        /\ ProcessEnds(p, PostgresAt(e, e.start))
                     \/ /\ ~BasebackupSpoiled(wp[p], v(d))
                        /\ ~SyncNotNeeded(e)
                        /\ wp' = [wp EXCEPT ![p] = e]
                        /\ conn' = [conn EXCEPT ![p] = [x \in Safekeepers |->
                               IF x \in V THEN SendElected(conn[p][x], e, v(x))
                                          ELSE conn[p][x]]]
                        /\ UNCHANGED old
    BY ZenonT(60) DEF Elected
  <1>5. \A s \in V : m[s] = v(s)
    OBVIOUS
  <1>6. {x \in V : VoteGe(v(x), v(d))} = {s \in V : VoteGe(m[s], m[d])}
    BY <1>5, Zenon
  <1>7. PICK D : D = {s \in V : VoteGe(m[s], m[d])}
    BY Zenon
  <1>8. PICK e : e = ElectedOn(w, D, m[d], m[h].truncate)
    OBVIOUS
  <1>9. e = ElectedOn(wp[p], {x \in V : VoteGe(v(x), v(d))}, v(d), v(h).truncate)
    BY <1>5, <1>6, <1>7, <1>8, Zenon
  <1> DEFINE cs == [x \in Safekeepers |-> IF x \in V THEN SendElected(conn[p][x], e, v(x))
                                                     ELSE conn[p][x]]
             ds == [s \in Safekeepers |-> IF s \in V THEN SendElected(conn[p][s], e, m[s])
                                                     ELSE conn[p][s]]
  <1>10. cs = ds
    BY <1>5, Zenon
  <1>11. /\ wins' = [wins EXCEPT ![e.term] = @ + 1]
         /\ \/ /\ BasebackupSpoiled(wp[p], v(d))
               /\ ProcessEnds(p, Panicked(e))
            \/ /\ SyncNotNeeded(e)
               /\ ProcessEnds(p, PostgresAt(e, e.start))
            \/ /\ ~BasebackupSpoiled(wp[p], v(d))
               /\ ~SyncNotNeeded(e)
               /\ wp' = [wp EXCEPT ![p] = e]
               /\ conn' = [conn EXCEPT ![p] = cs]
               /\ UNCHANGED old
    BY <1>4, <1>9, Zenon
  <1>12. e.term = w.term
    <2>1. Received(p, d, "vote") /\ d \in Safekeepers /\ Received(p, h, "vote")
      BY <1>1
    <2>2. v(d) \in VoteResponseType /\ v(h) \in VoteResponseType
      BY <2>1, ReceivedType
    <2>3. m[d] \in VoteResponseType /\ m[h].truncate \in Nat
      BY <1>5, <2>2 DEF VoteResponseType
    <2>4. w \in ProposerOK /\ D \in SUBSET Safekeepers
      BY <1>7 DEF TypeInv
    <2> QED
      BY <1>8, <2>3, <2>4, ElectedOnType
  <1> HIDE DEF cs, ds
  <1>13. Goes(p, V, m, d, w, e)
    <2>1. m[d] = v(d)
      BY <1>5
    <2> HIDE DEF v
    <2>2. \/ BasebackupSpoiled(w, m[d]) /\ ProcessEnds(p, Panicked(e))
          \/ SyncNotNeeded(e) /\ ProcessEnds(p, PostgresAt(e, e.start))
          \/ /\ ~BasebackupSpoiled(w, m[d])
             /\ wp' = [wp EXCEPT ![p] = e]
             /\ conn' = [conn EXCEPT ![p] = ds]
             /\ UNCHANGED old
      BY <1>10, <1>11, <2>1, Zenon
    <2>3. wins' = [wins EXCEPT ![w.term] = @ + 1]
      BY <1>11, <1>12, Zenon
    <2> QED
      BY <1>3, <2>2, <2>3, Zenon DEF Goes, ds
  <1>14. \A s \in V : VoteGe(m[d], m[s])
    BY <1>4, <1>5, Zenon
  <1> QED
    BY <1>1, <1>2, <1>5, <1>7, <1>8, <1>13, <1>14, Zenon DEF Collected

\* It has won with votes that fit the view.
LEMMA ElectedWon ==
    ASSUME ElectionInv, NEW x, Fits(x), NEW p \in Computes, NEW V \in SUBSET Safekeepers,
           Elected(p, V)
    PROVE  /\ wp[p].term \in 1..MaxTerm
           /\ \E m, d, h, w, v : Won(x, p, V, m, d, h, w, v) /\ Goes(p, V, m, d, w, v)
  <1>1. TypeInv /\ ElectionInv'
    BY ElectedKeepsElections DEF ElectionInv
  <1>2. PICK m : m = [s \in V |-> Head(conn[p][s].rep)]
    BY Zenon
  <1>3. PICK w : w = wp[p]
    OBVIOUS
  <1>4. /\ w.state = "campaign" /\ IsQuorum(V)
        /\ \A s \in V : Received(p, s, "vote") /\ m[s].given
        /\ \E d, h \in V :
              /\ \A s \in V : VoteGe(m[d], m[s])
              /\ Goes(p, V, m, d, w,
                      ElectedOn(w, {s \in V : VoteGe(m[s], m[d])}, m[d], m[h].truncate))
    <2>1. Collected(p, V, m, w)
      BY <1>1, <1>2, <1>3, ElectedGoes
    <2> QED
      BY <2>1, Zenon DEF Collected
  <1>5. w \in ProposerOK
    BY <1>1, <1>3 DEF TypeInv
  <1>6. LeaderOK(x, p, w) /\ WinsOK(x, wins) /\ Core(x)
    BY <1>3 DEF Fits
  <1>7. w.term \in 1..MaxTerm
    BY <1>4, <1>6 DEF LeaderOK
  <1>8. w.term \in Nat /\ w.term >= 1 /\ w.term \in 0..MaxTerm
    BY <1>7, BoundsAssumption
  <1>9. w.term \notin x.led
    <2>1. wins' = [wins EXCEPT ![w.term] = @ + 1]
      BY <1>4 DEF Goes
    <2>2. wins \in [0..MaxTerm -> Nat]
      BY <1>1 DEF TypeInv
    <2>3. wins'[w.term] <= 1
      BY <1>1, <1>8 DEF ElectionInv, WonOnce
    <2>4. wins[w.term] = 0
      BY <1>8, <2>1, <2>2, <2>3
    <2> QED
      BY <1>6, <1>8, <2>4 DEF WinsOK
  <1>10. ASSUME NEW s \in V
         PROVE  m[s] \in VoteResponseType /\ m[s].term = w.term /\ VoteOK(x, s, m[s])
    <2>1. PICK rep : rep = conn[p][s].rep
      OBVIOUS
    <2>2. Received(p, s, "vote") /\ m[s] = Head(rep) /\ m[s].given /\ s \in Safekeepers
      BY <1>2, <1>4, <2>1
    <2>3. rep \in Seq(ReplyType) /\ rep # <<>> /\ Head(rep).type = "vote"
          /\ Head(rep) \in VoteResponseType
      BY <1>1, <2>1, <2>2, ReceivedType
    <2>4. Head(rep).term \in Nat
      BY <2>3 DEF VoteResponseType
    <2>5. Given(rep, Head(rep).term)
      BY <2>2, <2>3, <2>4, GivenSeq
    <2>6. Head(rep).term = w.term
      BY <1>3, <2>1, <2>2, <2>4, <2>5 DEF ElectionInv, VotesAreCurrent
    <2>7. LinkOK(x, s, w, conn[p][s])
      BY <1>3, <2>2 DEF Fits
    <2>8. 1 \in 1..Len(rep) /\ rep[1] = Head(rep)
      BY <2>3, HeadTailProperties, LenProperties
    <2>9. RepOK(x, s, w, Head(rep))
      BY <2>1, <2>7, <2>8 DEF LinkOK
    <2>10. VoteOK(x, s, Head(rep))
      BY <2>3, <2>9 DEF RepOK
    <2> QED
      BY <2>2, <2>3, <2>6, <2>10
  <1>11. PICK d, h \in V :
           /\ \A s \in V : VoteGe(m[d], m[s])
           /\ Goes(p, V, m, d, w,
                   ElectedOn(w, {s \in V : VoteGe(m[s], m[d])}, m[d], m[h].truncate))
    BY <1>4, Zenon
  <1>12. Votes(x, w.term, V, m, d)
    BY <1>4, <1>8, <1>9, <1>10, <1>11 DEF Votes
  <1>13. PICK v : v = ElectedOn(w, {s \in V : VoteGe(m[s], m[d])}, m[d], m[h].truncate)
    OBVIOUS
  <1>14. Won(x, p, V, m, d, h, w, v) /\ Goes(p, V, m, d, w, v)
    BY <1>3, <1>4, <1>5, <1>11, <1>12, <1>13, Zenon DEF Won
  <1> QED
    BY <1>3, <1>7, <1>14

\* The fields of a walproposer that has won.
LEMMA WonFields ==
    ASSUME NEW x, NEW p, NEW V, NEW m, NEW d, NEW h, NEW w, NEW v,
           Won(x, p, V, m, d, h, w, v)
    PROVE  /\ v \in ProposerOK /\ v.state = "elected" /\ v.mode = w.mode /\ v.term = w.term
           /\ v.base = w.base /\ v.end = w.end /\ v.mine = w.term /\ v.commit = w.commit
           /\ v.start = m[d].flush /\ v.truncate = m[h].truncate
           /\ v.history = Append(m[d].history, [term |-> w.term, lsn |-> m[d].flush])
           /\ v.donors = {s \in V : VoteGe(m[s], m[d])}
           /\ m[d] \in VoteResponseType /\ m[h] \in VoteResponseType
           /\ w \in ProposerOK /\ w = wp[p] /\ w.state = "campaign" /\ w.term \in Nat
           /\ V \in SUBSET Safekeepers
  <1>1. /\ w = wp[p] /\ w \in ProposerOK /\ w.state = "campaign"
        /\ Votes(x, w.term, V, m, d) /\ h \in V
        /\ v = ElectedOn(w, {s \in V : VoteGe(m[s], m[d])}, m[d], m[h].truncate)
    BY DEF Won
  <1>2. /\ m[d] \in VoteResponseType /\ m[h] \in VoteResponseType /\ V \in SUBSET Safekeepers
    BY <1>1 DEF Votes
  <1>3. m[h].truncate \in Nat
    BY <1>2 DEF VoteResponseType
  <1>4. PICK D : D = {s \in V : VoteGe(m[s], m[d])}
    BY Zenon
  <1>5. D \in SUBSET Safekeepers
    BY <1>2, <1>4
  <1>6. v = ElectedOn(w, D, m[d], m[h].truncate)
    BY <1>1, <1>4, Zenon
  <1>7. v \in ProposerOK /\ v.state = "elected" /\ v.mode = w.mode /\ v.term = w.term
    BY <1>1, <1>2, <1>3, <1>5, <1>6, ElectedOnType
  <1>8. PICK g : g = Append(m[d].history, [term |-> w.term, lsn |-> m[d].flush])
    BY Zenon
  <1>9. v = [w EXCEPT !.state = "elected", !.start = m[d].flush, !.history = g,
                      !.truncate = m[h].truncate, !.donors = D, !.mine = w.term]
    BY <1>6, <1>8 DEF ElectedOn
  <1>10. w \in ProposerType /\ w.term \in Nat
    BY <1>1, Zenon DEF ProposerOK, ProposerType
  <1>11. /\ v.base = w.base /\ v.end = w.end /\ v.mine = w.term /\ v.commit = w.commit
         /\ v.start = m[d].flush /\ v.truncate = m[h].truncate /\ v.history = g /\ v.donors = D
    BY <1>9, <1>10 DEF ProposerType
  <1> QED
    BY <1>1, <1>2, <1>4, <1>7, <1>8, <1>10, <1>11, Zenon

\* The ones that do not depend on the votes.
LEMMA WonBasics ==
    ASSUME NEW x, NEW p, NEW V, NEW m, NEW d, NEW h, NEW w, NEW v,
           Won(x, p, V, m, d, h, w, v)
    PROVE  /\ v \in ProposerOK /\ v.state = "elected" /\ v.mode = w.mode /\ v.term = w.term
           /\ v.base = w.base /\ v.mine = w.term
           /\ w \in ProposerOK /\ w = wp[p] /\ w.state = "campaign"
  <1>1. /\ v \in ProposerOK /\ v.state = "elected" /\ v.mode = w.mode /\ v.term = w.term
        /\ v.base = w.base /\ v.end = w.end /\ v.mine = w.term /\ v.commit = w.commit
        /\ v.start = m[d].flush /\ v.truncate = m[h].truncate
        /\ v.history = Append(m[d].history, [term |-> w.term, lsn |-> m[d].flush])
        /\ v.donors = {s \in V : VoteGe(m[s], m[d])}
        /\ m[d] \in VoteResponseType /\ m[h] \in VoteResponseType
        /\ w \in ProposerOK /\ w = wp[p] /\ w.state = "campaign" /\ w.term \in Nat
        /\ V \in SUBSET Safekeepers
    BY WonFields, Zenon
  <1> QED
    BY <1>1, Zenon

(***************************************************************************)
(* Postgres that is not made to panic has written all WAL above its        *)
(* basebackup that the highest vote has.                                   *)
(***************************************************************************)
LEMMA NotSpoiledIsOwn ==
    ASSUME NEW x, Core(x), NEW p, NEW V, NEW m, NEW d, NEW h, NEW w, NEW v,
           Won(x, p, V, m, d, h, w, v), MineOK(x, p, w), BaseOK(x, w, conn[p]),
           x.limit[0] = 1, w.mode = "compute", ~BasebackupSpoiled(w, m[d]),
           NEW z, z = HighestTerm(m[d].history), NEW f, f = m[d].flush
    PROVE  /\ w.base <= f /\ f <= w.end
           /\ \A l \in Nat : w.base <= l /\ l < f => x.log[z][l] = p
  <1>1. /\ Votes(x, w.term, V, m, d) /\ w \in ProposerOK /\ w.state = "campaign"
    BY DEF Won
  <1>2. V \in SUBSET Safekeepers /\ IsQuorum(V) /\ d \in V
    BY <1>1 DEF Votes
  <1>3. /\ z \in x.led /\ z < w.term /\ f \in Nat /\ StartOf(x, z) <= f /\ f <= x.limit[z]
    BY <1>1, <1>2, VoteFields
  <1>4. x \in View /\ Tree(x)
    BY DEF Core
  <1>5. /\ z \in Nat /\ StartOf(x, z) \in Nat /\ StartOf(x, z) >= 1
        /\ x.limit \in [Nat -> Nat] /\ x.led \subseteq Nat
    BY <1>3, <1>4, LeaderHistory, ViewFields, Zenon
  <1>6. w.base \in Nat /\ w.end \in Nat /\ 1 <= w.base /\ w.base <= w.end
    BY <1>1 DEF MineOK, ProposerOK, ProposerType
  <1>7. CASE f = w.base
    BY <1>3, <1>6, <1>7
  <1>8. CASE z = w.mine /\ w.mine # 0
    <2>1. /\ x.limit[z] = w.end /\ w.base <= StartOf(x, z)
          /\ \A l \in Nat : l >= w.base => x.log[z][l] = p
      BY <1>8 DEF MineOK
    <2> QED
      BY <1>3, <1>5, <1>6, <2>1
  <1>9. CASE z = 0 /\ w.mine = 0
    <2>1. PICK t \in x.led, Q \in SUBSET Safekeepers :
            /\ IsQuorum(Q) /\ \A s \in Q : x.acc[s][t] >= Floor(x, t, w.base)
            /\ t < w.term
      BY <1>1, <1>9 DEF BaseOK
    <2>2. PICK s \in V : s \in Q
      BY <1>2, <2>1, QuorumsMeet
    <2>3. PICK a : a = HighestTerm(m[s].history)
      OBVIOUS
    <2>4. PICK e : e = m[s].flush
      OBVIOUS
    <2>5. /\ s \in Safekeepers /\ a \in x.led /\ e \in Nat /\ e <= x.limit[a]
          /\ KeepsAccepted(x, s, x.hist[a], e, w.term)
          /\ z > a \/ (z = a /\ f >= e)
      BY <1>1, <2>3, <2>4, VoteFields
    <2>6. a = 0 /\ e <= f
      BY <1>5, <1>9, <2>5
    <2>7. PICK c : c = Floor(x, t, w.base)
      OBVIOUS
    <2>8. c \in Nat /\ c >= w.base /\ c >= StartOf(x, t) /\ t \in Nat /\ Floor(x, t, c) = c
      BY <1>4, <1>5, <1>6, <2>1, <2>7, FloorIs
    <2>9. x.acc[s][t] \in Nat
      BY <1>4, <2>5, <2>8, ViewFields
    <2>10. x.acc[s][t] >= c
      BY <2>1, <2>2, <2>7
    <2>11. ~Excluded(x, t, c)
      <3>1. Accepted(x, t, c)
        BY <2>1, <2>7, <2>8 DEF Accepted
      <3> QED
        BY <1>4, <2>8, <3>1, AcceptedIsNotExcluded
    <2>12. c <= e
      BY <1>6, <2>1, <2>5, <2>8, <2>9, <2>10, <2>11 DEF KeepsAccepted
    <2>13. f <= 1
      BY <1>3, <1>9
    <2>14. f = w.base
      BY <1>3, <1>6, <2>5, <2>6, <2>8, <2>12, <2>13
    <2> QED
      BY <1>7, <2>14
  <1>10. f = w.base \/ z = w.mine
    BY DEF BasebackupSpoiled
  <1> QED
    BY <1>7, <1>8, <1>9, <1>10

\* The log of the new term: what the highest vote has, and what Postgres
\* has written beyond its basebackup.
Own(x, p, w, r, z, f, log, n) ==
    IF w.mode = "compute" /\ ~BasebackupSpoiled(w, r)
    THEN n = w.end /\ w.base <= f /\ \A l \in Nat : l >= w.base => log[l] = p
    ELSE n = f /\ log = x.log[z]

\* There is such a view.
LEMMA NewLeader ==
    ASSUME NEW x, Core(x), NEW p \in Computes, NEW V, NEW m, NEW d, NEW h, NEW w, NEW v,
           Won(x, p, V, m, d, h, w, v), MineOK(x, p, w), BaseOK(x, w, conn[p]), x.limit[0] = 1
    PROVE  \E y, z, f, log, n : /\ Election(x, y, w.term, V, m, d, z, f, log, n, p)
                                /\ Own(x, p, w, m[d], z, f, log, n)
  <1>1. Votes(x, w.term, V, m, d) /\ w \in ProposerOK /\ d \in V
    BY DEF Won, Votes
  <1>2. PICK z : z = HighestTerm(m[d].history)
    OBVIOUS
  <1>3. PICK f : f = m[d].flush
    OBVIOUS
  <1>4. z \in x.led /\ f \in Nat
    BY <1>1, <1>2, <1>3, VoteFields
  <1>5. x.log[z] \in [Nat -> Records] /\ p \in Records
    BY <1>4, Zenon DEF Core, View, Records
  <1>6. CASE w.mode = "compute" /\ ~BasebackupSpoiled(w, m[d])
    <2>1. /\ w.base <= f /\ f <= w.end
          /\ \A l \in Nat : w.base <= l /\ l < f => x.log[z][l] = p
      BY <1>2, <1>3, <1>6, NotSpoiledIsOwn
    <2>2. w.base \in Nat /\ w.end \in Nat
      BY <1>1 DEF ProposerOK, ProposerType
    <2>3. PICK log : log = [l \in Nat |-> IF l < f THEN x.log[z][l] ELSE p]
      BY Zenon
    <2>4. log \in [Nat -> Records] /\ \A l \in Nat : 1 <= l /\ l < f => log[l] = x.log[z][l]
      BY <1>4, <1>5, <2>3
    <2>5. \A l \in Nat : l >= w.base => log[l] = p
      BY <1>4, <2>1, <2>2, <2>3
    <2>6. PICK y : y = Led(x, w.term, z, f, log, w.end, p)
      OBVIOUS
    <2>7. Election(x, y, w.term, V, m, d, z, f, log, w.end, p)
      BY <1>1, <1>2, <1>3, <2>1, <2>2, <2>4, <2>6 DEF Election
    <2>8. Own(x, p, w, m[d], z, f, log, w.end)
      BY <1>6, <2>1, <2>5 DEF Own
    <2> QED
      BY <2>7, <2>8
  <1>7. CASE ~(w.mode = "compute" /\ ~BasebackupSpoiled(w, m[d]))
    <2>1. PICK y : y = Led(x, w.term, z, f, x.log[z], f, p)
      OBVIOUS
    <2>2. f <= f
      BY <1>4
    <2>3. Election(x, y, w.term, V, m, d, z, f, x.log[z], f, p)
      BY <1>1, <1>2, <1>3, <1>4, <1>5, <2>1, <2>2 DEF Election
    <2>4. Own(x, p, w, m[d], z, f, x.log[z], f)
      BY <1>7 DEF Own
    <2> QED
      BY <2>3, <2>4
  <1> QED
    BY <1>6, <1>7

\* What is known of the new leader.
NewView(x, y, p, V, m, d, h, w, v, z, f, log, n) ==
    /\ Won(x, p, V, m, d, h, w, v) /\ Election(x, y, w.term, V, m, d, z, f, log, n, p)
    /\ Own(x, p, w, m[d], z, f, log, n)
    /\ MineOK(x, p, w) /\ LeaderOK(x, p, w)

\* The WAL of the new term ends with the records of one compute.
LEMMA NewOwner ==
    ASSUME NEW x, NEW y, NEW p \in Computes, NEW V, NEW m, NEW d, NEW h, NEW w, NEW v, NEW z,
           NEW f, NEW log, NEW n, NewView(x, y, p, V, m, d, h, w, v, z, f, log, n),
           OwnerOK(x, wp, z), NEW wq, \A q \in Computes : wp[q].base # 0 => wq[q].base = wp[q].base
    PROVE  OwnerOK(y, wq, w.term)
  <1>1. /\ y.log[w.term] = log /\ y.limit[w.term] = n /\ f \in Nat /\ f >= 1 /\ f <= x.limit[z]
    BY LedFields, ZenonT(40) DEF NewView
  <1>2. w = wp[p] /\ w \in ProposerOK
    BY DEF NewView, Won
  <1>3. CASE w.mode = "compute" /\ ~BasebackupSpoiled(w, m[d])
    <2>1. \A l \in Nat : l >= w.base => log[l] = p
      BY <1>3 DEF NewView, Own
    <2>2. w.base # 0
      BY <1>3 DEF NewView, MineOK
    <2> QED
      BY <1>1, <1>2, <2>1, <2>2 DEF OwnerOK
  <1>4. CASE ~(w.mode = "compute" /\ ~BasebackupSpoiled(w, m[d]))
    <2>1. n = f /\ log = x.log[z]
      BY <1>4 DEF NewView, Own
    <2>2. CASE x.limit[z] = 1
      BY <1>1, <2>1, <2>2 DEF OwnerOK
    <2>3. CASE \E q \in Computes : wp[q].base # 0 /\ \A l \in Nat : l >= wp[q].base => x.log[z][l] = q
      BY <1>1, <2>1, <2>3 DEF OwnerOK
    <2> QED
      BY <2>2, <2>3 DEF OwnerOK
  <1> QED
    BY <1>3, <1>4

\* The walproposer is the leader of its term in the new view.
LEMMA NewLeaderFits ==
    ASSUME NEW x, NEW y, NEW p \in Computes, NEW V, NEW m, NEW d, NEW h, NEW w, NEW v, NEW z,
           NEW f, NEW log, NEW n, NewView(x, y, p, V, m, d, h, w, v, z, f, log, n)
    PROVE  /\ LeaderOK(y, p, v) /\ v.term \in y.led /\ y.by[v.term] = p /\ v.start = f
           /\ v.history = y.hist[v.term] /\ v.commit = 0 /\ v.mode \notin {"off", "dead"}
           /\ ~BasebackupSpoiled(w, m[d]) => MineOK(y, p, v)
           /\ v.base <= End(y) /\ Everywhere(y, v.truncate)
  <1> DEFINE u == w.term
  <1>1. /\ Won(x, p, V, m, d, h, w, v) /\ Election(x, y, u, V, m, d, z, f, log, n, p)
        /\ MineOK(x, p, w) /\ LeaderOK(x, p, w) /\ Own(x, p, w, m[d], z, f, log, n)
    BY DEF NewView
  <1>2. /\ v \in ProposerOK /\ v.state = "elected" /\ v.mode = w.mode /\ v.term = u
        /\ v.base = w.base /\ v.end = w.end /\ v.mine = u /\ v.commit = w.commit
        /\ v.start = m[d].flush /\ v.truncate = m[h].truncate
        /\ v.history = Append(m[d].history, [term |-> u, lsn |-> m[d].flush])
        /\ v.donors = {s \in V : VoteGe(m[s], m[d])}
        /\ m[d] \in VoteResponseType /\ m[h] \in VoteResponseType
        /\ w \in ProposerOK /\ w = wp[p] /\ w.state = "campaign" /\ u \in Nat
        /\ V \in SUBSET Safekeepers
    BY <1>1, WonFields, Zenon
  <1> HIDE DEF u
  <1>3. /\ x \in View /\ y \in View /\ Tree(x)
        /\ f \in Nat /\ f >= 1 /\ n \in Nat /\ f <= n
        /\ z \in x.led /\ y.led = x.led \cup {u}
        /\ y.hist[u] = Append(x.hist[z], [term |-> u, lsn |-> f])
        /\ y.log[u] = log /\ y.by[u] = p /\ y.limit[u] = n
        /\ y.term = x.term /\ y.at = x.at /\ y.chosen = x.chosen /\ AccOK(x)
    BY <1>1, LedFields, ZenonT(40)
  <1>4. Grown(x, y) /\ Tree(y) /\ StartOf(y, u) = f
    BY <1>1, LedGrows, LedTree
  <1>5. /\ Votes(x, u, V, m, d) /\ h \in V /\ d \in V /\ z = HighestTerm(m[d].history)
        /\ f = m[d].flush
    BY <1>1 DEF Won, Votes, Election, u
  <1>6. m[d].history = x.hist[z]
    BY <1>5, VoteFields
  <1>7. v.history = y.hist[u]
    BY <1>2, <1>3, <1>5, <1>6, Zenon
  <1>8. Everywhere(y, v.truncate)
    <2>1. m[h].given /\ VoteOK(x, h, m[h])
      BY <1>5 DEF Votes
    <2>2. Everywhere(x, m[h].truncate)
      BY <2>1 DEF VoteOK
    <2>3. m[h].truncate \in Nat
      BY <1>2 DEF VoteResponseType
    <2> QED
      BY <1>2, <1>4, <2>2, <2>3, EverywhereStays
  <1>9. ASSUME NEW s \in v.donors
        PROVE  /\ y.term[s] >= u
               /\ y.term[s] = u /\ y.at[s] # u => SameLog(y, y.at[s], u, f)
    <2>1. s \in V /\ VoteGe(m[s], m[d]) /\ s \in Safekeepers
      BY <1>2
    <2>2. PICK a : a = HighestTerm(m[s].history)
      OBVIOUS
    <2>3. PICK e : e = m[s].flush
      OBVIOUS
    <2>4. /\ a \in x.led /\ e \in Nat /\ x.term[s] >= u
          /\ z > a \/ (z = a /\ f >= e)
      <3>1. a \in x.led /\ e \in Nat /\ x.term[s] >= u
        BY <1>5, <2>1, <2>2, <2>3, VoteFields
      <3>2. z > a \/ (z = a /\ f >= e)
        BY <1>5, <2>1, <2>2, <2>3, VoteFields
      <3> QED
        BY <3>1, <3>2
    <2>5. a > z \/ (a = z /\ e >= f)
      BY <1>5, <2>1, <2>2, <2>3 DEF VoteGe
    <2>6. a \in Nat /\ z \in Nat
      BY <1>3, <2>4, LeaderHistory
    <2>7. a = z /\ e = f
      BY <1>3, <2>4, <2>5, <2>6
    <2>8. x.term[s] = u /\ x.at[s] # u => SameLog(x, x.at[s], z, f)
      <3>1. m[s].given /\ m[s].term = u /\ VoteOK(x, s, m[s])
        BY <1>5, <2>1 DEF Votes
      <3> QED
        BY <2>2, <2>3, <2>7, <3>1 DEF VoteOK
    <2>9. x.at[s] \in x.led
      BY <1>3, <2>1 DEF AccOK
    <2>10. y.log[x.at[s]] = x.log[x.at[s]] /\ y.log[z] = x.log[z]
      BY <1>3, <1>4, <2>9 DEF Grown, Grows
    <2>11. \A l \in Nat : 1 <= l /\ l < f => log[l] = x.log[z][l]
      BY <1>1 DEF Election
    <2>12. y.term[s] = x.term[s] /\ y.at[s] = x.at[s] /\ y.log[u] = log
      BY <1>3
    <2>13. ASSUME SameLog(x, x.at[s], z, f) PROVE SameLog(y, y.at[s], u, f)
      BY <2>10, <2>11, <2>12, <2>13 DEF SameLog
    <2> QED
      BY <2>4, <2>8, <2>12, <2>13
  <1>10. v.commit = 0 /\ u \in 1..MaxTerm
    BY <1>1, <1>2 DEF LeaderOK, u
  <1>11. LeaderOK(y, p, v)
    BY <1>2, <1>4, <1>5, <1>7, <1>8, <1>9, <1>10 DEF LeaderOK
  <1>12. v.mode \notin {"off", "dead"}
    BY <1>1, <1>2 DEF MineOK
  <1>13. End(y) = End(x) /\ v.base <= End(y)
    BY <1>1, <1>2, <1>3 DEF End, MineOK
  <1>14. ASSUME ~BasebackupSpoiled(w, m[d]) PROVE MineOK(y, p, v)
    <2>1. u \in y.led /\ y.by[u] = p
      BY <1>3
    <2>2. v.mode = "sync" => y.limit[u] = StartOf(y, u)
      BY <1>1, <1>2, <1>3, <1>4 DEF Own
    <2>3. v.mode = "compute" => /\ y.limit[u] = v.end /\ v.base <= StartOf(y, u)
                                /\ \A l \in Nat : l >= v.base => y.log[u][l] = p
      BY <1>1, <1>2, <1>3, <1>4, <1>14 DEF Own
    <2>4. /\ v.mode = "compute" => 1 <= v.base /\ v.base <= v.end
          /\ v.mode \in {"off", "sync"} => v.base = 0
      BY <1>1, <1>2 DEF MineOK
    <2> QED
      BY <1>2, <1>12, <1>13, <2>1, <2>2, <2>3, <2>4 DEF MineOK
  <1> QED
    BY <1>2, <1>3, <1>5, <1>7, <1>8, <1>10, <1>11, <1>12, <1>13, <1>14, Zenon

\* Without acknowledgements nothing is counted.
LEMMA NothingCounted ==
    ASSUME NEW w, NEW cs, w.start \in Nat, w.start >= 1,
           \A s \in Safekeepers : cs[s].ackFlush = 0
    PROVE  CountedOK(w, cs)
  <1> SUFFICES ASSUME NEW l \in 1..MaxLsn,
                      AckedBy(w.start, [s \in Safekeepers |-> cs[s].ackFlush], l)
               PROVE  FALSE
    BY DEF CountedOK
  <1>1. PICK ack : ack = [s \in Safekeepers |-> cs[s].ackFlush]
    OBVIOUS
  <1>2. \A s \in Safekeepers : ack[s] = 0
    BY <1>1
  <1>3. {s \in Safekeepers : ack[s] >= w.start /\ ack[s] >= l} = {}
    BY <1>2
  <1>4. IsQuorum({})
    BY <1>1, <1>3 DEF AckedBy
  <1>5. {} \cap {} # {}
    BY <1>4, QuorumsMeet
  <1> QED
    BY <1>5

\* The connections of a walproposer that has won.
LEMMA NewLinks ==
    ASSUME TypeInv, NEW x, Fits(x),
           NEW y, NEW p \in Computes, NEW V, NEW m, NEW d, NEW h, NEW w, NEW v, NEW z,
           NEW f, NEW log, NEW n, NewView(x, y, p, V, m, d, h, w, v, z, f, log, n),
           NEW cs, \A s \in Safekeepers :
                      cs[s] = IF s \in V THEN SendElected(conn[p][s], v, m[s]) ELSE conn[p][s]
    PROVE  /\ \A s \in Safekeepers : LinkOK(y, s, v, cs[s])
           /\ CountedOK(v, cs)
  <1>1. /\ v \in ProposerOK /\ v.state = "elected" /\ w = wp[p] /\ w.state = "campaign"
        /\ w \in ProposerOK
    <2>1. Won(x, p, V, m, d, h, w, v)
      BY DEF NewView
    <2> QED
      BY <2>1, WonBasics
  <1>2. /\ v.term \in y.led /\ v.history = y.hist[v.term] /\ v.start = f
    BY NewLeaderFits
  <1>3. Grown(x, y) /\ f \in Nat /\ f >= 1
    BY LedGrows, LedFields, Zenon DEF NewView
  <1>4. ASSUME NEW s \in Safekeepers
        PROVE  LinkOK(y, s, v, cs[s]) /\ cs[s].ackFlush = 0
    <2>1. PICK c \in ConnOK : c = conn[p][s]
      BY DEF TypeInv
    <2>2. LinkOK(x, s, w, c)
      BY <1>1, <2>1 DEF Fits
    <2>3. LinkOK(y, s, w, c)
      BY <1>1, <1>3, <2>2, LinkStays
    <2>4. /\ c.state # "active" /\ ~c.dirty /\ c.ackFlush = 0
          /\ \A i \in 1..Len(c.req) : c.req[i].type = "vote"
          /\ QueueOK(y, s, c.req)
          /\ \A i \in 1..Len(c.rep) : RepOK(y, s, w, c.rep[i])
      BY <1>1, <2>3 DEF LinkOK
    <2>5. CASE s \in V
      <3>1. LinkOK(y, s, v, SendElected(c, v, m[s])) /\ SendElected(c, v, m[s]).ackFlush = c.ackFlush
        BY <1>1, <1>2, <2>4, ElectedLink, Zenon
      <3> QED
        BY <2>1, <2>4, <2>5, <3>1
    <2>6. CASE s \notin V
      <3>1. \A i \in 1..Len(c.rep) : RepOK(y, s, v, c.rep[i])
        BY <1>1, <2>4 DEF RepOK
      <3>2. LinkOK(y, s, v, c)
        BY <2>4, <3>1 DEF LinkOK
      <3> QED
        BY <2>1, <2>4, <2>6, <3>2
    <2> QED
      BY <2>5, <2>6
  <1>5. CountedOK(v, cs)
    BY <1>2, <1>3, <1>4, NothingCounted
  <1> QED
    BY <1>4, <1>5

\* What is left of a walproposer process that ends right after its election.
EndsAs(w, vote, v, r) ==
    \/ BasebackupSpoiled(w, vote) /\ r = Panicked(v)
    \/ SyncNotNeeded(v) /\ r = PostgresAt(v, v.start)

Ended(y, p, w, r, cs) ==
    /\ MineOK(y, p, r) /\ LeaderOK(y, p, r) /\ BaseOK(y, r, cs)
    /\ r.state = "collecting" /\ (w.base # 0 => r.base = w.base)

\* It fits the view.
LEMMA NewEnds ==
    ASSUME NEW x, NEW y, NEW p \in Computes, NEW V, NEW m, NEW d, NEW h, NEW w, NEW v, NEW z,
           NEW f, NEW log, NEW n, NewView(x, y, p, V, m, d, h, w, v, z, f, log, n), NEW r,
           EndsAs(w, m[d], v, r), NEW cs, \A s \in Safekeepers : cs[s] = NewConn
    PROVE  Ended(y, p, w, r, cs)
  <1>1. /\ v \in ProposerOK /\ v.state = "elected" /\ w.state = "campaign" /\ v.mode = w.mode
        /\ v.base = w.base /\ v.mine = w.term /\ v.term = w.term
    <2>1. Won(x, p, V, m, d, h, w, v)
      BY DEF NewView
    <2> QED
      BY <2>1, WonBasics
  <1>2. /\ LeaderOK(y, p, v) /\ v.term \in y.led /\ y.by[v.term] = p /\ v.start = f
        /\ v.base <= End(y) /\ Everywhere(y, v.truncate)
    BY NewLeaderFits
  <1>3. Core(y) /\ f \in Nat /\ f >= 1 /\ End(y) \in Nat
    <2>1. Core(y) /\ f \in Nat /\ f >= 1
      BY LedCore, LedFields, Zenon DEF NewView
    <2> QED
      BY <2>1, EndIs DEF Core
  <1>4. CASE BasebackupSpoiled(w, m[d]) /\ r = Panicked(v)
    <2>1. PICK g : g = Restarting(v)
      OBVIOUS
    <2>2. /\ g.mode = v.mode /\ g.mine = v.mine /\ g.base = v.base
          /\ g.state = "collecting" /\ g.commit = 0 /\ g \in ProposerOK
      BY <1>1, <2>1, RestartingFields, RestartingType
    <2>3. r = [g EXCEPT !.mode = "dead"]
      BY <1>4, <2>1 DEF Panicked
    <2>4. /\ r.mode = "dead" /\ r.mine = v.mine /\ r.base = v.base
          /\ r.state = "collecting" /\ r.commit = 0
      BY <2>2, <2>3 DEF ProposerOK, ProposerType
    <2>5. MineOK(y, p, r)
      BY <1>1, <1>2, <2>4 DEF MineOK
    <2>6. LeaderOK(y, p, r) /\ BaseOK(y, r, cs)
      BY <2>4 DEF LeaderOK, BaseOK
    <2> QED
      BY <1>1, <2>4, <2>5, <2>6 DEF Ended
  <1>5. CASE SyncNotNeeded(v) /\ r = PostgresAt(v, v.start)
    <2>1. v.mode = "sync" /\ v.truncate = f
      BY <1>2, <1>5 DEF SyncNotNeeded
    <2>2. /\ r.mode = "compute" /\ r.base = f /\ r.end = f /\ r.mine = 0
          /\ r.state = "collecting" /\ r.commit = 0
      BY <1>1, <1>2, <1>3, <1>5, PostgresAtFields
    <2>3. f <= End(y)
      BY <1>2, <2>1 DEF Everywhere, Committed
    <2>4. MineOK(y, p, r) /\ LeaderOK(y, p, r)
      BY <1>3, <2>2, <2>3 DEF MineOK, LeaderOK
    <2>5. \A s \in Safekeepers : cs[s].state = "offline"
      BY ClosedFields, Zenon
    <2>6. BaseOK(y, r, cs)
      BY <1>3, <2>2, <2>3, <2>5, BaseFresh
    <2>7. w.base = 0
      BY <1>1, <2>1 DEF NewView, MineOK
    <2> QED
      BY <2>2, <2>4, <2>6, <2>7 DEF Ended
  <1> QED
    BY <1>4, <1>5 DEF EndsAs

\* Win an election.
LEMMA ElectedFits ==
    ASSUME ElectionInv, TypeInv', Fitting, NEW p \in Computes, NEW V \in SUBSET Safekeepers,
           Elected(p, V)
    PROVE  Fitting'
  <1>1. PICK x : Fits(x)
    BY DEF Fitting
  <1>2. TypeInv /\ wp \in [Computes -> ProposerOK] /\ wins \in [0..MaxTerm -> Nat]
        /\ conn \in [Computes -> [Safekeepers -> ConnOK]]
    BY Zenon DEF ElectionInv, TypeInv
  <1>3. wp[p].term \in 1..MaxTerm
    BY <1>1, ElectedWon
  <1>4. PICK m, d, h, w, v : Won(x, p, V, m, d, h, w, v) /\ Goes(p, V, m, d, w, v)
    BY <1>1, ElectedWon
  <1>5. /\ v \in ProposerOK /\ v.mode = w.mode /\ v.term = w.term /\ v.base = w.base
        /\ v.mine = w.term /\ w = wp[p]
    BY <1>4, WonBasics
  <1>6. /\ Core(x) /\ MineOK(x, p, w) /\ LeaderOK(x, p, w) /\ BaseOK(x, w, conn[p])
        /\ WinsOK(x, wins) /\ x.chosen = chosen
    BY <1>1, <1>5 DEF Fits
  <1>7. x.limit[0] = 1
    BY <1>6 DEF WinsOK
  <1>8. PICK y, z, f, log, n : /\ Election(x, y, w.term, V, m, d, z, f, log, n, p)
                               /\ Own(x, p, w, m[d], z, f, log, n)
    BY <1>4, <1>6, <1>7, NewLeader
  <1>9. NewView(x, y, p, V, m, d, h, w, v, z, f, log, n)
    BY <1>4, <1>6, <1>8 DEF NewView
  <1>10. PICK u \in 1..MaxTerm : u = w.term
    BY <1>3, <1>5
  <1>11. /\ Grown(x, y) /\ SameSafekeepers(x, y) /\ Core(y)
    BY <1>8, LedGrows, LedCore
  <1>12. /\ y.led = x.led \cup {u} /\ z \in x.led /\ y.chosen = x.chosen
         /\ u \notin x.led
    <2>1. /\ y.led = x.led \cup {w.term} /\ z \in x.led /\ y.chosen = x.chosen
          /\ w.term \notin x.led
      BY <1>8, LedFields, Zenon
    <2> QED
      BY <1>10, <2>1
  <1>13. \A t \in x.led : y.limit[t] = x.limit[t]
    <2>1. \A t \in x.led : /\ y.hist[t] = x.hist[t] /\ y.log[t] = x.log[t]
                           /\ y.by[t] = x.by[t] /\ y.limit[t] = x.limit[t]
      BY <1>8, LedFields, Zenon
    <2> QED
      BY <2>1
  <1>14. /\ wins' = [wins EXCEPT ![u] = @ + 1] /\ UNCHANGED <<sk, info, chosen>>
    BY <1>4, <1>10 DEF Goes
  <1>15. WinsOK(y, wins')
    <2>1. 0 \in x.led
      BY <1>6 DEF Core, Tree
    <2>2. u \in 0..MaxTerm /\ u \in Nat
      BY BoundsAssumption
    <2>3. wins'[u] # 0 /\ \A t \in 0..MaxTerm : t # u => wins'[t] = wins[t]
      BY <1>2, <1>14, <2>2
    <2> QED
      BY <1>6, <1>7, <1>12, <1>13, <2>1, <2>2, <2>3 DEF WinsOK
  <1>16. OwnerOK(x, wp, z)
    BY <1>1, <1>12 DEF Fits
  <1>17. CASE /\ ~BasebackupSpoiled(w, m[d])
              /\ wp' = [wp EXCEPT ![p] = v]
              /\ conn' = [conn EXCEPT ![p] = [s \in Safekeepers |->
                     IF s \in V THEN SendElected(conn[p][s], v, m[s]) ELSE conn[p][s]]]
              /\ UNCHANGED old
    <2>1. PICK cs : cs = [s \in Safekeepers |->
                     IF s \in V THEN SendElected(conn[p][s], v, m[s]) ELSE conn[p][s]]
      BY Zenon
    <2>2. conn' = [conn EXCEPT ![p] = cs]
      BY <1>17, <2>1, Zenon
    <2>3. \A s \in Safekeepers :
              cs[s] = IF s \in V THEN SendElected(conn[p][s], v, m[s]) ELSE conn[p][s]
      BY <2>1, Zenon
    <2>4. wp'[p] = v /\ conn'[p] = cs /\ \A q \in Computes \ {p} : wp'[q] = wp[q] /\ conn'[q] = conn[q]
      BY <1>2, <1>17, <2>2
    <2>5. /\ MineOK(y, p, v) /\ LeaderOK(y, p, v) /\ v.mode \notin {"off", "dead"}
      BY <1>9, <1>17, NewLeaderFits
    <2>6. CountedOK(v, cs) /\ \A s \in Safekeepers : LinkOK(y, s, v, cs[s])
      BY <1>1, <1>2, <1>9, <2>3, NewLinks
    <2>7. BaseOK(y, v, cs)
      <3>1. v.mine # 0 /\ v.mode # "off"
        BY <1>5, <1>10, <2>5
      <3> QED
        BY <3>1 DEF BaseOK
    <2>8. \A q \in Computes : wp[q].base # 0 => wp'[q].base = wp[q].base
      BY <1>5, <2>4
    <2>9. OwnerOK(y, wp', w.term)
      BY <1>9, <1>16, <2>8, NewOwner
    <2>10. \A q \in Computes \ {p} : /\ wp'[q] = wp[q] /\ conn'[q] = conn[q]
                                     /\ wp[q].mine \in x.led =>
                                           y.limit[wp[q].mine] = x.limit[wp[q].mine]
      BY <1>13, <2>4
    <2>11. /\ MineOK(y, p, wp'[p]) /\ LeaderOK(y, p, wp'[p]) /\ CountedOK(wp'[p], conn'[p])
           /\ BaseOK(y, wp'[p], conn'[p])
           /\ \A s \in Safekeepers : LinkOK(y, s, wp'[p], conn'[p][s])
      BY <2>4, <2>5, <2>6, <2>7
    <2>12. \A t \in y.led : \/ t \in x.led /\ y.limit[t] = x.limit[t]
                            \/ OwnerOK(y, wp', t)
      BY <1>10, <1>12, <1>13, <2>9
    <2>13. /\ y.chosen = chosen' /\ UNCHANGED <<sk, info>>
           /\ \A q \in Computes, s \in Safekeepers :
                 old'[q][s] = old[q][s] \/ QueueOK(y, s, old'[q][s].req)
           /\ wp[p].base # 0 => wp'[p].base = wp[p].base
      BY <1>6, <1>12, <1>14, <1>17, <2>8
    <2> QED
      BY <1>1, <1>2, <1>11, <1>15, <2>10, <2>11, <2>12, <2>13, ComputeFits, Zenon
  <1>18. ASSUME NEW r, EndsAs(w, m[d], v, r), ProcessEnds(p, r)
         PROVE  Fitting'
    <2>1. /\ wp' = [wp EXCEPT ![p] = r]
          /\ conn' = [conn EXCEPT ![p] = [s \in Safekeepers |-> NewConn]]
          /\ Abandon(p, conn[p])
      BY <1>18 DEF ProcessEnds
    <2>2. wp'[p] = r /\ \A q \in Computes \ {p} : wp'[q] = wp[q] /\ conn'[q] = conn[q]
      BY <1>2, <2>1
    <2>3. \A s \in Safekeepers : conn'[p][s] = NewConn
      BY <1>2, <2>1
    <2>4. /\ MineOK(y, p, r) /\ LeaderOK(y, p, r) /\ BaseOK(y, r, conn'[p])
          /\ r.state = "collecting" /\ (w.base # 0 => r.base = w.base)
      <3>1. PICK cs : cs = conn'[p]
        OBVIOUS
      <3>2. \A s \in Safekeepers : cs[s] = NewConn
        BY <2>3, <3>1
      <3>3. Ended(y, p, w, r, cs)
        BY <1>9, <1>18, <3>2, NewEnds
      <3> QED
        BY <3>1, <3>3 DEF Ended
    <2>5. CountedOK(r, conn'[p]) /\ \A s \in Safekeepers : LinkOK(y, s, r, conn'[p][s])
      <3>1. r.state # "elected"
        BY <2>4
      <3>2. CountedOK(r, conn'[p]) /\ \A s \in Safekeepers : LinkOK(y, s, r, NewConn)
        BY <1>2, <3>1, FreshFits
      <3> QED
        BY <2>3, <3>2
    <2>6. \A q \in Computes : wp[q].base # 0 => wp'[q].base = wp[q].base
      BY <1>5, <2>2, <2>4
    <2>7. OwnerOK(y, wp', w.term)
      BY <1>9, <1>16, <2>6, NewOwner
    <2>8. \A q \in Computes, s \in Safekeepers :
              old'[q][s] = old[q][s] \/ QueueOK(y, s, old'[q][s].req)
      <3>1. ASSUME NEW s \in Safekeepers PROVE QueueOK(y, s, conn[p][s].req)
        <4>1. LinkOK(x, s, wp[p], conn[p][s]) /\ conn[p][s] \in ConnOK
          BY <1>1, <1>2 DEF Fits
        <4>2. QueueOK(x, s, conn[p][s].req)
          BY <4>1 DEF LinkOK
        <4>3. conn[p][s].req \in Seq(RequestType)
          BY <4>1 DEF ConnOK, ConnType
        <4> QED
          BY <1>11, <4>2, <4>3, QueueStays
      <3>2. conn[p] \in [Safekeepers -> ConnOK]
        BY <1>2
      <3> QED
        BY <1>2, <2>1, <3>1, <3>2, AbandonFits, Zenon
    <2>10. \A q \in Computes \ {p} : /\ wp'[q] = wp[q] /\ conn'[q] = conn[q]
                                     /\ wp[q].mine \in x.led =>
                                           y.limit[wp[q].mine] = x.limit[wp[q].mine]
      BY <1>13, <2>2
    <2>11. /\ MineOK(y, p, wp'[p]) /\ LeaderOK(y, p, wp'[p]) /\ CountedOK(wp'[p], conn'[p])
           /\ BaseOK(y, wp'[p], conn'[p])
           /\ \A s \in Safekeepers : LinkOK(y, s, wp'[p], conn'[p][s])
      BY <2>2, <2>4, <2>5
    <2>12. \A t \in y.led : \/ t \in x.led /\ y.limit[t] = x.limit[t]
                            \/ OwnerOK(y, wp', t)
      BY <1>10, <1>12, <1>13, <2>7
    <2>13. /\ y.chosen = chosen' /\ UNCHANGED <<sk, info>>
           /\ wp[p].base # 0 => wp'[p].base = wp[p].base
      BY <1>6, <1>12, <1>14, <2>6
    <2> QED
      BY <1>1, <1>2, <1>11, <1>15, <2>8, <2>10, <2>11, <2>12, <2>13, ComputeFits, Zenon
  <1> QED
    BY <1>4, <1>17, <1>18 DEF Goes, EndsAs

-----------------------------------------------------------------------------
(***************************************************************************)
(* A new timeline: term 0 has no leader, and an empty WAL.                 *)
(***************************************************************************)
FirstHistory == <<[term |-> 0, lsn |-> 1]>>

FirstView ==
    [led |-> {0}, hist |-> [t \in Nat |-> FirstHistory], log |-> [t \in Nat |-> [l \in Nat |-> 0]],
     by |-> [t \in Nat |-> 0], limit |-> [t \in Nat |-> 1],
     acc |-> [s \in Safekeepers |-> [t \in Nat |-> IF t = 0 THEN 1 ELSE 0]],
     term |-> [s \in Safekeepers |-> 0], at |-> [s \in Safekeepers |-> 0], chosen |-> <<>>]

\* All safekeepers are a quorum.
LEMMA AllAreQuorum == IsQuorum(Safekeepers)
  <1> DEFINE n == Cardinality(Safekeepers)
  <1>1. n \in Nat /\ n # 0
    BY SafekeepersAssumption, FS_CardinalityType, FS_EmptySet
  <1> HIDE DEF n
  <1>2. n >= n \div 2 + 1
    BY <1>1
  <1> QED
    BY <1>2 DEF IsQuorum, n

\* Its history.
LEMMA FirstHistoryIs ==
    /\ FirstHistory \in History /\ FirstHistory # <<>> /\ Len(FirstHistory) = 1
    /\ FirstHistory[1] = [term |-> 0, lsn |-> 1] /\ Ordered(FirstHistory)
    /\ SubSeq(FirstHistory, 1, 1) = FirstHistory
  <1>1. PICK e : e = [term |-> 0, lsn |-> 1]
    BY Zenon
  <1>2. e \in Entry
    BY <1>1 DEF Entry
  <1>3. PICK h : h = <<e>>
    BY Zenon
  <1>4. h \in Seq(Entry) /\ Len(h) = 1 /\ h[1] = e /\ h # <<>>
    BY <1>2, <1>3
  <1>5. SubSeq(h, 1, 1) = h
    BY <1>4, SubSeqFull
  <1>6. Ordered(h)
    BY <1>4 DEF Ordered
  <1>7. h = FirstHistory
    BY <1>1, <1>3 DEF FirstHistory
  <1> QED
    BY <1>1, <1>4, <1>5, <1>6, <1>7 DEF History

\* The fields of the first view.
LEMMA FirstFields ==
    ASSUME NEW x, x = FirstView
    PROVE  /\ x \in View /\ x.led = {0} /\ x.chosen = <<>> /\ End(x) = 1
           /\ \A t \in Nat : x.hist[t] = FirstHistory /\ x.limit[t] = 1
           /\ \A s \in Safekeepers : x.term[s] = 0 /\ x.at[s] = 0 /\ x.acc[s][0] = 1
           /\ \A s \in Safekeepers, t \in Nat : t # 0 => x.acc[s][t] = 0
           /\ StartOf(x, 0) = 1
  <1>1. FirstHistory \in History /\ Len(FirstHistory) = 1
        /\ FirstHistory[1] = [term |-> 0, lsn |-> 1]
    BY FirstHistoryIs
  <1>2. <<>> \in Seq(Computes) /\ Len(<<>>) = 0
    BY EmptySeq
  <1>3. 0 \in Records
    BY DEF Records
  <1>4. x \in View
    BY <1>1, <1>2, <1>3 DEF FirstView, View
  <1>5. /\ x.led = {0} /\ x.chosen = <<>>
        /\ \A t \in Nat : x.hist[t] = FirstHistory /\ x.limit[t] = 1
        /\ \A s \in Safekeepers : x.term[s] = 0 /\ x.at[s] = 0 /\ x.acc[s][0] = 1
        /\ \A s \in Safekeepers, t \in Nat : t # 0 => x.acc[s][t] = 0
    BY DEF FirstView
  <1>6. End(x) = 1
    BY <1>2, <1>5 DEF End, EndOf
  <1>7. StartOf(x, 0) = 1
    BY <1>1, <1>5 DEF StartOf
  <1> QED
    BY <1>4, <1>5, <1>6, <1>7

\* The first view has the properties of all views.
LEMMA FirstCore ==
    ASSUME NEW x, x = FirstView
    PROVE  Core(x) /\ Everywhere(x, 1) /\ Committed(x, 0, 1)
  <1>1. /\ x \in View /\ x.led = {0} /\ x.chosen = <<>> /\ End(x) = 1
        /\ \A t \in Nat : x.hist[t] = FirstHistory /\ x.limit[t] = 1
        /\ \A s \in Safekeepers : x.term[s] = 0 /\ x.at[s] = 0 /\ x.acc[s][0] = 1
        /\ \A s \in Safekeepers, t \in Nat : t # 0 => x.acc[s][t] = 0
        /\ StartOf(x, 0) = 1
    BY FirstFields
  <1>2. PICK g : g = FirstHistory
    OBVIOUS
  <1>3. /\ g \in History /\ g # <<>> /\ Len(g) = 1 /\ g[1] = [term |-> 0, lsn |-> 1]
        /\ Ordered(g) /\ SubSeq(g, 1, 1) = g
    BY <1>2, FirstHistoryIs
  <1>4. HistoryOK(x, 0)
    <2>1. x.hist[0] = g
      BY <1>1, <1>2
    <2>2. \A i \in 1..Len(g) : g[i].term \in x.led /\ x.hist[g[i].term] = SubSeq(g, 1, i)
      <3> SUFFICES ASSUME NEW i \in 1..Len(g)
                   PROVE  g[i].term \in x.led /\ x.hist[g[i].term] = SubSeq(g, 1, i)
        OBVIOUS
      <3>1. i = 1 /\ g[i].term = 0
        BY <1>3
      <3> QED
        BY <1>1, <1>3, <2>1, <3>1
    <2>3. 1..(Len(g) - 1) = {}
      BY <1>3
    <2>4. \E Q \in SUBSET Safekeepers : IsQuorum(Q) /\ \A s \in Q : x.term[s] >= 0
      <3>1. \A s \in Safekeepers : x.term[s] >= 0
        BY <1>1
      <3> QED
        BY <3>1, AllAreQuorum
    <2>5. g[Len(g)].term = 0
      BY <1>3
    <2>6. StartOf(x, 0) <= x.limit[0]
      BY <1>1
    <2> QED
      BY <1>3, <2>1, <2>2, <2>3, <2>4, <2>5, <2>6, Zenon DEF HistoryOK
  <1>5. Tree(x)
    BY <1>1, <1>4 DEF Tree
  <1>6. AccOK(x)
    BY <1>1 DEF AccOK
  <1>7. LeadersCover(x)
    BY <1>1 DEF LeadersCover
  <1>8. Committed(x, 0, 1)
    <2>1. Floor(x, 0, 1) = 1
      BY <1>1 DEF Floor, Larger
    <2>2. Accepted(x, 0, 1)
      <3>1. \A s \in Safekeepers : x.acc[s][0] >= Floor(x, 0, 1)
        BY <1>1, <2>1
      <3> QED
        BY <3>1, AllAreQuorum DEF Accepted
    <2> QED
      BY <1>1, <2>2 DEF Committed
  <1>9. ChosenOK(x)
    <2>1. 1..Len(x.chosen) = {}
      BY <1>1
    <2> QED
      BY <1>1, <1>8, <2>1 DEF ChosenOK
  <1>10. Everywhere(x, 1)
    BY <1>1, <1>8 DEF Everywhere
  <1> QED
    BY <1>1, <1>5, <1>6, <1>7, <1>8, <1>9, <1>10 DEF Core

\* The start of the WAL is known to everybody.
LEMMA FirstIsKnown ==
    ASSUME NEW x, x = FirstView
    PROVE  0 \in x.led /\ Committed(x, 0, 1) /\ Follows(x.hist[0], x.hist[0], 1)
  <1>1. 0 \in x.led /\ x.hist[0] = FirstHistory /\ FirstHistory \in History
    BY FirstFields, FirstHistoryIs
  <1>2. Follows(x.hist[0], x.hist[0], 1)
    BY <1>1, FollowsItself
  <1> QED
    BY <1>1, <1>2, FirstCore

\* The first view fits the initial state.
LEMMA InitFits == Init => Fitting
  <1> SUFFICES ASSUME Init PROVE Fitting
    OBVIOUS
  <1>1. PICK x : x = FirstView
    OBVIOUS
  <1>2. /\ x \in View /\ x.led = {0} /\ x.chosen = <<>> /\ End(x) = 1
        /\ \A t \in Nat : x.hist[t] = FirstHistory /\ x.limit[t] = 1
        /\ \A s \in Safekeepers : x.term[s] = 0 /\ x.at[s] = 0 /\ x.acc[s][0] = 1
        /\ \A s \in Safekeepers, t \in Nat : t # 0 => x.acc[s][t] = 0
        /\ StartOf(x, 0) = 1
    BY <1>1, FirstFields
  <1>3. Core(x) /\ Everywhere(x, 1) /\ Tree(x)
    BY <1>1, FirstCore DEF Core
  <1>4. TypeInv
    BY InitTypes
  <1>5. x.hist[0] = FirstHistory /\ x.limit[0] = 1 /\ FirstHistory \in History
    BY <1>2, FirstHistoryIs
  <1>6. ASSUME NEW s \in Safekeepers PROVE SkOK(x, s, sk[s])
    <2>1. PICK k \in SafekeeperOK : k = sk[s]
      BY <1>4 DEF TypeInv
    <2>2. /\ k.term = 0 /\ k.history = FirstHistory /\ k.commit = 1 /\ k.horizon = 1
          /\ k.pcommit = 1 /\ k.phorizon = 1 /\ k.wal = <<>> /\ k.flush = 1
      BY <2>1 DEF Init, InitSafekeeper, InitialTerm, FirstHistory
    <2>3. WriteLsn(k) = 1 /\ 1..Len(k.wal) = {}
      BY <2>2 DEF WriteLsn, EndOf
    <2>4. WalOK(x, s, k)
      BY <1>2, <1>5, <2>2, <2>3 DEF WalOK
    <2>5. KeepsAccepted(x, s, k.history, k.flush, k.term + 1)
      <3> SUFFICES ASSUME NEW c \in Nat, 1 <= c, c <= x.acc[s][0]
                   PROVE  c <= k.flush /\ Follows(k.history, x.hist[0], c)
        BY <1>2 DEF KeepsAccepted
      <3> QED
        BY <1>2, <1>5, <2>2, FollowsItself
    <2>6. CommitOK(x, s, k)
      <3>1. KnownIn(x, 0, x.hist[0], 1)
        BY <1>1, FirstIsKnown DEF KnownIn
      <3> QED
        BY <1>2, <1>3, <2>2, <3>1 DEF CommitOK
    <2> QED
      BY <2>1, <2>4, <2>5, <2>6 DEF SkOK
  <1>7. ASSUME NEW p \in Computes
        PROVE  /\ wp[p].mode = "off" /\ wp[p].state = "collecting" /\ wp[p].mine = 0
               /\ wp[p].base = 0 /\ wp[p].commit = 0
               /\ \A s \in Safekeepers : conn[p][s] = NewConn /\ old[p][s] = NoOld
    BY DEF Init, InitProposer
  <1>8. ASSUME NEW p \in Computes PROVE MineOK(x, p, wp[p]) /\ LeaderOK(x, p, wp[p])
    BY <1>2, <1>7 DEF MineOK, LeaderOK
  <1>9. ASSUME NEW p \in Computes
        PROVE  CountedOK(wp[p], conn[p]) /\ BaseOK(x, wp[p], conn[p])
    <2>1. \A s \in Safekeepers : conn[p][s].state = "offline"
      BY <1>7, ClosedFields, Zenon
    <2> QED
      BY <1>7, <2>1 DEF CountedOK, BaseOK
  <1>10. ASSUME NEW p \in Computes, NEW s \in Safekeepers
         PROVE  LinkOK(x, s, wp[p], conn[p][s]) /\ QueueOK(x, s, old[p][s].req)
    <2>1. LinkOK(x, s, wp[p], NewConn)
      BY <1>4, <1>7, FreshFits
    <2>2. QueueOK(x, s, NoOld.req)
      BY ClosedFields, Zenon
    <2> QED
      BY <1>7, <2>1, <2>2
  <1>11. InfoOK(x, info)
    <2>1. /\ info.lastLogTerm = HighestTerm(UpTo(FirstHistory, 1))
          /\ info.commit = 1 /\ info.horizon = 1
      BY DEF Init, PeerInfo, LastLogTerm, TermHistoryOf, InitSafekeeper, InitialTerm, FirstHistory
    <2>2. 1 <= x.limit[0] /\ 0 \in x.led
      BY <1>2, <1>5
    <2>3. info.lastLogTerm \in x.led
      BY <1>2, <1>3, <1>5, <2>1, <2>2, CutLog, Zenon
    <2>4. info.lastLogTerm = 0
      BY <1>2, <2>3
    <2>5. PassedOn(x, info)
      BY <1>1, <1>2, <2>1, <2>4, FirstIsKnown DEF PassedOn
    <2> QED
      BY <1>2, <1>3, <2>1, <2>3, <2>5 DEF InfoOK
  <1>12. OwnerOK(x, wp, 0) /\ WinsOK(x, wins)
    BY <1>2, <1>5 DEF OwnerOK, WinsOK
  <1>13. x.chosen = chosen
    BY <1>2 DEF Init
  <1> QED
    BY <1>2, <1>3, <1>6, <1>8, <1>9, <1>10, <1>11, <1>12, <1>13 DEF Fits, Fitting

-----------------------------------------------------------------------------
(***************************************************************************)
(* All the steps together.                                                 *)
(***************************************************************************)
\* A step of a compute.
LEMMA ProposerStepFits ==
    ASSUME ElectionInv, TypeInv', Fitting, NEW p \in Computes, ProposerStep(p)
    PROVE  Fitting'
  <1>0. TypeInv
    BY DEF ElectionInv
  <1>1. CASE \E V \in SUBSET Safekeepers : Elected(p, V)
    BY <1>1, ElectedFits
  <1>2. CASE WriteWal(p)
    BY <1>0, <1>2, WriteWalFits
  <1>3. CASE StartSync(p) \/ \E s \in Safekeepers : PingSafekeeper(p, s)
    BY <1>0, <1>3, StartingFits
  <1>4. CASE \E s \in Safekeepers : GreetWhileCollecting(p, s)
    BY <1>0, <1>4, GreetFits
  <1>5. CASE \E s \in Safekeepers : GreetLate(p, s)
    BY <1>0, <1>5, GreetLateFits
  <1>6. CASE \E s \in Safekeepers : VoteRefused(p, s) \/ AppendRejected(p, s)
    BY <1>0, <1>6, GivingUpFits
  <1>7. CASE \E s \in Safekeepers : VoteAfterElection(p, s)
    BY <1>0, <1>7, VoteAfterElectionFits
  <1>8. CASE \E s \in Safekeepers : SendAppendRequest(p, s)
    BY <1>0, <1>8, SendAppendFits
  <1>9. CASE \E s \in Safekeepers : AppendAcked(p, s)
    BY <1>0, <1>9, AppendAckedFits
  <1>10. CASE \E s \in Safekeepers : Disconnect(p, s)
    BY <1>0, <1>10, DisconnectFits
  <1> QED
    BY <1>1, <1>2, <1>3, <1>4, <1>5, <1>6, <1>7, <1>8, <1>9, <1>10 DEF ProposerStep

\* A step of a safekeeper, on a connection or by itself.
LEMMA SafekeeperStepsFit ==
    ASSUME TypeInv, TypeInv', Fitting, Unpublished, NEW s \in Safekeepers,
           SafekeeperStep(s) \/ \E p \in Computes : AcceptorStep(p, s)
    PROVE  Fitting'
  <1>1. ASSUME NEW p \in Computes, AcceptorStep(p, s) PROVE Fitting'
    <2>1. CASE \E live \in BOOLEAN : HandleVoteRequest(p, s, live)
      BY <2>1, HandleVoteFits
    <2>2. CASE \E live \in BOOLEAN : HandleElected(p, s, live)
      BY <2>2, HandleElectedFits
    <2>3. CASE \E live \in BOOLEAN : HandleAppendRequest(p, s, live)
      BY <2>3, HandleAppendFits
    <2>4. CASE FlushWal(p, s)
      BY <2>4, FlushWalFits
    <2>5. CASE OldEnds(p, s)
      BY <2>5, OldEndsFits
    <2>6. CASE CrashInElected(p, s)
      BY <2>6, CrashInElectedFits
    <2> QED
      BY <1>1, <2>1, <2>2, <2>3, <2>4, <2>5, <2>6 DEF AcceptorStep
  <1>2. CASE SafekeeperStep(s)
    <2>1. CASE CrashSafekeeper(s)
      BY <2>1, CrashSafekeeperFits
    <2>2. CASE SaveControlFile(s) \/ TermBump(s)
      BY <2>2, SaveAndBumpFits
    <2>3. CASE PublishInfo(s)
      BY <2>3, PublishInfoFits
    <2>4. CASE RecordSafekeeperInfo(s)
      BY <2>4, RecordInfoFits
    <2> QED
      BY <1>2, <2>1, <2>2, <2>3, <2>4 DEF SafekeeperStep
  <1> QED
    BY <1>1, <1>2

\* Nothing is published that the bound does not allow.
LEMMA PublishingEnds ==
    ASSUME TypeInv, [Next]_vars, budget["info"] = 0
    PROVE  budget'["info"] = 0
  <1>0. budget \in [Faults -> Nat] /\ "info" \in Faults
    BY DEF TypeInv, Faults
  <1>1. ASSUME NEW fault \in Faults, Spend(fault) PROVE budget'["info"] = 0
    BY <1>0, <1>1 DEF Spend
  <1>2. ASSUME NEW p \in Computes, ProposerStep(p) PROVE budget'["info"] = 0
    <2>1. CASE \E s \in Safekeepers : Disconnect(p, s)
      BY <1>1, <2>1 DEF Disconnect, Faults
    <2>2. CASE ~\E s \in Safekeepers : Disconnect(p, s)
      <3>1. UNCHANGED budget
        BY <1>2, <2>2 DEF ProposerStep, StartSync, WriteWal, Elected, PingSafekeeper,
                          GreetWhileCollecting, GreetLate, VoteRefused, VoteAfterElection,
                          SendAppendRequest, AppendRejected, AppendAcked
      <3> QED
        BY <3>1
    <2> QED
      BY <2>1, <2>2
  <1>3. ASSUME NEW p \in Computes, NEW s \in Safekeepers, AcceptorStep(p, s)
        PROVE  budget'["info"] = 0
    <2>1. CASE CrashInElected(p, s)
      BY <1>1, <2>1 DEF CrashInElected, Faults
    <2>2. CASE ~CrashInElected(p, s)
      <3>1. UNCHANGED budget
        BY <1>3, <2>2 DEF AcceptorStep, HandleVoteRequest, HandleElected, HandleAppendRequest,
                          FlushWal, OldEnds
      <3> QED
        BY <3>1
    <2> QED
      BY <2>1, <2>2
  <1>4. ASSUME NEW s \in Safekeepers, SafekeeperStep(s) PROVE budget'["info"] = 0
    <2>1. RecordSafekeeperInfo(s) \/ \E fault \in Faults : Spend(fault)
      BY <1>4 DEF SafekeeperStep, CrashSafekeeper, SaveControlFile, TermBump, PublishInfo, Faults
    <2> QED
      BY <1>1, <2>1 DEF RecordSafekeeperInfo
  <1>5. UNCHANGED vars => UNCHANGED budget
    BY DEF vars
  <1> QED
    BY <1>2, <1>3, <1>4, <1>5 DEF Next

\* No step of the write path breaks the invariant.
LEMMA SafetyKept ==
    ASSUME SafetyInv, [Next]_vars
    PROVE  SafetyInv'
  <1>1. ElectionInv /\ TypeInv /\ Fitting /\ Unpublished
    BY DEF SafetyInv, ElectionInv
  <1>2. ElectionInv'
    BY <1>1, ElectionsKept
  <1>3. TypeInv'
    BY <1>2 DEF ElectionInv
  <1>7. Unpublished'
    BY <1>1, PublishingEnds DEF Unpublished, NoBroker
  <1>4. CASE \E p \in Computes : ProposerStep(p)
    BY <1>1, <1>2, <1>3, <1>4, <1>7, ProposerStepFits DEF SafetyInv
  <1>5. CASE \E s \in Safekeepers : SafekeeperStep(s) \/ \E p \in Computes : AcceptorStep(p, s)
    BY <1>1, <1>2, <1>3, <1>5, <1>7, SafekeeperStepsFit DEF SafetyInv
  <1>6. CASE UNCHANGED vars
    <2>1. PICK x : Fits(x)
      BY <1>1 DEF Fitting
    <2>2. UNCHANGED <<sk, wp, conn, old, info, wins, chosen>>
      BY <1>6 DEF vars
    <2>3. Fits(x)'
      BY <2>1, <2>2, Zenon DEF Fits
    <2> QED
      BY <1>2, <1>7, <2>3 DEF SafetyInv, Fitting
  <1> QED
    BY <1>4, <1>5, <1>6 DEF Next

\* A new timeline fulfils it.
LEMMA SafetyStarts == Init => SafetyInv
  <1>1. Init => Unpublished
    BY DEF Init, Unpublished, NoBroker
  <1> QED
    BY <1>1, InitElections, InitFits DEF SafetyInv

\* So it holds throughout.
LEMMA SafetyHolds == Spec => []SafetyInv
  <1>1. SafetyInv /\ [Next]_vars => SafetyInv'
    BY SafetyKept
  <1> QED
    BY <1>1, SafetyStarts, PTL DEF Spec

(***************************************************************************)
(* WAL that was ever committed is on a quorum of safekeepers, whatever     *)
(* connections, safekeepers and computes do, for every number of them:     *)
(* the promise of CollectNewCommit in walproposer.c.                       *)
(***************************************************************************)
THEOREM CommittedStaysDurable == Spec => []CommittedIsDurable
  BY SafetyHolds, DurableHolds, PTL

(***************************************************************************)
(* A safekeeper serves only WAL that is committed and on its own disk: its *)
(* commit_lsn of update_commit_lsn, of a peer or of the control file read  *)
(* after a restart is never ahead of either.                               *)
(***************************************************************************)
THEOREM ServesOnlyCommitted == Spec => []ServedIsCommitted
  BY SafetyHolds, ServedHolds, PTL

(***************************************************************************)
(* DetermineEpochStartLsn never chooses a start below what an earlier      *)
(* leader has committed.                                                   *)
(***************************************************************************)
THEOREM NewLeaderCoversCommitted == Spec => []LeaderCoversCommitted
  BY SafetyHolds, CoversHolds, PTL

(***************************************************************************)
(* WalProposerStartStreaming of an elected compute sends WAL that          *)
(* continues its basebackup: no record after the basebackup is another     *)
(* compute's.                                                              *)
(***************************************************************************)
THEOREM PostgresStreamsItsOwn == Spec => []PostgresWalIsOwn
  BY SafetyHolds, OwnWalHolds, PTL

(***************************************************************************)
(* What sync-safekeepers returns, the LSN a compute asks its basebackup    *)
(* at, is committed.                                                       *)
(***************************************************************************)
THEOREM BasebackupsAreCommitted == Spec => []BasebackupIsCommitted
  BY SafetyHolds, BasebackupHolds, PTL

(***************************************************************************)
(* The horizon below which a safekeeper may remove WAL, peer_horizon_lsn,  *)
(* is below the flush position of every safekeeper, and all of them have   *)
(* the committed WAL there.                                                *)
(***************************************************************************)
THEOREM HorizonIsOnAll == Spec => []HorizonIsEverywhere
  BY SafetyHolds, HorizonHolds, PTL

(***************************************************************************)
(* The assertions of find_highest_common_point hold: the two histories it  *)
(* compares give one term one start LSN, and the safekeeper's does not go  *)
(* beyond its WAL.                                                         *)
(***************************************************************************)
THEOREM HistoriesStayCompatible == Spec => []ElectedAssertionsHold
  BY SafetyHolds, HistoriesHold, PTL

\* The two cases in which handle_elected is always right.
LEMMA TracedIsSpared ==
    ASSUME Traced PROVE Spec => []CommittedIsNotTruncated
  <1>1. SafetyInv => CommittedIsNotTruncated
    BY CommittedSpared
  <1> QED
    BY <1>1, SafetyHolds, PTL

(***************************************************************************)
(* handle_elected truncates no committed WAL, as its assertion says, when  *)
(* the timeline has at most four safekeepers: the quorum of the leader     *)
(* that a peer's commit_lsn comes from leaves out at most one safekeeper,  *)
(* so the receiver or the peer has heard of that leader.  Five safekeepers *)
(* break it, see MCSuperseded.                                             *)
(***************************************************************************)
THEOREM CommittedIsSpared ==
    Cardinality(Safekeepers) <= 4 /\ Spec => []CommittedIsNotTruncated
  <1>1. CASE Cardinality(Safekeepers) <= 4
    <2>1. Traced
      BY <1>1 DEF Traced, Few
    <2> QED
      BY <2>1, TracedIsSpared
  <1> QED
    BY <1>1

(***************************************************************************)
(* Nor does it for any number of safekeepers when none learns of a         *)
(* commit_lsn through the broker: what walproposers say, what is read back *)
(* after a crash, and abandoned connections are harmless, and              *)
(* record_safekeeper_info is all that can make the assertion fail.         *)
(***************************************************************************)
THEOREM OnlyPeersEndanger ==
    (\A b \in Budgets : b["info"] = 0) /\ Spec => []CommittedIsNotTruncated
  <1>1. CASE \A b \in Budgets : b["info"] = 0
    <2>1. Traced
      BY <1>1 DEF Traced, NoBroker
    <2> QED
      BY <2>1, TracedIsSpared
  <1> QED
    BY <1>1

(***************************************************************************)
(* What a safekeeper truncates when a walproposer is elected is what it    *)
(* does not share with it: find_highest_common_point finds the first       *)
(* record the two have from different terms.                               *)
(***************************************************************************)
THEOREM TruncatesOnlyDivergence == Spec => []TruncationIsExact
  BY SafetyHolds, TruncationHolds, PTL

-----------------------------------------------------------------------------
(***************************************************************************)
(* The refinement: every step is a step of CommittedLog, or none.          *)
(***************************************************************************)
Bases  == [p \in Computes |-> wp[p].base]
Served == [s \in Safekeepers |-> sk[s].commit]

AbstractOK ==
    /\ chosen \in Seq(Computes) /\ Len(chosen) \in Nat /\ Log!End = Len(chosen) + 1
    /\ \A p \in Computes : wp[p].base \in Nat /\ wp[p].base <= Log!End
    /\ \A p \in Computes : wp[p].base # 0 => wp[p].mode \notin {"off", "sync"}
    /\ \A s \in Safekeepers : sk[s].commit \in 1..Log!End

\* What the invariant says about the abstract state.
LEMMA AbstractState == SafetyInv => AbstractOK
  <1> SUFFICES ASSUME SafetyInv PROVE AbstractOK
    OBVIOUS
  <1>0. TypeInv /\ Fitting
    BY DEF SafetyInv, ElectionInv
  <1>1. PICK x : Fits(x)
    BY <1>0 DEF Fitting
  <1>2. /\ chosen \in Seq(Computes) /\ Len(chosen) \in Nat /\ Log!End = Len(chosen) + 1
        /\ End(x) = Log!End
    BY <1>0, <1>1, LenProperties DEF TypeInv, Log!End, EndOf, End, Fits
  <1>3. ASSUME NEW p \in Computes
        PROVE  /\ wp[p].base \in Nat /\ wp[p].base <= Log!End
               /\ wp[p].base # 0 => wp[p].mode \notin {"off", "sync"}
    <2>1. wp[p] \in ProposerOK /\ MineOK(x, p, wp[p])
      BY <1>0, <1>1 DEF Fits, TypeInv
    <2> QED
      BY <1>2, <2>1, Zenon DEF MineOK, ProposerOK, ProposerType
  <1>4. ASSUME NEW s \in Safekeepers PROVE sk[s].commit \in 1..Log!End
    <2>1. sk[s] \in SafekeeperOK /\ CommitOK(x, s, sk[s])
      BY <1>0, <1>1 DEF Fits, TypeInv, SkOK
    <2>2. sk[s].commit \in Nat /\ sk[s].pcommit \in Nat
      BY <2>1, SafekeeperFields
    <2>3. 1 <= sk[s].pcommit /\ sk[s].pcommit <= sk[s].commit /\ sk[s].commit <= End(x)
      BY <2>1 DEF CommitOK
    <2> QED
      BY <1>2, <2>2, <2>3
  <1> QED
    BY <1>2, <1>3, <1>4 DEF AbstractOK

\* A compute starts, or nothing happens to the log.
LEMMA ComputeMaps ==
    ASSUME AbstractOK', NEW p \in Computes, UNCHANGED <<sk, chosen>>,
           \A r \in Computes \ {p} : wp'[r] = wp[r],
           wp[p].base # 0 => wp'[p].base = wp[p].base
    PROVE  [Log!Next]_(Log!vars)
  <1>1. UNCHANGED <<chosen, Served>>
    BY DEF Served
  <1>2. \A r \in Computes \ {p} : Bases'[r] = Bases[r]
    BY DEF Bases
  <1>3. Bases[p] = wp[p].base /\ Bases'[p] = wp'[p].base
    BY DEF Bases
  <1>4. Bases = [r \in Computes |-> Bases[r]] /\ Bases' = [r \in Computes |-> Bases'[r]]
    BY DEF Bases
  <1>5. CASE wp'[p].base = wp[p].base
    <2>1. Bases' = Bases
      BY <1>2, <1>3, <1>4, <1>5
    <2> QED
      BY <1>1, <2>1 DEF Log!vars, Bases, Served
  <1>6. CASE wp'[p].base # wp[p].base
    <2>1. wp'[p].base \in Nat /\ wp'[p].base <= Log!End' /\ Log!End' \in Nat
      BY DEF AbstractOK
    <2>2. Log!End' = Log!End
      BY DEF Log!End
    <2>3. PICK lsn : lsn = wp'[p].base
      OBVIOUS
    <2>4. wp[p].base = 0 /\ lsn \in 1..Log!End
      BY <1>6, <2>1, <2>2, <2>3
    <2>5. Bases' = [Bases EXCEPT ![p] = lsn]
      BY <1>2, <1>3, <1>4, <2>3
    <2>6. Bases[p] = 0
      BY <1>3, <2>4
    <2>7. Log!Start(p)
      BY <1>1, <2>4, <2>5, <2>6, Zenon DEF Log!Start, Bases, Served
    <2> QED
      BY <2>7 DEF Log!Next
  <1> QED
    BY <1>5, <1>6

\* A safekeeper serves more or less of the log, or just as much.
LEMMA SafekeeperMaps ==
    ASSUME AbstractOK', NEW s \in Safekeepers, UNCHANGED <<wp, chosen>>,
           \A r \in Safekeepers \ {s} : sk'[r] = sk[r]
    PROVE  [Log!Next]_(Log!vars)
  <1>1. UNCHANGED <<chosen, Bases>>
    BY DEF Bases
  <1>2. PICK lsn : lsn = sk'[s].commit
    OBVIOUS
  <1>3. lsn \in 1..Log!End
    <2>1. sk'[s].commit \in 1..Log!End'
      BY DEF AbstractOK
    <2> QED
      BY <1>2, <2>1 DEF Log!End
  <1>4. Served' = [Served EXCEPT ![s] = lsn]
    BY <1>2, Zenon DEF Served
  <1>5. Log!Serve(s)
    BY <1>1, <1>3, <1>4, Zenon DEF Log!Serve, Bases, Served
  <1> QED
    BY <1>5 DEF Log!Next

\* A compute that has a basebackup keeps it, whatever its walproposer does.
LEMMA BasebackupStays ==
    ASSUME SafetyInv, NEW p \in Computes, ProposerStep(p),
           ~\E s \in Safekeepers : AppendAcked(p, s)
    PROVE  /\ UNCHANGED <<sk, chosen>>
           /\ \A r \in Computes \ {p} : wp'[r] = wp[r]
           /\ wp[p].base # 0 => wp'[p].base = wp[p].base
  <1>1. wp \in [Computes -> ProposerOK]
    BY DEF SafetyInv, ElectionInv, TypeInv
  <1>2. PICK w \in ProposerOK : w = wp[p]
    BY <1>1
  <1>3. w.base # 0 => w.mode \notin {"off", "sync"}
    BY <1>2, AbstractState DEF AbstractOK
  <1> DEFINE Stays(v) == w.base # 0 => v.base = w.base
  <1>4. Stays(w) /\ Stays(Restarting(w))
    BY DEF Restarting, ProposerOK, ProposerType
  <1>5. ASSUME NEW v, Stays(v), wp' = [wp EXCEPT ![p] = v]
        PROVE  /\ \A r \in Computes \ {p} : wp'[r] = wp[r]
               /\ wp[p].base # 0 => wp'[p].base = wp[p].base
    BY <1>1, <1>2, <1>5
  <1>6. CASE UNCHANGED <<wp, sk, chosen>>
    BY <1>6
  <1>7. CASE Fatal(p) /\ UNCHANGED <<sk, chosen>>
    BY <1>2, <1>4, <1>5, <1>7 DEF Fatal, ProcessEnds
  <1>8. CASE StartSync(p)
    BY <1>2, <1>3, <1>5, <1>8 DEF StartSync
  <1>9. ASSUME NEW s \in Safekeepers, PingSafekeeper(p, s)
        PROVE  wp[p].mode = "off" /\ UNCHANGED <<sk, chosen>> /\ \E v : wp' = [wp EXCEPT ![p] = v]
    BY <1>9, Zenon DEF PingSafekeeper
  <1>10. CASE \E s \in Safekeepers : PingSafekeeper(p, s)
    BY <1>2, <1>3, <1>5, <1>9, <1>10
  <1>11. CASE WriteWal(p)
    <2>1. PICK v : v = [w EXCEPT !.end = w.end + 1]
      BY Zenon
    <2>2. v.base = w.base
      BY <2>1 DEF ProposerOK, ProposerType
    <2>3. wp' = [wp EXCEPT ![p] = v]
      BY <1>1, <1>2, <1>11, <2>1 DEF WriteWal
    <2> QED
      BY <1>5, <1>11, <2>2, <2>3 DEF WriteWal
  <1>12. CASE \E s \in Safekeepers : GreetWhileCollecting(p, s)
    <2>1. PICK s \in Safekeepers : GreetWhileCollecting(p, s)
      BY <1>12
    <2>2. PICK h : h = Larger(wp[p].term, sk[s].term)
      OBVIOUS
    <2>3. \/ wp' = [wp EXCEPT ![p].term = h]
          \/ wp' = [wp EXCEPT ![p] = [wp[p] EXCEPT !.term = h + 1, !.state = "campaign"]]
      BY <2>1, <2>2 DEF GreetWhileCollecting
    <2>4. PICK v : /\ wp' = [wp EXCEPT ![p] = v]
                   /\ v = [w EXCEPT !.term = h] \/ v = [w EXCEPT !.term = h + 1, !.state = "campaign"]
      BY <1>1, <1>2, <2>3
    <2>5. v.base = w.base
      BY <2>4, Zenon DEF ProposerOK, ProposerType
    <2>6. UNCHANGED <<sk, chosen>>
      BY <2>1 DEF GreetWhileCollecting
    <2> QED
      BY <1>5, <2>4, <2>5, <2>6, Zenon
  <1>13. CASE \E V \in SUBSET Safekeepers : Elected(p, V)
    <2>1. PICK V \in SUBSET Safekeepers : Elected(p, V)
      BY <1>13
    <2>2. UNCHANGED <<sk, chosen>>
      BY <2>1, Zenon DEF Elected
    <2>3. PICK x, m, d, h, u, v : Won(x, p, V, m, d, h, u, v) /\ Goes(p, V, m, d, u, v)
      BY <2>1, ElectedWon DEF SafetyInv, Fitting
    <2>4. /\ v.base = w.base /\ v.mode = w.mode /\ Panicked(v).base = w.base
          /\ \/ wp' = [wp EXCEPT ![p] = Panicked(v)]
             \/ /\ SyncNotNeeded(v)
                /\ wp' = [wp EXCEPT ![p] = PostgresAt(v, v.start)]
             \/ wp' = [wp EXCEPT ![p] = v]
      <3>1. v \in ProposerOK /\ v.base = w.base /\ v.mode = w.mode
        BY <1>2, <2>3, WonBasics
      <3>2. Panicked(v).base = v.base
        BY <3>1 DEF Panicked, Restarting, ProposerOK, ProposerType
      <3> QED
        BY <2>3, <3>1, <3>2 DEF Goes, ProcessEnds
    <2>5. CASE SyncNotNeeded(v) /\ wp' = [wp EXCEPT ![p] = PostgresAt(v, v.start)]
      BY <1>3, <1>5, <2>2, <2>4, <2>5, Zenon DEF SyncNotNeeded
    <2> QED
      BY <1>5, <2>2, <2>4, <2>5
  <1>14. CASE \E s \in Safekeepers :
                 \/ GreetLate(p, s) \/ VoteRefused(p, s) \/ VoteAfterElection(p, s)
                 \/ SendAppendRequest(p, s) \/ AppendRejected(p, s) \/ Disconnect(p, s)
    BY <1>6, <1>7, <1>14, Zenon DEF GreetLate, VoteRefused, VoteAfterElection, SendAppendRequest,
                             AppendRejected, Disconnect
  <1> QED
    BY <1>8, <1>10, <1>11, <1>12, <1>13, <1>14 DEF ProposerStep

\* What an acknowledgement commits was written by one compute, which owns it.
LEMMA CommitMaps ==
    ASSUME TypeInv, AbstractOK, NEW x, Fits(x), NEW u \in x.led, NEW q \in 0..MaxLsn, q > End(x),
           Accepted(x, u, q), q <= x.limit[u],
           NEW n \in Seq(Computes), Len(n) = q - 1, \A l \in 1..(q - 1) : n[l] = x.log[u][l],
           chosen' = n, UNCHANGED <<Bases, Served>>
    PROVE  Log!Next
  <1>1. Core(x) /\ x.chosen = chosen /\ OwnerOK(x, wp, u)
    BY DEF Fits
  <1>2. x \in View /\ u \in Nat /\ x.limit[u] \in Nat
    BY <1>1, ViewFields, Zenon DEF Core
  <1>3. /\ chosen \in Seq(Computes) /\ Len(chosen) \in Nat /\ Log!End = Len(chosen) + 1
        /\ End(x) = Log!End /\ q \in Nat /\ q <= MaxLsn /\ MaxLsn \in Nat
    BY <1>1, BoundsAssumption DEF AbstractOK, End, EndOf
  <1>4. PICK r \in Computes : /\ wp[r].base # 0
                              /\ \A l \in Nat : l >= wp[r].base => x.log[u][l] = r
    BY <1>1, <1>2, <1>3 DEF OwnerOK
  <1>5. wp[r].base \in Nat /\ wp[r].base <= Log!End
    BY DEF AbstractOK
  <1>6. \A l \in Nat : 1 <= l /\ l < End(x) => x.log[u][l] = chosen[l]
    <2>1. \A l \in Nat : 1 <= l /\ l < q /\ l < End(x) => x.log[u][l] = x.chosen[l]
      BY <1>1, <1>3, AcceptedIsChosen
    <2> QED
      BY <1>1, <1>3, <2>1
  <1>7. \A lsn \in wp[r].base..Len(chosen) : chosen[lsn] = r
    BY <1>3, <1>4, <1>5, <1>6, SMTT(30)
  <1>8. PICK k \in Nat : k = q - Log!End
    <2>1. q - Log!End \in Nat
      BY <1>3
    <2> QED
      BY <2>1, Zenon
  <1>9. k \in 1..(MaxLsn - Log!End)
    BY <1>3, <1>8
  <1>10. PICK e : e = [i \in 1..k |-> r]
    BY Zenon
  <1>11. e \in Seq(Computes) /\ Len(e) = k /\ \A i \in 1..k : e[i] = r
    BY <1>10
  <1>12. n = chosen \o e
    <2>1. /\ chosen \o e \in Seq(Computes) /\ Len(chosen \o e) = Len(chosen) + k
          /\ \A i \in 1..(Len(chosen) + k) :
                (chosen \o e)[i] = IF i <= Len(chosen) THEN chosen[i] ELSE e[i - Len(chosen)]
      BY <1>3, <1>11, ConcatProperties, Zenon
    <2>2. PICK g : g = chosen \o e
      BY Zenon
    <2>3. Len(g) = q - 1 /\ g \in Seq(Computes)
      BY <1>3, <1>8, <2>1, <2>2
    <2>4. ASSUME NEW i \in 1..(q - 1) PROVE n[i] = g[i]
      <3>1. CASE i <= Len(chosen)
        BY <1>3, <1>6, <1>8, <2>1, <2>2, <3>1
      <3>2. CASE i > Len(chosen)
        <4>1. n[i] = r
          BY <1>3, <1>4, <1>5, <3>2
        <4>2. g[i] = e[i - Len(chosen)] /\ i - Len(chosen) \in 1..k
          BY <1>3, <1>8, <2>1, <2>2, <3>2
        <4> QED
          BY <1>11, <4>1, <4>2
      <3> QED
        BY <1>3, <3>1, <3>2
    <2> QED
      BY <2>2, <2>3, <2>4, SeqEqual, Zenon
  <1>13. Log!Owns(r)
    BY <1>4, <1>7 DEF Log!Owns
  <1>14. \E j \in 1..(MaxLsn - Log!End) : chosen' = chosen \o [i \in 1..j |-> r]
    BY <1>9, <1>10, <1>12, Zenon
  <1>15. Log!Commit(r)
    BY <1>13, <1>14, Zenon DEF Log!Commit, Bases, Served
  <1> QED
    BY <1>15 DEF Log!Next

\* An acknowledgement commits WAL, ends sync-safekeepers, or does neither.
LEMMA AckMaps ==
    ASSUME SafetyInv, SafetyInv', AbstractOK', NEW p \in Computes, NEW s \in Safekeepers,
           AppendAcked(p, s)
    PROVE  [Log!Next]_(Log!vars)
  <1>1. TypeInv /\ Fitting /\ AbstractOK
    BY AbstractState DEF SafetyInv, ElectionInv
  <1>2. PICK x : Fits(x)
    BY <1>1 DEF Fitting
  <1>3. PICK w, c, cs, ack, v, n : \E q, f \in 0..MaxLsn : AckTaken(x, p, s, w, c, cs, ack, q, f, v, n)
    BY <1>1, <1>2, AckIsTaken, Zenon
  <1>4. PICK q, f \in 0..MaxLsn : AckTaken(x, p, s, w, c, cs, ack, q, f, v, n)
    BY <1>3
  <1>5. /\ w \in ProposerOK /\ c \in ConnOK /\ LinkOK(x, s, w, c)
        /\ AckCounted(p, s, w, c, cs, ack, q, f, v, n)
        /\ chosen' = n /\ UNCHANGED sk
        /\ \/ /\ v.mode = "sync" /\ v.start <= End(x)
              /\ wp' = [wp EXCEPT ![p] = PostgresAt(v, v.start)]
           \/ wp' = [wp EXCEPT ![p] = v]
    BY <1>4 DEF AckTaken
  <1>6. /\ w = wp[p] /\ w.state = "elected" /\ v = WithAcks(w, q, f)
        /\ n = IF v.commit > EndOf(chosen) THEN CommittedWal(p, s, v.commit) ELSE chosen
    BY <1>5 DEF AckCounted
  <1>7. /\ q \in Nat /\ f \in Nat /\ q # 0 => AckedBy(w.start, ack, q)
    BY <1>5, AcksCounted, Zenon
  <1>8. /\ ack \in [Safekeepers -> Nat]
        /\ \A z \in Safekeepers : ack[z] <= x.acc[z][w.term]
        /\ q > w.commit => q <= x.acc[s][w.term]
    BY <1>1, <1>2, <1>5, AcksFit, Zenon
  <1>9. /\ v.mode = w.mode /\ v.base = w.base /\ v.start = w.start /\ v.commit = Larger(w.commit, q)
        /\ w.commit \in Nat /\ v.commit \in Nat
    <2>1. \A a, b \in Nat : WithAcks(w, a, b) \in ProposerOK
      BY <1>5, WithAcksType
    <2>2. v \in ProposerOK /\ w \in ProposerOK
      BY <1>5, <1>6, <1>7, <2>1
    <2> QED
      BY <1>6, <2>2, Zenon DEF WithAcks, ProposerOK, ProposerType
  <1>10. wp \in [Computes -> ProposerOK]
    BY <1>1 DEF TypeInv
  <1>11. \A r \in Computes \ {p} : wp'[r] = wp[r]
    BY <1>5, <1>10
  <1>12. wp[p].base # 0 => wp'[p].base = wp[p].base
    <2>1. wp[p].base # 0 => wp[p].mode # "sync"
      BY <1>1 DEF AbstractOK
    <2> QED
      BY <1>5, <1>6, <1>9, <1>10, <2>1
  <1>13. CASE ~(v.commit > EndOf(chosen))
    <2>1. chosen' = chosen
      BY <1>5, <1>6, <1>13
    <2> QED
      BY <1>5, <1>11, <1>12, <2>1, ComputeMaps
  <1>14. CASE v.commit > EndOf(chosen)
    <2>1. Core(x) /\ x.chosen = chosen /\ LeaderOK(x, p, w) /\ MineOK(x, p, w)
      BY <1>2, <1>6 DEF Fits
    <2>2. x \in View /\ Tree(x) /\ AccOK(x) /\ End(x) = EndOf(chosen) /\ End(x) \in Nat
      BY <2>1, EndIs DEF Core, End
    <2>3. PICK u \in x.led : u = w.term
      BY <1>6, <2>1, ElectedIsLeader
    <2>4. u \in Nat /\ x.limit[u] \in Nat /\ x.acc[s][u] \in Nat
      BY <2>2, <2>3, ViewFields, Zenon
    <2>5. w.commit <= End(x)
      BY <1>6, <1>9, <2>1, <2>2 DEF LeaderOK, Committed
    <2>6. v.commit = q /\ q > w.commit /\ q > End(x) /\ q # 0
      BY <1>7, <1>9, <1>14, <2>2, <2>5 DEF Larger
    <2>7. w.mine = u /\ w.start = StartOf(x, u)
      BY <1>6, <2>1, <2>3 DEF LeaderOK
    <2>8. \A z \in Safekeepers : ack[z] <= x.acc[z][u]
      BY <1>8, <2>3
    <2>9. Accepted(x, u, q)
      BY <1>7, <1>8, <2>2, <2>6, <2>7, <2>8, AckedIsAccepted
    <2>10. q <= x.acc[s][u] /\ x.acc[s][u] <= x.limit[u]
      BY <1>8, <2>2, <2>3, <2>6 DEF AccOK
    <2>11. q <= x.limit[u]
      BY <1>7, <2>4, <2>10
    <2>12. n = CommittedWal(p, s, q)
      BY <1>6, <1>14, <2>6
    <2>13. n \in Seq(Computes) /\ Len(n) = q - 1 /\ \A l \in 1..(q - 1) : n[l] = x.log[u][l]
      BY <1>1, <1>2, <1>6, <1>7, <2>3, <2>6, <2>9, <2>10, <2>12, CommittedWalIs
    <2>14. ~(v.mode = "sync" /\ v.start <= End(x))
      <3> SUFFICES ASSUME v.mode = "sync", v.start <= End(x) PROVE FALSE
        OBVIOUS
      <3>1. x.limit[u] = StartOf(x, u)
        BY <1>9, <2>1, <2>3, <2>7, ElectedIsLeader, <1>6 DEF MineOK
      <3> QED
        BY <1>7, <1>9, <2>2, <2>4, <2>6, <2>7, <2>11, <3>1
    <2>15. wp'[p].base = wp[p].base
      BY <1>5, <1>6, <1>9, <1>10, <2>14
    <2>16. UNCHANGED <<Bases, Served>>
      BY <1>5, <1>11, <2>15 DEF Bases, Served
    <2>17. Log!Next
      BY <1>1, <1>2, <1>5, <2>6, <2>9, <2>11, <2>13, <2>16, CommitMaps
    <2> QED
      BY <2>17
  <1> QED
    BY <1>13, <1>14

\* A safekeeper that does something is one, and leaves the committed WAL alone.
LEMMA SafekeeperAlone ==
    ASSUME TypeInv, NEW s \in Safekeepers,
           SafekeeperStep(s) \/ \E p \in Computes : AcceptorStep(p, s)
    PROVE  UNCHANGED <<wp, chosen>> /\ \A r \in Safekeepers \ {s} : sk'[r] = sk[r]
  <1>1. sk \in [Safekeepers -> SafekeeperOK]
    BY DEF TypeInv
  <1>2. ASSUME \E k : sk' = [sk EXCEPT ![s] = k]
        PROVE  \A r \in Safekeepers \ {s} : sk'[r] = sk[r]
    BY <1>1, <1>2
  <1>3. ASSUME NEW p \in Computes, AcceptorStep(p, s)
        PROVE  UNCHANGED <<wp, chosen>> /\ (UNCHANGED sk \/ \E k : sk' = [sk EXCEPT ![s] = k])
    BY <1>3, Zenon DEF AcceptorStep, HandleVoteRequest, HandleElected, HandleAppendRequest,
                       FlushWal, OldEnds, CrashInElected
  <1>4. ASSUME SafekeeperStep(s)
        PROVE  UNCHANGED <<wp, chosen>> /\ (UNCHANGED sk \/ \E k : sk' = [sk EXCEPT ![s] = k])
    BY <1>4, Zenon DEF SafekeeperStep, CrashSafekeeper, SaveControlFile, TermBump, PublishInfo,
                       RecordSafekeeperInfo
  <1> QED
    BY <1>2, <1>3, <1>4

(***************************************************************************)
(* The write path implements CommittedLog: there is one log of committed   *)
(* WAL that only grows; a compute starts on a basebackup in it; a          *)
(* safekeeper serves a prefix of it; and HandleSafekeeperResponse commits  *)
(* only records of a compute after whose basebackup nobody else's are.     *)
(***************************************************************************)
THEOREM WritePathImplementsLog == Spec => ImplementsCommittedLog
  <1>1. Init => Log!Init
    <2> SUFFICES ASSUME Init PROVE Log!Init
      OBVIOUS
    <2>1. Bases = [p \in Computes |-> 0]
      BY DEF Init, Bases, InitProposer
    <2>2. Served = [s \in Safekeepers |-> 1]
      BY DEF Init, Served, InitSafekeeper
    <2> QED
      BY <2>1, <2>2 DEF Init, Log!Init, Bases, Served
  <1>2. SafetyInv /\ SafetyInv' /\ AbstractOK' /\ [Next]_vars => [Log!Next]_(Log!vars)
    <2> SUFFICES ASSUME SafetyInv, SafetyInv', AbstractOK', [Next]_vars
                 PROVE  [Log!Next]_(Log!vars)
      OBVIOUS
    <2>1. ASSUME NEW p \in Computes, ProposerStep(p) PROVE [Log!Next]_(Log!vars)
      <3>1. CASE \E s \in Safekeepers : AppendAcked(p, s)
        BY <3>1, AckMaps
      <3>2. CASE ~\E s \in Safekeepers : AppendAcked(p, s)
        BY <2>1, <3>2, BasebackupStays, ComputeMaps
      <3> QED
        BY <3>1, <3>2
    <2>2. ASSUME NEW s \in Safekeepers,
                 SafekeeperStep(s) \/ \E p \in Computes : AcceptorStep(p, s)
          PROVE  [Log!Next]_(Log!vars)
      <3>1. TypeInv
        BY DEF SafetyInv, ElectionInv
      <3> QED
        BY <2>2, <3>1, SafekeeperAlone, SafekeeperMaps
    <2>3. CASE UNCHANGED vars
      <3>1. UNCHANGED <<chosen, Bases, Served>>
        BY <2>3 DEF vars, Bases, Served
      <3> QED
        BY <3>1 DEF Log!vars, Bases, Served
    <2> QED
      BY <2>1, <2>2, <2>3 DEF Next
  <1> QED
    BY <1>1, <1>2, SafetyHolds, AbstractState, PTL DEF Spec, ImplementsCommittedLog, Log!Spec

\* The theorems about CommittedLog, for its implementation.
LogTheorems == INSTANCE CommittedLog_proofs WITH
                   MaxEnd <- MaxLsn, log <- chosen, base <- Bases, served <- Served

(***************************************************************************)
(* So whatever a compute ever gets committed is one run of WAL that starts *)
(* at its basebackup: Postgres, which has the basebackup and what it wrote *)
(* itself (ProcessPropStartPos), never misses a record before its own.     *)
(***************************************************************************)
THEOREM RecordsFollowBasebackups == Spec => []Log!RecordsFollowBasebackup
  <1>1. MaxLsn \in Nat
    BY BoundsAssumption
  <1>2. MaxLsn \in Nat /\ LogTheorems!Spec => []LogTheorems!RecordsFollowBasebackup
    BY LogTheorems!RecordsCorrect
  <1>3. Log!Init => LogTheorems!Init
    BY DEF Log!Init, LogTheorems!Init, Bases, Served
  <1>4. [Log!Next]_(Log!vars) => [LogTheorems!Next]_(LogTheorems!vars)
    BY Zenon DEF Log!Next, LogTheorems!Next, Log!vars, LogTheorems!vars, Log!Start, LogTheorems!Start,
           Log!Commit, LogTheorems!Commit, Log!Serve, LogTheorems!Serve, Log!Owns, LogTheorems!Owns,
           Log!End, LogTheorems!End, Bases, Served
  <1>5. LogTheorems!RecordsFollowBasebackup => Log!RecordsFollowBasebackup
    BY Zenon DEF LogTheorems!RecordsFollowBasebackup, Log!RecordsFollowBasebackup, Bases
  <1> QED
    BY <1>1, <1>2, <1>3, <1>4, <1>5, WritePathImplementsLog, PTL
    DEF ImplementsCommittedLog, Log!Spec, LogTheorems!Spec
=============================================================================
