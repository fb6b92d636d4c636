------------------------- MODULE TermHistory_proofs -------------------------
(***************************************************************************)
(* What the operations on term histories compute, for all histories: where *)
(* up_to cuts, how long the common part of two histories is, and that      *)
(* find_highest_common_point and SendProposerElected both return the point *)
(* where two WALs diverge.                                                 *)
(***************************************************************************)
EXTENDS TermHistory, TLAPS, FiniteSetTheorems, SequenceTheorems

USE DEF InvalidLsn

-----------------------------------------------------------------------------
\* The two-argument minimum and maximum.
LEMMA SmallerLarger ==
    ASSUME NEW a \in Nat, NEW b \in Nat
    PROVE  /\ Smaller(a, b) \in Nat /\ Smaller(a, b) <= a /\ Smaller(a, b) <= b
           /\ Smaller(a, b) \in {a, b}
           /\ Larger(a, b) \in Nat /\ Larger(a, b) >= a /\ Larger(a, b) >= b
    BY DEF Smaller, Larger

\* A set of indices of a sequence has at most as many elements.
LEMMA IndexCount ==
    ASSUME NEW n \in Nat, NEW I \in SUBSET (1..n)
    PROVE  Cardinality(I) \in 0..n
  <1>1. IsFiniteSet(1..n) /\ Cardinality(1..n) = n
    BY FS_Interval
  <1>2. IsFiniteSet(I) /\ Cardinality(I) <= Cardinality(1..n)
    BY <1>1, FS_Subset
  <1> QED
    BY <1>1, <1>2, FS_CardinalityType

\* The prefix of a sequence.
LEMMA PrefixType ==
    ASSUME NEW S, NEW seq \in Seq(S), NEW n \in Int, n <= Len(seq)
    PROVE  /\ SubSeq(seq, 1, n) \in Seq(S)
           /\ n >= 0 => Len(SubSeq(seq, 1, n)) = n
           /\ \A i \in 1..n : SubSeq(seq, 1, n)[i] = seq[i]
    OBVIOUS

\* A term history has terms and LSNs at every index.
LEMMA HistoryShape ==
    ASSUME NEW h \in History
    PROVE  /\ Len(h) \in Nat
           /\ h # <<>> => Len(h) >= 1
           /\ \A i \in 1..Len(h) : h[i].term \in Nat /\ h[i].lsn \in Nat \ {0}
  <1>1. Len(h) \in Nat /\ (h # <<>> => Len(h) >= 1)
    BY EmptySeq, LenProperties DEF History
  <1>2. \A i \in 1..Len(h) : h[i] \in Entry
    BY ElementOfSeq DEF History
  <1> QED
    BY <1>1, <1>2 DEF Entry

\* up_to: cutting a term history leaves a term history.
LEMMA UpToType ==
    ASSUME NEW h \in History, NEW lsn \in Nat
    PROVE  UpTo(h, lsn) \in History
  <1> DEFINE I == {i \in 1..Len(h) : \A j \in 1..i : h[j].lsn <= lsn}
  <1>1. Len(h) \in Nat
    BY DEF History
  <1>2. Cardinality(I) \in 0..Len(h)
    BY <1>1, IndexCount
  <1> HIDE DEF I
  <1>3. SubSeq(h, 1, Cardinality(I)) \in History
    BY <1>1, <1>2, PrefixType DEF History
  <1> QED
    BY <1>3 DEF UpTo, I

\* The last term of a history is a term.
LEMMA HighestTermType ==
    ASSUME NEW h \in History
    PROVE  HighestTerm(h) \in Nat
    BY HistoryShape DEF HighestTerm

\* The common prefix of two histories is no longer than either.
LEMMA CommonLenType ==
    ASSUME NEW g \in History, NEW h \in History
    PROVE  CommonLen(g, h) \in Nat /\ CommonLen(g, h) <= Len(g) /\ CommonLen(g, h) <= Len(h)
  <1> DEFINE n == Smaller(Len(g), Len(h))
             I == {i \in 1..n : \A j \in 1..i : g[j].term = h[j].term}
  <1>1. n \in Nat /\ n <= Len(g) /\ n <= Len(h)
    BY SmallerLarger DEF History
  <1>2. Cardinality(I) \in 0..n
    <2> HIDE DEF n
    <2> QED BY <1>1, IndexCount
  <1>3. CommonLen(g, h) = Cardinality(I)
    BY DEF CommonLen
  <1> HIDE DEF n, I
  <1> QED
    BY <1>1, <1>2, <1>3 DEF History

\* find_highest_common_point returns an LSN.
LEMMA CommonPointType ==
    ASSUME NEW g \in History, g # <<>>, NEW h \in History, NEW end \in Nat \ {0}
    PROVE  HighestCommonPoint(g, h, end) \in Nat
    BY CommonLenType, HistoryShape DEF HighestCommonPoint, Smaller

\* The proposer's choice of a start LSN is an LSN.
LEMMA StreamingType ==
    ASSUME NEW g \in History, g # <<>>, NEW h \in History, NEW end \in Nat \ {0},
           NEW t, g[Len(g)].term = t
    PROVE  StartStreamingAt(g, t, h, end) \in Nat \ {0}
    BY CommonLenType, HistoryShape DEF StartStreamingAt, Smaller
-----------------------------------------------------------------------------
\* A set of indices that holds all indices below its members is an initial
\* segment, as long as it has members.
LEMMA InitialSegment ==
    ASSUME NEW n \in Nat, NEW I \in SUBSET (1..n), \A i \in I : 1..i \subseteq I
    PROVE  Cardinality(I) \in 0..n /\ I = 1..Cardinality(I)
  <1>1. Cardinality(I) \in 0..n /\ IsFiniteSet(I)
    <2>1. IsFiniteSet(1..n)
      BY FS_Interval
    <2>2. IsFiniteSet(I)
      BY <2>1, FS_Subset
    <2> QED
      BY <2>2, IndexCount
  <1> DEFINE m == Cardinality(I)
  <1>2. ASSUME NEW i \in I PROVE i \in 1..m
    <2>1. i \in 1..n /\ 1..i \in SUBSET I
      OBVIOUS
    <2>2. Cardinality(1..i) = i
      BY <2>1, FS_Interval
    <2>3. Cardinality(1..i) <= m
      BY <1>1, <2>1, FS_Subset
    <2> HIDE DEF m
    <2> QED
      BY <2>1, <2>2, <2>3, <1>1 DEF m
  <1>3. I \in SUBSET (1..m)
    BY <1>2
  <1>4. IsFiniteSet(1..m) /\ Cardinality(1..m) = m
    BY <1>1, FS_Interval
  <1> HIDE DEF m
  <1>5. 1..m = I
    BY <1>3, <1>4, FS_Subset DEF m
  <1> QED
    BY <1>1, <1>5 DEF m

\* up_to cuts a history before its first entry above the LSN.
LEMMA UpToShape ==
    ASSUME NEW h \in History, NEW c \in Nat
    PROVE  /\ UpTo(h, c) \in History
           /\ Len(UpTo(h, c)) \in Nat /\ Len(UpTo(h, c)) <= Len(h)
           /\ \A i \in 1..Len(UpTo(h, c)) : UpTo(h, c)[i] = h[i] /\ h[i].lsn <= c
           /\ UpTo(h, c) = SubSeq(h, 1, Len(UpTo(h, c)))
           /\ Len(UpTo(h, c)) < Len(h) => h[Len(UpTo(h, c)) + 1].lsn > c
  <1> DEFINE I == {i \in 1..Len(h) : \A j \in 1..i : h[j].lsn <= c}
             m == Cardinality(I)
  <1>1. Len(h) \in Nat /\ \A i \in 1..Len(h) : h[i].lsn \in Nat
    BY HistoryShape
  <1>2. I \in SUBSET (1..Len(h)) /\ \A i \in I : 1..i \subseteq I
    BY <1>1
  <1>3. m \in 0..Len(h) /\ I = 1..m
    <2> HIDE DEF I
    <2> QED BY <1>1, <1>2, InitialSegment
  <1>4. \A i \in 1..m : h[i].lsn <= c
    BY <1>1, <1>3
  <1>5. m < Len(h) => h[m + 1].lsn > c
    <2> SUFFICES ASSUME m < Len(h), h[m + 1].lsn <= c PROVE FALSE
      <3> HIDE DEF m
      <3> QED BY <1>1, <1>3
    <2> HIDE DEF m
    <2>1. m + 1 \in 1..Len(h) /\ \A j \in 1..(m + 1) : h[j].lsn <= c
      BY <1>1, <1>3, <1>4
    <2>2. m + 1 \in I
      BY <2>1
    <2> QED
      BY <1>3, <2>2
  <1>6. UpTo(h, c) = SubSeq(h, 1, m)
    BY DEF UpTo
  <1> HIDE DEF m, I
  <1>7. /\ SubSeq(h, 1, m) \in History /\ Len(SubSeq(h, 1, m)) = m
        /\ \A i \in 1..m : SubSeq(h, 1, m)[i] = h[i]
    BY <1>1, <1>3, PrefixType DEF History
  <1> QED
    BY <1>1, <1>3, <1>4, <1>5, <1>6, <1>7

\* The common part of two histories goes up to the first terms that differ.
LEMMA CommonLenShape ==
    ASSUME NEW g \in History, NEW h \in History
    PROVE  /\ CommonLen(g, h) \in Nat /\ CommonLen(g, h) <= Len(g) /\ CommonLen(g, h) <= Len(h)
           /\ \A i \in 1..CommonLen(g, h) : g[i].term = h[i].term
           /\ CommonLen(g, h) < Len(g) /\ CommonLen(g, h) < Len(h) =>
                 g[CommonLen(g, h) + 1].term # h[CommonLen(g, h) + 1].term
  <1> DEFINE n == Smaller(Len(g), Len(h))
             I == {i \in 1..n : \A j \in 1..i : g[j].term = h[j].term}
             m == Cardinality(I)
  <1>1. n \in Nat /\ n <= Len(g) /\ n <= Len(h) /\ n \in {Len(g), Len(h)}
    BY HistoryShape, SmallerLarger
  <1> HIDE DEF n
  <1>2. I \in SUBSET (1..n) /\ \A i \in I : 1..i \subseteq I
    BY <1>1
  <1>3. m \in 0..n /\ I = 1..m
    <2> HIDE DEF I
    <2> QED BY <1>1, <1>2, InitialSegment
  <1>4. \A i \in 1..m : g[i].term = h[i].term
    BY <1>1, <1>3
  <1>5. m < n => g[m + 1].term # h[m + 1].term
    <2> SUFFICES ASSUME m < n, g[m + 1].term = h[m + 1].term PROVE FALSE
      OBVIOUS
    <2> HIDE DEF m
    <2>1. m + 1 \in 1..n /\ \A j \in 1..(m + 1) : g[j].term = h[j].term
      BY <1>1, <1>3, <1>4
    <2>2. m + 1 \in I
      BY <2>1
    <2> QED
      BY <1>3, <2>2
  <1>6. CommonLen(g, h) = m
    BY DEF CommonLen, n
  <1> HIDE DEF m, I
  <1>7. Len(g) \in Nat /\ Len(h) \in Nat
    BY HistoryShape
  <1> QED
    BY <1>1, <1>3, <1>4, <1>5, <1>6, <1>7

-----------------------------------------------------------------------------
(***************************************************************************)
(* h follows g up to c: it has the switches of g up to c, and no other     *)
(* before c.                                                               *)
(***************************************************************************)
Follows(h, g, c) ==
    LET n == Len(UpTo(g, c))
    IN  /\ n <= Len(h)
        /\ \A i \in 1..n : h[i] = g[i]
        /\ n < Len(h) => h[n + 1].lsn >= c

\* A history follows itself.
LEMMA FollowsItself ==
    ASSUME NEW g \in History, NEW c \in Nat
    PROVE  Follows(g, g, c)
  <1> DEFINE n == Len(UpTo(g, c))
  <1>1. /\ n \in Nat /\ n <= Len(g) /\ Len(g) \in Nat
        /\ n < Len(g) => g[n + 1].lsn > c
    BY UpToShape, HistoryShape
  <1>2. n < Len(g) => g[n + 1].lsn \in Nat
    BY <1>1, HistoryShape
  <1> HIDE DEF n
  <1> QED
    BY <1>1, <1>2 DEF Follows, n

\* What follows up to an LSN follows up to every lower one.
LEMMA FollowsLess ==
    ASSUME NEW g \in History, NEW h \in History, NEW c \in Nat, NEW d \in Nat, d <= c,
           Follows(h, g, c)
    PROVE  Follows(h, g, d)
  <1> DEFINE n == Len(UpTo(g, c))
             m == Len(UpTo(g, d))
  <1>1. /\ n \in Nat /\ n <= Len(g) /\ Len(g) \in Nat
        /\ \A i \in 1..n : g[i].lsn <= c
        /\ n < Len(g) => g[n + 1].lsn > c
    BY UpToShape, HistoryShape
  <1>2. /\ m \in Nat /\ m <= Len(g)
        /\ \A i \in 1..m : g[i].lsn <= d
        /\ m < Len(g) => g[m + 1].lsn > d
    BY UpToShape
  <1>3. Len(h) \in Nat /\ \A i \in 1..Len(h) : h[i].lsn \in Nat
    BY HistoryShape
  <1>4. /\ n <= Len(h) /\ \A i \in 1..n : h[i] = g[i]
        /\ n < Len(h) => h[n + 1].lsn >= c
    BY DEF Follows
  <1>5. \A i \in 1..Len(g) : g[i].lsn \in Nat
    BY HistoryShape
  <1> HIDE DEF n, m
  <1>6. m <= n
    <2> SUFFICES ASSUME n < m PROVE FALSE
      BY <1>1, <1>2
    <2>1. n + 1 \in 1..m /\ n < Len(g)
      BY <1>1, <1>2
    <2>2. n + 1 \in 1..Len(g)
      BY <1>2, <2>1
    <2>3. g[n + 1].lsn \in Nat /\ g[n + 1].lsn > c /\ g[n + 1].lsn <= d
      BY <1>1, <1>2, <1>5, <2>1, <2>2
    <2> QED
      BY <2>3
  <1>7. ASSUME m < Len(h) PROVE h[m + 1].lsn >= d
    <2>1. CASE m = n
      <3>1. h[m + 1].lsn \in Nat /\ h[m + 1].lsn >= c
        BY <1>2, <1>3, <1>4, <1>7, <2>1
      <3> QED
        BY <3>1
    <2>2. CASE m < n
      <3>1. m + 1 \in 1..n /\ m < Len(g) /\ m + 1 \in 1..Len(g)
        BY <1>1, <1>2, <2>2
      <3>2. h[m + 1] = g[m + 1] /\ g[m + 1].lsn > d /\ g[m + 1].lsn \in Nat
        BY <1>2, <1>4, <1>5, <3>1
      <3> QED
        BY <3>2
    <2> QED
      BY <1>1, <1>2, <1>6, <2>1, <2>2
  <1>8. m <= Len(h) /\ \A i \in 1..m : h[i] = g[i]
    BY <1>1, <1>2, <1>3, <1>4, <1>6
  <1> QED
    BY <1>7, <1>8 DEF Follows, m
\* A longer history follows when the new switch is not before the LSN.
LEMMA FollowsAppend ==
    ASSUME NEW g \in History, NEW h \in History, NEW c \in Nat, Follows(h, g, c),
           NEW e \in Entry, c <= e.lsn
    PROVE  Follows(Append(h, e), g, c)
  <1> DEFINE n == Len(UpTo(g, c))
             a == Append(h, e)
  <1>1. /\ n <= Len(h) /\ \A i \in 1..n : h[i] = g[i]
        /\ n < Len(h) => h[n + 1].lsn >= c
    BY DEF Follows
  <1>2. n \in Nat /\ Len(h) \in Nat
    BY UpToShape, HistoryShape
  <1>3. /\ Len(a) = Len(h) + 1 /\ a[Len(h) + 1] = e
        /\ \A i \in 1..Len(h) : a[i] = h[i]
    BY AppendProperties DEF History
  <1> HIDE DEF n, a
  <1>4. n <= Len(a) /\ \A i \in 1..n : a[i] = g[i]
    BY <1>1, <1>2, <1>3
  <1>5. ASSUME n < Len(a) PROVE a[n + 1].lsn >= c
    <2>1. CASE n < Len(h)
      BY <1>1, <1>2, <1>3, <2>1
    <2>2. CASE n = Len(h)
      BY <1>3, <2>2
    <2> QED
      BY <1>1, <1>2, <2>1, <2>2
  <1> QED
    BY <1>4, <1>5 DEF Follows, n, a

\* What is cut not below the LSN still follows.
LEMMA FollowsCut ==
    ASSUME NEW g \in History, NEW h \in History, NEW c \in Nat, Follows(h, g, c),
           NEW e \in Nat, c <= e
    PROVE  Follows(UpTo(h, e), g, c)
  <1> DEFINE n == Len(UpTo(g, c))
             a == UpTo(h, e)
  <1>1. /\ n <= Len(h) /\ \A i \in 1..n : h[i] = g[i]
        /\ n < Len(h) => h[n + 1].lsn >= c
    BY DEF Follows
  <1>2. n \in Nat /\ Len(h) \in Nat /\ n <= Len(g) /\ \A i \in 1..n : g[i].lsn <= c
    BY UpToShape, HistoryShape
  <1>3. /\ Len(a) \in Nat /\ Len(a) <= Len(h)
        /\ \A i \in 1..Len(a) : a[i] = h[i]
        /\ Len(a) < Len(h) => h[Len(a) + 1].lsn > e
    BY UpToShape
  <1>4. /\ \A i \in 1..Len(h) : h[i].lsn \in Nat
        /\ \A i \in 1..Len(g) : g[i].lsn \in Nat
    BY HistoryShape
  <1> HIDE DEF n, a
  <1>5. n <= Len(a)
    <2> SUFFICES ASSUME Len(a) < n PROVE FALSE
      BY <1>2, <1>3
    <2> DEFINE i == Len(a) + 1
    <2>1. i \in 1..n /\ i \in 1..Len(h) /\ i \in 1..Len(g) /\ Len(a) < Len(h)
      BY <1>1, <1>2, <1>3
    <2>2. h[i].lsn > e /\ h[i] = g[i]
      BY <1>1, <1>3, <2>1
    <2>3. g[i].lsn <= c /\ g[i].lsn \in Nat
      BY <1>2, <1>4, <2>1
    <2> HIDE DEF i
    <2> QED
      BY <2>2, <2>3
  <1>6. \A i \in 1..n : a[i] = g[i]
    BY <1>1, <1>2, <1>3, <1>5
  <1>7. ASSUME n < Len(a) PROVE a[n + 1].lsn >= c
    BY <1>1, <1>2, <1>3, <1>7
  <1> QED
    BY <1>5, <1>6, <1>7 DEF Follows, n, a

\* A history whose part up to e follows g follows it itself as far.
LEMMA FollowsUncut ==
    ASSUME NEW g \in History, NEW h \in History, NEW c \in Nat, NEW e \in Nat, c <= e,
           Follows(UpTo(h, e), g, c)
    PROVE  Follows(h, g, c)
  <1> DEFINE n == Len(UpTo(g, c))
             a == UpTo(h, e)
  <1>1. /\ n <= Len(a) /\ \A i \in 1..n : a[i] = g[i]
        /\ n < Len(a) => a[n + 1].lsn >= c
    BY DEF Follows
  <1>2. n \in Nat /\ Len(h) \in Nat
    BY UpToShape, HistoryShape
  <1>3. /\ Len(a) \in Nat /\ Len(a) <= Len(h)
        /\ \A i \in 1..Len(a) : a[i] = h[i]
        /\ Len(a) < Len(h) => h[Len(a) + 1].lsn > e
    BY UpToShape
  <1>4. \A i \in 1..Len(h) : h[i].lsn \in Nat
    BY HistoryShape
  <1> HIDE DEF n, a
  <1>5. n <= Len(h) /\ \A i \in 1..n : h[i] = g[i]
    BY <1>1, <1>2, <1>3
  <1>6. ASSUME n < Len(h) PROVE h[n + 1].lsn >= c
    <2>1. CASE n < Len(a)
      BY <1>1, <1>2, <1>3, <2>1
    <2>2. CASE n = Len(a)
      <3>1. h[n + 1].lsn > e /\ h[n + 1].lsn \in Nat
        BY <1>2, <1>3, <1>4, <1>6, <2>2
      <3> QED
        BY <3>1
    <2> QED
      BY <1>1, <1>2, <1>3, <2>1, <2>2
  <1> QED
    BY <1>5, <1>6 DEF Follows, n

\* What follows up to the last switch of g begins with all of g.
LEMMA FollowsAll ==
    ASSUME NEW g \in History, NEW h \in History, NEW c \in Nat, Follows(h, g, c),
           g # <<>>, Ordered(g), g[Len(g)].lsn <= c
    PROVE  Len(g) <= Len(h) /\ \A i \in 1..Len(g) : h[i] = g[i]
  <1> DEFINE n == Len(UpTo(g, c))
  <1>1. n <= Len(h) /\ \A i \in 1..n : h[i] = g[i]
    BY DEF Follows
  <1>2. /\ n \in Nat /\ n <= Len(g) /\ Len(g) \in Nat /\ Len(g) >= 1
        /\ n < Len(g) => g[n + 1].lsn > c
    BY UpToShape, HistoryShape
  <1>3. \A i \in 1..Len(g) : g[i].lsn \in Nat
    BY HistoryShape
  <1> HIDE DEF n
  <1>4. n = Len(g)
    <2> SUFFICES ASSUME n < Len(g) PROVE FALSE
      BY <1>2
    <2>1. n + 1 \in 1..Len(g) /\ Len(g) \in 1..Len(g)
      BY <1>2
    <2>2. g[n + 1].lsn <= g[Len(g)].lsn
      BY <1>2, <1>3, <2>1 DEF Ordered
    <2>3. g[n + 1].lsn \in Nat /\ g[Len(g)].lsn \in Nat
      BY <1>3, <2>1
    <2> QED
      BY <1>2, <2>2, <2>3
  <1> QED
    BY <1>1, <1>4

(***************************************************************************)
(* The point where a safekeeper truncates its WAL for a proposer is not    *)
(* below an LSN up to which both histories follow a third one: nothing     *)
(* that both sides have is given up by find_highest_common_point.          *)
(***************************************************************************)
LEMMA CommonPointReaches ==
    ASSUME NEW g \in History, NEW prop \in History, NEW k \in History,
           NEW c \in Nat, NEW end \in Nat,
           Ordered(prop), Ordered(k),
           g # <<>>, g[1].lsn <= c, c <= end,
           Follows(prop, g, c), Follows(k, g, c)
    PROVE  HighestCommonPoint(prop, UpTo(k, end), end) >= c
  <1> DEFINE n == Len(UpTo(g, c))
             a == UpTo(k, end)
             m == CommonLen(prop, a)
  <1>1. /\ a \in History /\ Len(a) \in Nat /\ Len(a) <= Len(k)
        /\ \A i \in 1..Len(a) : a[i] = k[i]
    BY UpToShape
  <1>2. Follows(a, g, c)
    BY FollowsCut
  <1>3. /\ n <= Len(prop) /\ \A i \in 1..n : prop[i] = g[i]
        /\ n < Len(prop) => prop[n + 1].lsn >= c
    BY DEF Follows
  <1> HIDE DEF a
  <1>4. /\ n <= Len(a) /\ \A i \in 1..n : a[i] = g[i]
        /\ n < Len(a) => a[n + 1].lsn >= c
    BY <1>2 DEF Follows
  <1>5. /\ m \in Nat /\ m <= Len(prop) /\ m <= Len(a)
        /\ m < Len(prop) /\ m < Len(a) => prop[m + 1].term # a[m + 1].term
    BY <1>1, CommonLenShape
  <1>6. /\ n \in Nat /\ Len(g) \in Nat /\ Len(g) >= 1
        /\ n < Len(g) => g[n + 1].lsn > c
    BY UpToShape, HistoryShape
  <1>7. /\ Len(prop) \in Nat /\ \A i \in 1..Len(prop) : prop[i].lsn \in Nat
        /\ \A i \in 1..Len(a) : a[i].lsn \in Nat
        /\ \A i \in 1..Len(g) : g[i].lsn \in Nat
    BY <1>1, HistoryShape
  <1> HIDE DEF n, m
  <1>8. n >= 1
    <2> SUFFICES ASSUME n = 0 PROVE FALSE
      BY <1>6
    <2>1. g[1].lsn > c /\ 1 \in 1..Len(g)
      BY <1>6
    <2>2. g[1].lsn \in Nat
      BY <1>7, <2>1
    <2> QED
      BY <2>1, <2>2
  <1>9. n <= m
    <2> SUFFICES ASSUME m < n PROVE FALSE
      BY <1>5, <1>6
    <2>1. m + 1 \in 1..n /\ m < Len(prop) /\ m < Len(a)
      BY <1>1, <1>3, <1>4, <1>5, <1>6, <1>7
    <2>2. prop[m + 1] = a[m + 1]
      BY <1>3, <1>4, <2>1
    <2> QED
      BY <1>5, <2>1, <2>2
  <1>10. ASSUME m < Len(prop) PROVE prop[m + 1].lsn >= c /\ prop[m + 1].lsn \in Nat
    <2>1. m + 1 \in 1..Len(prop) /\ n + 1 \in 1..Len(prop) /\ n + 1 <= m + 1 /\ n < Len(prop)
      BY <1>5, <1>6, <1>7, <1>9, <1>10
    <2>2. prop[n + 1].lsn <= prop[m + 1].lsn
      <3>1. CASE n = m
        BY <1>7, <2>1, <3>1
      <3>2. CASE n # m
        BY <1>5, <1>6, <2>1, <3>2 DEF Ordered
      <3> QED
        BY <3>1, <3>2
    <2>3. prop[n + 1].lsn \in Nat /\ prop[m + 1].lsn \in Nat
      BY <1>7, <2>1
    <2> QED
      BY <1>3, <2>1, <2>2, <2>3
  <1>11. ASSUME m < Len(a) PROVE a[m + 1].lsn >= c /\ a[m + 1].lsn \in Nat
    <2>1. /\ m + 1 \in 1..Len(a) /\ n + 1 \in 1..Len(a) /\ n + 1 <= m + 1 /\ n < Len(a)
          /\ m + 1 \in 1..Len(k) /\ n + 1 \in 1..Len(k)
      BY <1>1, <1>5, <1>6, <1>9, <1>11, HistoryShape
    <2>2. a[n + 1].lsn <= a[m + 1].lsn
      <3>1. CASE n = m
        BY <1>7, <2>1, <3>1
      <3>2. CASE n # m
        BY <1>1, <1>5, <1>6, <2>1, <3>2 DEF Ordered
      <3> QED
        BY <3>1, <3>2
    <2>3. a[n + 1].lsn \in Nat /\ a[m + 1].lsn \in Nat
      BY <1>7, <2>1
    <2> QED
      BY <1>4, <2>1, <2>2, <2>3
  <1>12. HighestCommonPoint(prop, a, end) =
            IF m = 0 THEN 0
            ELSE IF m = Len(prop) THEN end
            ELSE Smaller(prop[m + 1].lsn, IF m < Len(a) THEN a[m + 1].lsn ELSE end)
    BY DEF HighestCommonPoint, m
  <1>13. HighestCommonPoint(prop, a, end) >= c
    BY <1>1, <1>5, <1>6, <1>7, <1>8, <1>9, <1>10, <1>11, <1>12 DEF Smaller
  <1> QED
    BY <1>13 DEF a

-----------------------------------------------------------------------------
(***************************************************************************)
(* The two computations of the point where streaming starts, for all       *)
(* histories that can meet.                                                *)
(***************************************************************************)
\* The common part ends where the histories do, or where their terms differ.
CommonPart(g, h, n) ==
    /\ n \in Nat /\ n <= Len(g) /\ n <= Len(h)
    /\ \A i \in 1..n : g[i] = h[i]
    /\ \A i \in 1..Len(g), j \in 1..Len(h) : i > n \/ j > n => g[i].term # h[j].term

\* Compatible histories have all of a term in common, or nothing.
LEMMA CommonPartIs ==
    ASSUME NEW g \in History, NEW h \in History, Ordered(g), Ordered(h), Compatible(g, h)
    PROVE  CommonPart(g, h, CommonLen(g, h))
  <1>1. PICK n : n = CommonLen(g, h)
    OBVIOUS
  <1>2. /\ n \in Nat /\ n <= Len(g) /\ n <= Len(h) /\ \A i \in 1..n : g[i].term = h[i].term
        /\ n < Len(g) /\ n < Len(h) => g[n + 1].term # h[n + 1].term
    BY <1>1, CommonLenShape
  <1>3. Len(g) \in Nat /\ Len(h) \in Nat
    BY HistoryShape
  <1>4. ASSUME NEW i \in 1..Len(g), NEW j \in 1..Len(h), g[i].term = h[j].term
        PROVE  i = j /\ \A l \in 1..i : g[l] = h[l]
    <2>1. SubSeq(g, 1, i) = SubSeq(h, 1, j)
      BY <1>4 DEF Compatible
    <2>2. /\ Len(SubSeq(g, 1, i)) = i /\ \A l \in 1..i : SubSeq(g, 1, i)[l] = g[l]
          /\ Len(SubSeq(h, 1, j)) = j /\ \A l \in 1..j : SubSeq(h, 1, j)[l] = h[l]
      BY <1>3, PrefixType DEF History
    <2>3. i = j
      BY <2>1, <2>2
    <2> QED
      BY <2>1, <2>2, <2>3
  <1>5. \A i \in 1..n : g[i] = h[i]
    BY <1>2, <1>3, <1>4
  <1>6. ASSUME NEW i \in 1..Len(g), NEW j \in 1..Len(h), i > n \/ j > n, g[i].term = h[j].term
        PROVE  FALSE
    <2>1. i = j /\ \A l \in 1..i : g[l] = h[l]
      BY <1>4, <1>6
    <2>2. n + 1 \in 1..i /\ n < Len(g) /\ n < Len(h)
      BY <1>2, <1>3, <1>6, <2>1
    <2> QED
      BY <1>2, <2>1, <2>2
  <1> QED
    BY <1>1, <1>2, <1>5, <1>6 DEF CommonPart

\* The term at an LSN is that of the last entry up to it.
LEMMA TermAtIs ==
    ASSUME NEW h \in History, h # <<>>, h[1].lsn = 1, Ordered(h), NEW l \in Nat, l >= 1
    PROVE  \E i \in 1..Len(h) : /\ TermAt(h, l) = h[i].term /\ h[i].lsn <= l
                                /\ \A j \in 1..Len(h) : h[j].lsn <= l => j <= i
                                /\ \A j \in 1..Len(h) : j > i => h[j].lsn > l
  <1>1. PICK a, n : a = UpTo(h, l) /\ n = Len(UpTo(h, l))
    OBVIOUS
  <1>2. /\ a \in History /\ n \in Nat /\ n <= Len(h) /\ \A i \in 1..n : a[i] = h[i] /\ h[i].lsn <= l
        /\ n < Len(h) => h[n + 1].lsn > l
    BY <1>1, UpToShape
  <1>3. Len(h) \in Nat /\ Len(h) >= 1 /\ \A i \in 1..Len(h) : h[i].lsn \in Nat
    BY HistoryShape
  <1>4. n >= 1
    BY <1>2, <1>3
  <1>5. a # <<>> /\ Len(a) = n
    BY <1>1, <1>4
  <1>6. n \in 1..Len(h) /\ n \in 1..n
    BY <1>2, <1>3, <1>4
  <1>7. TermAt(h, l) = h[n].term
    BY <1>1, <1>2, <1>5, <1>6 DEF TermAt, HighestTerm
  <1>8. ASSUME NEW j \in 1..Len(h), j > n PROVE h[j].lsn > l
    <2>1. n + 1 \in 1..Len(h) /\ n < Len(h)
      BY <1>2, <1>3, <1>8
    <2>2. h[n + 1].lsn <= h[j].lsn
      <3>1. CASE j = n + 1
        BY <1>3, <3>1
      <3>2. CASE j # n + 1
        BY <1>2, <1>8, <2>1, <3>2 DEF Ordered
      <3> QED
        BY <3>1, <3>2
    <2> QED
      BY <1>2, <1>3, <2>1, <2>2
  <1>9. \A j \in 1..Len(h) : h[j].lsn <= l => j <= n
    BY <1>2, <1>3, <1>8
  <1> QED
    BY <1>2, <1>6, <1>7, <1>8, <1>9

\* Where the point of find_highest_common_point lies in the two histories.
LEMMA DivergesWhere ==
    ASSUME NEW g \in History, NEW h \in History, NEW end \in Nat, Comparable(g, h, end),
           NEW n, n = CommonLen(g, h), NEW point, point = DivergesAt(g, h, end)
    PROVE  /\ CommonPart(g, h, n) /\ point \in Nat /\ 1 <= point /\ point <= end
           /\ \A i \in 1..Len(g) : i > n => g[i].lsn >= point
           /\ \A i \in 1..Len(h) : i > n => h[i].lsn >= point
           /\ point < end => \/ n + 1 \in 1..Len(g) /\ g[n + 1].lsn = point
                             \/ n + 1 \in 1..Len(h) /\ h[n + 1].lsn = point
           /\ n = Len(g) => n = Len(h)
  <1>1. /\ g # <<>> /\ g[1].lsn = 1 /\ Ordered(g) /\ h # <<>> /\ h[1].lsn = 1 /\ Ordered(h)
        /\ HighestTerm(h) <= HighestTerm(g) /\ Compatible(g, h) /\ h[Len(h)].lsn <= end
    BY DEF Comparable
  <1>2. CommonPart(g, h, n)
    BY <1>1, CommonPartIs
  <1>3. n \in Nat /\ n <= Len(g) /\ n <= Len(h) /\ \A i \in 1..n : g[i] = h[i]
    BY <1>2 DEF CommonPart
  <1>4. /\ Len(g) \in Nat /\ Len(g) >= 1 /\ Len(h) \in Nat /\ Len(h) >= 1
        /\ \A i \in 1..Len(g) : g[i].lsn \in Nat /\ g[i].lsn >= 1 /\ g[i].term \in Nat
        /\ \A i \in 1..Len(h) : h[i].lsn \in Nat /\ h[i].lsn >= 1 /\ h[i].term \in Nat
    BY <1>1, HistoryShape
  <1>5. n = Len(g) => n = Len(h)
    <2> SUFFICES ASSUME n = Len(g), n < Len(h) PROVE FALSE
      BY <1>3, <1>4
    <2>1. n \in 1..Len(g) /\ n \in 1..Len(h) /\ Len(h) \in 1..Len(h) /\ n \in 1..n
      BY <1>3, <1>4
    <2>2. h[n].term < h[Len(h)].term
      BY <1>1, <2>1 DEF Ordered
    <2>3. h[Len(h)].term <= g[n].term
      BY <1>1 DEF HighestTerm
    <2>4. g[n] = h[n] /\ h[n].term \in Nat /\ h[Len(h)].term \in Nat
      BY <1>3, <1>4, <2>1
    <2> QED
      BY <2>2, <2>3, <2>4
  <1>6. /\ \A i, j \in 1..Len(g) : i <= j => g[i].lsn <= g[j].lsn
        /\ \A i, j \in 1..Len(h) : i <= j => h[i].lsn <= h[j].lsn
    BY <1>1, <1>4 DEF Ordered
  <1>7. end >= 1 /\ \A i \in 1..Len(h) : h[i].lsn <= end
    <2>1. Len(h) \in 1..Len(h)
      BY <1>4
    <2> QED
      BY <1>1, <1>4, <1>6, <2>1
  <1>8. PICK q : q = HighestCommonPoint(g, h, end)
    OBVIOUS
  <1>9. /\ n = 0 => q = 0
        /\ n # 0 /\ n = Len(g) => q = end
        /\ n # 0 /\ n # Len(g) => q = Smaller(g[n + 1].lsn, IF n < Len(h) THEN h[n + 1].lsn ELSE end)
    BY <1>8 DEF HighestCommonPoint
  <1>10. point = IF q = 0 THEN 1 ELSE q
    BY <1>1, <1>8 DEF DivergesAt
  <1>11. CASE n = 0
    <2>1. point = 1 /\ 1 \in 1..Len(g)
      BY <1>4, <1>9, <1>10, <1>11
    <2> QED
      BY <1>1, <1>2, <1>4, <1>5, <1>7, <1>11, <2>1
  <1>12. CASE n # 0 /\ n = Len(g)
    <2>1. point = end
      BY <1>7, <1>9, <1>10, <1>12
    <2> QED
      BY <1>2, <1>3, <1>4, <1>5, <1>7, <1>12, <2>1
  <1>13. CASE n # 0 /\ n # Len(g)
    <2>1. n + 1 \in 1..Len(g) /\ g[n + 1].lsn \in Nat /\ g[n + 1].lsn >= 1
      BY <1>3, <1>4, <1>13
    <2>2. \A i \in 1..Len(g) : i > n => g[i].lsn >= g[n + 1].lsn
      BY <1>3, <1>4, <1>6, <2>1
    <2>3. PICK e : e = IF n < Len(h) THEN h[n + 1].lsn ELSE end
      OBVIOUS
    <2>4. /\ e \in Nat /\ e >= 1 /\ e <= end
          /\ e < end => n + 1 \in 1..Len(h) /\ h[n + 1].lsn = e
          /\ \A i \in 1..Len(h) : i > n => h[i].lsn >= e
      <3>1. CASE n < Len(h)
        <4>1. n + 1 \in 1..Len(h) /\ e = h[n + 1].lsn
          BY <1>3, <1>4, <2>3, <3>1
        <4> QED
          BY <1>3, <1>4, <1>6, <1>7, <4>1
      <3>2. CASE ~(n < Len(h))
        BY <1>3, <1>4, <1>7, <2>3, <3>2
      <3> QED
        BY <3>1, <3>2
    <2>5. q = Smaller(g[n + 1].lsn, e)
      BY <1>9, <1>13, <2>3
    <2>6. point = Smaller(g[n + 1].lsn, e)
      BY <1>10, <2>1, <2>4, <2>5 DEF Smaller
    <2>7. /\ point \in Nat /\ 1 <= point /\ point <= end /\ point <= g[n + 1].lsn /\ point <= e
          /\ point < end => g[n + 1].lsn = point \/ (e < end /\ e = point)
      BY <2>1, <2>4, <2>6 DEF Smaller
    <2>8. /\ \A i \in 1..Len(g) : i > n => g[i].lsn >= point
          /\ \A i \in 1..Len(h) : i > n => h[i].lsn >= point
      BY <1>4, <2>1, <2>2, <2>4, <2>7, SMTT(30)
    <2> QED
      BY <1>2, <1>5, <2>1, <2>4, <2>7, <2>8
  <1> QED
    BY <1>11, <1>12, <1>13

(***************************************************************************)
(* find_highest_common_point returns where the two WALs diverge, for       *)
(* histories of any length: the safekeeper keeps no record that is not the *)
(* walproposer's, and truncates none that is.                              *)
(***************************************************************************)
THEOREM CommonPointDiverges ==
    ASSUME NEW propTh \in History, NEW skTh \in History, NEW skEnd \in Nat,
           Comparable(propTh, skTh, skEnd)
    PROVE  IsDivergence(propTh, skTh, skEnd)
  <1>1. PICK g \in History, h \in History, end \in Nat : g = propTh /\ h = skTh /\ end = skEnd
    OBVIOUS
  <1>2. PICK n : n = CommonLen(g, h)
    OBVIOUS
  <1>3. PICK point : point = DivergesAt(g, h, end)
    OBVIOUS
  <1>4. /\ g # <<>> /\ g[1].lsn = 1 /\ Ordered(g) /\ h # <<>> /\ h[1].lsn = 1 /\ Ordered(h)
        /\ Comparable(g, h, end)
    BY <1>1 DEF Comparable
  <1>5. /\ CommonPart(g, h, n) /\ point \in Nat /\ 1 <= point /\ point <= end
        /\ \A i \in 1..Len(g) : i > n => g[i].lsn >= point
        /\ \A i \in 1..Len(h) : i > n => h[i].lsn >= point
        /\ point < end => \/ n + 1 \in 1..Len(g) /\ g[n + 1].lsn = point
                          \/ n + 1 \in 1..Len(h) /\ h[n + 1].lsn = point
    BY <1>2, <1>3, <1>4, DivergesWhere
  <1>6. /\ n \in Nat /\ n <= Len(g) /\ n <= Len(h) /\ \A i \in 1..n : g[i] = h[i]
        /\ \A i \in 1..Len(g), j \in 1..Len(h) : i > n \/ j > n => g[i].term # h[j].term
    BY <1>5 DEF CommonPart
  <1>7. /\ Len(g) \in Nat /\ Len(h) \in Nat
        /\ \A i \in 1..Len(g) : g[i].lsn \in Nat
        /\ \A i \in 1..Len(h) : h[i].lsn \in Nat
    BY HistoryShape
  <1>8. ASSUME NEW l \in 1..(point - 1) PROVE TermAt(g, l) = TermAt(h, l)
    <2>1. l \in Nat /\ l >= 1 /\ l < point
      BY <1>5
    <2>2. PICK i \in 1..Len(g) : /\ TermAt(g, l) = g[i].term /\ g[i].lsn <= l
                                 /\ \A k \in 1..Len(g) : g[k].lsn <= l => k <= i
      BY <1>4, <2>1, TermAtIs
    <2>3. PICK j \in 1..Len(h) : /\ TermAt(h, l) = h[j].term /\ h[j].lsn <= l
                                 /\ \A k \in 1..Len(h) : h[k].lsn <= l => k <= j
      BY <1>4, <2>1, TermAtIs
    <2>4. i <= n /\ j <= n
      BY <1>5, <1>6, <1>7, <2>1, <2>2, <2>3
    <2>5. g[i] = h[i] /\ g[j] = h[j]
      BY <1>6, <2>4
    <2>6. i \in 1..Len(h) /\ j \in 1..Len(g)
      BY <1>6, <1>7, <2>4
    <2>7. i = j
      BY <2>2, <2>3, <2>5, <2>6
    <2> QED
      BY <2>2, <2>3, <2>5, <2>7
  <1>9. ASSUME NEW l \in (point + 1)..end PROVE ~SameWalUpTo(g, h, l)
    <2>1. point < end /\ point \in 1..(l - 1)
      BY <1>5
    <2>2. PICK i \in 1..Len(g) : /\ TermAt(g, point) = g[i].term
                                 /\ \A k \in 1..Len(g) : g[k].lsn <= point => k <= i
      BY <1>4, <1>5, TermAtIs
    <2>3. PICK j \in 1..Len(h) : /\ TermAt(h, point) = h[j].term
                                 /\ \A k \in 1..Len(h) : h[k].lsn <= point => k <= j
      BY <1>4, <1>5, TermAtIs
    <2>4. i > n \/ j > n
      BY <1>5, <1>6, <1>7, <2>1, <2>2, <2>3
    <2>5. TermAt(g, point) # TermAt(h, point)
      BY <1>6, <2>2, <2>3, <2>4
    <2> QED
      BY <2>1, <2>5 DEF SameWalUpTo
  <1> QED
    BY <1>1, <1>3, <1>5, <1>8, <1>9 DEF IsDivergence, SameWalUpTo

(***************************************************************************)
(* SendProposerElected, in C and from the vote of the safekeeper, finds    *)
(* the point that handle_elected, in Rust, checks against: the message is  *)
(* refused only when the WAL has changed since the vote.                   *)
(***************************************************************************)
THEOREM BothSidesFindIt ==
    ASSUME NEW propTh \in History, NEW skTh \in History, NEW skEnd \in Nat,
           Comparable(propTh, skTh, skEnd)
    PROVE  SidesAgree(propTh, skTh, skEnd)
  <1>1. PICK g \in History, h \in History, end \in Nat : g = propTh /\ h = skTh /\ end = skEnd
    OBVIOUS
  <1>2. PICK n : n = CommonLen(g, h)
    OBVIOUS
  <1>3. /\ g # <<>> /\ g[1].lsn = 1 /\ Ordered(g) /\ Comparable(g, h, end)
        /\ h[Len(h)].lsn <= end /\ h # <<>>
    BY <1>1 DEF Comparable
  <1>4. /\ n \in Nat /\ n <= Len(g) /\ n <= Len(h)
    BY <1>2, CommonLenShape
  <1>5. /\ Len(g) \in Nat /\ Len(g) >= 1 /\ Len(h) \in Nat /\ Len(h) >= 1
        /\ \A i \in 1..Len(g) : g[i].lsn \in Nat /\ g[i].lsn >= 1 /\ g[i].term \in Nat
        /\ \A i \in 1..Len(h) : h[i].lsn \in Nat /\ h[i].lsn >= 1
    BY <1>3, HistoryShape
  <1>6. HighestTerm(g) = g[Len(g)].term
    BY <1>3 DEF HighestTerm
  <1>7. end >= 1
    <2>1. Len(h) \in 1..Len(h)
      BY <1>5
    <2> QED
      BY <1>3, <1>5, <2>1
  <1>8. n # 0 => (g[n].term = HighestTerm(g) <=> n = Len(g))
    <2> SUFFICES ASSUME n # 0, n < Len(g) PROVE g[n].term # g[Len(g)].term
      BY <1>4, <1>5, <1>6
    <2>1. n \in 1..Len(g) /\ Len(g) \in 1..Len(g)
      BY <1>4, <1>5
    <2>2. g[n].term < g[Len(g)].term
      BY <1>3, <2>1 DEF Ordered
    <2> QED
      BY <1>5, <2>1, <2>2
  <1>9. PICK e : e = IF n < Len(h) THEN h[n + 1].lsn ELSE end
    OBVIOUS
  <1>10. e \in Nat /\ e >= 1
    BY <1>4, <1>5, <1>7, <1>9
  <1>11. n < Len(g) => Smaller(g[n + 1].lsn, e) # 0
    BY <1>4, <1>5, <1>10 DEF Smaller
  <1>12. StartStreamingAt(g, HighestTerm(g), h, end) =
            IF n = 0 THEN g[1].lsn ELSE IF g[n].term = HighestTerm(g) THEN end
            ELSE Smaller(g[n + 1].lsn, e)
    BY <1>2, <1>9 DEF StartStreamingAt
  <1>13. HighestCommonPoint(g, h, end) =
            IF n = 0 THEN 0 ELSE IF n = Len(g) THEN end ELSE Smaller(g[n + 1].lsn, e)
    BY <1>2, <1>9 DEF HighestCommonPoint
  <1>14. StartStreamingAt(g, HighestTerm(g), h, end) = DivergesAt(g, h, end)
    BY <1>4, <1>5, <1>7, <1>8, <1>11, <1>12, <1>13 DEF DivergesAt
  <1> QED
    BY <1>1, <1>14 DEF SidesAgree
=============================================================================
