---------------------------- MODULE TermHistory ----------------------------
(***************************************************************************)
(* Term histories and the search for the point where two of them diverge.  *)
(*                                                                         *)
(* A term history is the list of term switches of a WAL: entry             *)
(* [term |-> t, lsn |-> l] says that the WAL from l on, up to the next     *)
(* entry, was written by the walproposer elected in term t.  A safekeeper  *)
(* stores one in its control file, a walproposer builds one when it is     *)
(* elected, and both sides compare the two to find where streaming starts: *)
(* safekeeper.rs in find_highest_common_point, walproposer.c in            *)
(* SendProposerElected.                                                    *)
(*                                                                         *)
(* LSN 0 is the invalid LSN, as in the code.                               *)
(***************************************************************************)
EXTENDS Integers, Sequences, FiniteSets

InvalidLsn == 0

Entry == [term : Nat, lsn : Nat \ {InvalidLsn}]
History == Seq(Entry)

Larger(a, b)  == IF a >= b THEN a ELSE b
Smaller(a, b) == IF a <= b THEN a ELSE b

-----------------------------------------------------------------------------

\* The history without the switches that happen strictly after lsn: its
\* longest prefix of entries up to lsn.
UpTo(h, lsn) ==
    SubSeq(h, 1, Cardinality({i \in 1..Len(h) : \A j \in 1..i : h[j].lsn <= lsn}))

\* The term of the last switch, 0 for an empty history.
HighestTerm(h) == IF h = <<>> THEN 0 ELSE h[Len(h)].term

\* How many leading entries of the two histories have the same terms.
CommonLen(propTh, skTh) ==
    Cardinality({i \in 1..Smaller(Len(propTh), Len(skTh)) :
                    \A j \in 1..i : propTh[j].term = skTh[j].term})

\* Mutant: the end of the term is looked up on the safekeeper's side only.
CommonPointOfSk(propTh, skTh, skEnd) ==
    LET n == CommonLen(propTh, skTh)
        skTermEnd == IF n < Len(skTh) THEN skTh[n + 1].lsn ELSE skEnd
    IN  IF n = 0 THEN InvalidLsn ELSE skTermEnd

(***************************************************************************)
(* The safekeeper's computation.  The proposer's history goes on for ever, *)
(* the safekeeper's ends at skEnd.  InvalidLsn stands for None.            *)
(***************************************************************************)
HighestCommonPoint(propTh, skTh, skEnd) ==
    LET n == CommonLen(propTh, skTh)
        skTermEnd == IF n < Len(skTh) THEN skTh[n + 1].lsn ELSE skEnd
    IN  IF n = 0 THEN InvalidLsn
        ELSE IF n = Len(propTh) THEN skEnd
        ELSE Smaller(propTh[n + 1].lsn, skTermEnd)

\* Mutant: the safekeeper's last common term is taken to reach its flush LSN.
StreamingToFlush(propTh, propTerm, skTh, skFlush) ==
    LET n == CommonLen(propTh, skTh)
    IN  IF n = 0 THEN propTh[1].lsn
        ELSE IF propTh[n].term = propTerm THEN skFlush
        ELSE Smaller(propTh[n + 1].lsn, skFlush)

(***************************************************************************)
(* The walproposer's computation of the same point, from the history and   *)
(* flush LSN of a vote response.  It recognises the end of its own history *)
(* by its term, and streams from the first entry when nothing is common.   *)
(***************************************************************************)
StartStreamingAt(propTh, propTerm, skTh, skFlush) ==
    LET n == CommonLen(propTh, skTh)
        skTermEnd == IF n < Len(skTh) THEN skTh[n + 1].lsn ELSE skFlush
    IN  IF n = 0 THEN propTh[1].lsn
        ELSE IF propTh[n].term = propTerm THEN skFlush
        ELSE Smaller(propTh[n + 1].lsn, skTermEnd)

(***************************************************************************)
(* The assertion both sides make on the way: a term starts at the same LSN *)
(* in both histories.                                                      *)
(***************************************************************************)
SameTermSameLsn(propTh, skTh) ==
    \A i \in 1..CommonLen(propTh, skTh) : propTh[i].lsn = skTh[i].lsn

-----------------------------------------------------------------------------
(***************************************************************************)
(* What the two computations are for, in terms of the WAL itself.          *)
(***************************************************************************)

\* The terms of a history grow and its LSNs do not go back.
Ordered(h) ==
    \A i, j \in 1..Len(h) : i < j => h[i].term < h[j].term /\ h[i].lsn <= h[j].lsn

\* A term has one leader, and so one past: two histories agree up to and
\* including a term they share.
Compatible(g, h) ==
    \A i \in 1..Len(g), j \in 1..Len(h) :
        g[i].term = h[j].term => SubSeq(g, 1, i) = SubSeq(h, 1, j)

\* The history of a safekeeper whose WAL ends at skEnd, when it has accepted
\* the term of the walproposer: all histories begin with the timeline.
Comparable(propTh, skTh, skEnd) ==
    /\ \A h \in {propTh, skTh} : h # <<>> /\ h[1].lsn = 1 /\ Ordered(h)
    /\ HighestTerm(skTh) <= HighestTerm(propTh) /\ Compatible(propTh, skTh)
    /\ skTh[Len(skTh)].lsn <= skEnd

\* The term that wrote the record at lsn.
TermAt(h, lsn) == HighestTerm(UpTo(h, lsn))

\* The WALs of two histories are the same before lsn.
SameWalUpTo(g, h, lsn) == \A l \in 1..(lsn - 1) : TermAt(g, l) = TermAt(h, l)

\* When there is no common term, nothing is common.
DivergesAt(propTh, skTh, skEnd) ==
    LET lcp == HighestCommonPoint(propTh, skTh, skEnd)
    IN  IF lcp = InvalidLsn THEN propTh[1].lsn ELSE lcp

\* The safekeeper's point is where the two WALs diverge, or its own ends: no
\* foreign record is before it, and no record is truncated for nothing.
IsDivergence(propTh, skTh, skEnd) ==
    LET point == DivergesAt(propTh, skTh, skEnd)
    IN  /\ point <= skEnd /\ SameWalUpTo(propTh, skTh, point)
        /\ \A l \in (point + 1)..skEnd : ~SameWalUpTo(propTh, skTh, l)

\* The walproposer finds the same point.
SidesAgree(propTh, skTh, skEnd) ==
    StartStreamingAt(propTh, HighestTerm(propTh), skTh, skEnd) = DivergesAt(propTh, skTh, skEnd)
=============================================================================
