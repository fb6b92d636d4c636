----------------------------- MODULE MCHandOver -----------------------------
(***************************************************************************)
(* WalConsensus when compute c2 takes over from c1, which is gone once c2  *)
(* starts, with one fault on the way: a safekeeper that crashes, or a late *)
(* broker message.  What c1 has sent is still delivered, on connections    *)
(* that safekeepers take for live, and is handled like anything else.      *)
(* And, for all term histories within a bound, the two computations of     *)
(* TermHistory against a reference (a statement about constants, which is  *)
(* evaluated in the initial state).                                        *)
(***************************************************************************)
EXTENDS MCWalConsensus

HandOver ==
    wp'[c2].mode # "off" =>
        /\ wp'[c1] = wp[c1]
        /\ \A s \in Safekeepers : conn'[c1][s].state \in {conn[c1][s].state, "offline"}

\* A fault of the time of c1 alone is one of a lone compute; what is lost by
\* then may as well be lost when c2 has started.
HandOverSpec ==
    Init /\ [][Next /\ HandOver /\ (wp[c2].mode = "off" => UNCHANGED budget)]_vars

-----------------------------------------------------------------------------
\* Bounds: up to three terms after the one of the timeline, WALs of three
\* records.
LastTerm == 3
LastLsn == 4

\* Histories as the protocol makes them.
Histories ==
    {h \in UNION {[1..n -> [term : 0..LastTerm, lsn : 1..LastLsn]] : n \in 1..(LastTerm + 1)} :
        h[1].lsn = 1 /\ Ordered(h)}

\* The safekeepers an elected walproposer may meet, with the end of their WAL.
Acceptors(prop) == {a \in Histories \X (1..LastLsn) : Comparable(prop, a[1], a[2])}

(***************************************************************************)
(* find_highest_common_point returns the longest part of the safekeeper's  *)
(* WAL that is also the walproposer's: no more, so that no foreign record  *)
(* is kept, and no less, so that no record is truncated for nothing.       *)
(***************************************************************************)
CommonPointIsHighest ==
    Init => \A prop \in Histories : \A a \in Acceptors(prop) : IsDivergence(prop, a[1], a[2])

(***************************************************************************)
(* SendProposerElected computes the same point in C, so a safekeeper whose *)
(* WAL has not changed since its vote accepts the truncation point.        *)
(***************************************************************************)
BothSidesAgree ==
    Init => \A prop \in Histories : \A a \in Acceptors(prop) : SidesAgree(prop, a[1], a[2])
=============================================================================
