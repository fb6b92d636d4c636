---------------------------- MODULE MCSuperseded ----------------------------
(***************************************************************************)
(* WalConsensus with five safekeepers, a number that the storage           *)
(* controller's timeline_safekeeper_count allows, and three computes that  *)
(* follow each other: a commit_lsn learnt from a peer against the          *)
(* ProposerElected of a leader that has been superseded meanwhile.         *)
(* Exploring every interleaving of so many is out of reach, so the steps   *)
(* are restricted to those towards one situation; every behaviour is one   *)
(* of Spec.                                                                *)
(***************************************************************************)
EXTENDS WalConsensus, TLC

CONSTANTS s1, s2, s3, s4, s5, c1, c2, c3

\* One message of the broker.
OneInfo == {[f \in Faults |-> IF f = "info" THEN 1 ELSE 0]}

\* One compute after the other, and what each has to leave to the next: c1 its
\* records on s1 and s2, only one of them on s1, and c2 the ProposerElected
\* that s1 has yet to receive.
Started(p) == wp[p].mode # "off" \/ wp[p].syncedBy # {}
Turn == IF Started(c3) THEN c3 ELSE IF Started(c2) THEN c2 ELSE c1

Left(p) ==
    CASE p = c1 -> sk[s1].flush = 2 /\ sk[s2].flush = 3
      [] p = c2 -> conn[c2][s1].req # <<>> /\ conn[c2][s1].req[1].type = "elected"

InTurn ==
    /\ \A p \in Computes \ {Turn'} : wp'[p] = wp[p] /\ conn'[p] = conn[p]
    /\ Turn' # Turn => Left(Turn) /\ Turn' = IF Turn = c1 THEN c2 ELSE c3

\* The safekeepers a compute reaches, and its term.  The WAL of c1 is not on the
\* quorum that elects c2; it is on s2, of the quorum that elects c3.
Reaches(p) == CASE p = c1 -> {s1, s2, s3}
                [] p = c2 -> {s1, s3, s4, s5}
                [] p = c3 -> {s2, s3, s4, s5}
TermOf(p) == CASE p = c1 -> 1 [] p = c2 -> 2 [] p = c3 -> 3

Reachable ==
    \A p \in Computes :
        /\ wp'[p].term <= TermOf(p)
        /\ \A s \in Safekeepers \ Reaches(p) : conn'[p][s].state = "offline"

\* c1 writes two records at once, c2 none; c2 connects to s1, and c3 to s3, when
\* it is elected and when it has committed; c3 is a sync-safekeepers.
Written ==
    /\ wp[c1].state = "elected" => wp[c1].end = 3 \/ wp'[c1].end = wp[c1].end + 1
    /\ sk'[s1].flush <= 2 /\ wp'[c2].end <= 1 /\ wp'[c3].mode # "compute"
    /\ Turn' # c3 => \A s \in {s3, s4, s5} : sk'[s].history = sk[s].history
    /\ conn'[c2][s1].state # "offline" => wp[c2].state = "elected"
    /\ conn'[c3][s3].state # "offline" => wp[c3].commit = 3

\* s3 tells the others that it serves the first record, which s1 has as well.
Told ==
    /\ budget' # budget => info'.commit = 2 /\ info'.lastLogTerm = 1
    /\ info.commit = 2 => sk'[s1].commit = 2

SupersededSpec == Init /\ [][Next /\ InTurn /\ Reachable /\ Written /\ Told]_vars
=============================================================================
