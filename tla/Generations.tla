---------------------------- MODULE Generations ----------------------------
(***************************************************************************)
(* What the controller promises to pageservers: a generation number is     *)
(* given to one pageserver, once. It may get lost before it is used, but   *)
(* it is not given to another pageserver, nor given again to one that has  *)
(* had it taken away, not even after a restart. This is about what the     *)
(* controller gives; calls that arrive late are the subject of Attachment. *)
(*                                                                         *)
(*   last    the newest generation                                         *)
(*   claims  which pageserver writes in which generation, or is going to   *)
(***************************************************************************)
EXTENDS Integers

CONSTANT Nodes      \* the pageservers

VARIABLES last, claims

ClaimOf(n, g) == [node |-> n, gen |-> g]

Init ==
    /\ last = 1
    /\ \E n \in Nodes : claims = {ClaimOf(n, 1)}

\* The next generation is issued to n, and others may stop at the same time.
Issue(n) ==
    /\ last' = last + 1
    /\ claims' \subseteq claims \cup {ClaimOf(n, last + 1)}

\* Pageservers stop writing in a generation.
Lapse ==
    /\ claims' \subseteq claims
    /\ UNCHANGED last

Next == Lapse \/ \E n \in Nodes : Issue(n)

Spec == Init /\ [][Next]_<<last, claims>>
=============================================================================
