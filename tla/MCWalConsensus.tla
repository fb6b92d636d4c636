--------------------------- MODULE MCWalConsensus ---------------------------
(***************************************************************************)
(* WalConsensus on small instances.                                        *)
(***************************************************************************)
EXTENDS WalConsensus, TLC

CONSTANTS s1, s2, s3, c1, c2

\* The faults of each run.
Only(F) == [f \in Faults |-> IF f \in F THEN 1 ELSE 0]
NoFaults    == {Only({})}
OneCrash    == {Only({"crash"}), Only({"info"})}
OneBreak    == {Only({"disconnect"})}
Restarts    == {Only({"crash", "disconnect", "bump", "save"}),
                Only({"crash", "disconnect", "info", "save"})}
TwoBumps    == {[f \in Faults |-> IF f = "bump" THEN 2 ELSE 0]}

\* Safekeepers are interchangeable, and so are computes that run together.
SafekeeperSymmetry == Permutations({s1, s2, s3})
Symmetry == SafekeeperSymmetry \cup Permutations({c1, c2})

-----------------------------------------------------------------------------
(***************************************************************************)
(* For a compute that is the only one: ProcessPropStartPos says that a     *)
(* "plain restart of walproposer not intervened by concurrent compute      *)
(* which wrote WAL is ok", and that this "avoids compute crash after       *)
(* manual term_bump".  So Postgres never panics.                           *)
(***************************************************************************)
LoneComputeNeverPanics == \A p \in Computes : wp[p].mode # "dead"
=============================================================================
