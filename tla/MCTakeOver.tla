----------------------------- MODULE MCTakeOver -----------------------------
(***************************************************************************)
(* Liveness of WalConsensus, and what a connection that breaks may not do  *)
(* to committed WAL: compute c2 takes over from c1, which stops for good,  *)
(* whatever it has reached, once nothing is in flight on its connections.  *)
(* c1 uses the terms up to OldTerms only, so that MaxTerm leaves c2 the    *)
(* terms it needs: one for sync-safekeepers, one for Postgres and one for  *)
(* each time its walproposer has to restart.  Faults happen during         *)
(* sync-safekeepers only.  The safekeepers c1 connects to are s1 and s2,   *)
(* by symmetry.                                                            *)
(***************************************************************************)
EXTENDS MCWalConsensus

CONSTANT OldTerms

Idle(p) == \A s \in Safekeepers : /\ conn[p][s].req = <<>>
                                    /\ conn[p][s].rep = <<>>
                                    /\ ~conn[p][s].dirty

TakeOver ==
    /\ wp'[c1].term <= OldTerms
    /\ conn'[c1][s3].state = "offline"
    /\ wp[c2].mode # "sync" => budget' = budget
    /\ wp'[c2].mode # "off" =>
          Idle(c1) /\ wp'[c1] = wp[c1] /\ conn'[c1] = conn[c1]

TakeOverSpec == Init /\ [][Next /\ TakeOver]_vars /\ Fairness(c2)

(***************************************************************************)
(* sync-safekeepers terminates: HandleSafekeeperResponse finally sees the  *)
(* start of its term persisted as committed on every safekeeper connected, *)
(* although connections, safekeepers and terms come and go meanwhile.      *)
(***************************************************************************)
SyncTerminates == wp[c2].mode = "sync" ~> wp[c2].mode = "compute"

(***************************************************************************)
(* What Postgres writes is committed sooner or later, and a quorum of      *)
(* safekeepers learns of it (handle_append_request), so that pageservers   *)
(* can have it.                                                            *)
(***************************************************************************)
WrittenIsCommitted ==
    \A lsn \in 1..MaxLsn :
        wp[c2].end = lsn /\ lsn > wp[c2].base ~>
            /\ wp[c2].commit >= lsn
            /\ IsQuorum({s \in Safekeepers : sk[s].commit >= lsn})
=============================================================================
