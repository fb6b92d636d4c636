---------------------------- MODULE CommittedLog ----------------------------
(***************************************************************************)
(* What the write path promises, without safekeepers, terms or messages:   *)
(* one log of committed WAL that only grows, and computes that each take a *)
(* basebackup somewhere in it and extend it with records of their own.     *)
(*                                                                         *)
(* A compute is fenced by the log itself: once anybody else has a record   *)
(* committed after the compute's basebackup, no record of it is committed  *)
(* any more, for it would have been written on a different past.           *)
(*                                                                         *)
(*   log     the committed WAL; an element is the compute that wrote the   *)
(*           record                                                        *)
(*   base    the LSN of each compute's basebackup, 0 for a compute that    *)
(*           does not run yet                                              *)
(*   served  how far each safekeeper serves the log to pageservers; it     *)
(*           may fall back when a safekeeper restarts                      *)
(***************************************************************************)
EXTENDS Integers, Sequences

CONSTANTS
    Computes,
    Safekeepers,
    MaxEnd          \* bound: where the log ends at the latest

VARIABLES log, base, served

vars == <<log, base, served>>

\* LSNs count from 1; a record at lsn is element lsn of the log.
End == Len(log) + 1

Init ==
    /\ log    = <<>>
    /\ base   = [p \in Computes |-> 0]
    /\ served = [s \in Safekeepers |-> 1]

\* A compute starts on a basebackup of committed WAL, not always of all of it.
Start(p) ==
    /\ base[p] = 0
    /\ \E lsn \in 1..End : base' = [base EXCEPT ![p] = lsn]
    /\ UNCHANGED <<log, served>>

\* Nobody else has written past the basebackup of p.
Owns(p) == base[p] # 0 /\ \A lsn \in base[p]..Len(log) : log[lsn] = p

\* Records of p are committed, by p or by a sync-safekeepers that found them.
Commit(p) ==
    /\ Owns(p)
    /\ \E n \in 1..(MaxEnd - End) : log' = log \o [i \in 1..n |-> p]
    /\ UNCHANGED <<base, served>>

Serve(s) ==
    /\ \E lsn \in 1..End : served' = [served EXCEPT ![s] = lsn]
    /\ UNCHANGED <<log, base>>

Next ==
    \/ \E p \in Computes : Start(p) \/ Commit(p)
    \/ \E s \in Safekeepers : Serve(s)

Spec == Init /\ [][Next]_vars

-----------------------------------------------------------------------------
(***************************************************************************)
(* Types, and no basebackup or served position is beyond the log.          *)
(***************************************************************************)
TypeOK ==
    /\ log \in Seq(Computes)
    /\ base \in [Computes -> 0..End]
    /\ served \in [Safekeepers -> 1..End]

(***************************************************************************)
(* Everything a compute ever gets committed is one run of the log, and it  *)
(* starts right at its basebackup: Postgres, which has its own records and *)
(* the basebackup below them, has the log up to each of them.              *)
(***************************************************************************)
RecordsFollowBasebackup ==
    \A lsn \in 1..Len(log) :
        LET p == log[lsn]
        IN  base[p] \in 1..lsn /\ \A l \in base[p]..lsn : log[l] = p
=============================================================================
