------------------------ MODULE CommittedLog_proofs ------------------------
(***************************************************************************)
(* CommittedLog, for any computes, safekeepers and bound: its types, and   *)
(* that the records of a compute follow its basebackup.                    *)
(***************************************************************************)
EXTENDS CommittedLog, TLAPS

\* What a compute commits in one step.
LEMMA RunOfRecords ==
    ASSUME NEW S, NEW p \in S, NEW n \in Nat
    PROVE  /\ [i \in 1..n |-> p] \in Seq(S)
           /\ Len([i \in 1..n |-> p]) = n
    OBVIOUS

(***************************************************************************)
(* No compute takes a basebackup, and no safekeeper serves WAL, beyond the *)
(* committed log: commit_lsn is the only source of both.                   *)
(***************************************************************************)
THEOREM TypeCorrect == MaxEnd \in Nat /\ Spec => []TypeOK
<1> SUFFICES ASSUME MaxEnd \in Nat PROVE Spec => []TypeOK
  OBVIOUS
<1>1. Init => TypeOK
  BY DEF Init, TypeOK, End
<1>2. TypeOK /\ [Next]_vars => TypeOK'
  <2> SUFFICES ASSUME TypeOK, [Next]_vars PROVE TypeOK'
    OBVIOUS
  <2> USE DEF TypeOK, End
  <2>1. ASSUME NEW p \in Computes, Start(p) PROVE TypeOK'
    BY <2>1 DEF Start
  <2>2. ASSUME NEW p \in Computes, Commit(p) PROVE TypeOK'
    <3>1. PICK n \in 1..(MaxEnd - End) : log' = log \o [i \in 1..n |-> p]
      BY <2>2 DEF Commit
    <3>2. n \in Nat
      BY <3>1
    <3>3. log' \in Seq(Computes) /\ Len(log') = Len(log) + n
      BY <3>1, <3>2, RunOfRecords
    <3> QED
      BY <2>2, <3>2, <3>3 DEF Commit
  <2>3. ASSUME NEW s \in Safekeepers, Serve(s) PROVE TypeOK'
    BY <2>3 DEF Serve
  <2>4. CASE UNCHANGED vars
    BY <2>4 DEF vars
  <2> QED
    BY <2>1, <2>2, <2>3, <2>4 DEF Next
<1> QED
  BY <1>1, <1>2, PTL DEF Spec

(***************************************************************************)
(* Whatever a compute commits is one run of the log from its basebackup    *)
(* on: a second compute that commits fences the first for good, which is   *)
(* what ProcessPropStartPos makes Postgres panic for.  Inductive together  *)
(* with the types.                                                         *)
(***************************************************************************)
THEOREM RecordsCorrect == MaxEnd \in Nat /\ Spec => []RecordsFollowBasebackup
<1> SUFFICES ASSUME MaxEnd \in Nat PROVE Spec => []RecordsFollowBasebackup
  OBVIOUS
<1>1. Init => RecordsFollowBasebackup
  BY DEF Init, RecordsFollowBasebackup
<1>2. TypeOK /\ RecordsFollowBasebackup /\ [Next]_vars => RecordsFollowBasebackup'
  <2> SUFFICES ASSUME TypeOK, RecordsFollowBasebackup, [Next]_vars
               PROVE  RecordsFollowBasebackup'
    OBVIOUS
  <2> USE DEF TypeOK, RecordsFollowBasebackup, End
  <2>1. ASSUME NEW p \in Computes, Start(p) PROVE RecordsFollowBasebackup'
    \* p has no records yet, so nothing is said about its basebackup.
    <3>1. \A lsn \in 1..Len(log) : log[lsn] \in Computes /\ log[lsn] # p
      BY <2>1 DEF Start
    <3>2. \A q \in Computes : q # p => base'[q] = base[q]
      BY <2>1 DEF Start
    <3> QED
      BY <2>1, <3>1, <3>2 DEF Start
  <2>2. ASSUME NEW p \in Computes, Commit(p) PROVE RecordsFollowBasebackup'
    <3>1. PICK n \in 1..(MaxEnd - End) : log' = log \o [i \in 1..n |-> p]
      BY <2>2 DEF Commit
    <3>2. n \in Nat
      BY <3>1
    <3>3. /\ Len(log') = Len(log) + n
          /\ \A l \in 1..Len(log) : log'[l] = log[l]
          /\ \A l \in (Len(log) + 1)..Len(log') : log'[l] = p
      BY <3>1, <3>2, RunOfRecords
    <3>4. base' = base /\ base[p] \in 1..(Len(log) + 1)
      BY <2>2 DEF Commit, Owns
    <3>5. \A l \in base[p]..Len(log') : log'[l] = p
      BY <2>2, <3>2, <3>3, <3>4 DEF Commit, Owns
    <3>6. ASSUME NEW lsn \in 1..Len(log')
          PROVE  LET q == log'[lsn]
                 IN  base'[q] \in 1..lsn /\ \A l \in base'[q]..lsn : log'[l] = q
      <4>1. CASE lsn > Len(log)
        <5>1. Len(log) \in Nat /\ Len(log') \in Nat /\ lsn \in (Len(log) + 1)..Len(log')
          BY <3>2, <3>3, <4>1
        <5>2. log'[lsn] = p
          BY <3>3, <5>1
        <5>3. base'[p] \in 1..lsn
          BY <3>4, <5>1
        <5>4. \A l \in base'[p]..lsn : log'[l] = p
          BY <3>4, <3>5, <5>1
        <5> QED
          BY <5>2, <5>3, <5>4
      <4>2. CASE lsn \in 1..Len(log)
        <5>1. log'[lsn] = log[lsn] /\ log[lsn] \in Computes
          BY <3>3, <4>2
        <5>2. /\ base[log[lsn]] \in 1..lsn
              /\ \A l \in base[log[lsn]]..lsn : log[l] = log[lsn]
          BY <4>2
        <5>3. \A l \in base[log[lsn]]..lsn : log'[l] = log[l]
          BY <3>3, <4>2, <5>2
        <5> QED
          BY <3>4, <5>1, <5>2, <5>3
      <4> QED
        BY <3>2, <3>3, <3>6, <4>1, <4>2
    <3> QED
      BY <3>6
  <2>3. ASSUME NEW s \in Safekeepers, Serve(s) PROVE RecordsFollowBasebackup'
    BY <2>3 DEF Serve
  <2>4. CASE UNCHANGED vars
    BY <2>4 DEF vars
  <2> QED
    BY <2>1, <2>2, <2>3, <2>4 DEF Next
<1> QED
  BY <1>1, <1>2, TypeCorrect, PTL DEF Spec
=============================================================================
