------------------------- MODULE SplitBrain_proofs -------------------------
(***************************************************************************)
(* Proof that pageservers that all take a shard for theirs do no harm: for *)
(* every number of pageservers, layers, attachments, crashes and failures, *)
(* no layer is deleted that the newest attachment, or the next one, refers *)
(* to, and no WAL is given up that they need.                              *)
(*                                                                         *)
(* The argument.  An index says which layers it refers to and which WAL it *)
(* covers.  Indexes are in remote storage, in uploads under way or left    *)
(* behind, and in the memory of pageservers: the references below, each    *)
(* with its generation.  A reference changes in its own generation only,   *)
(* and a new generation starts from the newest index.  So what holds of    *)
(* all references of the generations from some uploaded index on, up to g, *)
(* goes on to hold: that they do not refer to a layer (Unreferenced(g)),   *)
(* that they cover an LSN (Covered(g)).  A deletion of generation g is     *)
(* pushed when this holds up to g, and when g is confirmed to be the       *)
(* newest generation, it holds of all references there will ever be.       *)
(* DeletionQueue_proofs shows that the deletion queue executes and saves   *)
(* as validated nothing else.                                              *)
(***************************************************************************)
EXTENDS Attachment, DeletionQueue_proofs, FiniteSetTheorems

-----------------------------------------------------------------------------
(* The inductive invariant.                                                *)

Ref(g, i) == [gen |-> g, index |-> i]

\* The indexes of a pageserver: the next one, and the one being uploaded.
TenantRefs(t) ==
    (IF t.gen # 0 THEN {Ref(t.gen, t.dirty)} ELSE {})
    \cup (IF t.put.on THEN {Ref(t.gen, t.put.index)} ELSE {})

References ==
    {Ref(g, index[g]) : g \in found} \cup stray \cup UNION {TenantRefs(ps[n]) : n \in Nodes}

\* Layers that no reference of generations lo to g mentions.
Absent(k, lo, g) ==
    \A r \in References : lo <= r.gen /\ r.gen <= g => k \notin r.index.objs

Unreferenced(g) ==
    {k \in written : \E lo \in found : lo <= g /\ Absent(k, lo, g)}

\* LSNs that the references of generations lo to g reach.
Reached(lsn, lo, g) ==
    \A r \in References : lo <= r.gen /\ r.gen <= g => lsn <= r.index.lsn

Covered(g) ==
    {lsn \in 0..MaxLsn : \E lo \in found : lo <= g /\ Reached(lsn, lo, g)}

\* No generation will ever refer to these layers, or fall behind these LSNs.
Free == Unreferenced(MaxGen)
Safe == Covered(MaxGen)

\* All this as the deletion queues see it.
Surroundings ==
    [unref |-> [g \in Nat |-> Unreferenced(g)], free |-> Free,
     covered |-> [g \in Nat |-> Covered(g)], safe |-> Safe, last |-> db.gen]

\* What a pageserver has unlinked is in no index that it will upload.
TenantIsSafe(t, W) ==
    /\ t.put.on \/ t.dirty.objs # {} => t.gen # 0
    /\ ~t.up => t.gen = 0
    /\ t.unlinked \subseteq W \ t.dirty.objs
    /\ t.put.unlinked \subseteq W \ t.dirty.objs
    /\ t.put.unlinked \cap t.put.index.objs = {}
    /\ t.put.index.lsn <= t.dirty.lsn

PageserverIsSafe(t) == TenantIsSafe(t, written) /\ t.blocked \subseteq Unreferenced(t.gen)

\* Every generation in use has been issued, and belongs to one pageserver, which
\* may come back to it.  When it uploads an index, its earlier upload is done with.
UseInv ==
    /\ 1 \in found /\ found \subseteq 1..db.gen
    /\ \A x \in stray : x.gen <= db.gen
    /\ \A r \in requests : r.gen <= db.gen /\ (r.gen = db.gen => r.node = db.node)
    /\ \A n \in Nodes : ps[n].gen <= db.gen /\ (ps[n].gen = db.gen => n = db.node)
    /\ \A r, s \in requests : r.gen = s.gen => r.node = s.node
    /\ \A n \in Nodes : ps[n].gen # 0 =>
          /\ \A r \in requests : r.gen = ps[n].gen => r.node = n
          /\ \A m \in Nodes : ps[m].gen = ps[n].gen => m = n
    /\ \A n \in Nodes : ps[n].put.on => \A x \in stray : x.gen # ps[n].gen

\* Faults after which no node has to start.
Minor == {"io", "mode", "again", "reset"}

\* Generations are left for the restarts to come.
Down == {n \in Nodes : ~ps[n].up}

BudgetInv ==
    /\ budget \in [Faults \cup Limits -> Nat]
    /\ IsFiniteSet(Down)
    /\ db.gen + budget["crash"] + budget["lost"] + Cardinality(Down) <= budget["gen"]
    /\ budget["gen"] <= MaxGen /\ budget["lsn"] <= MaxLsn

TypeInv ==
    /\ db \in [gen : Gens, node : Nodes]
    /\ requests \subseteq [node : Nodes, gen : Gens, mode : Modes]
    /\ ps \in [Nodes -> PageserverType]
    /\ dq = [n \in Nodes |-> dq[n]]
    /\ objs \subseteq written /\ written \subseteq Objects
    /\ index \in [Gens -> Index]
    /\ found \subseteq Gens
    /\ stray \subseteq [gen : Gens, index : Index]
    /\ confirmed \in 0..MaxLsn /\ advertised \in 0..MaxLsn

SafeInv ==
    /\ \A r \in References : r.index.objs \subseteq written
    /\ written \ objs \subseteq Free
    /\ confirmed \in Safe
    /\ \A n \in Nodes : PageserverIsSafe(ps[n]) /\ QueueIsSafe(Objects, Surroundings, dq[n])

Inv == TypeInv /\ BudgetInv /\ UseInv /\ SafeInv

-----------------------------------------------------------------------------
(* References.                                                             *)

\* An index in r has come from the one in r0: in the same generation, or in an
\* older one with no uploaded index in between.
Inherits(r0, r) ==
    /\ r0.gen <= r.gen
    /\ \A lo \in found : lo <= r.gen => lo <= r0.gen
    /\ r.index.objs \subseteq r0.index.objs \cup (written' \ written)
    /\ r0.index.lsn <= r.index.lsn

Evolves ==
    /\ found \subseteq found' /\ written \subseteq written'
    /\ db.gen <= db'.gen
    /\ \A r \in References' : \E r0 \in References : Inherits(r0, r)

ReferenceType == [gen : Gens, index : Index]

\* Every reference is of a generation that has been issued.
LEMMA ReferencesAreIssued ==
  ASSUME Inv
  PROVE  /\ \A r \in References : r \in ReferenceType /\ r.gen <= db.gen
         /\ \A n \in Nodes : ps[n].gen # 0 => Ref(ps[n].gen, ps[n].dirty) \in References
         /\ \A g \in found : Ref(g, index[g]) \in References
  <1>1. TypeInv /\ UseInv /\ \A n \in Nodes : PageserverIsSafe(ps[n])
    BY DEF Inv, SafeInv
  <1>2. \A g \in found : Ref(g, index[g]) \in ReferenceType /\ Ref(g, index[g]).gen <= db.gen
    BY <1>1 DEF TypeInv, UseInv, Ref, ReferenceType, Gens
  <1>3. \A x \in stray : x \in ReferenceType /\ x.gen <= db.gen
    BY <1>1 DEF TypeInv, UseInv, ReferenceType
  <1>4. ASSUME NEW n \in Nodes, NEW r \in TenantRefs(ps[n])
        PROVE  r \in ReferenceType /\ r.gen <= db.gen
    <2>1. /\ ps[n].gen \in 0..MaxGen /\ ps[n].dirty \in Index /\ ps[n].put.index \in Index
          /\ ps[n].gen <= db.gen /\ (ps[n].put.on => ps[n].gen # 0)
      BY <1>1 DEF TypeInv, UseInv, PageserverType, PageserverIsSafe, TenantIsSafe
    <2> QED
      BY <2>1, BoundsAssumption DEF TenantRefs, Ref, ReferenceType, Gens
  <1>5. \A n \in Nodes : ps[n].gen # 0 => Ref(ps[n].gen, ps[n].dirty) \in TenantRefs(ps[n])
    BY DEF TenantRefs
  <1> QED
    BY <1>2, <1>3, <1>4, <1>5 DEF References

\* download_generation_object finds the newest index of a generation up to g.
LEMMA IndexForIsNewest ==
  ASSUME TypeInv, UseInv, NEW g \in Nat \ {0}
  PROVE  \E h \in found : /\ h <= g /\ (\A k \in found : k <= g => k <= h)
                          /\ IndexFor(g) = index[h]
  <1> DEFINE S == {h \in found : h <= g}
  <1>1. found \subseteq Nat /\ 1 \in found
    BY BoundsAssumption DEF TypeInv, UseInv, Gens
  <1>2. S \subseteq Nat /\ \A s \in S : s <= g
    BY <1>1
  <1>3. 1 \in S
    BY <1>1
  <1>4. \E m \in S : \A s \in S : s <= m
    BY <1>2, <1>3, Largest
  <1>5. \E h \in found : h <= g /\ \A k \in found : k <= g => k <= h
    BY <1>4
  <1> QED
    BY <1>5 DEF IndexFor

\* What is unreferenced, or covered, in the newest generation, is so for good.
LEMMA NewestIsAll ==
  ASSUME Inv, NEW g \in Nat, db.gen <= g
  PROVE  Unreferenced(db.gen) \subseteq Unreferenced(g) /\ Covered(db.gen) \subseteq Covered(g)
  <1>1. found \subseteq Nat /\ db.gen \in Nat /\ \A r \in References : r.gen \in Nat /\ r.gen <= db.gen
    BY ReferencesAreIssued, BoundsAssumption DEF Inv, TypeInv, Gens, ReferenceType
  <1>2. \A lo \in found : lo <= db.gen => lo <= g
    BY <1>1
  <1>3. \A k, lo : Absent(k, lo, db.gen) => Absent(k, lo, g)
    BY <1>1 DEF Absent
  <1>4. \A k, lo : Reached(k, lo, db.gen) => Reached(k, lo, g)
    BY <1>1 DEF Reached
  <1> QED
    BY <1>2, <1>3, <1>4 DEF Unreferenced, Covered

\* What is unreferenced, or covered, remains so.
LEMMA EvolvesKeeps ==
  ASSUME Inv, TypeInv', Evolves, NEW g \in Nat
  PROVE  Unreferenced(g) \subseteq Unreferenced(g)' /\ Covered(g) \subseteq Covered(g)'
  <1>1. \A r \in References : r.gen \in Nat /\ r.index.lsn \in Nat
    BY ReferencesAreIssued, BoundsAssumption DEF Gens, ReferenceType, Index
  <1>2. found \subseteq Nat
    BY BoundsAssumption DEF Inv, TypeInv, Gens
  <1>3. \A r \in References' : r.gen \in Nat /\ r.index.lsn \in Nat
    <2> SUFFICES ASSUME NEW r \in References' PROVE r.gen \in Nat /\ r.index.lsn \in Nat
      OBVIOUS
    <2>1. ASSUME NEW h \in found', r = Ref(h, index'[h]) PROVE r.gen \in Nat /\ r.index.lsn \in Nat
      <3>1. h \in Nat /\ index'[h].lsn \in Nat
        BY BoundsAssumption DEF TypeInv, Index, Gens
      <3> QED
        BY <2>1, <3>1 DEF Ref
    <2>2. CASE r \in stray'
      BY <2>2, BoundsAssumption DEF TypeInv, Index, Gens
    <2>3. ASSUME NEW n \in Nodes, r \in TenantRefs(ps'[n]) PROVE r.gen \in Nat /\ r.index.lsn \in Nat
      <3>1. ps'[n].gen \in Nat /\ ps'[n].dirty.lsn \in Nat /\ ps'[n].put.index.lsn \in Nat
        BY BoundsAssumption DEF TypeInv, PageserverType, Index
      <3> QED
        BY <2>3, <3>1 DEF TenantRefs, Ref
    <2> QED
      BY <2>1, <2>2, <2>3 DEF References
  <1>4. ASSUME NEW k \in written, NEW lo \in found, Absent(k, lo, g) PROVE Absent(k, lo, g)'
    <2> SUFFICES ASSUME NEW r \in References', lo <= r.gen, r.gen <= g
                 PROVE  k \notin r.index.objs
      BY DEF Absent
    <2>1. PICK r0 \in References : Inherits(r0, r)
      BY DEF Evolves
    <2>2. lo <= r0.gen /\ r0.gen <= g
      BY <1>1, <1>2, <1>3, <2>1 DEF Inherits
    <2> QED
      BY <1>4, <2>1, <2>2 DEF Absent, Inherits
  <1>5. ASSUME NEW k \in 0..MaxLsn, NEW lo \in found, Reached(k, lo, g) PROVE Reached(k, lo, g)'
    <2> SUFFICES ASSUME NEW r \in References', lo <= r.gen, r.gen <= g
                 PROVE  k <= r.index.lsn
      BY DEF Reached
    <2>1. PICK r0 \in References : Inherits(r0, r)
      BY DEF Evolves
    <2>2. lo <= r0.gen /\ r0.gen <= g
      BY <1>1, <1>2, <1>3, <2>1 DEF Inherits
    <2>3. k <= r0.index.lsn
      BY <1>5, <2>2 DEF Reached
    <2>4. k \in Nat /\ r0.index.lsn <= r.index.lsn
      BY <2>1, BoundsAssumption DEF Inherits
    <2> QED
      BY <1>1, <1>3, <2>3, <2>4
  <1> QED
    BY <1>4, <1>5 DEF Unreferenced, Covered, Evolves
\* What the queues see changes in one direction.
LEMMA SurroundingsImprove ==
  ASSUME Inv, TypeInv', Evolves
  PROVE  /\ Surroundings \in View(Objects) /\ Surroundings' \in View(Objects)
         /\ Better(Surroundings, Surroundings')
  <1>1. MaxGen \in Nat /\ MaxLsn \in Nat /\ Gens \subseteq Nat
    BY BoundsAssumption DEF Gens
  <1>2. Surroundings \in View(Objects)
    <2>1. db.gen \in Nat /\ written \subseteq Objects
      BY <1>1 DEF Inv, TypeInv
    <2>2. \A g : Unreferenced(g) \subseteq Objects /\ Covered(g) \subseteq Nat
      BY <1>1, <2>1 DEF Unreferenced, Covered
    <2> QED
      BY <2>1, <2>2 DEF Surroundings, View, Free, Safe
  <1>3. Surroundings' \in View(Objects)
    <2>1. db'.gen \in Nat /\ written' \subseteq Objects
      BY <1>1 DEF TypeInv
    <2>2. \A g : Unreferenced(g)' \subseteq Objects /\ Covered(g)' \subseteq Nat
      BY <1>1, <2>1 DEF Unreferenced, Covered
    <2> QED
      BY <2>1, <2>2 DEF Surroundings, View, Free, Safe
  <1>4. \A g \in Nat : Unreferenced(g) \subseteq Unreferenced(g)' /\ Covered(g) \subseteq Covered(g)'
    BY EvolvesKeeps
  <1>5. Better(Surroundings, Surroundings')
    BY <1>1, <1>4 DEF Better, Surroundings, Free, Safe, Evolves
  <1> QED
    BY <1>2, <1>3, <1>5

\* A step in which the references evolve, and one pageserver works.
LEMMA SafeStep ==
  ASSUME Inv, TypeInv', BudgetInv', UseInv', Evolves,
         NEW n \in Nodes, \A m \in Nodes \ {n} : ps'[m] = ps[m] /\ dq'[m] = dq[m],
         PageserverIsSafe(ps[n])',
         QueueIsSafe(Objects, Surroundings', dq'[n]),
         written' \ objs' \subseteq Free, confirmed' \in Safe
  PROVE  Inv'
  <1>1. /\ Surroundings \in View(Objects) /\ Surroundings' \in View(Objects)
        /\ Better(Surroundings, Surroundings')
    BY SurroundingsImprove
  <1>2. \A g \in Nat : Unreferenced(g) \subseteq Unreferenced(g)' /\ Covered(g) \subseteq Covered(g)'
    BY EvolvesKeeps
  <1>3. Free \subseteq Free' /\ Safe \subseteq Safe'
    BY <1>2, BoundsAssumption DEF Free, Safe
  <1>4. \A r \in References' : r.index.objs \subseteq written'
    BY DEF Evolves, Inherits, Inv, SafeInv
  <1>5. ASSUME NEW m \in Nodes PROVE PageserverIsSafe(ps[m])'
    <2>1. CASE m = n
      BY <2>1
    <2>2. CASE m # n
      <3>1. ps'[m] = ps[m] /\ PageserverIsSafe(ps[m]) /\ ps[m].gen \in Nat /\ written \subseteq written'
        BY <2>2, BoundsAssumption DEF Inv, SafeInv, TypeInv, PageserverType, Evolves
      <3>2. Unreferenced(ps[m].gen) \subseteq Unreferenced(ps[m].gen)'
        BY <1>2, <3>1
      <3> QED
        BY <3>1, <3>2 DEF PageserverIsSafe, TenantIsSafe
    <2> QED
      BY <2>1, <2>2
  <1>6. ASSUME NEW m \in Nodes PROVE QueueIsSafe(Objects, Surroundings', dq'[m])
    <2>1. CASE m = n
      BY <2>1
    <2>2. CASE m # n
      <3>1. dq'[m] = dq[m] /\ QueueIsSafe(Objects, Surroundings, dq[m])
        BY <2>2 DEF Inv, SafeInv
      <3> QED
        BY <1>1, <3>1, QueueKept
    <2> QED
      BY <2>1, <2>2
  <1>7. SafeInv'
    BY <1>3, <1>4, <1>5, <1>6 DEF SafeInv
  <1> QED
    BY <1>7 DEF Inv
-----------------------------------------------------------------------------
(* Kinds of steps.                                                         *)

\* An index comes from itself.
LEMMA SelfInherits ==
  ASSUME Inv, NEW r \in References
  PROVE  Inherits(r, r)
  <1>1. r.gen \in Nat /\ r.index.lsn \in Nat
    BY ReferencesAreIssued, BoundsAssumption DEF Gens, ReferenceType, Index
  <1> QED
    BY <1>1 DEF Inherits

\* Steps that change no index.
LEMMA QuietEvolves ==
  ASSUME Inv, UNCHANGED <<ps, index, found, stray, written>>, db.gen <= db'.gen
  PROVE  Evolves
  <1>1. References' = References
    BY DEF References
  <1> QED
    BY <1>1, SelfInherits DEF Evolves

\* Steps that change the indexes of one pageserver.
LEMMA TenantEvolves ==
  ASSUME Inv, NEW n \in Nodes, NEW t, ps' = [ps EXCEPT ![n] = t], UNCHANGED <<index, found>>,
         stray' \subseteq stray \cup TenantRefs(ps[n]),
         written \subseteq written', db.gen <= db'.gen,
         \A r \in TenantRefs(t) : \E r0 \in References : Inherits(r0, r)
  PROVE  Evolves
  <1>1. ps \in [Nodes -> PageserverType]
    BY DEF Inv, TypeInv
  <1>2. ASSUME NEW r \in References' PROVE \E r0 \in References : Inherits(r0, r)
    <2>1. CASE r \in {Ref(g, index[g]) : g \in found}
      BY <2>1, SelfInherits DEF References
    <2>2. CASE r \in stray'
      BY <2>2, SelfInherits DEF References
    <2>3. ASSUME NEW m \in Nodes, r \in TenantRefs(ps'[m]) PROVE \E r0 \in References : Inherits(r0, r)
      <3>1. CASE m = n
        BY <1>1, <2>3, <3>1
      <3>2. CASE m # n
        <4>1. r \in References
          BY <1>1, <2>3, <3>2 DEF References
        <4> QED
          BY <4>1, SelfInherits
      <3> QED
        BY <3>1, <3>2
    <2> QED
      BY <2>1, <2>2, <2>3 DEF References
  <1> QED
    BY <1>2 DEF Evolves

\* Faults that are not crashes take no generation.
LEMMA BudgetKept ==
  ASSUME TypeInv, BudgetInv, db'.gen = db.gen, Down' = Down,
         UNCHANGED budget \/ \E f \in Minor : Spend(f)
  PROVE  BudgetInv'
  <1>1. CASE UNCHANGED budget
    BY <1>1 DEF BudgetInv
  <1>2. ASSUME NEW f \in Minor, Spend(f) PROVE BudgetInv'
    <2>1. /\ budget' \in [Faults \cup Limits -> Nat]
          /\ \A x \in {"crash", "lost", "gen", "lsn"} : budget'[x] = budget[x]
      BY <1>2 DEF BudgetInv, Spend, Faults, Limits, Minor
    <2> QED
      BY <2>1 DEF BudgetInv
  <1> QED
    BY <1>1, <1>2

\* Steps that keep every generation where it is.
LEMMA UseKept ==
  ASSUME UseInv, UNCHANGED db, requests' \subseteq requests, stray' \subseteq stray,
         \A m \in Nodes : ps'[m].gen = ps[m].gen,
         \A m \in Nodes : ps'[m].put.on =>
             ps[m].put.on \/ \A x \in stray' : x.gen # ps[m].gen,
         found \subseteq found', found' \subseteq 1..db.gen
  PROVE  UseInv'
  BY DEF UseInv

\* Steps that end an attachment, whose index upload may go on, and may begin
\* another one in a generation that the pageserver has been given.
LEMMA UseMoved ==
  ASSUME TypeInv, UseInv, UNCHANGED <<db, found>>, requests' \subseteq requests,
         NEW n \in Nodes, \A m \in Nodes \ {n} : ps'[m] = ps[m], ~ps'[n].put.on,
         \/ ps'[n].gen \in {0, ps[n].gen}
         \/ \E r \in requests : r.node = n /\ r.gen = ps'[n].gen,
         \A x \in stray' \ stray : ps[n].gen # 0 /\ x.gen = ps[n].gen
  PROVE  UseInv'
  <1>1. \A x \in stray' : x.gen <= db.gen
    BY DEF UseInv
  <1>2. db.gen \in Nat /\ db.gen # 0 /\ \A r \in requests : r.gen # 0
    BY BoundsAssumption DEF TypeInv, Gens
  <1>3. \A m \in Nodes : ps'[m].gen <= db.gen /\ (ps'[m].gen = db.gen => m = db.node)
    BY <1>2 DEF UseInv
  <1>4. ASSUME NEW m \in Nodes, ps'[m].gen # 0
        PROVE  /\ \A r \in requests : r.gen = ps'[m].gen => r.node = m
               /\ \A k \in Nodes : ps'[k].gen = ps'[m].gen => k = m
    BY <1>2, <1>4 DEF UseInv
  <1>5. ASSUME NEW m \in Nodes, ps'[m].put.on, NEW x \in stray' PROVE x.gen # ps'[m].gen
    BY <1>5 DEF UseInv
  <1> QED
    BY <1>1, <1>3, <1>4, <1>5 DEF UseInv

\* Steps of a deletion queue alone.
LEMMA QueueStep ==
  ASSUME Inv, NEW n \in Nodes, NEW q, QueueIsSafe(Objects, Surroundings, q),
         dq' = [dq EXCEPT ![n] = q],
         UNCHANGED <<db, requests, ps, written, index, found, stray>>,
         UNCHANGED budget \/ Spend("io"),
         objs' \subseteq written, written \ objs' \subseteq Free,
         confirmed' \in Safe, advertised' \in 0..MaxLsn
  PROVE  Inv'
  <1>1. TypeInv /\ BudgetInv /\ UseInv /\ SafeInv
    BY DEF Inv
  <1>2. q \in QueueType(Objects) /\ Safe \subseteq 0..MaxLsn
    BY DEF QueueIsSafe, Safe, Covered
  <1>3. TypeInv'
    BY <1>1, <1>2 DEF TypeInv
  <1>4. BudgetInv'
    BY <1>1, BudgetKept DEF Down, Minor
  <1>5. UseInv'
    BY <1>1 DEF UseInv
  <1>6. Evolves
    BY <1>1, QuietEvolves, BoundsAssumption DEF TypeInv, Gens
  <1>7. QueueIsSafe(Objects, Surroundings', dq'[n]) /\ dq'[n] = q
    <2>1. dq'[n] = q
      BY <1>1 DEF TypeInv
    <2> QED
      BY <1>3, <1>6, <2>1, SurroundingsImprove, QueueKept
  <1>8. PageserverIsSafe(ps[n])'
    <2>1. PageserverIsSafe(ps[n])
      BY <1>1 DEF SafeInv
    <2>2. \A g : Unreferenced(g)' = Unreferenced(g)
      BY DEF Unreferenced, Absent, References
    <2> QED
      BY <2>1, <2>2 DEF PageserverIsSafe, TenantIsSafe
  <1>9. \A m \in Nodes \ {n} : ps'[m] = ps[m] /\ dq'[m] = dq[m]
    BY <1>1 DEF TypeInv
  <1> QED
    BY <1>3, <1>4, <1>5, <1>6, <1>7, <1>8, <1>9, SafeStep
\* Steps of an attached pageserver on its next index.
LEMMA TenantStep ==
  ASSUME Inv, NEW n \in Nodes, NEW t \in PageserverType, ps' = [ps EXCEPT ![n] = t],
         t.gen = ps[n].gen, t.up = ps[n].up, t.blocked = ps[n].blocked,
         UNCHANGED <<db, requests, dq, index, found, budget, confirmed, advertised>>,
         stray' \subseteq stray,
         t.put.on => ps[n].put.on \/ \A x \in stray' : x.gen # ps[n].gen,
         written \subseteq written', written' \subseteq Objects,
         objs' \subseteq written', written' \ objs' \subseteq Free,
         TenantIsSafe(t, written'),
         \A r \in TenantRefs(t) : \E r0 \in References : Inherits(r0, r)
  PROVE  Inv'
  <1>1. TypeInv /\ BudgetInv /\ UseInv /\ SafeInv
    BY DEF Inv
  <1>2. ps'[n] = t /\ \A m \in Nodes \ {n} : ps'[m] = ps[m] /\ dq'[m] = dq[m]
    BY <1>1 DEF TypeInv
  <1>3. TypeInv'
    BY <1>1 DEF TypeInv
  <1>4. BudgetInv'
    <2>1. Down' = Down
      BY <1>2 DEF Down
    <2> QED
      BY <1>1, <2>1, BudgetKept
  <1>5. UseInv'
    <2>1. /\ \A m \in Nodes : ps'[m].gen = ps[m].gen
          /\ \A m \in Nodes : ps'[m].put.on =>
                ps[m].put.on \/ \A x \in stray' : x.gen # ps[m].gen
      BY <1>2
    <2> QED
      BY <1>1, <2>1, UseKept DEF UseInv
  <1>6. Evolves
    <2>1. db.gen <= db'.gen
      BY <1>1, BoundsAssumption DEF TypeInv, Gens
    <2> QED
      BY <2>1, TenantEvolves
  <1>7. QueueIsSafe(Objects, Surroundings', dq'[n])
    <2>1. QueueIsSafe(Objects, Surroundings, dq[n])
      BY <1>1 DEF SafeInv
    <2> QED
      BY <1>3, <1>6, <2>1, SurroundingsImprove, QueueKept
  <1>8. PageserverIsSafe(ps[n])'
    <2>1. ps[n].blocked \subseteq Unreferenced(ps[n].gen) /\ ps[n].gen \in Nat
      BY <1>1, BoundsAssumption DEF SafeInv, PageserverIsSafe, TypeInv, PageserverType
    <2>2. Unreferenced(ps[n].gen) \subseteq Unreferenced(ps[n].gen)'
      BY <1>2, <1>3, <1>6, <2>1, EvolvesKeeps
    <2> QED
      BY <1>2, <2>1, <2>2 DEF PageserverIsSafe
  <1>9. confirmed' \in Safe
    BY <1>1 DEF SafeInv
  <1> QED
    BY <1>2, <1>3, <1>4, <1>5, <1>6, <1>7, <1>8, <1>9, SafeStep
-----------------------------------------------------------------------------
(* An attached pageserver.                                                 *)

\* What is known of a pageserver.
LEMMA PageserverFacts ==
  ASSUME Inv, NEW n \in Nodes
  PROVE  /\ ps[n] \in PageserverType /\ TenantIsSafe(ps[n], written)
         /\ ps[n].gen \in Nat /\ ps[n].gen <= db.gen /\ ps[n].gen <= MaxGen
         /\ ps[n].blocked \subseteq Unreferenced(ps[n].gen)
         /\ ps[n].dirty \in Index /\ ps[n].dirty.objs \subseteq Objects
         /\ ps[n].dirty.lsn \in 0..MaxLsn
         /\ ps[n].put.index \in Index /\ ps[n].put.index.lsn \in 0..MaxLsn
         /\ ps[n].gen # 0 => Ref(ps[n].gen, ps[n].dirty) \in References
         /\ ps[n].put.on => Ref(ps[n].gen, ps[n].put.index) \in References
         /\ ps[n].dirty.objs \subseteq written
  <1>1. /\ TypeInv /\ UseInv /\ PageserverIsSafe(ps[n])
        /\ \A r \in References : r.index.objs \subseteq written
    BY DEF Inv, SafeInv
  <1>2. ps[n] \in PageserverType /\ ps[n].gen \in Nat /\ ps[n].gen <= db.gen /\ ps[n].gen <= MaxGen
    BY <1>1, BoundsAssumption DEF TypeInv, UseInv, PageserverType
  <1>3. /\ ps[n].dirty \in Index /\ ps[n].dirty.objs \subseteq Objects
        /\ ps[n].dirty.lsn \in 0..MaxLsn
        /\ ps[n].put.index \in Index /\ ps[n].put.index.lsn \in 0..MaxLsn
    BY <1>2 DEF PageserverType, Index
  <1>4. /\ ps[n].gen # 0 => Ref(ps[n].gen, ps[n].dirty) \in References
        /\ ps[n].put.on => Ref(ps[n].gen, ps[n].put.index) \in References
    <2>1. TenantRefs(ps[n]) \subseteq References
      BY DEF References
    <2> QED
      BY <2>1 DEF TenantRefs
  <1>5. ps[n].dirty.objs \subseteq written
    <2>1. CASE ps[n].gen = 0
      BY <1>1, <2>1 DEF PageserverIsSafe, TenantIsSafe
    <2>2. CASE ps[n].gen # 0
      BY <1>1, <1>4, <2>2 DEF Ref
    <2> QED
      BY <2>1, <2>2
  <1> QED
    BY <1>1, <1>2, <1>3, <1>4, <1>5 DEF PageserverIsSafe

\* A pageserver in the same generation whose next index comes from the one it had.
LEMMA DirtyInherits ==
  ASSUME Inv, NEW n \in Nodes, NEW t, ps[n].gen # 0, t.gen = ps[n].gen, t.put = ps[n].put,
         t.dirty.objs \subseteq ps[n].dirty.objs \cup (written' \ written),
         ps[n].dirty.lsn <= t.dirty.lsn
  PROVE  \A r \in TenantRefs(t) : \E r0 \in References : Inherits(r0, r)
  <1>1. /\ Ref(ps[n].gen, ps[n].dirty) \in References /\ ps[n].gen \in Nat
        /\ ps[n].put.on => Ref(ps[n].gen, ps[n].put.index) \in References
    BY PageserverFacts
  <1>2. Inherits(Ref(ps[n].gen, ps[n].dirty), Ref(t.gen, t.dirty))
    BY <1>1 DEF Inherits, Ref
  <1>3. t.put.on => Inherits(Ref(t.gen, t.put.index), Ref(t.gen, t.put.index))
    BY <1>1, SelfInherits
  <1> QED
    BY <1>1, <1>2, <1>3 DEF TenantRefs

\* A layer is uploaded: it is new, so that nobody has deleted it.
LEMMA UploadLayerStep ==
  ASSUME Inv, NEW n \in Nodes, NEW o \in Objects, UploadLayer(n, o)
  PROVE  Inv'
  <1> DEFINE i == [ps[n].dirty EXCEPT !.objs = @ \cup {o}]
             t == [ps[n] EXCEPT !.dirty = i]
  <1>1. ps[n] \in PageserverType /\ TenantIsSafe(ps[n], written) /\ ps[n].dirty \in Index
        /\ ps[n].dirty.lsn \in Nat
    BY PageserverFacts, BoundsAssumption
  <1>2. /\ ps[n].gen # 0 /\ o \notin written
        /\ written' = written \cup {o} /\ objs' = objs \cup {o}
        /\ ps' = [ps EXCEPT ![n] = t]
        /\ UNCHANGED <<db, requests, dq, index, found, stray, budget, confirmed, advertised>>
    BY DEF UploadLayer
  <1>3. i \in Index /\ i.objs = ps[n].dirty.objs \cup {o} /\ i.lsn = ps[n].dirty.lsn
    BY <1>1 DEF Index
  <1> HIDE DEF i
  <1>4. t \in PageserverType
    BY <1>1, <1>3 DEF PageserverType
  <1>5. /\ t.gen = ps[n].gen /\ t.up = ps[n].up /\ t.blocked = ps[n].blocked
        /\ t.dirty = i /\ t.put = ps[n].put /\ t.unlinked = ps[n].unlinked
    BY <1>1 DEF PageserverType
  <1> HIDE DEF t
  <1>6. TenantIsSafe(t, written')
    BY <1>1, <1>2, <1>3, <1>5 DEF TenantIsSafe
  <1>7. \A r \in TenantRefs(t) : \E r0 \in References : Inherits(r0, r)
    BY <1>1, <1>2, <1>3, <1>5, DirtyInherits
  <1>8. /\ written \subseteq written' /\ written' \subseteq Objects
        /\ objs' \subseteq written' /\ written' \ objs' \subseteq Free
    BY <1>2 DEF Inv, TypeInv, SafeInv
  <1> QED
    BY <1>2, <1>4, <1>5, <1>6, <1>7, <1>8, TenantStep

\* WAL is ingested.
LEMMA AdvanceLsnStep ==
  ASSUME Inv, NEW n \in Nodes, AdvanceLsn(n)
  PROVE  Inv'
  <1> DEFINE i == [ps[n].dirty EXCEPT !.lsn = @ + 1]
             t == [ps[n] EXCEPT !.dirty = i]
  <1>1. ps[n] \in PageserverType /\ TenantIsSafe(ps[n], written) /\ ps[n].dirty \in Index
        /\ ps[n].dirty.lsn \in Nat /\ ps[n].put.index.lsn \in Nat
    BY PageserverFacts, BoundsAssumption
  <1>2. /\ ps[n].gen # 0 /\ ps[n].dirty.lsn < budget["lsn"]
        /\ ps' = [ps EXCEPT ![n] = t]
        /\ UNCHANGED <<db, requests, dq, objs, written, index, found, stray, budget,
                       confirmed, advertised>>
    BY DEF AdvanceLsn
  <1>3. ps[n].dirty.lsn + 1 \in 0..MaxLsn
    BY <1>1, <1>2, BoundsAssumption DEF Inv, BudgetInv, Faults, Limits
  <1>4. i \in Index /\ i.objs = ps[n].dirty.objs /\ i.lsn = ps[n].dirty.lsn + 1
    BY <1>1, <1>3 DEF Index
  <1> HIDE DEF i
  <1>5. t \in PageserverType
    BY <1>1, <1>4 DEF PageserverType
  <1>6. /\ t.gen = ps[n].gen /\ t.up = ps[n].up /\ t.blocked = ps[n].blocked
        /\ t.dirty = i /\ t.put = ps[n].put /\ t.unlinked = ps[n].unlinked
    BY <1>1 DEF PageserverType
  <1> HIDE DEF t
  <1>7. TenantIsSafe(t, written')
    BY <1>1, <1>2, <1>4, <1>6 DEF TenantIsSafe
  <1>8. \A r \in TenantRefs(t) : \E r0 \in References : Inherits(r0, r)
    BY <1>1, <1>2, <1>4, <1>6, DirtyInherits
  <1>9. /\ written \subseteq written' /\ written' \subseteq Objects
        /\ objs' \subseteq written' /\ written' \ objs' \subseteq Free
    BY <1>2 DEF Inv, TypeInv, SafeInv
  <1> QED
    BY <1>2, <1>5, <1>6, <1>7, <1>8, <1>9, TenantStep

\* GC and compaction unlink a layer.
LEMMA UnlinkLayerStep ==
  ASSUME Inv, NEW n \in Nodes, NEW o \in Objects, UnlinkLayer(n, o)
  PROVE  Inv'
  <1> DEFINE i == [ps[n].dirty EXCEPT !.objs = @ \ {o}]
             unlinked == ps[n].unlinked \cup {o}
             t == [ps[n] EXCEPT !.dirty = i, !.unlinked = unlinked]
  <1>1. ps[n] \in PageserverType /\ TenantIsSafe(ps[n], written) /\ ps[n].dirty \in Index
        /\ ps[n].dirty.lsn \in Nat /\ ps[n].dirty.objs \subseteq written
    BY PageserverFacts, BoundsAssumption
  <1>2. /\ o \in ps[n].dirty.objs
        /\ ps' = [ps EXCEPT ![n] = t]
        /\ UNCHANGED <<db, requests, dq, objs, written, index, found, stray, budget,
                       confirmed, advertised>>
    BY <1>1 DEF UnlinkLayer, Inv, TypeInv, PageserverType
  <1>3. i \in Index /\ i.objs = ps[n].dirty.objs \ {o} /\ i.lsn = ps[n].dirty.lsn
    BY <1>1 DEF Index
  <1>4. unlinked \subseteq Objects /\ unlinked \subseteq written \ i.objs
    BY <1>1, <1>2, <1>3 DEF TenantIsSafe, PageserverType
  <1> HIDE DEF i, unlinked
  <1>5. t \in PageserverType
    BY <1>1, <1>3, <1>4 DEF PageserverType
  <1>6. /\ t.gen = ps[n].gen /\ t.up = ps[n].up /\ t.blocked = ps[n].blocked
        /\ t.dirty = i /\ t.put = ps[n].put /\ t.unlinked = unlinked
    BY <1>1 DEF PageserverType
  <1> HIDE DEF t
  <1>7. TenantIsSafe(t, written') /\ ps[n].gen # 0
    BY <1>1, <1>2, <1>3, <1>4, <1>6 DEF TenantIsSafe
  <1>8. \A r \in TenantRefs(t) : \E r0 \in References : Inherits(r0, r)
    BY <1>1, <1>2, <1>3, <1>6, <1>7, DirtyInherits
  <1>9. /\ written \subseteq written' /\ written' \subseteq Objects
        /\ objs' \subseteq written' /\ written' \ objs' \subseteq Free
    BY <1>2 DEF Inv, TypeInv, SafeInv
  <1> QED
    BY <1>2, <1>5, <1>6, <1>7, <1>8, <1>9, TenantStep

\* The next index is uploaded, and takes the unlinked layers with it.
LEMMA StartIndexUploadStep ==
  ASSUME Inv, NEW n \in Nodes, StartIndexUpload(n)
  PROVE  Inv'
  <1> DEFINE put == [on |-> TRUE, index |-> ps[n].dirty, unlinked |-> ps[n].unlinked]
             t == [ps[n] EXCEPT !.put = put, !.unlinked = {}]
  <1>1. /\ ps[n] \in PageserverType /\ TenantIsSafe(ps[n], written) /\ ps[n].dirty \in Index
        /\ ps[n].dirty.lsn \in Nat
    BY PageserverFacts, BoundsAssumption
  <1>2. /\ ps[n].gen # 0
        /\ ps' = [ps EXCEPT ![n] = t]
        /\ stray' = {x \in stray : x.gen # ps[n].gen}
        /\ UNCHANGED <<db, requests, dq, objs, written, index, found, budget,
                       confirmed, advertised>>
    BY <1>1 DEF StartIndexUpload, Inv, TypeInv, PageserverType
  <1>3. /\ put \in [on : BOOLEAN, index : Index, unlinked : SUBSET Objects]
        /\ put.index = ps[n].dirty /\ put.unlinked = ps[n].unlinked
    BY <1>1 DEF PageserverType
  <1> HIDE DEF put
  <1>4. t \in PageserverType
    BY <1>1, <1>3 DEF PageserverType
  <1>5. /\ t.gen = ps[n].gen /\ t.up = ps[n].up /\ t.blocked = ps[n].blocked
        /\ t.dirty = ps[n].dirty /\ t.put = put /\ t.unlinked = {}
    BY <1>1 DEF PageserverType
  <1> HIDE DEF t
  <1>6. TenantIsSafe(t, written')
    BY <1>1, <1>2, <1>3, <1>5 DEF TenantIsSafe
  <1>7. \A r \in TenantRefs(t) : \E r0 \in References : Inherits(r0, r)
    <2>1. \A r \in TenantRefs(t) : r = Ref(ps[n].gen, ps[n].dirty)
      BY <1>3, <1>5 DEF TenantRefs
    <2>2. Ref(ps[n].gen, ps[n].dirty) \in References
      BY <1>2, PageserverFacts
    <2> QED
      BY <2>1, <2>2, SelfInherits
  <1>8. /\ written \subseteq written' /\ written' \subseteq Objects
        /\ objs' \subseteq written' /\ written' \ objs' \subseteq Free
    BY <1>2 DEF Inv, TypeInv, SafeInv
  <1> QED
    BY <1>2, <1>4, <1>5, <1>6, <1>7, <1>8, TenantStep
\* Uploads that reach the remote storage make no new reference.
LEMMA FewerEvolves ==
  ASSUME Inv, References' \subseteq References, found \subseteq found', UNCHANGED <<db, written>>
  PROVE  Evolves
  <1>1. db.gen <= db'.gen
    BY BoundsAssumption DEF Inv, TypeInv, Gens
  <1> QED
    BY <1>1, SelfInherits DEF Evolves

\* Steps that change no pageserver.
LEMMA QuietStep ==
  ASSUME Inv, TypeInv', BudgetInv', UseInv', Evolves,
         UNCHANGED <<ps, dq, objs, written, confirmed>>
  PROVE  Inv'
  <1>1. First \in Nodes
    BY BoundsAssumption
  <1>2. SafeInv
    BY DEF Inv
  <1>3. QueueIsSafe(Objects, Surroundings', dq'[First])
    BY <1>1, <1>2, SurroundingsImprove, QueueKept DEF SafeInv
  <1>4. PageserverIsSafe(ps[First])'
    <2>1. PageserverIsSafe(ps[First]) /\ ps[First].gen \in Nat
      BY <1>1, PageserverFacts DEF PageserverIsSafe
    <2>2. Unreferenced(ps[First].gen) \subseteq Unreferenced(ps[First].gen)'
      BY <2>1, EvolvesKeeps
    <2> QED
      BY <2>1, <2>2 DEF PageserverIsSafe
  <1> QED
    BY <1>1, <1>2, <1>3, <1>4, SafeStep DEF SafeInv

\* An index upload of a process that is gone lands in its own generation.
LEMMA LandStrayStep ==
  ASSUME Inv, NEW x \in stray, LandStray(x)
  PROVE  Inv'
  <1>1. TypeInv /\ BudgetInv /\ UseInv
    BY DEF Inv
  <1>2. /\ x.gen \in Gens /\ x.index \in Index /\ x = Ref(x.gen, x.index)
        /\ x.gen \in 1..db.gen /\ db.gen \in Nat
    BY <1>1, BoundsAssumption DEF TypeInv, UseInv, Gens, Ref
  <1>3. TypeInv'
    BY <1>1, <1>2 DEF LandStray, TypeInv
  <1>4. BudgetInv'
    BY <1>1, BudgetKept DEF LandStray, Down
  <1>5. UseInv'
    <2>1. found' \subseteq 1..db.gen
      BY <1>1, <1>2 DEF LandStray, UseInv
    <2> QED
      BY <1>1, <2>1, UseKept DEF LandStray
  <1>6. References' \subseteq References
    <2>1. ASSUME NEW g \in found' PROVE Ref(g, index'[g]) \in References
      <3>1. CASE g = x.gen
        BY <1>1, <1>2, <3>1 DEF LandStray, TypeInv, References
      <3>2. CASE g # x.gen
        BY <1>1, <3>2 DEF LandStray, TypeInv, References
      <3> QED
        BY <3>1, <3>2
    <2>2. stray' \subseteq References /\ UNCHANGED ps
      BY DEF LandStray, References
    <2> QED
      BY <2>1, <2>2 DEF References
  <1>7. Evolves
    BY <1>6, FewerEvolves DEF LandStray
  <1> QED
    BY <1>3, <1>4, <1>5, <1>7, QuietStep DEF LandStray
\* Steps of a pageserver in its generation that may push to its queue.
LEMMA PushStep ==
  ASSUME Inv, NEW n \in Nodes, NEW t \in PageserverType, ps' = [ps EXCEPT ![n] = t],
         t.gen = ps[n].gen, t.up = ps[n].up,
         NEW q, dq' = [dq EXCEPT ![n] = q],
         t.put.on => ps[n].put.on,
         UNCHANGED <<db, objs, written, stray, confirmed, advertised>>, requests' \subseteq requests,
         UNCHANGED budget \/ Spend("io") \/ Spend("again"),
         found \subseteq found', found' \subseteq 1..db.gen, index' \in [Gens -> Index],
         References' \subseteq References
  PROVE  /\ TypeInv' /\ BudgetInv' /\ UseInv' /\ Evolves
         /\ ps'[n] = t /\ dq'[n] = q
         /\ \A m \in Nodes \ {n} : ps'[m] = ps[m] /\ dq'[m] = dq[m]
  <1>1. TypeInv /\ BudgetInv /\ UseInv
    BY DEF Inv
  <1>2. /\ ps'[n] = t /\ dq'[n] = q
        /\ \A m \in Nodes \ {n} : ps'[m] = ps[m] /\ dq'[m] = dq[m]
    BY <1>1 DEF TypeInv
  <1>3. TypeInv'
    <2>1. found' \subseteq Gens
      BY <1>1, BoundsAssumption DEF TypeInv, Gens
    <2> QED
      BY <1>1, <2>1 DEF TypeInv
  <1>4. BudgetInv'
    <2>1. Down' = Down
      BY <1>2 DEF Down
    <2> QED
      BY <1>1, <2>1, BudgetKept DEF Minor
  <1>5. UseInv'
    <2>1. /\ \A m \in Nodes : ps'[m].gen = ps[m].gen
          /\ \A m \in Nodes : ps'[m].put.on => ps[m].put.on
      BY <1>2
    <2> QED
      BY <1>1, <2>1, UseKept
  <1> QED
    BY <1>2, <1>3, <1>4, <1>5, FewerEvolves

\* The index is in the remote storage: what was unlinked before it is referred to
\* by no index of this generation any more, and all of them reach its LSN.
LEMMA FinishIndexUploadStep ==
  ASSUME Inv, NEW n \in Nodes, NEW io \in BOOLEAN, FinishIndexUpload(n, io)
  PROVE  Inv'
  <1> DEFINE put == ps[n].put
             blocked == IF ps[n].mode = "single" THEN ps[n].blocked
                        ELSE ps[n].blocked \cup put.unlinked
             t == [ps[n] EXCEPT !.put = NoPut, !.blocked = blocked]
             q == Uploaded(n, io)
  <1>1. /\ ps[n] \in PageserverType /\ TenantIsSafe(ps[n], written)
        /\ ps[n].gen \in Nat /\ ps[n].gen <= db.gen /\ ps[n].gen <= MaxGen
        /\ ps[n].blocked \subseteq Unreferenced(ps[n].gen)
        /\ ps[n].dirty \in Index /\ ps[n].dirty.lsn \in 0..MaxLsn
        /\ put.index \in Index /\ put.index.lsn \in 0..MaxLsn
        /\ put.on => Ref(ps[n].gen, put.index) \in References
    BY PageserverFacts
  <1>2. TypeInv /\ UseInv /\ QueueIsSafe(Objects, Surroundings, dq[n])
    BY DEF Inv, SafeInv
  <1>3. /\ put.on /\ index' = [index EXCEPT ![ps[n].gen] = put.index]
        /\ found' = found \cup {ps[n].gen}
        /\ ps' = [ps EXCEPT ![n] = t] /\ dq' = [dq EXCEPT ![n] = q]
        /\ UNCHANGED <<db, requests, objs, written, stray, confirmed, advertised>>
        /\ UNCHANGED budget \/ Spend("io")
    BY <1>1, <1>2 DEF FinishIndexUpload, TypeInv, PageserverType
  <1>4. ps[n].gen # 0 /\ ps[n].gen \in Gens /\ ps[n].gen \in 1..db.gen /\ db.gen \in Nat
    BY <1>1, <1>2, <1>3, BoundsAssumption DEF TenantIsSafe, Gens, TypeInv
  <1>5. /\ t \in PageserverType
        /\ t.gen = ps[n].gen /\ t.up = ps[n].up /\ t.dirty = ps[n].dirty /\ t.put = NoPut
        /\ t.unlinked = ps[n].unlinked /\ t.blocked = blocked
    <2>1. blocked \subseteq Objects /\ NoPut \in [on : BOOLEAN, index : Index, unlinked : SUBSET Objects]
      BY <1>1, BoundsAssumption DEF PageserverType, NoPut, EmptyIndex, Index
    <2> HIDE DEF blocked
    <2> QED
      BY <1>1, <2>1 DEF PageserverType
  <1> HIDE DEF t
  <1>6. References' \subseteq References
    <2>1. ASSUME NEW g \in found' PROVE Ref(g, index'[g]) \in References
      <3>1. CASE g = ps[n].gen
        BY <1>1, <1>2, <1>3, <1>4, <3>1 DEF TypeInv
      <3>2. CASE g # ps[n].gen
        BY <1>2, <1>3, <3>2 DEF TypeInv, References
      <3> QED
        BY <3>1, <3>2
    <2>2. ASSUME NEW m \in Nodes PROVE TenantRefs(ps'[m]) \subseteq TenantRefs(ps[m])
      <3>1. TenantRefs(t) \subseteq TenantRefs(ps[n])
        BY <1>5 DEF TenantRefs, NoPut
      <3> QED
        BY <1>2, <1>3, <3>1 DEF TypeInv
    <2>3. stray' \subseteq References
      BY <1>3 DEF References
    <2> QED
      BY <2>1, <2>2, <2>3 DEF References
  <1>7. index' \in [Gens -> Index] /\ found' \subseteq 1..db.gen /\ found \subseteq found'
    BY <1>1, <1>2, <1>3, <1>4 DEF TypeInv, UseInv
  <1>8. /\ TypeInv' /\ BudgetInv' /\ UseInv' /\ Evolves
        /\ ps'[n] = t /\ dq'[n] = q
        /\ \A m \in Nodes \ {n} : ps'[m] = ps[m] /\ dq'[m] = dq[m]
    <2>1. ~t.put.on
      BY <1>5 DEF NoPut
    <2> HIDE DEF q
    <2> QED
      BY <1>3, <1>5, <1>6, <1>7, <2>1, PushStep
  <1>9. PICK gen \in 1..db.gen : gen = ps[n].gen
    BY <1>4
  <1>10. ASSUME NEW r \in References', r.gen = gen PROVE r.index = put.index \/ r.index = ps[n].dirty
    <2>1. ASSUME NEW g \in found', r = Ref(g, index'[g]) PROVE r.index = put.index
      BY <1>2, <1>3, <1>4, <1>9, <1>10, <2>1 DEF Ref, TypeInv
    <2>2. r \notin stray'
      BY <1>2, <1>3, <1>4, <1>9, <1>10 DEF UseInv
    <2>3. ASSUME NEW m \in Nodes, r \in TenantRefs(ps'[m]) PROVE r.index = ps[n].dirty
      <3>1. ps'[m].gen = gen
        BY <1>10, <2>3 DEF TenantRefs, Ref
      <3>2. m = n
        BY <1>4, <1>5, <1>8, <1>9, <3>1 DEF UseInv
      <3> QED
        BY <1>5, <1>8, <2>3, <3>2 DEF TenantRefs, Ref, NoPut
    <2> QED
      BY <2>1, <2>2, <2>3 DEF References
  <1>11. gen \in found' /\ gen <= gen /\ gen \in Nat
    BY <1>1, <1>3, <1>9
  <1>12. \A r \in References' : r.gen \in Nat
    BY <1>6, ReferencesAreIssued, BoundsAssumption DEF ReferenceType, Gens
  <1>13. put.unlinked \subseteq Unreferenced(gen)'
    <2>1. ASSUME NEW k \in put.unlinked PROVE Absent(k, gen, gen)'
      BY <1>1, <1>10, <1>11, <1>12 DEF Absent, TenantIsSafe
    <2>2. put.unlinked \subseteq written'
      BY <1>1, <1>3 DEF TenantIsSafe
    <2> QED
      BY <1>11, <2>1, <2>2 DEF Unreferenced
  <1>14. PICK lsn \in 0..MaxLsn : lsn = put.index.lsn
    BY <1>1
  <1>15. lsn \in Covered(gen)'
    <2>1. Reached(lsn, gen, gen)'
      BY <1>1, <1>10, <1>11, <1>12, <1>14, BoundsAssumption DEF Reached, TenantIsSafe
    <2> QED
      BY <1>11, <2>1 DEF Covered
  <1>16. QueueIsSafe(Objects, Surroundings', q)
    <2> DEFINE p == IF ps[n].mode = "single" THEN PushKeys(dq[n], gen, put.unlinked, io) ELSE dq[n]
    <2>1. Surroundings' \in View(Objects) /\ Better(Surroundings, Surroundings')
          /\ Surroundings \in View(Objects)
      BY <1>8, SurroundingsImprove
    <2>2. /\ gen \in 1..Surroundings'.last
          /\ put.unlinked \subseteq Surroundings'.unref[gen]
          /\ lsn \in Surroundings'.covered[gen]
      BY <1>3, <1>11, <1>13, <1>15 DEF Surroundings
    <2>3. QueueIsSafe(Objects, Surroundings', dq[n])
      BY <1>2, <2>1, QueueKept
    <2>4. QueueIsSafe(Objects, Surroundings', p)
      BY <2>1, <2>2, <2>3, PushKeysIsSafe
    <2>5. q = IF ps[n].mode # "stale" THEN UpdateLsn(p, gen, lsn) ELSE p
      BY <1>9, <1>14 DEF Uploaded
    <2> HIDE DEF p, q
    <2>6. QueueIsSafe(Objects, Surroundings', UpdateLsn(p, gen, lsn))
      BY <2>1, <2>2, <2>4, UpdateLsnIsSafe
    <2> QED
      BY <2>4, <2>5, <2>6
  <1>17. PageserverIsSafe(ps[n])'
    <2>1. TenantIsSafe(t, written')
      <3>1. NoPut.on = FALSE /\ NoPut.unlinked = {} /\ NoPut.index.lsn = 0
        BY DEF NoPut, EmptyIndex
      <3>2. 0 <= ps[n].dirty.lsn
        BY <1>1, BoundsAssumption
      <3> QED
        BY <1>1, <1>3, <1>5, <3>1, <3>2 DEF TenantIsSafe
    <2>2. Unreferenced(gen) \subseteq Unreferenced(gen)'
      BY <1>8, <1>11, EvolvesKeeps
    <2>3. blocked \subseteq Unreferenced(gen)'
      BY <1>1, <1>9, <1>13, <2>2
    <2>4. t.blocked \subseteq Unreferenced(gen)' /\ t.gen = gen
      BY <1>5, <1>9, <2>3
    <2> QED
      BY <1>8, <2>1, <2>4 DEF PageserverIsSafe
  <1>18. written' \ objs' \subseteq Free /\ confirmed' \in Safe
    BY <1>3 DEF Inv, SafeInv
  <1> HIDE DEF q
  <1> QED
    BY <1>8, <1>16, <1>17, <1>18, SafeStep
-----------------------------------------------------------------------------
(* Locations.                                                              *)

\* A change of mode pushes what the old mode has held back.
LEMMA SetModeStep ==
  ASSUME Inv, NEW r \in requests, SetMode(r)
  PROVE  Inv'
  <1>0. PICK n \in Nodes, mode \in Modes, g \in Gens : n = r.node /\ mode = r.mode /\ g = r.gen
    BY DEF Inv, TypeInv
  <1> DEFINE blocked == IF mode = "single" THEN {} ELSE ps[n].blocked
             t == [ps[n] EXCEPT !.mode = mode, !.blocked = blocked]
             q == IF mode = "single" THEN PushKeys(dq[n], ps[n].gen, ps[n].blocked, TRUE) ELSE dq[n]
  <1>1. /\ ps[n] \in PageserverType /\ TenantIsSafe(ps[n], written)
        /\ ps[n].gen \in Nat /\ ps[n].gen <= db.gen
        /\ ps[n].blocked \subseteq Unreferenced(ps[n].gen)
    BY PageserverFacts
  <1>2. TypeInv /\ UseInv /\ QueueIsSafe(Objects, Surroundings, dq[n])
    BY DEF Inv, SafeInv
  <1>3. /\ ps[n].gen # 0
        /\ ps' = [ps EXCEPT ![n] = t] /\ dq' = [dq EXCEPT ![n] = q]
        /\ UNCHANGED <<db, objs, written, index, found, stray, confirmed, advertised>>
        /\ requests' \subseteq requests /\ (UNCHANGED budget \/ Spend("again"))
    <2>1. g # 0
      BY BoundsAssumption DEF Gens
    <2>2. /\ ps[r.node].gen = r.gen /\ Handled(r)
          /\ ps' = [ps EXCEPT ![r.node].mode = r.mode,
                              ![r.node].blocked = IF r.mode = "single" THEN {} ELSE @]
          /\ dq' = IF r.mode = "single"
                   THEN [dq EXCEPT ![r.node] = PushKeys(@, ps[r.node].gen, ps[r.node].blocked, TRUE)]
                   ELSE dq
          /\ UNCHANGED <<db, objs, written, index, found, stray, confirmed, advertised>>
      BY DEF SetMode
    <2>3. ps' = [ps EXCEPT ![n] = t] /\ dq' = [dq EXCEPT ![n] = q]
      BY <1>0, <1>1, <1>2, <2>2 DEF TypeInv, PageserverType
    <2> QED
      BY <1>0, <2>1, <2>2, <2>3 DEF Handled
  <1>4. /\ t \in PageserverType
        /\ t.gen = ps[n].gen /\ t.up = ps[n].up /\ t.dirty = ps[n].dirty /\ t.put = ps[n].put
        /\ t.unlinked = ps[n].unlinked /\ t.blocked = blocked
    <2>1. blocked \subseteq Objects
      BY <1>1 DEF PageserverType
    <2> HIDE DEF blocked
    <2> QED
      BY <1>1, <2>1 DEF PageserverType
  <1> HIDE DEF t
  <1>5. References' \subseteq References
    <2>1. TenantRefs(t) = TenantRefs(ps[n])
      BY <1>4 DEF TenantRefs
    <2>2. \A m \in Nodes : TenantRefs(ps'[m]) = TenantRefs(ps[m])
      BY <1>2, <1>3, <2>1 DEF TypeInv
    <2> QED
      BY <1>3, <2>2 DEF References
  <1>6. /\ TypeInv' /\ BudgetInv' /\ UseInv' /\ Evolves
        /\ ps'[n] = t /\ dq'[n] = q
        /\ \A m \in Nodes \ {n} : ps'[m] = ps[m] /\ dq'[m] = dq[m]
    <2>1. index' \in [Gens -> Index] /\ found' \subseteq 1..db.gen
      BY <1>2, <1>3 DEF TypeInv, UseInv
    <2> HIDE DEF q
    <2> QED
      BY <1>3, <1>4, <1>5, <2>1, PushStep
  <1>7. PICK gen \in 1..db.gen : gen = ps[n].gen
    BY <1>1, <1>2, <1>3, BoundsAssumption DEF TypeInv, Gens
  <1>8. gen \in Nat /\ ps[n].blocked \subseteq Unreferenced(gen)'
    BY <1>1, <1>6, <1>7, EvolvesKeeps
  <1>9. QueueIsSafe(Objects, Surroundings', q)
    <2>1. /\ Surroundings \in View(Objects) /\ Surroundings' \in View(Objects)
          /\ Better(Surroundings, Surroundings')
      BY <1>6, SurroundingsImprove
    <2>2. gen \in 1..Surroundings'.last /\ ps[n].blocked \subseteq Surroundings'.unref[gen]
      BY <1>3, <1>8 DEF Surroundings
    <2>3. QueueIsSafe(Objects, Surroundings', dq[n])
      BY <1>2, <2>1, QueueKept
    <2>4. QueueIsSafe(Objects, Surroundings', PushKeys(dq[n], gen, ps[n].blocked, TRUE))
      BY <2>1, <2>2, <2>3, PushKeysIsSafe
    <2> QED
      BY <1>7, <2>3, <2>4
  <1>10. PageserverIsSafe(ps[n])'
    <2>1. TenantIsSafe(t, written')
      BY <1>1, <1>3, <1>4 DEF TenantIsSafe
    <2>2. t.blocked \subseteq Unreferenced(gen)' /\ t.gen = gen
      BY <1>4, <1>7, <1>8
    <2> QED
      BY <1>6, <2>1, <2>2 DEF PageserverIsSafe
  <1>11. written' \ objs' \subseteq Free /\ confirmed' \in Safe
    BY <1>3 DEF Inv, SafeInv
  <1> HIDE DEF q
  <1> QED
    BY <1>6, <1>9, <1>10, <1>11, SafeStep

\* A pageserver that has nothing attached.
LEMMA DetachedFacts ==
  /\ Detached \in PageserverType /\ Detached.up /\ Detached.gen = 0
  /\ Detached.blocked = {} /\ Detached.unlinked = {} /\ Detached.put = NoPut
  /\ Detached.dirty = EmptyIndex /\ Detached.mode = "single"
  /\ EmptyIndex \in Index /\ EmptyIndex.objs = {} /\ EmptyIndex.lsn = 0
  /\ NoPut.on = FALSE /\ NoPut.unlinked = {} /\ NoPut.index = EmptyIndex
  <1>1. EmptyIndex \in Index /\ EmptyIndex.objs = {} /\ EmptyIndex.lsn = 0
    BY BoundsAssumption DEF EmptyIndex, Index
  <1>2. /\ NoPut \in [on : BOOLEAN, index : Index, unlinked : SUBSET Objects]
        /\ NoPut.on = FALSE /\ NoPut.unlinked = {} /\ NoPut.index = EmptyIndex
    BY <1>1 DEF NoPut
  <1>3. Detached \in PageserverType
    BY <1>1, <1>2, BoundsAssumption DEF Detached, PageserverType, Modes
  <1> QED
    BY <1>1, <1>2, <1>3 DEF Detached

\* A node that starts attaches as the only one.
LEMMA SingleByDefault ==
  ASSUME NEW g, NEW i
  PROVE  [Detached EXCEPT !.gen = g, !.dirty = i]
         = [Detached EXCEPT !.gen = g, !.mode = "single", !.dirty = i]
  BY DetachedFacts DEF PageserverType

\* A pageserver that goes down or detaches has no index.
LEMMA DroppedFacts ==
  ASSUME NEW t, t = Detached \/ t = [Detached EXCEPT !.up = FALSE]
  PROVE  /\ t \in PageserverType /\ t.gen = 0 /\ t.blocked = {}
         /\ TenantRefs(t) = {} /\ ~t.put.on
         /\ \A W : TenantIsSafe(t, W)
  <1>1. t \in PageserverType
    BY DetachedFacts DEF PageserverType
  <1>2. /\ t.gen = 0 /\ t.blocked = {} /\ t.unlinked = {} /\ t.put = NoPut
        /\ t.dirty = EmptyIndex
    BY DetachedFacts DEF PageserverType
  <1> QED
    BY <1>1, <1>2, DetachedFacts DEF TenantRefs, TenantIsSafe

\* A pageserver that has just attached starts from the newest index.
LEMMA AttachedFacts ==
  ASSUME Inv, NEW g \in Gens, NEW mode \in Modes, NEW t,
         t = [Detached EXCEPT !.gen = g, !.mode = mode, !.dirty = IndexFor(g)]
  PROVE  /\ t \in PageserverType /\ t.up /\ t.gen = g /\ t.blocked = {} /\ ~t.put.on
         /\ TenantIsSafe(t, written)
         /\ IndexFor(g).lsn \in 0..MaxLsn
         /\ \A r \in TenantRefs(t) : \E r0 \in References : Inherits(r0, r)
  <1>1. g \in Nat \ {0} /\ g \in 0..MaxGen /\ TypeInv /\ UseInv
    BY BoundsAssumption DEF Gens, Inv
  <1>2. PICK h \in found : /\ h <= g /\ (\A k \in found : k <= g => k <= h)
                           /\ IndexFor(g) = index[h]
    BY <1>1, IndexForIsNewest
  <1>3. IndexFor(g) \in Index /\ IndexFor(g).lsn \in Nat /\ IndexFor(g).lsn \in 0..MaxLsn
    BY <1>1, <1>2, BoundsAssumption DEF TypeInv, Index
  <1>4. t \in PageserverType
    BY <1>1, <1>3, DetachedFacts DEF PageserverType
  <1>5. /\ t.up /\ t.gen = g /\ t.blocked = {} /\ t.unlinked = {} /\ t.put = NoPut
        /\ t.dirty = IndexFor(g)
    BY DetachedFacts DEF PageserverType
  <1>6. TenantIsSafe(t, written)
    BY <1>1, <1>3, <1>5, DetachedFacts DEF TenantIsSafe
  <1>7. Ref(h, index[h]) \in References
    BY ReferencesAreIssued
  <1>8. Inherits(Ref(h, index[h]), Ref(g, IndexFor(g)))
    BY <1>2, <1>3 DEF Inherits, Ref
  <1>9. \A r \in TenantRefs(t) : r = Ref(g, IndexFor(g))
    BY <1>5, DetachedFacts DEF TenantRefs
  <1> QED
    BY <1>3, <1>4, <1>5, <1>6, <1>7, <1>8, <1>9, DetachedFacts

\* An index upload outlives its process as the reference it was.
LEMMA StraysFacts ==
  ASSUME Inv, NEW n \in Nodes
  PROVE  /\ Strays(n) \subseteq [gen : Gens, index : Index]
         /\ Strays(n) \subseteq stray \cup TenantRefs(ps[n])
         /\ \A x \in Strays(n) \ stray : ps[n].gen # 0 /\ x.gen = ps[n].gen
  <1>1. TypeInv
    BY DEF Inv
  <1>2. ASSUME ps[n].put.on
        PROVE  /\ ps[n].gen # 0 /\ ps[n].gen \in Gens /\ ps[n].put.index \in Index
               /\ Ref(ps[n].gen, ps[n].put.index) \in TenantRefs(ps[n])
    <2>1. /\ TenantIsSafe(ps[n], written) /\ ps[n].gen \in Nat /\ ps[n].gen <= MaxGen
          /\ ps[n].put.index \in Index
      BY PageserverFacts
    <2> QED
      BY <1>2, <2>1, BoundsAssumption DEF TenantIsSafe, Gens, TenantRefs
  <1>3. CASE ~ps[n].put.on
    BY <1>1, <1>3 DEF Strays, TypeInv
  <1>4. CASE ps[n].put.on
    <2> DEFINE x == Ref(ps[n].gen, ps[n].put.index)
    <2>1. Strays(n) = stray \cup {x}
      BY <1>4 DEF Strays, Ref
    <2>2. x \in [gen : Gens, index : Index] /\ x.gen = ps[n].gen /\ x \in TenantRefs(ps[n])
      BY <1>2, <1>4 DEF Ref
    <2> HIDE DEF x
    <2> QED
      BY <1>1, <1>2, <1>4, <2>1, <2>2 DEF TypeInv
  <1> QED
    BY <1>3, <1>4
\* Steps that give a pageserver another attachment, or none.
LEMMA LocationStep ==
  ASSUME Inv, TypeInv', BudgetInv', UseInv', db.gen <= db'.gen,
         NEW n \in Nodes, NEW t, ps' = [ps EXCEPT ![n] = t],
         UNCHANGED <<objs, written, index, found>>,
         stray' \subseteq stray \cup TenantRefs(ps[n]),
         TenantIsSafe(t, written), t.blocked = {},
         \A r \in TenantRefs(t) : \E r0 \in References : Inherits(r0, r),
         \A m \in Nodes \ {n} : dq'[m] = dq[m],
         Evolves => QueueIsSafe(Objects, Surroundings', dq'[n]),
         confirmed' \in Safe
  PROVE  Inv'
  <1>1. Evolves
    BY TenantEvolves
  <1>2. ps'[n] = t /\ \A m \in Nodes \ {n} : ps'[m] = ps[m]
    BY DEF Inv, TypeInv
  <1>3. PageserverIsSafe(ps[n])'
    BY <1>2 DEF PageserverIsSafe
  <1>4. written' \ objs' \subseteq Free
    BY DEF Inv, SafeInv
  <1> QED
    BY <1>1, <1>2, <1>3, <1>4, SafeStep

\* A queue that is left alone.
LEMMA QueueLeft ==
  ASSUME Inv, TypeInv', Evolves, NEW n \in Nodes, UNCHANGED dq
  PROVE  QueueIsSafe(Objects, Surroundings', dq'[n])
  <1>1. QueueIsSafe(Objects, Surroundings, dq[n])
    BY DEF Inv, SafeInv
  <1> QED
    BY <1>1, SurroundingsImprove, QueueKept

\* A shard is detached.
LEMMA DetachStep ==
  ASSUME Inv, NEW n \in Nodes, Detach(n)
  PROVE  Inv'
  <1>1. TypeInv /\ BudgetInv /\ UseInv
    BY DEF Inv
  <1>2. /\ ps[n].up /\ ps' = [ps EXCEPT ![n] = Detached] /\ stray' = Strays(n)
        /\ UNCHANGED budget \/ Spend("again")
        /\ UNCHANGED <<db, requests, dq, objs, written, index, found, confirmed, advertised>>
    BY DEF Detach
  <1>3. /\ Detached \in PageserverType /\ Detached.gen = 0 /\ Detached.blocked = {}
        /\ TenantRefs(Detached) = {} /\ TenantIsSafe(Detached, written) /\ Detached.up
        /\ ~Detached.put.on
    BY DroppedFacts, DetachedFacts
  <1>4. /\ stray' \subseteq [gen : Gens, index : Index]
        /\ stray' \subseteq stray \cup TenantRefs(ps[n])
        /\ \A x \in stray' \ stray : ps[n].gen # 0 /\ x.gen = ps[n].gen
    BY <1>2, StraysFacts
  <1>5. ps'[n] = Detached /\ \A m \in Nodes \ {n} : ps'[m] = ps[m] /\ dq'[m] = dq[m]
    BY <1>1, <1>2 DEF TypeInv
  <1>6. TypeInv'
    BY <1>1, <1>2, <1>3, <1>4 DEF TypeInv
  <1>7. BudgetInv'
    <2>1. Down' = Down
      BY <1>2, <1>3, <1>5 DEF Down
    <2> QED
      BY <1>1, <1>2, <2>1, BudgetKept DEF Minor
  <1>8. UseInv'
    BY <1>1, <1>2, <1>3, <1>4, <1>5, UseMoved
  <1>9. db.gen <= db'.gen /\ confirmed' \in Safe
    BY <1>1, <1>2, BoundsAssumption DEF TypeInv, Gens, Inv, SafeInv
  <1>10. Evolves => QueueIsSafe(Objects, Surroundings', dq'[n])
    BY <1>2, <1>6, QueueLeft
  <1> QED
    BY <1>2, <1>3, <1>4, <1>5, <1>6, <1>7, <1>8, <1>9, <1>10, LocationStep

\* A tenant is spawned in a generation that the pageserver has been given.
LEMMA SpawnStep ==
  ASSUME Inv, NEW n \in Nodes, NEW g \in Gens, NEW mode \in Modes, ps[n].up, Spawn(n, g, mode),
         requests' \subseteq requests, UNCHANGED budget \/ \E f \in Minor : Spend(f),
         g = ps[n].gen \/ \E r \in requests : r.node = n /\ r.gen = g
  PROVE  Inv'
  <1> DEFINE t == [Detached EXCEPT !.gen = g, !.mode = mode, !.dirty = IndexFor(g)]
  <1>1. TypeInv /\ BudgetInv /\ UseInv
    BY DEF Inv
  <1>2. /\ ps' = [ps EXCEPT ![n] = t] /\ stray' = Strays(n)
        /\ advertised' = Larger(advertised, IndexFor(g).lsn)
        /\ UNCHANGED <<db, dq, objs, written, index, found, confirmed>>
    BY DEF Spawn
  <1>3. /\ t \in PageserverType /\ t.up /\ t.gen = g /\ t.blocked = {} /\ ~t.put.on
        /\ TenantIsSafe(t, written)
        /\ IndexFor(g).lsn \in 0..MaxLsn
        /\ \A x \in TenantRefs(t) : \E r0 \in References : Inherits(r0, x)
    BY AttachedFacts
  <1> HIDE DEF t
  <1>4. /\ stray' \subseteq [gen : Gens, index : Index]
        /\ stray' \subseteq stray \cup TenantRefs(ps[n])
        /\ \A x \in stray' \ stray : ps[n].gen # 0 /\ x.gen = ps[n].gen
    BY <1>2, StraysFacts
  <1>5. ps'[n] = t /\ \A m \in Nodes \ {n} : ps'[m] = ps[m] /\ dq'[m] = dq[m]
    BY <1>1, <1>2 DEF TypeInv
  <1>6. TypeInv'
    <2>1. advertised' \in 0..MaxLsn
      BY <1>1, <1>2, <1>3 DEF TypeInv, Larger
    <2> QED
      BY <1>1, <1>2, <1>3, <1>4, <2>1 DEF TypeInv
  <1>7. BudgetInv'
    <2>1. Down' = Down
      BY <1>2, <1>3, <1>5 DEF Down
    <2> QED
      BY <1>1, <1>2, <2>1, BudgetKept
  <1>8. UseInv'
    <2>1. \/ ps'[n].gen \in {0, ps[n].gen}
          \/ \E r \in requests : r.node = n /\ r.gen = ps'[n].gen
      BY <1>3, <1>5
    <2> QED
      BY <1>1, <1>2, <1>3, <1>4, <1>5, <2>1, UseMoved
  <1>9. db.gen <= db'.gen /\ confirmed' \in Safe
    BY <1>1, <1>2, BoundsAssumption DEF TypeInv, Gens, Inv, SafeInv
  <1>10. Evolves => QueueIsSafe(Objects, Surroundings', dq'[n])
    BY <1>2, <1>6, QueueLeft
  <1> QED
    BY <1>2, <1>3, <1>4, <1>5, <1>6, <1>7, <1>8, <1>9, <1>10, LocationStep

\* A call makes a shard attach in its generation, for the first time or again.
LEMMA AttachStep ==
  ASSUME Inv, NEW r \in requests, Attach(r)
  PROVE  Inv'
  <1>1. r.node \in Nodes /\ r.gen \in Gens /\ r.mode \in Modes
    BY DEF Inv, TypeInv
  <1>2. ps[r.node].up /\ Spawn(r.node, r.gen, r.mode)
    BY DEF Attach
  <1>3. requests' \subseteq requests /\ (UNCHANGED budget \/ \E f \in Minor : Spend(f))
    BY DEF Attach, Handled, Minor
  <1> QED
    BY <1>1, <1>2, <1>3, SpawnStep

\* A tenant is reset.
LEMMA ResetTenantStep ==
  ASSUME Inv, NEW n \in Nodes, ResetTenant(n)
  PROVE  Inv'
  <1>1. ps[n].gen \in Gens /\ ps[n].mode \in Modes
    BY PageserverFacts, BoundsAssumption DEF ResetTenant, PageserverType, Gens
  <1>2. ps[n].up /\ Spawn(n, ps[n].gen, ps[n].mode) /\ UNCHANGED requests /\ Spend("reset")
    BY DEF ResetTenant
  <1>3. \E f \in Minor : Spend(f)
    BY <1>2 DEF Minor
  <1> QED
    BY <1>1, <1>2, <1>3, SpawnStep
-----------------------------------------------------------------------------
(* The storage controller.                                                 *)

\* The generation that is issued is a new one.
LEMMA IncrementGenerationStep ==
  ASSUME Inv, NEW n \in Nodes, NEW mode \in {"single", "multi"}, IncrementGeneration(n, mode)
  PROVE  Inv'
  <1> DEFINE new == [node |-> n, gen |-> db.gen + 1, mode |-> mode]
  <1>1. TypeInv /\ BudgetInv /\ UseInv
    BY DEF Inv
  <1>2. /\ db.gen + Reserved < budget["gen"]
        /\ UNCHANGED budget \/ Spend("mode")
        /\ db' = [gen |-> db.gen + 1, node |-> n]
        /\ requests' = requests \cup {new}
        /\ UNCHANGED <<ps, dq, objs, written, index, found, stray, confirmed, advertised>>
    BY DEF IncrementGeneration
  <1>3. /\ db.gen \in Nat /\ db.gen >= 1 /\ MaxGen \in Nat /\ Cardinality(Down) \in Nat
        /\ \A x \in Faults \cup Limits : budget[x] \in Nat
    BY <1>1, FS_CardinalityType, BoundsAssumption DEF TypeInv, BudgetInv, Gens
  <1>4. Reserved = budget["crash"] + budget["lost"] + Cardinality(Down)
    BY DEF Reserved, Down
  <1>5. /\ budget' \in [Faults \cup Limits -> Nat]
        /\ \A x \in {"crash", "lost", "gen", "lsn"} : budget'[x] = budget[x]
    BY <1>1, <1>2 DEF BudgetInv, Spend, Faults, Limits
  <1>6. BudgetInv'
    <2>1. Down' = Down
      BY <1>2 DEF Down
    <2>2. budget["crash"] \in Nat /\ budget["lost"] \in Nat /\ budget["gen"] \in Nat
      BY <1>3 DEF Faults, Limits
    <2>3. db'.gen = db.gen + 1
      BY <1>2
    <2>4. db'.gen + budget["crash"] + budget["lost"] + Cardinality(Down) <= budget["gen"]
      BY <1>2, <1>3, <1>4, <2>2, <2>3
    <2> QED
      BY <1>1, <1>5, <2>1, <2>4 DEF BudgetInv
  <1>7. db.gen + 1 \in Gens
    <2>1. budget["crash"] \in Nat /\ budget["lost"] \in Nat /\ budget["gen"] \in Nat
      BY <1>3 DEF Faults, Limits
    <2>2. budget["gen"] <= MaxGen
      BY <1>1 DEF BudgetInv
    <2> QED
      BY <1>2, <1>3, <1>4, <2>1, <2>2 DEF Gens
  <1>8. TypeInv'
    <2>1. new \in [node : Nodes, gen : Gens, mode : Modes]
      BY <1>7 DEF Modes
    <2>2. db' \in [gen : Gens, node : Nodes]
      BY <1>2, <1>7
    <2> HIDE DEF new
    <2> QED
      BY <1>1, <1>2, <2>1, <2>2 DEF TypeInv
  <1>9. UseInv'
    <2>1. /\ \A r \in requests : r.gen \in Nat /\ r.gen <= db.gen
          /\ \A x \in stray : x.gen \in Nat /\ x.gen <= db.gen
          /\ \A m \in Nodes : ps[m].gen \in Nat /\ ps[m].gen <= db.gen
      BY <1>1, BoundsAssumption DEF TypeInv, UseInv, Gens, PageserverType
    <2>2. new.gen = db.gen + 1 /\ new.node = n /\ db'.gen = db.gen + 1 /\ db'.node = n
      BY <1>2
    <2>3. 1 \in found' /\ found' \subseteq 1..db'.gen
      BY <1>1, <1>2, <1>3, <2>2 DEF UseInv
    <2> HIDE DEF new
    <2>4. /\ \A x \in stray' : x.gen <= db'.gen
          /\ \A r \in requests' : r.gen <= db'.gen /\ (r.gen = db'.gen => r.node = db'.node)
          /\ \A m \in Nodes : ps'[m].gen <= db'.gen /\ (ps'[m].gen = db'.gen => m = db'.node)
      BY <1>2, <1>3, <2>1, <2>2
    <2>5. \A r \in requests : r.gen # new.gen
      BY <1>3, <2>1, <2>2
    <2>6. \A r, s \in requests' : r.gen = s.gen => r.node = s.node
      BY <1>1, <1>2, <2>5 DEF UseInv
    <2>7. \A m \in Nodes : ps[m].gen # new.gen
      BY <1>3, <2>1, <2>2
    <2>8. \A m \in Nodes : ps'[m].gen # 0 =>
             /\ \A r \in requests' : r.gen = ps'[m].gen => r.node = m
             /\ \A k \in Nodes : ps'[k].gen = ps'[m].gen => k = m
      BY <1>1, <1>2, <2>7 DEF UseInv
    <2>9. \A m \in Nodes : ps'[m].put.on => \A x \in stray' : x.gen # ps'[m].gen
      BY <1>1, <1>2 DEF UseInv
    <2> QED
      BY <2>3, <2>4, <2>6, <2>8, <2>9 DEF UseInv
  <1>10. Evolves
    <2>1. db.gen <= db'.gen
      BY <1>2, <1>3
    <2> QED
      BY <1>2, <2>1, QuietEvolves
  <1> QED
    BY <1>2, <1>6, <1>8, <1>9, <1>10, QuietStep

\* Another call in a generation goes to the pageserver that has been given it.
LEMMA ConfigureAgainStep ==
  ASSUME Inv, NEW n \in Nodes, NEW g \in Gens, NEW mode \in Modes, ConfigureAgain(n, g, mode)
  PROVE  Inv'
  <1> DEFINE new == [node |-> n, gen |-> g, mode |-> mode]
  <1>1. TypeInv /\ BudgetInv /\ UseInv
    BY DEF Inv
  <1>2. /\ n \in Owners(g) /\ Spend("mode") /\ requests' = requests \cup {new}
        /\ UNCHANGED <<db, ps, dq, objs, written, index, found, stray, confirmed, advertised>>
    BY DEF ConfigureAgain
  <1>3. new \in [node : Nodes, gen : Gens, mode : Modes] /\ new.node = n /\ new.gen = g
    OBVIOUS
  <1> HIDE DEF new
  <1>4. TypeInv'
    BY <1>1, <1>2, <1>3 DEF TypeInv
  <1>5. BudgetInv'
    BY <1>1, <1>2, BudgetKept DEF Down, Minor
  <1>6. UseInv'
    <2>1. ps[n].gen = g \/ \E r \in requests : r.node = n /\ r.gen = g
      BY <1>2 DEF Owners
    <2>2. g # 0
      BY BoundsAssumption DEF Gens
    <2>3. /\ new.gen <= db.gen /\ (new.gen = db.gen => new.node = db.node)
          /\ \A r \in requests : r.gen = new.gen => r.node = new.node
          /\ \A m \in Nodes : ps[m].gen # 0 /\ new.gen = ps[m].gen => new.node = m
      BY <1>1, <1>3, <2>1, <2>2 DEF UseInv
    <2> QED
      BY <1>1, <1>2, <2>3 DEF UseInv
  <1>7. Evolves
    BY <1>1, <1>2, QuietEvolves, BoundsAssumption DEF TypeInv, Gens
  <1> QED
    BY <1>2, <1>4, <1>5, <1>6, <1>7, QuietStep

\* What is known of a deletion queue and what is around it.
LEMMA QueueFacts ==
  ASSUME Inv, NEW n \in Nodes
  PROVE  /\ Surroundings \in View(Objects) /\ QueueIsSafe(Objects, Surroundings, dq[n])
         /\ dq[n] \in QueueType(Objects)
         /\ Surroundings.last = db.gen /\ Surroundings.free = Free /\ Surroundings.safe = Safe
         /\ Surroundings.unref[db.gen] \subseteq Free
         /\ Surroundings.covered[db.gen] \subseteq Safe
         /\ objs \subseteq written /\ written \ objs \subseteq Free
         /\ confirmed \in Safe /\ advertised \in 0..MaxLsn
  <1>1. TypeInv /\ SafeInv /\ MaxGen \in Nat /\ MaxLsn \in Nat
    BY BoundsAssumption DEF Inv
  <1>2. db.gen \in Nat /\ db.gen <= MaxGen /\ written \subseteq Objects
    BY <1>1 DEF TypeInv, Gens
  <1>3. \A g : Unreferenced(g) \subseteq Objects /\ Covered(g) \subseteq Nat
    BY <1>1, <1>2 DEF Unreferenced, Covered
  <1>4. Surroundings \in View(Objects)
    BY <1>2, <1>3 DEF Surroundings, View, Free, Safe
  <1>5. Unreferenced(db.gen) \subseteq Free /\ Covered(db.gen) \subseteq Safe
    BY <1>1, <1>2, NewestIsAll DEF Free, Safe
  <1>6. QueueIsSafe(Objects, Surroundings, dq[n]) /\ dq[n] \in QueueType(Objects)
    BY <1>1 DEF SafeInv, QueueIsSafe
  <1> QED
    BY <1>1, <1>2, <1>4, <1>5, <1>6 DEF Surroundings, TypeInv, SafeInv

\* A generation is confirmed while it is the newest one.
LEMMA ValidateStep ==
  ASSUME Inv, NEW n \in Nodes, Validate(n)
  PROVE  Inv'
  <1>1. /\ dq[n].step = "asked"
        /\ UNCHANGED <<db, requests, ps, objs, written, index, found, stray, budget,
                       confirmed, advertised>>
    BY DEF Validate
  <1>2. PICK a \in {"valid", "invalid"} :
            (a = "valid" => dq[n].asked = db.gen) /\ dq' = [dq EXCEPT ![n].answer = a]
    BY DEF Validate
  <1> DEFINE q == [dq[n] EXCEPT !.answer = a]
  <1>3. dq' = [dq EXCEPT ![n] = q]
    BY <1>2
  <1>4. QueueIsSafe(Objects, Surroundings, q)
    BY <1>1, <1>2, QueueFacts, AnswerComes
  <1>5. /\ objs' \subseteq written /\ written \ objs' \subseteq Free
        /\ confirmed' \in Safe /\ advertised' \in 0..MaxLsn
    BY <1>1, QueueFacts
  <1> HIDE DEF q
  <1> QED
    BY <1>1, <1>3, <1>4, <1>5, QueueStep

-----------------------------------------------------------------------------
(* The deletion queue.                                                     *)

\* The list that is being built goes to the disk and to the Validator.
LEMMA FlushPendingStep ==
  ASSUME Inv, NEW n \in Nodes, FlushPending(n)
  PROVE  Inv'
  <1>1. /\ dq' = [dq EXCEPT ![n] = FlushList(dq[n])]
        /\ UNCHANGED <<db, requests, ps, objs, written, index, found, stray, budget,
                       confirmed, advertised>>
    BY DEF FlushPending
  <1>2. QueueIsSafe(Objects, Surroundings, FlushList(dq[n]))
    BY QueueFacts, FlushListIsSafe
  <1>3. /\ objs' \subseteq written /\ written \ objs' \subseteq Free
        /\ confirmed' \in Safe /\ advertised' \in 0..MaxLsn
    BY <1>1, QueueFacts
  <1> QED
    BY <1>1, <1>2, <1>3, QueueStep

\* The Validator takes up lists and asks.
LEMMA StartFlushStep ==
  ASSUME Inv, NEW n \in Nodes, StartFlush(n)
  PROVE  Inv'
  <1>1. /\ dq[n].step = "idle"
        /\ UNCHANGED <<db, requests, ps, objs, written, index, found, stray, budget,
                       confirmed, advertised>>
    BY DEF StartFlush
  <1>2. PICK k \in Sequences(dq[n].lists) \cup {0} :
            dq' = [dq EXCEPT ![n] = BeginFlush(dq[n], {l \in dq[n].lists : l.seq <= k})]
    BY DEF StartFlush
  <1> DEFINE q == BeginFlush(dq[n], {l \in dq[n].lists : l.seq <= k})
  <1>3. k \in Nat
    BY QueueFacts DEF Sequences, QueueType, DeletionList
  <1>4. QueueIsSafe(Objects, Surroundings, q)
    BY <1>1, <1>3, QueueFacts, BeginFlushIsSafe
  <1>5. /\ objs' \subseteq written /\ written \ objs' \subseteq Free
        /\ confirmed' \in Safe /\ advertised' \in 0..MaxLsn
    BY <1>1, QueueFacts
  <1>6. dq' = [dq EXCEPT ![n] = q]
    BY <1>2
  <1> HIDE DEF q
  <1> QED
    BY <1>1, <1>4, <1>5, <1>6, QueueStep

\* An LSN that is released has been validated.
LEMMA ReleaseLsnIsSafe ==
  ASSUME Inv, NEW n \in Nodes, dq[n].step = "asked", ReleaseLsn(n)
  PROVE  confirmed' \in Safe /\ advertised' \in 0..MaxLsn
  <1>1. /\ confirmed \in Safe /\ advertised \in 0..MaxLsn /\ Safe \subseteq 0..MaxLsn
    BY QueueFacts DEF Safe, Covered
  <1>2. LsnIsValid(dq[n]) => dq[n].taken.lsn \in Safe
    BY QueueFacts DEF LsnIsValid, QueueIsSafe, AnswerIsSafe
  <1> QED
    BY <1>1, <1>2 DEF ReleaseLsn, Larger

\* The Validator has the answer.
LEMMA AnsweredStep ==
  ASSUME Inv, NEW n \in Nodes, NEW F \in SUBSET Mutated(dq[n]), NEW hdr \in BOOLEAN,
         Answered(n, F, hdr)
  PROVE  Inv'
  <1> DEFINE q == ApplyAnswer(dq[n], F, hdr)
  <1>1. /\ dq[n].step = "asked" /\ ReleaseLsn(n)
        /\ dq' = [dq EXCEPT ![n] = q]
        /\ UNCHANGED <<db, requests, ps, objs, written, index, found, stray>>
        /\ UNCHANGED budget \/ Spend("io")
    BY DEF Answered
  <1>2. QueueIsSafe(Objects, Surroundings, q)
    BY <1>1, QueueFacts, ApplyAnswerIsSafe
  <1>3. objs' \subseteq written /\ written \ objs' \subseteq Free
    BY <1>1, QueueFacts
  <1>4. confirmed' \in Safe /\ advertised' \in 0..MaxLsn
    BY <1>1, ReleaseLsnIsSafe
  <1> HIDE DEF q
  <1> QED
    BY <1>1, <1>2, <1>3, <1>4, QueueStep

\* Only what nobody will ever refer to is deleted.
LEMMA DeleteObjectStep ==
  ASSUME Inv, NEW n \in Nodes, NEW o \in Objects, DeleteObject(n, o)
  PROVE  Inv'
  <1> DEFINE q == [dq[n] EXCEPT !.todo = @ \ {o}]
  <1>1. /\ o \in dq[n].todo /\ objs' = objs \ {o}
        /\ dq' = [dq EXCEPT ![n] = q]
        /\ UNCHANGED <<db, requests, ps, written, index, found, stray, budget,
                       confirmed, advertised>>
    BY DEF DeleteObject
  <1>2. QueueIsSafe(Objects, Surroundings, q)
    BY QueueFacts, DeletedIsSafe
  <1>3. o \in Free
    BY <1>1, QueueFacts DEF QueueIsSafe, ContentIsSafe
  <1>4. /\ objs' \subseteq written /\ written \ objs' \subseteq Free
        /\ confirmed' \in Safe /\ advertised' \in 0..MaxLsn
    BY <1>1, <1>3, QueueFacts
  <1> HIDE DEF q
  <1> QED
    BY <1>1, <1>2, <1>4, QueueStep

\* A list that has been executed is removed.
LEMMA CleanupListStep ==
  ASSUME Inv, NEW n \in Nodes, NEW l \in dq[n].batch, CleanupList(n, l)
  PROVE  Inv'
  <1>1. /\ dq[n].step = "exec" /\ dq' = [dq EXCEPT ![n] = RemoveFile(dq[n], l)]
        /\ UNCHANGED <<db, requests, ps, objs, written, index, found, stray, budget,
                       confirmed, advertised>>
    BY DEF CleanupList
  <1>2. QueueIsSafe(Objects, Surroundings, RemoveFile(dq[n], l))
    BY <1>1, QueueFacts, RemoveFileIsSafe
  <1>3. /\ objs' \subseteq written /\ written \ objs' \subseteq Free
        /\ confirmed' \in Safe /\ advertised' \in 0..MaxLsn
    BY <1>1, QueueFacts
  <1> QED
    BY <1>1, <1>2, <1>3, QueueStep
-----------------------------------------------------------------------------
(* Faults.                                                                 *)

\* A crash needs a generation later, which has been kept for it.
LEMMA CrashBudget ==
  ASSUME TypeInv, BudgetInv, NEW n \in Nodes, ps[n].up, ~ps'[n].up,
         \A m \in Nodes \ {n} : ps'[m] = ps[m], db'.gen = db.gen, Spend("crash")
  PROVE  BudgetInv'
  <1>1. Down' = Down \cup {n} /\ n \notin Down
    BY DEF Down
  <1>2. IsFiniteSet(Down')  /\ Cardinality(Down') = Cardinality(Down) + 1 /\ Cardinality(Down) \in Nat
    BY <1>1, FS_AddElement, FS_CardinalityType DEF BudgetInv
  <1>3. /\ budget \in [Faults \cup Limits -> Nat] /\ budget["crash"] > 0
        /\ budget' = [budget EXCEPT !["crash"] = budget["crash"] - 1]
    BY DEF BudgetInv, Spend
  <1>4. /\ budget["crash"] \in Nat /\ budget["lost"] \in Nat /\ budget["gen"] \in Nat
        /\ budget'["crash"] = budget["crash"] - 1
        /\ \A x \in {"lost", "gen", "lsn"} : budget'[x] = budget[x]
        /\ budget' \in [Faults \cup Limits -> Nat]
    BY <1>3 DEF Faults, Limits
  <1>5. db.gen \in Nat
    BY BoundsAssumption DEF TypeInv, Gens
  <1>6. db'.gen + budget'["crash"] + budget'["lost"] + Cardinality(Down') <= budget'["gen"]
    BY <1>2, <1>4, <1>5 DEF BudgetInv
  <1> QED
    BY <1>2, <1>4, <1>6 DEF BudgetInv

\* Steps in which a pageserver goes down with its queue on disk.
LEMMA GoneStep ==
  ASSUME Inv, NEW n \in Nodes, ps[n].up, Spend("crash"), Gone(n),
         NEW q, dq' = [dq EXCEPT ![n] = q], QueueIsSafe(Objects, Surroundings, q),
         UNCHANGED <<db, requests, objs, written, index, found>>,
         confirmed' \in Safe, advertised' \in 0..MaxLsn
  PROVE  Inv'
  <1> DEFINE t == [Detached EXCEPT !.up = FALSE]
  <1>1. TypeInv /\ BudgetInv /\ UseInv
    BY DEF Inv
  <1>2. ps' = [ps EXCEPT ![n] = t] /\ stray' = Strays(n)
    BY DEF Gone
  <1>3. /\ t \in PageserverType /\ t.gen = 0 /\ t.blocked = {}
        /\ TenantRefs(t) = {} /\ TenantIsSafe(t, written) /\ ~t.put.on
    BY DroppedFacts
  <1>4. ~t.up
    BY DetachedFacts DEF PageserverType
  <1> HIDE DEF t
  <1>5. /\ stray' \subseteq [gen : Gens, index : Index]
        /\ stray' \subseteq stray \cup TenantRefs(ps[n])
        /\ \A x \in stray' \ stray : ps[n].gen # 0 /\ x.gen = ps[n].gen
    BY <1>2, StraysFacts
  <1>6. /\ ps'[n] = t /\ dq'[n] = q
        /\ \A m \in Nodes \ {n} : ps'[m] = ps[m] /\ dq'[m] = dq[m]
    BY <1>1, <1>2 DEF TypeInv
  <1>7. TypeInv'
    <2>1. confirmed' \in 0..MaxLsn
      BY DEF Safe, Covered
    <2> QED
      BY <1>1, <1>2, <1>3, <1>5, <2>1 DEF TypeInv
  <1>8. BudgetInv'
    BY <1>1, <1>4, <1>6, CrashBudget
  <1>9. UseInv'
    BY <1>1, <1>3, <1>5, <1>6, UseMoved
  <1>10. db.gen <= db'.gen
    BY <1>1, BoundsAssumption DEF TypeInv, Gens
  <1>11. Evolves => QueueIsSafe(Objects, Surroundings', dq'[n])
    BY <1>6, <1>7, SurroundingsImprove, QueueKept
  <1> QED
    BY <1>2, <1>3, <1>5, <1>6, <1>7, <1>8, <1>9, <1>10, <1>11, LocationStep

\* A process dies at any point.
LEMMA CrashStep ==
  ASSUME Inv, NEW n \in Nodes, Crash(n)
  PROVE  Inv'
  <1>1. /\ ps[n].up /\ Spend("crash") /\ Gone(n)
        /\ dq' = [dq EXCEPT ![n] = Recover(dq[n], 0)]
        /\ UNCHANGED <<db, requests, objs, written, index, found, confirmed, advertised>>
    BY DEF Crash
  <1>2. QueueIsSafe(Objects, Surroundings, Recover(dq[n], 0))
    BY QueueFacts, CrashIsSafe
  <1>3. confirmed' \in Safe /\ advertised' \in 0..MaxLsn
    BY <1>1, QueueFacts
  <1> QED
    BY <1>1, <1>2, <1>3, GoneStep

\* A process dies between two lists that it saves.
LEMMA CrashInValidateStep ==
  ASSUME Inv, NEW n \in Nodes, NEW L \in SUBSET Mutated(dq[n]), CrashInValidate(n, L)
  PROVE  Inv'
  <1> DEFINE q == Recover([dq[n] EXCEPT !.disk = Saved(dq[n], L)], 0)
  <1>1. /\ ps[n].up /\ dq[n].step = "asked" /\ Spend("crash") /\ Gone(n) /\ ReleaseLsn(n)
        /\ dq' = [dq EXCEPT ![n] = q]
        /\ UNCHANGED <<db, requests, objs, written, index, found>>
    BY DEF CrashInValidate
  <1>2. QueueIsSafe(Objects, Surroundings, q)
    BY <1>1, QueueFacts, CrashInValidateIsSafe
  <1>3. confirmed' \in Safe /\ advertised' \in 0..MaxLsn
    BY <1>1, ReleaseLsnIsSafe
  <1> HIDE DEF q
  <1> QED
    BY <1>1, <1>2, <1>3, GoneStep

\* A generation that is given to a node in vain.
LEMMA ReAttachLostStep ==
  ASSUME Inv, NEW n \in Nodes, ReAttachLost(n)
  PROVE  Inv'
  <1>1. TypeInv /\ BudgetInv /\ UseInv
    BY DEF Inv
  <1>2. /\ Spend("lost") /\ db' = [db EXCEPT !.gen = db.gen + 1]
        /\ UNCHANGED <<requests, ps, dq, objs, written, index, found, stray, confirmed, advertised>>
    BY DEF ReAttachLost, ReAttached
  <1>3. db.gen \in Nat /\ db.gen >= 1 /\ MaxGen \in Nat /\ Cardinality(Down) \in Nat
    BY <1>1, FS_CardinalityType, BoundsAssumption DEF TypeInv, BudgetInv, Gens
  <1>4. db'.gen = db.gen + 1 /\ db'.node = db.node /\ db' = [gen |-> db.gen + 1, node |-> db.node]
    BY <1>1, <1>2 DEF TypeInv
  <1>5. /\ budget \in [Faults \cup Limits -> Nat] /\ budget["lost"] > 0
        /\ budget' = [budget EXCEPT !["lost"] = budget["lost"] - 1]
    BY <1>1, <1>2 DEF BudgetInv, Spend
  <1>6. /\ budget["crash"] \in Nat /\ budget["lost"] \in Nat /\ budget["gen"] \in Nat
        /\ budget'["lost"] = budget["lost"] - 1
        /\ \A x \in {"crash", "gen", "lsn"} : budget'[x] = budget[x]
        /\ budget' \in [Faults \cup Limits -> Nat]
    BY <1>5 DEF Faults, Limits
  <1>7. db'.gen + budget'["crash"] + budget'["lost"] + Cardinality(Down) <= budget["gen"]
    BY <1>1, <1>3, <1>4, <1>6 DEF BudgetInv
  <1>8. Down' = Down
    BY <1>2 DEF Down
  <1>9. BudgetInv'
    BY <1>1, <1>6, <1>7, <1>8 DEF BudgetInv
  <1>10. db.gen + 1 \in Gens
    <2>1. budget["lost"] - 1 \in Nat /\ budget["gen"] <= MaxGen
      BY <1>1, <1>5, <1>6 DEF BudgetInv
    <2> QED
      BY <1>3, <1>4, <1>6, <1>7, <2>1 DEF Gens
  <1>11. TypeInv'
    <2>1. db' \in [gen : Gens, node : Nodes]
      BY <1>1, <1>4, <1>10 DEF TypeInv
    <2> QED
      BY <1>1, <1>2, <2>1 DEF TypeInv
  <1>12. UseInv'
    <2>1. /\ \A r \in requests : r.gen \in Nat /\ r.gen <= db.gen
          /\ \A x \in stray : x.gen \in Nat /\ x.gen <= db.gen
          /\ \A m \in Nodes : ps[m].gen \in Nat /\ ps[m].gen <= db.gen
      BY <1>1, BoundsAssumption DEF TypeInv, UseInv, Gens, PageserverType
    <2>2. found \subseteq 1..db'.gen /\ 1 \in found
      BY <1>1, <1>3, <1>4 DEF UseInv
    <2> QED
      BY <1>1, <1>2, <1>3, <1>4, <2>1, <2>2 DEF UseInv
  <1>13. Evolves
    <2>1. db.gen <= db'.gen
      BY <1>3, <1>4
    <2> QED
      BY <1>2, <2>1, QuietEvolves
  <1> QED
    BY <1>2, <1>9, <1>11, <1>12, <1>13, QuietStep
\* A node that starts takes up the lists on its disk.  A list of the generation
\* before the one it is given can be taken for one of that generation, because no
\* index of it exists before the node has attached.
LEMMA RestartQueue ==
  ASSUME Inv, TypeInv', Evolves, NEW n \in Nodes, NEW gen \in Nat,
         gen # 0 => gen = db.gen + 1 /\ db'.gen = gen
  PROVE  QueueIsSafe(Objects, Surroundings', Recover(dq[n], gen))
  <1> DEFINE w == [Surroundings EXCEPT !.last = db'.gen]
  <1>1. /\ Surroundings \in View(Objects) /\ Surroundings' \in View(Objects)
        /\ Better(Surroundings, Surroundings')
    BY SurroundingsImprove
  <1>2. QueueIsSafe(Objects, Surroundings, dq[n]) /\ Surroundings.last = db.gen
    BY QueueFacts
  <1>3. db.gen \in Nat /\ db'.gen \in Nat /\ db.gen <= db'.gen
    BY BoundsAssumption DEF Inv, TypeInv, Gens, Evolves
  <1>4. /\ w \in View(Objects) /\ w.last = db'.gen /\ w.unref = Surroundings.unref
        /\ w.covered = Surroundings.covered /\ w.free = Surroundings.free
        /\ w.safe = Surroundings.safe
    BY <1>1, <1>3 DEF View
  <1> HIDE DEF w
  <1>5. Better(Surroundings, w)
    BY <1>2, <1>3, <1>4 DEF Better
  <1>6. QueueIsSafe(Objects, w, dq[n])
    BY <1>1, <1>2, <1>4, <1>5, QueueKept
  <1>7. gen # 0 => gen = w.last /\ w.unref[gen - 1] \subseteq w.unref[gen]
    <2> SUFFICES ASSUME gen # 0 PROVE gen = w.last /\ w.unref[gen - 1] \subseteq w.unref[gen]
      OBVIOUS
    <2>1. gen - 1 = db.gen /\ gen = w.last /\ db.gen <= gen
      BY <1>3, <1>4
    <2>2. Unreferenced(db.gen) \subseteq Unreferenced(gen)
      BY <2>1, NewestIsAll
    <2>3. w.unref[db.gen] = Unreferenced(db.gen) /\ w.unref[gen] = Unreferenced(gen)
      BY <1>3, <1>4 DEF Surroundings
    <2> QED
      BY <2>1, <2>2, <2>3
  <1>8. QueueIsSafe(Objects, w, Recover(dq[n], gen))
    BY <1>4, <1>6, <1>7, CrashIsSafe
  <1>9. Better(w, Surroundings')
    <2>1. Surroundings'.last = db'.gen
      BY DEF Surroundings
    <2> QED
      BY <1>1, <1>3, <1>4, <2>1 DEF Better
  <1> QED
    BY <1>1, <1>4, <1>8, <1>9, QueueKept

\* Generations after a restart.
LEMMA RestartBudget ==
  ASSUME TypeInv, BudgetInv, NEW n \in Nodes, ~ps[n].up, ps'[n].up,
         \A m \in Nodes \ {n} : ps'[m] = ps[m],
         db'.gen \in {db.gen, db.gen + 1}, UNCHANGED budget
  PROVE  BudgetInv' /\ db'.gen \in Gens
  <1>1. Down' = Down \ {n} /\ n \in Down
    BY DEF Down
  <1>2. IsFiniteSet(Down') /\ Cardinality(Down') = Cardinality(Down) - 1
        /\ Cardinality(Down) \in Nat /\ Cardinality(Down') \in Nat
    BY <1>1, FS_RemoveElement, FS_CardinalityType DEF BudgetInv
  <1>3. /\ budget["crash"] \in Nat /\ budget["lost"] \in Nat /\ budget["gen"] \in Nat
        /\ budget["gen"] <= MaxGen
    BY DEF BudgetInv, Faults, Limits
  <1>4. db.gen \in Nat /\ db.gen >= 1 /\ MaxGen \in Nat
    BY BoundsAssumption DEF TypeInv, Gens
  <1>5. db'.gen + budget["crash"] + budget["lost"] + Cardinality(Down') <= budget["gen"]
    BY <1>2, <1>3, <1>4 DEF BudgetInv
  <1>6. db'.gen \in Gens
    BY <1>2, <1>3, <1>4, <1>5 DEF Gens
  <1> QED
    BY <1>2, <1>5, <1>6 DEF BudgetInv

\* A node starts, and attaches in a new generation if the shard is still its own.
LEMMA RestartStep ==
  ASSUME Inv, NEW n \in Nodes, Restart(n)
  PROVE  Inv'
  <1>1. TypeInv /\ BudgetInv /\ UseInv /\ ps[n].gen = 0 /\ ~ps[n].put.on
    <2>1. ~ps[n].up /\ TenantIsSafe(ps[n], written)
      BY PageserverFacts DEF Restart
    <2> QED
      BY <2>1 DEF Inv, TenantIsSafe
  <1>2. /\ ~ps[n].up /\ db' = ReAttached(n)
        /\ UNCHANGED <<requests, objs, written, index, found, stray, budget, confirmed>>
    BY DEF Restart
  <1>3. db.gen \in Nat /\ db.gen >= 1
    BY <1>1, BoundsAssumption DEF TypeInv, Gens
  <1>4. /\ \A r \in requests : r.gen \in Nat /\ r.gen <= db.gen
        /\ \A x \in stray : x.gen \in Nat /\ x.gen <= db.gen
        /\ \A m \in Nodes : ps[m].gen \in Nat /\ ps[m].gen <= db.gen
    BY <1>1, BoundsAssumption DEF TypeInv, UseInv, Gens, PageserverType
  <1>5. confirmed' \in Safe /\ stray' \subseteq stray \cup TenantRefs(ps[n])
    BY <1>2 DEF Inv, SafeInv
  <1>6. CASE db.node # n
    <2>1. /\ db' = db /\ ps' = [ps EXCEPT ![n] = Detached]
          /\ dq' = [dq EXCEPT ![n] = Recover(dq[n], 0)] /\ advertised' = advertised
      BY <1>2, <1>6 DEF Restart, ReAttached
    <2>2. /\ Detached \in PageserverType /\ Detached.gen = 0 /\ Detached.blocked = {}
          /\ TenantRefs(Detached) = {} /\ TenantIsSafe(Detached, written) /\ Detached.up
          /\ ~Detached.put.on
      BY DroppedFacts, DetachedFacts
    <2>3. /\ ps'[n] = Detached /\ dq'[n] = Recover(dq[n], 0)
          /\ \A m \in Nodes \ {n} : ps'[m] = ps[m] /\ dq'[m] = dq[m]
      BY <1>1, <2>1 DEF TypeInv
    <2>4. TypeInv'
      BY <1>1, <1>2, <2>1, <2>2 DEF TypeInv
    <2>5. BudgetInv'
      BY <1>1, <1>2, <2>1, <2>2, <2>3, RestartBudget
    <2>6. UseInv'
      BY <1>1, <1>2, <2>1, <2>2, <2>3, UseMoved
    <2>7. Evolves => QueueIsSafe(Objects, Surroundings', dq'[n])
      BY <2>3, <2>4, RestartQueue
    <2>8. db.gen <= db'.gen
      BY <1>3, <2>1
    <2> QED
      BY <1>2, <1>5, <2>1, <2>2, <2>3, <2>4, <2>5, <2>6, <2>7, <2>8, LocationStep
  <1>7. CASE db.node = n
    <2> DEFINE g == db.gen + 1
               t == [Detached EXCEPT !.gen = g, !.mode = "single", !.dirty = IndexFor(g)]
    <2>1. db' = [db EXCEPT !.gen = g] /\ db'.gen = g /\ db' = [gen |-> g, node |-> db.node]
      BY <1>1, <1>2, <1>7 DEF ReAttached, TypeInv
    <2>2. [Detached EXCEPT !.gen = g, !.dirty = IndexFor(g)] = t
      BY SingleByDefault
    <2>3. g # 0 /\ g \in Nat
      BY <1>3
    <2>4. /\ ps' = [ps EXCEPT ![n] = t] /\ dq' = [dq EXCEPT ![n] = Recover(dq[n], g)]
          /\ advertised' = Larger(advertised, IndexFor(g).lsn)
      BY <1>7, <2>1, <2>2, <2>3 DEF Restart
    <2>5. t.up = TRUE
      BY DetachedFacts DEF PageserverType, Detached
    <2> HIDE DEF t, g
    <2>6. /\ ps'[n] = t /\ dq'[n] = Recover(dq[n], g)
          /\ \A m \in Nodes \ {n} : ps'[m] = ps[m] /\ dq'[m] = dq[m]
      BY <1>1, <2>4 DEF TypeInv
    <2>7. BudgetInv' /\ g \in Gens
      BY <1>1, <1>2, <2>1, <2>5, <2>6, RestartBudget DEF g
    <2>8. /\ t \in PageserverType /\ t.up /\ t.gen = g /\ t.blocked = {} /\ ~t.put.on
          /\ TenantIsSafe(t, written)
          /\ IndexFor(g).lsn \in 0..MaxLsn
          /\ \A r \in TenantRefs(t) : \E r0 \in References : Inherits(r0, r)
      BY <2>7, AttachedFacts DEF t, Modes
    <2>9. TypeInv'
      <3>1. advertised' \in 0..MaxLsn
        BY <1>1, <2>4, <2>8 DEF TypeInv, Larger
      <3>2. db' \in [gen : Gens, node : Nodes]
        BY <1>1, <2>1, <2>7 DEF TypeInv
      <3> QED
        BY <1>1, <1>2, <2>4, <2>8, <3>1, <3>2 DEF TypeInv
    <2>10. UseInv'
      <3>1. found \subseteq 1..db'.gen /\ 1 \in found
        BY <1>1, <1>3, <2>1 DEF UseInv, g
      <3>2. \A m \in Nodes : ps'[m].gen <= db'.gen /\ (m # n => ps'[m].gen # g)
        BY <1>3, <1>4, <2>1, <2>6, <2>8 DEF g
      <3>3. ASSUME NEW m \in Nodes, ps'[m].gen # 0
            PROVE  /\ \A s \in requests : s.gen = ps'[m].gen => s.node = m
                   /\ \A k \in Nodes : ps'[k].gen = ps'[m].gen => k = m
        <4>1. CASE m = n
          BY <1>3, <1>4, <2>6, <2>8, <3>2, <4>1 DEF g
        <4>2. CASE m # n
          BY <1>1, <2>6, <2>8, <3>2, <3>3, <4>2 DEF UseInv
        <4> QED
          BY <4>1, <4>2
      <3>4. /\ \A x \in stray : x.gen <= db'.gen
            /\ \A x \in requests : x.gen <= db'.gen /\ x.gen # db'.gen
        BY <1>3, <1>4, <2>1 DEF g
      <3>5. \A m \in Nodes : ps'[m].gen = db'.gen => m = db'.node
        BY <1>7, <2>1, <3>2
      <3>6. \A m \in Nodes : ps'[m].put.on => \A x \in stray : x.gen # ps'[m].gen
        BY <1>1, <2>6, <2>8 DEF UseInv
      <3> QED
        BY <1>1, <1>2, <3>1, <3>2, <3>3, <3>4, <3>5, <3>6 DEF UseInv
    <2>11. Evolves => QueueIsSafe(Objects, Surroundings', dq'[n])
      BY <2>1, <2>3, <2>6, <2>9, RestartQueue DEF g
    <2>12. db.gen <= db'.gen
      BY <1>3, <2>1 DEF g
    <2> QED
      BY <1>2, <1>5, <2>4, <2>6, <2>7, <2>8, <2>9, <2>10, <2>11, <2>12, LocationStep
  <1> QED
    BY <1>6, <1>7
-----------------------------------------------------------------------------
(* The invariant, and what follows from it.                                *)

\* It holds at first.
LEMMA InitInv ==
  ASSUME Init
  PROVE  Inv
  <1>1. /\ Detached \in PageserverType /\ Detached.up /\ Detached.gen = 0
        /\ Detached.blocked = {} /\ Detached.unlinked = {} /\ Detached.put = NoPut
        /\ Detached.dirty = EmptyIndex
        /\ EmptyIndex \in Index /\ EmptyIndex.objs = {} /\ EmptyIndex.lsn = 0
        /\ NoPut.on = FALSE /\ NoPut.unlinked = {} /\ NoPut.index = EmptyIndex
    BY DetachedFacts
  <1>2. /\ MaxGen \in Nat /\ MaxGen >= 1 /\ MaxLsn \in Nat /\ First \in Nodes
        /\ 1 \in Gens /\ 1 \in 0..MaxGen /\ 0 \in 0..MaxGen /\ 0 \in 0..MaxLsn
    BY BoundsAssumption DEF Gens
  <1>3. ASSUME NEW n \in Nodes
        PROVE  /\ ps[n] \in PageserverType /\ ps[n].up /\ ps[n].gen = IF n = First THEN 1 ELSE 0
               /\ ps[n].blocked = {} /\ ps[n].unlinked = {} /\ ps[n].put = NoPut
               /\ ps[n].dirty = EmptyIndex /\ dq[n] = NewQueue
    <2> DEFINE g == IF n = First THEN 1 ELSE 0
    <2>1. ps[n] = [Detached EXCEPT !.gen = g] /\ dq[n] = NewQueue /\ g \in 0..MaxGen
      BY <1>2 DEF Init
    <2> HIDE DEF g
    <2>2. /\ ps[n] \in PageserverType /\ ps[n].up /\ ps[n].gen = g
          /\ ps[n].blocked = {} /\ ps[n].unlinked = {} /\ ps[n].put = NoPut
          /\ ps[n].dirty = EmptyIndex
      BY <1>1, <2>1 DEF PageserverType
    <2> QED
      BY <2>1, <2>2 DEF g
  <1>4. TypeInv
    <2>1. ps \in [Nodes -> PageserverType] /\ dq = [n \in Nodes |-> dq[n]]
      BY <1>3 DEF Init
    <2> QED
      BY <1>1, <1>2, <2>1 DEF Init, TypeInv
  <1>5. BudgetInv
    <2>1. Down = {}
      BY <1>3 DEF Down
    <2>2. IsFiniteSet(Down) /\ Cardinality(Down) = 0
      BY <2>1, FS_EmptySet
    <2>3. /\ budget \in [Faults \cup Limits -> Nat]
          /\ 1 + budget["crash"] + budget["lost"] <= budget["gen"]
          /\ budget["gen"] <= MaxGen /\ budget["lsn"] <= MaxLsn
      BY BoundsAssumption DEF Init
    <2>4. budget["crash"] \in Nat /\ budget["lost"] \in Nat /\ budget["gen"] \in Nat /\ db.gen = 1
      BY <2>3 DEF Init, Faults, Limits
    <2>5. db.gen + budget["crash"] + budget["lost"] + Cardinality(Down) <= budget["gen"]
      BY <2>2, <2>3, <2>4
    <2> QED
      BY <2>2, <2>3, <2>5 DEF BudgetInv
  <1>6. UseInv
    BY <1>3 DEF Init, UseInv
  <1>7. \A r \in References : r.index = EmptyIndex /\ r.gen = 1
    <2>1. \A n \in Nodes : \A r \in TenantRefs(ps[n]) : r.index = EmptyIndex /\ r.gen = 1
      BY <1>1, <1>3 DEF TenantRefs, Ref
    <2>2. \A g \in found : Ref(g, index[g]).index = EmptyIndex /\ Ref(g, index[g]).gen = 1
      BY <1>2 DEF Init, Ref
    <2>3. stray = {}
      BY DEF Init
    <2> QED
      BY <2>1, <2>2, <2>3 DEF References
  <1>8. confirmed \in Safe
    <2>1. Reached(0, 1, MaxGen)
      BY <1>1, <1>7 DEF Reached
    <2> QED
      BY <1>2, <2>1 DEF Init, Safe, Covered
  <1>9. \A n \in Nodes : PageserverIsSafe(ps[n])
    BY <1>1, <1>3 DEF PageserverIsSafe, TenantIsSafe
  <1>10. \A n \in Nodes : QueueIsSafe(Objects, Surroundings, dq[n])
    <2>1. \A g : Unreferenced(g) \subseteq Objects /\ Covered(g) \subseteq Nat
      BY <1>2, <1>4 DEF Unreferenced, Covered, TypeInv
    <2>2. Surroundings \in View(Objects)
      BY <2>1 DEF Init, Surroundings, View, Free, Safe
    <2> QED
      BY <1>3, <2>2, NewQueueIsSafe
  <1>11. SafeInv
    BY <1>1, <1>7, <1>8, <1>9, <1>10 DEF Init, SafeInv
  <1> QED
    BY <1>4, <1>5, <1>6, <1>11 DEF Inv

\* Every step keeps it.
LEMMA NextInv ==
  ASSUME Inv, [Next]_vars
  PROVE  Inv'
  <1>1. CASE Controller
    BY <1>1, IncrementGenerationStep, ConfigureAgainStep, ValidateStep DEF Controller
  <1>2. CASE Locations
    BY <1>2, AttachStep, SetModeStep, DetachStep, ResetTenantStep DEF Locations
  <1>3. CASE Tenants
    BY <1>3, UploadLayerStep, UnlinkLayerStep, AdvanceLsnStep, StartIndexUploadStep,
       FinishIndexUploadStep, LandStrayStep DEF Tenants
  <1>4. CASE Queues
    BY <1>4, FlushPendingStep, StartFlushStep, AnsweredStep, DeleteObjectStep, CleanupListStep
       DEF Queues
  <1>5. CASE Failures
    BY <1>5, CrashStep, RestartStep, ReAttachLostStep, CrashInValidateStep DEF Failures
  <1>6. CASE UNCHANGED vars
    <2>1. UNCHANGED <<db, requests, ps, dq, objs, written, index, found, stray, budget,
                      confirmed, advertised>>
      BY <1>6 DEF vars
    <2>2. TypeInv' /\ BudgetInv' /\ UseInv'
      BY <2>1 DEF Inv, TypeInv, BudgetInv, UseInv, Down
    <2>3. Evolves
      BY <2>1, QuietEvolves, BoundsAssumption DEF Inv, TypeInv, Gens
    <2> QED
      BY <2>1, <2>2, <2>3, QuietStep
  <1> QED
    BY <1>1, <1>2, <1>3, <1>4, <1>5, <1>6 DEF Next

\* What nobody will refer to is in no index that counts, now or for the next
\* attachment; and what they all reach, these have reached.
LEMMA NewestIndex ==
  ASSUME Inv
  PROVE  /\ IndexFor(db.gen).objs \subseteq written \ Free
         /\ \A lsn \in Safe : lsn <= IndexFor(db.gen).lsn
         /\ \A n \in Nodes : ps[n].gen = db.gen =>
               /\ ps[n].dirty.objs \subseteq written \ Free
               /\ \A lsn \in Safe : lsn <= ps[n].dirty.lsn
  <1>1. TypeInv /\ UseInv /\ SafeInv /\ MaxGen \in Nat
    BY BoundsAssumption DEF Inv
  <1>2. db.gen \in Nat /\ db.gen # 0 /\ db.gen <= MaxGen /\ found \subseteq Nat
    BY <1>1, BoundsAssumption DEF TypeInv, Gens
  <1>3. ASSUME NEW lo \in found PROVE lo <= db.gen
    <2>1. lo \in 1..db.gen
      BY <1>1 DEF UseInv
    <2> QED
      BY <1>2, <2>1
  <1>4. ASSUME NEW r \in References, \A lo \in found : lo <= r.gen
        PROVE  r.index.objs \subseteq written \ Free /\ \A lsn \in Safe : lsn <= r.index.lsn
    <2>1. r.gen \in Nat /\ r.gen <= MaxGen
      BY <1>2, ReferencesAreIssued, BoundsAssumption DEF ReferenceType, Gens
    <2>2. r.index.objs \subseteq written
      BY <1>1 DEF SafeInv
    <2>3. \A k \in Free : k \notin r.index.objs
      BY <1>4, <2>1 DEF Free, Unreferenced, Absent
    <2>4. \A lsn \in Safe : lsn <= r.index.lsn
      BY <1>4, <2>1 DEF Safe, Covered, Reached
    <2> QED
      BY <2>2, <2>3, <2>4
  <1>5. PICK h \in found : /\ h <= db.gen /\ (\A k \in found : k <= db.gen => k <= h)
                           /\ IndexFor(db.gen) = index[h]
    BY <1>1, <1>2, IndexForIsNewest
  <1>6. /\ Ref(h, index[h]) \in References
        /\ Ref(h, index[h]).gen = h /\ Ref(h, index[h]).index = index[h]
    BY ReferencesAreIssued DEF Ref
  <1>7. ASSUME NEW n \in Nodes, ps[n].gen = db.gen
        PROVE  /\ ps[n].dirty.objs \subseteq written \ Free
               /\ \A lsn \in Safe : lsn <= ps[n].dirty.lsn
    <2>1. /\ Ref(db.gen, ps[n].dirty) \in References
          /\ Ref(db.gen, ps[n].dirty).gen = db.gen
          /\ Ref(db.gen, ps[n].dirty).index = ps[n].dirty
      BY <1>2, <1>7, ReferencesAreIssued DEF Ref
    <2> QED
      BY <1>3, <1>4, <2>1
  <1>8. /\ index[h].objs \subseteq written \ Free
        /\ \A lsn \in Safe : lsn <= index[h].lsn
    BY <1>3, <1>4, <1>5, <1>6
  <1> QED
    BY <1>5, <1>7, <1>8

\* The four properties follow.
LEMMA InvImplies ==
  ASSUME Inv
  PROVE  TypeOK /\ ReferencedIsThere /\ HeaderIsSafe /\ ConfirmedIsCovered
  <1>1. TypeInv /\ BudgetInv /\ UseInv /\ SafeInv
    BY DEF Inv
  <1>2. TypeOK
    <2>1. \A n \in Nodes :
             /\ dq[n].step \in {"idle", "asked", "exec"}
             /\ dq[n].answer \in {"none", "valid", "invalid"}
             /\ dq[n].header < dq[n].pending.seq
             /\ \A l \in dq[n].disk : l.seq < dq[n].pending.seq /\ l.keys \subseteq Objects
      BY <1>1 DEF SafeInv, QueueIsSafe, QueueType, QueueOrder, DeletionList
    <2> QED
      BY <1>1, <2>1 DEF TypeInv, BudgetInv, TypeOK
  <1>3. ReferencedIsThere
    BY <1>1, NewestIndex DEF SafeInv, ReferencedIsThere
  <1>4. HeaderIsSafe
    <2>1. ASSUME NEW n \in Nodes, NEW l \in dq[n].disk, l.validated \/ l.seq <= dq[n].header
          PROVE  l.keys \subseteq Free
      BY <1>1, <2>1 DEF SafeInv, QueueIsSafe, DiskIsSafe, ListIsSafe, Surroundings
    <2> QED
      BY <2>1, NewestIndex DEF HeaderIsSafe
  <1>5. ConfirmedIsCovered
    <2>1. /\ confirmed <= IndexFor(db.gen).lsn
          /\ \A n \in Nodes : ps[n].gen = db.gen => confirmed <= ps[n].dirty.lsn
      BY <1>1, NewestIndex DEF SafeInv
    <2>2. confirmed \in Int /\ \A n \in Nodes : ps[n].dirty.lsn \in Int
      BY <1>1, PageserverFacts, BoundsAssumption DEF TypeInv
    <2>3. IndexFor(db.gen).lsn \in Int
      <3>1. db.gen \in Nat \ {0}
        BY <1>1, BoundsAssumption DEF TypeInv, Gens
      <3> QED
        BY <1>1, <3>1, IndexForIsNewest, BoundsAssumption DEF TypeInv, Index
    <2> QED
      BY <2>1, <2>2, <2>3 DEF ConfirmedIsCovered
  <1> QED
    BY <1>2, <1>3, <1>4, <1>5

\* A node that is down stays as it is until it starts.
LEMMA DownStays ==
  ASSUME TypeInv, Next, NEW n \in Nodes, ~ps[n].up, ~Restart(n)
  PROVE  ps'[n] = ps[n]
  <1>1. \A r \in requests : r.node \in Nodes
    BY DEF TypeInv
  <1>2. CASE Controller
    BY <1>2 DEF Controller, IncrementGeneration, ConfigureAgain, Validate
  <1>3. CASE Locations
    <2>1. CASE \E r \in requests : Attach(r)
      BY <1>1, <2>1 DEF Attach, Spawn, TypeInv
    <2>2. CASE \E r \in requests : SetMode(r)
      BY <1>1, <2>2 DEF SetMode, TypeInv
    <2>3. CASE \E m \in Nodes : Detach(m)
      BY <2>3 DEF Detach, TypeInv
    <2>4. CASE \E m \in Nodes : ResetTenant(m)
      BY <2>4 DEF ResetTenant, Spawn, TypeInv
    <2> QED
      BY <1>3, <2>1, <2>2, <2>3, <2>4 DEF Locations
  <1>4. CASE Tenants
    <2>1. CASE \E m \in Nodes, o \in Objects : UploadLayer(m, o)
      BY <2>1 DEF UploadLayer, TypeInv
    <2>2. CASE \E m \in Nodes, o \in Objects : UnlinkLayer(m, o)
      BY <2>2 DEF UnlinkLayer, TypeInv
    <2>3. CASE \E m \in Nodes : AdvanceLsn(m)
      BY <2>3 DEF AdvanceLsn, TypeInv
    <2>4. CASE \E m \in Nodes : StartIndexUpload(m)
      BY <2>4 DEF StartIndexUpload, TypeInv
    <2>5. CASE \E m \in Nodes, io \in BOOLEAN : FinishIndexUpload(m, io)
      BY <2>5 DEF FinishIndexUpload, TypeInv
    <2>6. CASE \E x \in stray : LandStray(x)
      BY <2>6 DEF LandStray
    <2> QED
      BY <1>4, <2>1, <2>2, <2>3, <2>4, <2>5, <2>6 DEF Tenants
  <1>5. CASE Queues
    BY <1>5 DEF Queues, FlushPending, StartFlush, Answered, DeleteObject, CleanupList
  <1>6. CASE Failures
    <2>1. CASE \E m \in Nodes : Crash(m)
      BY <2>1 DEF Crash, Gone, TypeInv
    <2>2. CASE \E m \in Nodes : \E L \in SUBSET Mutated(dq[m]) : CrashInValidate(m, L)
      BY <2>2 DEF CrashInValidate, Gone, TypeInv
    <2>3. CASE \E m \in Nodes : Restart(m)
      BY <2>3 DEF Restart, TypeInv
    <2>4. CASE \E m \in Nodes : ReAttachLost(m)
      BY <2>4 DEF ReAttachLost
    <2> QED
      BY <1>6, <2>1, <2>2, <2>3, <2>4 DEF Failures
  <1> QED
    BY <1>2, <1>3, <1>4, <1>5, <1>6 DEF Next

\* The generation that a node starts with is above all that are in use, and the
\* one before it, whose deletion lists move, is its own.
LEMMA StartIsFresh ==
  ASSUME Inv, NEW n \in Nodes, Restart(n), NEW g, g = ps'[n].gen, g # 0
  PROVE  /\ Owners(g) = {} /\ g \notin found /\ \A x \in stray : x.gen # g
         /\ \A l \in dq[n].disk : Recovered(dq[n], l, g).gen # l.gen =>
               \A h \in l.gen..(g - 1) : Owners(h) \subseteq {n}
  <1>1. TypeInv /\ UseInv /\ db.gen \in Nat
    BY BoundsAssumption DEF Inv, TypeInv, Gens
  <1>2. db.node = n /\ g = db.gen + 1
    <2>1. db.node = n
      BY <1>1 DEF Restart, TypeInv, Detached
    <2>2. db'.gen = db.gen + 1
      BY <1>1, <2>1 DEF Restart, ReAttached, TypeInv
    <2> QED
      BY <1>1, <2>1, <2>2 DEF Restart, TypeInv, Detached
  <1>3. /\ \A r \in requests : r.gen \in Nat /\ r.gen <= db.gen
        /\ \A x \in stray : x.gen \in Nat /\ x.gen <= db.gen
        /\ \A m \in Nodes : ps[m].gen \in Nat /\ ps[m].gen <= db.gen
    BY <1>1, BoundsAssumption DEF TypeInv, UseInv, Gens, PageserverType
  <1>4. Owners(g) = {} /\ \A x \in stray : x.gen # g
    BY <1>1, <1>2, <1>3 DEF Owners
  <1>5. g \notin found
    BY <1>1, <1>2 DEF UseInv
  <1>6. Owners(db.gen) \subseteq {n}
    BY <1>1, <1>2 DEF Owners, UseInv
  <1>7. ASSUME NEW l \in dq[n].disk, Recovered(dq[n], l, g).gen # l.gen,
               NEW h \in l.gen..(g - 1)
        PROVE  Owners(h) \subseteq {n}
    <2>1. l \in DeletionList(Objects)
      BY DEF Inv, SafeInv, QueueIsSafe, QueueType
    <2>2. l.gen = g - 1
      BY <1>1, <1>7, <2>1 DEF Recovered, DeletionList
    <2>3. h = db.gen
      BY <1>1, <1>2, <1>7, <2>2
    <2> QED
      BY <1>6, <2>3
  <1> QED
    BY <1>4, <1>5, <1>7

\* The inductive invariant holds of every behaviour.
THEOREM InvAlways == Spec => []Inv
  BY InitInv, NextInv, PTL DEF Spec

\* The variables have their types, and no sequence number of a deletion list is
\* used twice, across any number of crashes of the deletion queue.
THEOREM TypesHold == Spec => []TypeOK
  BY InvAlways, InvImplies, PTL

\* No deletion takes away a layer that the newest attachment or the next one
\* refers to: whatever stale pageservers, late uploads, lost answers, write
\* errors and crashes do, for every number of pageservers, layers and generations.
THEOREM SplitBrainIsSafe == Spec => []ReferencedIsThere
  BY InvAlways, InvImplies, PTL

\* What the header of the deletion queue says is true: the lists up to its
\* sequence, and those saved as validated, can be executed without asking.
THEOREM HeaderVouches == Spec => []HeaderIsSafe
  BY InvAlways, InvImplies, PTL

\* WAL that the deletion queue has released to the safekeepers is in the index of
\* the newest attachment and of the next one.
THEOREM ReleasedWalIsUploaded == Spec => []ConfirmedIsCovered
  BY InvAlways, InvImplies, PTL

\* A node that starts finds its generation untouched, and no one else's work in
\* what its recovered deletion lists are moved over: whatever calls in earlier
\* generations come late or again, and however often answers to re-attach are
\* lost.
THEOREM RestartsAreFresh == Spec => RestartIsFresh
  <1>1. ASSUME Inv, [Next]_vars
        PROVE  [\A n \in Nodes : ~ps[n].up /\ ps'[n].gen # 0 =>
                   LET g == ps'[n].gen
                   IN  /\ Owners(g) = {} /\ g \notin found /\ \A x \in stray : x.gen # g
                       /\ \A l \in dq[n].disk : Recovered(dq[n], l, g).gen # l.gen =>
                             \A h \in l.gen..(g - 1) : Owners(h) \subseteq {n}]_vars
    <2>1. CASE UNCHANGED vars
      BY <2>1
    <2>2. ASSUME Next, NEW n \in Nodes, ~ps[n].up, ps'[n].gen # 0
          PROVE  Restart(n)
      <3>1. ps[n].gen = 0
        BY <1>1, <2>2, PageserverFacts DEF TenantIsSafe
      <3> QED
        BY <1>1, <2>2, <3>1, DownStays DEF Inv
    <2>3. CASE Next
      BY <1>1, <2>2, <2>3, StartIsFresh
    <2> QED
      BY <1>1, <2>1, <2>3
  <1> QED
    BY <1>1, InvAlways, PTL DEF Spec, RestartIsFresh
=============================================================================
