------------------------ MODULE DeletionQueue_proofs ------------------------
(***************************************************************************)
(* What the deletion queue of a pageserver guarantees, whatever goes on    *)
(* around it.  The surroundings are a record v:                            *)
(*   unref[g]    keys that no index of generation g refers to              *)
(*   free        keys that no index will ever refer to                     *)
(*   covered[g]  LSNs that the indexes of generation g have reached        *)
(*   safe        LSNs that no index will ever fall behind                  *)
(*   last        the newest generation                                     *)
(* (SplitBrain_proofs says what these are exactly.)  Every operation of    *)
(* the queue keeps QueueIsSafe, which says that only keys in free are      *)
(* executed, and that the header and the lists on disk vouch for no other. *)
(***************************************************************************)
EXTENDS DeletionQueue, TLAPS, WellFoundedInduction

View(K) ==
    [unref : [Nat -> SUBSET K], free : SUBSET K,
     covered : [Nat -> SUBSET Nat], safe : SUBSET Nat, last : Nat]

DeletionList(K) == [seq : Nat, gen : Nat, keys : SUBSET K, validated : BOOLEAN]
LsnEntry == [gen : Nat, lsn : Nat]

QueueType(K) ==
    [pending : DeletionList(K), lists : SUBSET DeletionList(K),
     batch : SUBSET DeletionList(K), todo : SUBSET K,
     step : {"idle", "asked", "exec"}, asked : Nat,
     answer : {"none", "valid", "invalid"}, lsns : LsnEntry, taken : LsnEntry,
     failed : BOOLEAN, disk : SUBSET DeletionList(K), header : Nat]

\* Sequence numbers grow from the header over the flush in progress and the
\* lists received to the list that is being built.
QueueOrder(q) ==
    /\ q.header < q.pending.seq
    /\ \A l \in q.lists : l.seq < q.pending.seq
    /\ \A l \in q.batch : l.seq < q.pending.seq
    /\ \A l \in q.disk : l.seq < q.pending.seq
    /\ \A b \in q.batch, l \in q.lists : b.seq < l.seq
    /\ \A l \in q.lists : ~l.validated => q.header < l.seq
    /\ q.step = "asked" => \A b \in q.batch : ~b.validated => q.header < b.seq

\* A flush that is over has left nothing behind.
QueuePhase(q) ==
    /\ q.step = "idle" => q.batch = {} /\ q.answer = "none"
    /\ ~q.pending.validated

\* The keys of a list are unreferenced in its generation, and in all of them when
\* the list counts as validated.
ListIsSafe(v, l) ==
    IF l.validated THEN l.keys \subseteq v.free
    ELSE l.gen \in 1..v.last /\ l.keys \subseteq v.unref[l.gen]

\* An entry of the LSN table was uploaded in its generation.
EntryIsSafe(v, x) == x # NoLsn => x.gen \in 1..v.last /\ x.lsn \in v.covered[x.gen]

\* All that the queue works on.
ContentIsSafe(v, q) ==
    /\ q.pending.keys # {} => ListIsSafe(v, q.pending)
    /\ \A l \in q.lists : ListIsSafe(v, l)
    /\ \A l \in q.batch : ListIsSafe(v, l)
    /\ q.todo \subseteq v.free
    /\ EntryIsSafe(v, q.lsns) /\ EntryIsSafe(v, q.taken)

\* An answer that the asked generation is the newest was true when it was given.
AnswerIsSafe(v, q) ==
    q.step = "asked" /\ q.answer = "valid" =>
        /\ \A l \in q.batch : ~l.validated /\ l.gen = q.asked => l.keys \subseteq v.free
        /\ q.taken # NoLsn /\ q.taken.gen = q.asked => q.taken.lsn \in v.safe

\* The lists on disk, and those the header vouches for.
DiskIsSafe(v, q) ==
    /\ \A d \in q.disk : ListIsSafe(v, d)
    /\ \A d \in q.disk : d.seq <= q.header => d.keys \subseteq v.free

\* A list on disk is still in the hands of the Validator, with the same keys; if
\* the Validator takes it for validated, then because of what is on disk.
IsCopy(q, m, d) ==
    m.keys = d.keys /\ (m.validated => d.validated \/ d.seq <= q.header)

HasCopy(q, d) ==
    \/ \E m \in q.lists : m.seq = d.seq /\ IsCopy(q, m, d)
    \/ \E m \in q.batch : m.seq = d.seq /\ (q.step = "asked" => IsCopy(q, m, d))

QueueIsSafe(K, v, q) ==
    /\ q \in QueueType(K)
    /\ QueueOrder(q) /\ QueuePhase(q)
    /\ ContentIsSafe(v, q) /\ AnswerIsSafe(v, q) /\ DiskIsSafe(v, q)
    /\ \A d \in q.disk : HasCopy(q, d)

\* The surroundings change in one direction.
Better(v, w) ==
    /\ \A g \in Nat : v.unref[g] \subseteq w.unref[g] /\ v.covered[g] \subseteq w.covered[g]
    /\ v.free \subseteq w.free /\ v.safe \subseteq w.safe
    /\ v.last <= w.last

-----------------------------------------------------------------------------
(* The largest of some numbers.                                            *)

\* Any numbers have a smallest one.
LEMMA Smallest ==
  ASSUME NEW S, S \subseteq Nat, S # {}
  PROVE  \E m \in S : \A s \in S : m <= s
  <1> DEFINE R == OpToRel(<, Nat)
  <1>1. IsWellFoundedOn(R, Nat)
    BY NatLessThanWellFounded
  <1>2. \A i, j \in Nat : i < j => <<i, j>> \in R
    BY DEF OpToRel
  <1> HIDE DEF R
  <1>3. PICK m \in S : \A s \in S : ~(<<s, m>> \in R)
    BY <1>1, WFMin
  <1>4. ASSUME NEW s \in S PROVE m <= s
    <2>1. s \in Nat /\ m \in Nat /\ ~(s < m)
      BY <1>2, <1>3
    <2> QED
      BY <2>1
  <1> QED
    BY <1>4

\* Numbers below a bound have a largest one.
LEMMA Largest ==
  ASSUME NEW b \in Nat, NEW S, S \subseteq Nat, S # {}, \A s \in S : s <= b
  PROVE  \E m \in S : \A s \in S : s <= m
  <1> DEFINE T == {b - s : s \in S}
  <1>1. \A s \in S : b - s \in Nat
    OBVIOUS
  <1>2. T # {} /\ T \subseteq Nat
    BY <1>1
  <1>3. PICK x \in T : \A y \in T : x <= y
    BY <1>2, Smallest
  <1>4. PICK m \in S : x = b - m
    BY <1>3
  <1>5. \A s \in S : b - m <= b - s
    BY <1>3, <1>4
  <1> QED
    BY <1>5

-----------------------------------------------------------------------------
(* Surroundings.                                                           *)

\* What a queue has remains safe when the surroundings change.
LEMMA QueueKept ==
  ASSUME NEW K, NEW v \in View(K), NEW w \in View(K), Better(v, w),
         NEW q, QueueIsSafe(K, v, q)
  PROVE  QueueIsSafe(K, w, q)
  <1>1. q \in QueueType(K) /\ QueueOrder(q) /\ QueuePhase(q) /\ \A d \in q.disk : HasCopy(q, d)
    BY DEF QueueIsSafe
  <1>2. \A l \in DeletionList(K) : ListIsSafe(v, l) => ListIsSafe(w, l)
    BY DEF DeletionList, ListIsSafe, Better, View
  <1>3. \A x \in LsnEntry : EntryIsSafe(v, x) => EntryIsSafe(w, x)
    BY DEF LsnEntry, EntryIsSafe, Better, View
  <1>4. ContentIsSafe(w, q)
    BY <1>1, <1>2, <1>3 DEF QueueIsSafe, ContentIsSafe, QueueType, Better
  <1>5. AnswerIsSafe(w, q)
    BY DEF QueueIsSafe, AnswerIsSafe, Better
  <1>6. DiskIsSafe(w, q)
    BY <1>1, <1>2 DEF QueueIsSafe, DiskIsSafe, QueueType, Better
  <1> QED
    BY <1>1, <1>4, <1>5, <1>6 DEF QueueIsSafe

\* A queue that has nothing to do.
LEMMA NewQueueIsSafe ==
  ASSUME NEW K, NEW v \in View(K)
  PROVE  QueueIsSafe(K, v, NewQueue)
  <1>1. NewQueue \in QueueType(K)
    BY DEF NewQueue, QueueType, EmptyList, NoLsn, DeletionList, LsnEntry
  <1> QED
    BY <1>1 DEF QueueIsSafe, NewQueue, EmptyList, NoLsn, QueueOrder, QueuePhase, ContentIsSafe,
                EntryIsSafe, AnswerIsSafe, DiskIsSafe

-----------------------------------------------------------------------------
(* The ListWriter.                                                         *)

\* ListWriter::flush.
LEMMA FlushListIsSafe ==
  ASSUME NEW K, NEW v \in View(K), NEW q, QueueIsSafe(K, v, q)
  PROVE  QueueIsSafe(K, v, FlushList(q)) /\ FlushList(q).pending.keys = {}
  <1>1. CASE q.pending.keys = {}
    BY <1>1 DEF FlushList
  <1>2. CASE q.pending.keys # {}
    <2> DEFINE l == q.pending
               e == EmptyList(l.seq + 1)
               disk == q.disk \cup {l}
               lists == q.lists \cup {l}
               r == FlushList(q)
    <2>1. /\ q \in QueueType(K) /\ QueueOrder(q) /\ QueuePhase(q)
          /\ ContentIsSafe(v, q) /\ AnswerIsSafe(v, q) /\ DiskIsSafe(v, q)
          /\ \A d \in q.disk : HasCopy(q, d)
      BY DEF QueueIsSafe
    <2>2. /\ l \in DeletionList(K) /\ l.seq \in Nat /\ ~l.validated /\ ListIsSafe(v, l)
          /\ e \in DeletionList(K)
          /\ disk \subseteq DeletionList(K) /\ lists \subseteq DeletionList(K)
      BY <1>2, <2>1 DEF QueueType, DeletionList, EmptyList, QueuePhase, ContentIsSafe
    <2>3. r = [q EXCEPT !.disk = disk, !.lists = lists, !.pending = e]
      BY <1>2, <2>1 DEF FlushList, QueueType
    <2> HIDE DEF r, e, disk, lists
    <2>4. r \in QueueType(K)
      BY <2>1, <2>2, <2>3 DEF QueueType
    <2>5. /\ r.disk = q.disk \cup {l} /\ r.lists = q.lists \cup {l} /\ r.pending = e
          /\ r.batch = q.batch /\ r.todo = q.todo /\ r.step = q.step /\ r.asked = q.asked
          /\ r.answer = q.answer /\ r.lsns = q.lsns /\ r.taken = q.taken /\ r.header = q.header
      BY <2>1, <2>3 DEF QueueType, disk, lists
    <2>6. r.pending.keys = {} /\ r.pending.seq = l.seq + 1 /\ ~r.pending.validated
      BY <2>5 DEF EmptyList, e
    <2>7. QueueOrder(r)
      BY <2>1, <2>2, <2>5, <2>6 DEF QueueOrder, QueueType, DeletionList
    <2>8. QueuePhase(r)
      BY <2>1, <2>5, <2>6 DEF QueuePhase
    <2>9. ContentIsSafe(v, r)
      BY <2>1, <2>2, <2>5, <2>6 DEF ContentIsSafe
    <2>10. AnswerIsSafe(v, r)
      BY <2>1, <2>5 DEF AnswerIsSafe
    <2>11. DiskIsSafe(v, r)
      BY <2>1, <2>2, <2>5 DEF DiskIsSafe, QueueOrder, QueueType
    <2>12. \A d \in r.disk : HasCopy(r, d)
      BY <2>1, <2>2, <2>5 DEF HasCopy, IsCopy
    <2> QED
      BY <2>4, <2>6, <2>7, <2>8, <2>9, <2>10, <2>11, <2>12 DEF QueueIsSafe, r
  <1> QED
    BY <1>1, <1>2

\* Keys are added to the list that is being built.
LEMMA PendingIsSafe ==
  ASSUME NEW K, NEW v \in View(K), NEW q, QueueIsSafe(K, v, q),
         NEW gen \in 1..v.last, NEW keys, keys \subseteq v.unref[gen],
         Accepts(q.pending, gen)
  PROVE  QueueIsSafe(K, v, [q EXCEPT !.pending.gen = gen, !.pending.keys = @ \cup keys])
  <1> DEFINE r == [q EXCEPT !.pending.gen = gen, !.pending.keys = @ \cup keys]
             l == [q.pending EXCEPT !.gen = gen, !.keys = @ \cup keys]
  <1>1. /\ q \in QueueType(K) /\ QueueOrder(q) /\ QueuePhase(q)
        /\ ContentIsSafe(v, q) /\ AnswerIsSafe(v, q) /\ DiskIsSafe(v, q)
        /\ \A d \in q.disk : HasCopy(q, d)
    BY DEF QueueIsSafe
  <1>2. q.pending \in DeletionList(K) /\ keys \subseteq K /\ gen \in Nat
    BY <1>1 DEF QueueType, View
  <1>3. /\ l \in DeletionList(K) /\ l.seq = q.pending.seq /\ ~l.validated
        /\ l.gen = gen /\ l.keys = q.pending.keys \cup keys
    BY <1>1, <1>2 DEF DeletionList, QueuePhase
  <1>4. ListIsSafe(v, l)
    BY <1>1, <1>3 DEF ListIsSafe, ContentIsSafe, Accepts, QueuePhase
  <1>5. r = [q EXCEPT !.pending = l]
    BY <1>1, <1>2 DEF QueueType, DeletionList
  <1> HIDE DEF l, r
  <1>6. r \in QueueType(K)
    BY <1>1, <1>3, <1>5 DEF QueueType
  <1>7. /\ r.pending = l /\ r.disk = q.disk /\ r.lists = q.lists
        /\ r.batch = q.batch /\ r.todo = q.todo /\ r.step = q.step /\ r.asked = q.asked
        /\ r.answer = q.answer /\ r.lsns = q.lsns /\ r.taken = q.taken /\ r.header = q.header
    BY <1>1, <1>5 DEF QueueType
  <1>8. QueueOrder(r) /\ QueuePhase(r)
    BY <1>1, <1>3, <1>7 DEF QueueOrder, QueuePhase
  <1>9. ContentIsSafe(v, r) /\ AnswerIsSafe(v, r) /\ DiskIsSafe(v, r)
    BY <1>1, <1>4, <1>7 DEF ContentIsSafe, AnswerIsSafe, DiskIsSafe
  <1>10. \A d \in r.disk : HasCopy(r, d)
    BY <1>1, <1>7 DEF HasCopy, IsCopy
  <1> QED
    BY <1>6, <1>8, <1>9, <1>10 DEF QueueIsSafe, r

\* The Delete branch of ListWriter::background.
LEMMA PushKeysIsSafe ==
  ASSUME NEW K, NEW v \in View(K), NEW q, QueueIsSafe(K, v, q), NEW io \in BOOLEAN,
         NEW gen \in 1..v.last, NEW keys, keys \subseteq v.unref[gen]
  PROVE  QueueIsSafe(K, v, PushKeys(q, gen, keys, io))
  <1> DEFINE r == IF Accepts(q.pending, gen) \/ ~io THEN q ELSE FlushList(q)
  <1>1. QueueIsSafe(K, v, r)
    BY FlushListIsSafe
  <1>2. PushKeys(q, gen, keys, io) =
            IF keys = {} \/ ~Accepts(r.pending, gen) THEN r
            ELSE [r EXCEPT !.pending.gen = gen, !.pending.keys = @ \cup keys]
    BY DEF PushKeys
  <1> HIDE DEF r
  <1>3. CASE keys = {} \/ ~Accepts(r.pending, gen)
    BY <1>1, <1>2, <1>3
  <1>4. CASE keys # {} /\ Accepts(r.pending, gen)
    <2>1. QueueIsSafe(K, v, [r EXCEPT !.pending.gen = gen, !.pending.keys = @ \cup keys])
      BY <1>1, <1>4, PendingIsSafe
    <2> QED
      BY <1>2, <1>4, <2>1
  <1> QED
    BY <1>3, <1>4

\* DeletionQueueClient::update_remote_consistent_lsn.
LEMMA UpdateLsnIsSafe ==
  ASSUME NEW K, NEW v \in View(K), NEW q, QueueIsSafe(K, v, q),
         NEW gen \in 1..v.last, NEW lsn \in v.covered[gen]
  PROVE  QueueIsSafe(K, v, UpdateLsn(q, gen, lsn))
  <1>1. CASE lsn = 0
    BY <1>1 DEF UpdateLsn
  <1>2. CASE lsn # 0
    <2> DEFINE x == [gen |-> gen, lsn |-> lsn]
               r == [q EXCEPT !.lsns = x]
    <2>1. /\ q \in QueueType(K) /\ QueueOrder(q) /\ QueuePhase(q)
          /\ ContentIsSafe(v, q) /\ AnswerIsSafe(v, q) /\ DiskIsSafe(v, q)
          /\ \A d \in q.disk : HasCopy(q, d)
      BY DEF QueueIsSafe
    <2>2. x \in LsnEntry /\ EntryIsSafe(v, x)
      BY DEF LsnEntry, EntryIsSafe, View
    <2> HIDE DEF x
    <2>3. r \in QueueType(K)
      BY <2>1, <2>2 DEF QueueType
    <2>4. /\ r.pending = q.pending /\ r.disk = q.disk /\ r.lists = q.lists
          /\ r.batch = q.batch /\ r.todo = q.todo /\ r.step = q.step /\ r.asked = q.asked
          /\ r.answer = q.answer /\ r.lsns = x /\ r.taken = q.taken /\ r.header = q.header
      BY <2>1 DEF QueueType
    <2> HIDE DEF r
    <2>5. QueueOrder(r) /\ QueuePhase(r)
      BY <2>1, <2>4 DEF QueueOrder, QueuePhase
    <2>6. ContentIsSafe(v, r) /\ AnswerIsSafe(v, r) /\ DiskIsSafe(v, r)
      BY <2>1, <2>2, <2>4 DEF ContentIsSafe, AnswerIsSafe, DiskIsSafe
    <2>7. \A d \in r.disk : HasCopy(r, d)
      BY <2>1, <2>4 DEF HasCopy, IsCopy
    <2>8. QueueIsSafe(K, v, r)
      BY <2>3, <2>5, <2>6, <2>7 DEF QueueIsSafe
    <2> QED
      BY <1>2, <2>8 DEF UpdateLsn, r, x
  <1> QED
    BY <1>1, <1>2

-----------------------------------------------------------------------------
(* The Validator asks.                                                     *)

\* Without work there is nothing to validate: all lists taken up are validated.
LEMMA AskedGenerationIsOne ==
  ASSUME NEW K, NEW v \in View(K), NEW q, QueueIsSafe(K, v, q), NEW L \in SUBSET q.lists
  PROVE  /\ AskedGeneration(L, q.lsns) \in Nat
         /\ AskedGeneration(L, q.lsns) = 0 => \A l \in L : l.validated
  <1> DEFINE U == Unvalidated(L)
             last == {l \in U : \A m \in U : m.seq <= l.seq}
             gens == {l.gen : l \in last} \cup {q.lsns.gen}
             g == AskedGeneration(L, q.lsns)
  <1>1. q \in QueueType(K) /\ QueueOrder(q) /\ ContentIsSafe(v, q) /\ v.last \in Nat
    BY DEF QueueIsSafe, View
  <1>2. \A l \in U : /\ l \in DeletionList(K) /\ l.seq \in Nat /\ l.seq <= q.pending.seq
                     /\ l.gen \in 1..v.last
    BY <1>1 DEF QueueType, QueueOrder, ContentIsSafe, ListIsSafe, Unvalidated, DeletionList
  <1>3. q.lsns.gen \in 0..v.last
    BY <1>1 DEF QueueType, ContentIsSafe, EntryIsSafe, LsnEntry, NoLsn
  <1>4. ASSUME U # {} PROVE last # {}
    <2> DEFINE S == {l.seq : l \in U}
    <2>1. S \subseteq Nat /\ S # {} /\ \A s \in S : s <= q.pending.seq
      BY <1>2, <1>4
    <2>2. q.pending.seq \in Nat
      BY <1>1 DEF QueueType, DeletionList
    <2>3. PICK m \in S : \A s \in S : s <= m
      BY <2>1, <2>2, Largest
    <2> QED
      BY <2>3
  <1>5. gens \subseteq Nat /\ gens # {} /\ \A x \in gens : x <= v.last
    BY <1>1, <1>2, <1>3
  <1>6. \E m \in gens : \A h \in gens : h <= m
    BY <1>1, <1>5, Largest
  <1>7. g = CHOOSE x \in gens : \A h \in gens : h <= x
    BY DEF AskedGeneration
  <1> HIDE DEF gens, g
  <1>8. g \in gens /\ \A h \in gens : h <= g
    BY <1>6, <1>7
  <1>9. g = 0 => U = {}
    <2> SUFFICES ASSUME g = 0, U # {} PROVE FALSE
      OBVIOUS
    <2>1. PICK l \in last : TRUE
      BY <1>4
    <2>2. l.gen \in gens /\ l.gen \in 1..v.last
      BY <1>2 DEF gens
    <2> QED
      BY <1>1, <1>8, <2>2
  <1>10. g \in Nat
    BY <1>5, <1>8
  <1> QED
    BY <1>9, <1>10 DEF Unvalidated, g

\* Validator::flush up to the call of the controller.
LEMMA BeginFlushIsSafe ==
  ASSUME NEW K, NEW v \in View(K), NEW q, QueueIsSafe(K, v, q), q.step = "idle",
         NEW k \in Nat
  PROVE  QueueIsSafe(K, v, BeginFlush(q, {l \in q.lists : l.seq <= k}))
  <1> DEFINE L == {l \in q.lists : l.seq <= k}
             g == AskedGeneration(L, q.lsns)
             lists == q.lists \ L
             step == IF g = 0 THEN "exec" ELSE "asked"
             todo == IF g = 0 THEN UNION {l.keys : l \in L} ELSE {}
             r == BeginFlush(q, L)
  <1>1. /\ q \in QueueType(K) /\ QueueOrder(q) /\ QueuePhase(q)
        /\ ContentIsSafe(v, q) /\ DiskIsSafe(v, q)
        /\ \A d \in q.disk : HasCopy(q, d)
    BY DEF QueueIsSafe
  <1>2. g \in Nat /\ (g = 0 => \A l \in L : l.validated)
    BY AskedGenerationIsOne
  <1>3. q.batch = {} /\ q.answer = "none"
    BY <1>1 DEF QueuePhase
  <1>4. r = [q EXCEPT !.lists = lists, !.batch = L, !.lsns = NoLsn, !.taken = q.lsns,
                      !.asked = g, !.step = step, !.todo = todo]
    BY <1>1 DEF BeginFlush, QueueType
  <1>5. /\ lists \subseteq DeletionList(K) /\ L \subseteq DeletionList(K)
        /\ step \in {"exec", "asked"} /\ NoLsn \in LsnEntry
    BY <1>1 DEF QueueType, NoLsn, LsnEntry
  <1>6. todo \subseteq v.free /\ todo \subseteq K
    <2>1. CASE g = 0
      <3>1. \A l \in L : l.keys \subseteq v.free
        BY <1>1, <1>2, <2>1 DEF ContentIsSafe, ListIsSafe
      <3>2. v.free \subseteq K
        BY DEF View
      <3> QED
        BY <2>1, <3>1, <3>2
    <2>2. CASE g # 0
      BY <2>2
    <2> QED
      BY <2>1, <2>2
  <1>7. \A b \in L, l \in lists : b.seq < l.seq
    BY <1>1 DEF QueueType, DeletionList
  <1>8. L \subseteq q.lists /\ lists \subseteq q.lists /\ q.lists = lists \cup L
    OBVIOUS
  <1> HIDE DEF L, g, lists, step, todo, r
  <1>9. r \in QueueType(K)
    BY <1>1, <1>2, <1>4, <1>5, <1>6 DEF QueueType
  <1>10. /\ r.pending = q.pending /\ r.disk = q.disk /\ r.lists = lists
         /\ r.batch = L /\ r.todo = todo /\ r.step = step /\ r.asked = g
         /\ r.answer = q.answer /\ r.lsns = NoLsn /\ r.taken = q.lsns /\ r.header = q.header
    BY <1>1, <1>4 DEF QueueType
  <1>11. QueueOrder(r)
    BY <1>1, <1>7, <1>8, <1>10 DEF QueueOrder
  <1>12. QueuePhase(r)
    BY <1>1, <1>5, <1>10 DEF QueuePhase
  <1>13. ContentIsSafe(v, r)
    BY <1>1, <1>6, <1>8, <1>10 DEF ContentIsSafe, EntryIsSafe
  <1>14. AnswerIsSafe(v, r) /\ DiskIsSafe(v, r)
    BY <1>1, <1>3, <1>10 DEF AnswerIsSafe, DiskIsSafe
  <1>15. \A d \in r.disk : HasCopy(r, d)
    BY <1>1, <1>3, <1>8, <1>10 DEF HasCopy, IsCopy
  <1>16. QueueIsSafe(K, v, r)
    BY <1>9, <1>11, <1>12, <1>13, <1>14, <1>15 DEF QueueIsSafe
  <1> QED
    BY <1>16 DEF r, L

\* The controller answers: the asked generation is valid only if it is the newest.
LEMMA AnswerComes ==
  ASSUME NEW K, NEW v \in View(K), NEW q, QueueIsSafe(K, v, q),
         q.step = "asked", NEW a \in {"valid", "invalid"},
         a = "valid" => /\ q.asked = v.last
                        /\ v.unref[v.last] \subseteq v.free
                        /\ v.covered[v.last] \subseteq v.safe
  PROVE  QueueIsSafe(K, v, [q EXCEPT !.answer = a])
  <1> DEFINE r == [q EXCEPT !.answer = a]
  <1>1. /\ q \in QueueType(K) /\ QueueOrder(q) /\ QueuePhase(q)
        /\ ContentIsSafe(v, q) /\ DiskIsSafe(v, q)
        /\ \A d \in q.disk : HasCopy(q, d)
    BY DEF QueueIsSafe
  <1>2. r \in QueueType(K)
    BY <1>1 DEF QueueType
  <1>3. /\ r.pending = q.pending /\ r.disk = q.disk /\ r.lists = q.lists
        /\ r.batch = q.batch /\ r.todo = q.todo /\ r.step = q.step /\ r.asked = q.asked
        /\ r.answer = a /\ r.lsns = q.lsns /\ r.taken = q.taken /\ r.header = q.header
    BY <1>1 DEF QueueType
  <1> HIDE DEF r
  <1>4. QueueOrder(r) /\ QueuePhase(r)
    BY <1>1, <1>3 DEF QueueOrder, QueuePhase
  <1>5. ContentIsSafe(v, r) /\ DiskIsSafe(v, r)
    BY <1>1, <1>3 DEF ContentIsSafe, DiskIsSafe
  <1>6. AnswerIsSafe(v, r)
    BY <1>1, <1>3 DEF ContentIsSafe, ListIsSafe, EntryIsSafe, AnswerIsSafe
  <1>7. \A d \in r.disk : HasCopy(r, d)
    BY <1>1, <1>3 DEF HasCopy, IsCopy
  <1> QED
    BY <1>2, <1>4, <1>5, <1>6, <1>7 DEF QueueIsSafe, r

-----------------------------------------------------------------------------
(* The Validator has the answer.                                           *)

\* The flush in progress ends.
LEMMA IdleIsSafe ==
  ASSUME NEW K, NEW v \in View(K), NEW q, QueueIsSafe(K, v, q), q.batch = {}
  PROVE  QueueIsSafe(K, v, Idle(q))
  <1> DEFINE r == Idle(q)
  <1>1. /\ q \in QueueType(K) /\ QueueOrder(q) /\ QueuePhase(q)
        /\ ContentIsSafe(v, q) /\ DiskIsSafe(v, q)
        /\ \A d \in q.disk : HasCopy(q, d)
    BY DEF QueueIsSafe
  <1>2. NoLsn \in LsnEntry
    BY DEF NoLsn, LsnEntry
  <1>3. r \in QueueType(K)
    BY <1>1, <1>2 DEF QueueType, Idle
  <1>4. /\ r.pending = q.pending /\ r.disk = q.disk /\ r.lists = q.lists
        /\ r.batch = {} /\ r.todo = {} /\ r.step = "idle" /\ r.asked = 0
        /\ r.answer = "none" /\ r.lsns = q.lsns /\ r.taken = NoLsn /\ r.header = q.header
    BY <1>1 DEF QueueType, Idle
  <1> HIDE DEF r
  <1>5. QueueOrder(r) /\ QueuePhase(r)
    BY <1>1, <1>4 DEF QueueOrder, QueuePhase
  <1>6. ContentIsSafe(v, r) /\ DiskIsSafe(v, r) /\ AnswerIsSafe(v, r)
    BY <1>1, <1>4 DEF ContentIsSafe, DiskIsSafe, AnswerIsSafe, EntryIsSafe
  <1>7. \A d \in r.disk : HasCopy(r, d)
    BY <1>1, <1>4 DEF HasCopy, IsCopy
  <1> QED
    BY <1>3, <1>5, <1>6, <1>7 DEF QueueIsSafe, r

\* A list after the answer needs no validation any more.
LEMMA TrimmedIsSafe ==
  ASSUME NEW K, NEW v \in View(K), NEW q, QueueIsSafe(K, v, q), q.step = "asked",
         NEW l \in q.batch
  PROVE  LET t == Trimmed(q, l)
         IN  /\ t \in DeletionList(K) /\ t.validated /\ t.seq = l.seq
             /\ t.keys \subseteq v.free
             /\ l \in Mutated(q) => t.keys = {}
  <1> DEFINE t == Trimmed(q, l)
             keys == IF IsValid(q, l) THEN l.keys ELSE {}
  <1>1. /\ l \in DeletionList(K) /\ ListIsSafe(v, l)
        /\ q.answer = "valid" /\ ~l.validated /\ l.gen = q.asked => l.keys \subseteq v.free
    BY DEF QueueIsSafe, QueueType, ContentIsSafe, AnswerIsSafe
  <1>2. CASE l.validated
    BY <1>1, <1>2 DEF Trimmed, ListIsSafe, Mutated, Unvalidated
  <1>3. CASE ~l.validated
    <2>1. t = [l EXCEPT !.validated = TRUE, !.keys = keys]
      BY <1>1, <1>3 DEF Trimmed, DeletionList
    <2>2. keys \subseteq v.free /\ keys \subseteq K /\ (l \in Mutated(q) => keys = {})
      BY <1>1, <1>3 DEF IsValid, DeletionList, Mutated
    <2> HIDE DEF t, keys
    <2>3. t \in DeletionList(K) /\ t.validated /\ t.seq = l.seq /\ t.keys = keys
      BY <1>1, <2>1, <2>2 DEF DeletionList
    <2> QED
      BY <2>2, <2>3 DEF t
  <1> QED
    BY <1>2, <1>3

\* The header moves forward, to a list of the flush in progress.
LEMMA HeaderMoves ==
  ASSUME NEW K, NEW v \in View(K), NEW q, QueueIsSafe(K, v, q), q.step = "asked",
         NEW failed \in BOOLEAN
  PROVE  LET h == HeaderAfter(q, failed)
         IN  \/ h = q.header
             \/ ~failed /\ h > q.header /\ \E b \in q.batch : b.seq = h
  <1> DEFINE S == Sequences(Unvalidated(q.batch))
             h == HeaderAfter(q, failed)
  <1>1. q \in QueueType(K) /\ QueueOrder(q)
    BY DEF QueueIsSafe
  <1>2. S \subseteq Nat /\ \A s \in S : s <= q.pending.seq
    BY <1>1 DEF Sequences, Unvalidated, QueueType, QueueOrder, DeletionList
  <1>3. \A s \in S : s > q.header /\ \E b \in q.batch : b.seq = s
    BY <1>1 DEF Sequences, Unvalidated, QueueOrder, QueueType, DeletionList
  <1>4. CASE S = {} \/ failed
    BY <1>4 DEF HeaderAfter
  <1>5. CASE S # {} /\ ~failed
    <2>1. q.pending.seq \in Nat
      BY <1>1 DEF QueueType, DeletionList
    <2>2. \E m \in S : \A s \in S : s <= m
      BY <1>2, <1>5, <2>1, Largest
    <2>3. h = CHOOSE s \in S : \A x \in S : x <= s
      BY <1>5 DEF HeaderAfter
    <2> HIDE DEF S, h
    <2>4. h \in S
      BY <2>2, <2>3
    <2> QED
      BY <1>3, <1>5, <2>4 DEF h
  <1> QED
    BY <1>4, <1>5

\* Trimmed lists on disk are as safe as those they replace.
LEMMA SavedIsSafe ==
  ASSUME NEW K, NEW v \in View(K), NEW q, QueueIsSafe(K, v, q), q.step = "asked",
         NEW L \in SUBSET Mutated(q)
  PROVE  /\ Saved(q, L) \subseteq DeletionList(K)
         /\ \A d \in Saved(q, L) :
               \/ d \in q.disk /\ \A l \in L : d.seq # l.seq
               \/ /\ d.validated /\ d.keys = {}
                  /\ \E l \in q.batch : d = Trimmed(q, l) /\ d.seq = l.seq
  <1>1. q.disk \subseteq DeletionList(K)
    BY DEF QueueIsSafe, QueueType
  <1>2. ASSUME NEW l \in L
        PROVE  l \in q.batch /\ LET t == Trimmed(q, l)
                                IN  t \in DeletionList(K) /\ t.validated /\ t.seq = l.seq /\ t.keys = {}
    <2>1. l \in q.batch /\ l \in Mutated(q)
      BY DEF Mutated, Unvalidated
    <2> QED
      BY <2>1, TrimmedIsSafe
  <1> QED
    BY <1>1, <1>2 DEF Saved, Sequences

\* The rest of Validator::validate.  The header moves only when every list below
\* it could be saved, so that what it vouches for on disk is what was validated.
LEMMA ApplyAnswerIsSafe ==
  ASSUME NEW K, NEW v \in View(K), NEW q, QueueIsSafe(K, v, q), q.step = "asked",
         NEW F \in SUBSET Mutated(q), NEW hdr \in BOOLEAN
  PROVE  QueueIsSafe(K, v, ApplyAnswer(q, F, hdr))
  <1> DEFINE failed == q.failed \/ F # {}
             L == Mutated(q) \ F
             disk == Saved(q, L)
             header == IF hdr THEN HeaderAfter(q, failed) ELSE q.header
             batch == {Trimmed(q, l) : l \in q.batch}
             todo == UNION {Trimmed(q, l).keys : l \in q.batch}
             r == [q EXCEPT !.disk = disk, !.failed = failed, !.header = header,
                            !.batch = batch, !.todo = todo, !.step = "exec"]
  <1>1. /\ q \in QueueType(K) /\ QueueOrder(q) /\ QueuePhase(q)
        /\ ContentIsSafe(v, q) /\ AnswerIsSafe(v, q) /\ DiskIsSafe(v, q)
        /\ \A d \in q.disk : HasCopy(q, d)
    BY DEF QueueIsSafe
  <1>2. ApplyAnswer(q, F, hdr) = IF q.batch = {} THEN Idle(r) ELSE r
    BY <1>1 DEF ApplyAnswer, QueueType
  <1>3. \A l \in q.batch : LET t == Trimmed(q, l)
                           IN  /\ t \in DeletionList(K) /\ t.validated /\ t.seq = l.seq
                               /\ t.keys \subseteq v.free
    BY TrimmedIsSafe
  <1>4. L \in SUBSET Mutated(q) /\ failed \in BOOLEAN /\ (~failed => L = Mutated(q))
    BY <1>1 DEF QueueType
  <1>5. /\ disk \subseteq DeletionList(K)
        /\ \A d \in disk :
              \/ d \in q.disk /\ \A l \in L : d.seq # l.seq
              \/ /\ d.validated /\ d.keys = {}
                 /\ \E l \in q.batch : d = Trimmed(q, l) /\ d.seq = l.seq
    BY <1>4, SavedIsSafe
  <1>6. \/ header = q.header
        \/ ~failed /\ header > q.header /\ \E b \in q.batch : b.seq = header
    BY <1>4, HeaderMoves
  <1>7. /\ header \in Nat /\ header >= q.header /\ header < q.pending.seq
        /\ \A l \in q.lists : ~l.validated => header < l.seq
    BY <1>1, <1>6 DEF QueueType, QueueOrder, DeletionList
  <1>8. /\ batch \subseteq DeletionList(K)
        /\ \A t \in batch : t.validated /\ t.keys \subseteq v.free /\ \E l \in q.batch : t.seq = l.seq
    BY <1>3
  <1>9. todo \subseteq v.free /\ todo \subseteq K
    <2>1. v.free \subseteq K
      BY DEF View
    <2> QED
      BY <1>3, <2>1
  <1>10. \A d \in disk : d.seq <= header => d.keys \subseteq v.free
    <2> SUFFICES ASSUME NEW d \in disk, d.seq <= header, d \in q.disk,
                        \A l \in L : d.seq # l.seq
                 PROVE  d.keys \subseteq v.free
      BY <1>5
    <2>1. d \in DeletionList(K) /\ d.seq \in Nat
      BY <1>5 DEF DeletionList
    <2>2. CASE header = q.header
      BY <1>1, <2>2 DEF DiskIsSafe
    <2>3. CASE ~failed /\ \E b \in q.batch : b.seq = header
      <3>1. PICK b \in q.batch : b.seq = header
        BY <2>3
      <3>2. ASSUME NEW m \in q.lists, m.seq = d.seq PROVE FALSE
        BY <1>1, <2>1, <3>1, <3>2, <1>7 DEF QueueOrder
      <3>3. PICK m \in q.batch : m.seq = d.seq /\ IsCopy(q, m, d)
        BY <1>1, <3>2 DEF HasCopy
      <3>4. CASE m.validated
        BY <1>1, <3>3, <3>4 DEF IsCopy, DiskIsSafe, ListIsSafe
      <3>5. CASE ~m.validated
        <4>1. m \notin Mutated(q)
          BY <1>4, <2>3, <3>3
        <4>2. IsValid(q, m)
          BY <3>5, <4>1 DEF Mutated, Unvalidated
        <4> QED
          BY <1>1, <3>3, <3>5, <4>2 DEF IsValid, AnswerIsSafe, IsCopy
      <3> QED
        BY <3>4, <3>5
    <2> QED
      BY <1>6, <2>2, <2>3
  <1>11. \A d \in disk : ListIsSafe(v, d) /\ d.seq < q.pending.seq
    BY <1>1, <1>5 DEF DiskIsSafe, ListIsSafe, QueueOrder
  <1>12. \A l \in q.batch : Trimmed(q, l) \in batch
    OBVIOUS
  <1> HIDE DEF failed, L, disk, header, batch, todo
  <1>13. r \in QueueType(K)
    BY <1>1, <1>4, <1>5, <1>7, <1>8, <1>9 DEF QueueType
  <1>14. /\ r.pending = q.pending /\ r.disk = disk /\ r.lists = q.lists
         /\ r.batch = batch /\ r.todo = todo /\ r.step = "exec" /\ r.asked = q.asked
         /\ r.answer = q.answer /\ r.lsns = q.lsns /\ r.taken = q.taken /\ r.header = header
    BY <1>1 DEF QueueType
  <1> HIDE DEF r
  <1>15. QueueOrder(r)
    <2>1. \A b \in batch : b.seq < q.pending.seq /\ \A l \in q.lists : b.seq < l.seq
      BY <1>1, <1>8 DEF QueueOrder
    <2> QED
      BY <1>1, <1>7, <1>11, <1>14, <2>1 DEF QueueOrder
  <1>16. QueuePhase(r) /\ AnswerIsSafe(v, r)
    BY <1>1, <1>14 DEF QueuePhase, AnswerIsSafe
  <1>17. ContentIsSafe(v, r)
    BY <1>1, <1>8, <1>9, <1>14 DEF ContentIsSafe, ListIsSafe
  <1>18. DiskIsSafe(v, r)
    BY <1>10, <1>11, <1>14 DEF DiskIsSafe
  <1>19. ASSUME NEW d \in r.disk PROVE HasCopy(r, d)
    <2>1. ASSUME d \in q.disk PROVE HasCopy(r, d)
      <3>1. CASE \E m \in q.lists : m.seq = d.seq /\ IsCopy(q, m, d)
        <4>1. d.seq \in Nat /\ q.header \in Nat
          BY <1>1, <2>1 DEF QueueType, DeletionList
        <4> QED
          BY <1>7, <1>14, <3>1, <4>1 DEF HasCopy, IsCopy
      <3>2. CASE \E m \in q.batch : m.seq = d.seq
        BY <1>3, <1>12, <1>14, <3>2 DEF HasCopy
      <3> QED
        BY <1>1, <2>1, <3>1, <3>2 DEF HasCopy
    <2>2. ASSUME \E l \in q.batch : d = Trimmed(q, l) PROVE HasCopy(r, d)
      BY <1>12, <1>14, <2>2 DEF HasCopy
    <2> QED
      BY <1>5, <1>14, <2>1, <2>2
  <1>20. QueueIsSafe(K, v, r)
    BY <1>13, <1>15, <1>16, <1>17, <1>18, <1>19 DEF QueueIsSafe
  <1>21. q.batch = {} => r.batch = {}
    BY <1>14 DEF batch
  <1> QED
    BY <1>2, <1>20, <1>21, IdleIsSafe

-----------------------------------------------------------------------------
(* The Deleter, and cleaning up.                                           *)

\* A key has been deleted.
LEMMA DeletedIsSafe ==
  ASSUME NEW K, NEW v \in View(K), NEW q, QueueIsSafe(K, v, q), NEW o
  PROVE  QueueIsSafe(K, v, [q EXCEPT !.todo = @ \ {o}])
  <1> DEFINE todo == q.todo \ {o}
             r == [q EXCEPT !.todo = todo]
  <1>1. /\ q \in QueueType(K) /\ QueueOrder(q) /\ QueuePhase(q)
        /\ ContentIsSafe(v, q) /\ AnswerIsSafe(v, q) /\ DiskIsSafe(v, q)
        /\ \A d \in q.disk : HasCopy(q, d)
    BY DEF QueueIsSafe
  <1>2. todo \subseteq q.todo /\ todo \subseteq K
    BY <1>1 DEF QueueType
  <1>3. [q EXCEPT !.todo = @ \ {o}] = r
    BY <1>1 DEF QueueType
  <1> HIDE DEF todo
  <1>4. r \in QueueType(K)
    BY <1>1, <1>2 DEF QueueType
  <1>5. /\ r.pending = q.pending /\ r.disk = q.disk /\ r.lists = q.lists
        /\ r.batch = q.batch /\ r.todo = todo /\ r.step = q.step /\ r.asked = q.asked
        /\ r.answer = q.answer /\ r.lsns = q.lsns /\ r.taken = q.taken /\ r.header = q.header
    BY <1>1 DEF QueueType
  <1> HIDE DEF r
  <1>6. QueueOrder(r) /\ QueuePhase(r)
    BY <1>1, <1>5 DEF QueueOrder, QueuePhase
  <1>7. ContentIsSafe(v, r) /\ AnswerIsSafe(v, r) /\ DiskIsSafe(v, r)
    BY <1>1, <1>2, <1>5 DEF ContentIsSafe, AnswerIsSafe, DiskIsSafe
  <1>8. \A d \in r.disk : HasCopy(r, d)
    BY <1>1, <1>5 DEF HasCopy, IsCopy
  <1> QED
    BY <1>3, <1>4, <1>6, <1>7, <1>8 DEF QueueIsSafe

\* Validator::cleanup_lists, one list.
LEMMA RemoveFileIsSafe ==
  ASSUME NEW K, NEW v \in View(K), NEW q, QueueIsSafe(K, v, q), q.step = "exec",
         NEW l \in q.batch
  PROVE  QueueIsSafe(K, v, RemoveFile(q, l))
  <1> DEFINE disk == {x \in q.disk : x.seq # l.seq}
             batch == q.batch \ {l}
             r == [q EXCEPT !.disk = disk, !.batch = batch]
  <1>1. /\ q \in QueueType(K) /\ QueueOrder(q) /\ QueuePhase(q)
        /\ ContentIsSafe(v, q) /\ AnswerIsSafe(v, q) /\ DiskIsSafe(v, q)
        /\ \A d \in q.disk : HasCopy(q, d)
    BY DEF QueueIsSafe
  <1>2. RemoveFile(q, l) = IF r.batch = {} THEN Idle(r) ELSE r
    BY <1>1 DEF RemoveFile, QueueType
  <1>3. /\ disk \subseteq q.disk /\ batch \subseteq q.batch
        /\ disk \subseteq DeletionList(K) /\ batch \subseteq DeletionList(K)
        /\ \A d \in disk : d.seq # l.seq
        /\ \A m \in q.batch : m \in batch \/ m = l
    BY <1>1 DEF QueueType
  <1> HIDE DEF disk, batch
  <1>4. r \in QueueType(K)
    BY <1>1, <1>3 DEF QueueType
  <1>5. /\ r.pending = q.pending /\ r.disk = disk /\ r.lists = q.lists
        /\ r.batch = batch /\ r.todo = q.todo /\ r.step = q.step /\ r.asked = q.asked
        /\ r.answer = q.answer /\ r.lsns = q.lsns /\ r.taken = q.taken /\ r.header = q.header
    BY <1>1 DEF QueueType
  <1> HIDE DEF r
  <1>6. QueueOrder(r) /\ QueuePhase(r)
    BY <1>1, <1>3, <1>5 DEF QueueOrder, QueuePhase
  <1>7. ContentIsSafe(v, r) /\ AnswerIsSafe(v, r) /\ DiskIsSafe(v, r)
    BY <1>1, <1>3, <1>5 DEF ContentIsSafe, AnswerIsSafe, DiskIsSafe
  <1>8. \A d \in r.disk : HasCopy(r, d)
    BY <1>1, <1>3, <1>5 DEF HasCopy, IsCopy
  <1>9. QueueIsSafe(K, v, r)
    BY <1>4, <1>6, <1>7, <1>8 DEF QueueIsSafe
  <1> QED
    BY <1>2, <1>9, IdleIsSafe

-----------------------------------------------------------------------------
(* Recovery, from what is on disk alone.                                   *)

DiskIsInOrder(q) ==
    /\ q.header < q.pending.seq
    /\ \A l \in q.disk : l.seq < q.pending.seq

\* A list that is recovered has the keys it had, and is executed without being
\* validated only if it was validated or the header vouches for it.
LEMMA RecoveredIsSafe ==
  ASSUME NEW K, NEW v \in View(K), NEW q \in QueueType(K), DiskIsSafe(v, q),
         NEW gen \in Nat,
         gen # 0 => gen = v.last /\ v.unref[gen - 1] \subseteq v.unref[gen],
         NEW d \in q.disk
  PROVE  LET t == Recovered(q, d, gen)
         IN  /\ t \in DeletionList(K) /\ t.seq = d.seq /\ t.keys = d.keys
             /\ ListIsSafe(v, t)
             /\ t.validated => d.validated \/ d.seq <= q.header
             /\ ~t.validated => q.header < d.seq
  <1> DEFINE t == Recovered(q, d, gen)
  <1>1. /\ d \in DeletionList(K) /\ d.seq \in Nat /\ q.header \in Nat /\ v.last \in Nat
        /\ ListIsSafe(v, d) /\ (d.seq <= q.header => d.keys \subseteq v.free)
    BY DEF QueueType, DeletionList, DiskIsSafe, View
  <1>2. CASE d.seq <= q.header
    <2>1. t = [d EXCEPT !.validated = TRUE]
      BY <1>2 DEF Recovered
    <2>2. t \in DeletionList(K) /\ t.seq = d.seq /\ t.keys = d.keys /\ t.validated
      BY <1>1, <2>1 DEF DeletionList
    <2> QED
      BY <1>1, <1>2, <2>2 DEF ListIsSafe
  <1>3. CASE d.seq > q.header /\ gen # 0 /\ d.gen = gen - 1
    <2>1. t = [d EXCEPT !.gen = gen]
      BY <1>1, <1>3 DEF Recovered
    <2>2. /\ t \in DeletionList(K) /\ t.seq = d.seq /\ t.keys = d.keys /\ t.gen = gen
          /\ t.validated = d.validated
      BY <1>1, <2>1 DEF DeletionList
    <2>3. ListIsSafe(v, t)
      BY <1>1, <1>3, <2>2 DEF ListIsSafe
    <2> QED
      BY <1>1, <1>3, <2>2, <2>3
  <1>4. CASE d.seq > q.header /\ ~(gen # 0 /\ d.gen = gen - 1)
    <2>1. t = d
      BY <1>1, <1>4 DEF Recovered
    <2> QED
      BY <1>1, <1>4, <2>1
  <1> QED
    BY <1>1, <1>2, <1>3, <1>4

\* No sequence number is used again.
LEMMA NextSequenceIsNew ==
  ASSUME NEW K, NEW q \in QueueType(K), DiskIsInOrder(q)
  PROVE  /\ NextSequence(q) \in Nat
         /\ q.header < NextSequence(q)
         /\ \A l \in q.disk : l.seq < NextSequence(q)
  <1> DEFINE S == Sequences(q.disk) \cup {q.header}
             m == CHOOSE s \in S : \A x \in S : x <= s
  <1>1. S \subseteq Nat /\ \A s \in S : s <= q.pending.seq
    BY DEF Sequences, QueueType, DeletionList, DiskIsInOrder
  <1>2. q.header \in S /\ \A l \in q.disk : l.seq \in S
    BY DEF Sequences
  <1>3. q.pending.seq \in Nat
    BY DEF QueueType, DeletionList
  <1>4. NextSequence(q) = m + 1
    BY DEF NextSequence
  <1> HIDE DEF S
  <1>5. \E s \in S : \A x \in S : x <= s
    BY <1>1, <1>2, <1>3, Largest
  <1>6. m \in S /\ \A x \in S : x <= m
    BY <1>5
  <1> HIDE DEF m
  <1>7. m \in Nat /\ \A x \in S : x \in Nat /\ x < m + 1
    BY <1>1, <1>6
  <1> QED
    BY <1>2, <1>4, <1>7

\* ListWriter::recover needs no more than the lists and the header on disk.
LEMMA RecoverIsSafe ==
  ASSUME NEW K, NEW v \in View(K), NEW q \in QueueType(K), DiskIsInOrder(q), DiskIsSafe(v, q),
         NEW gen \in Nat,
         gen # 0 => gen = v.last /\ v.unref[gen - 1] \subseteq v.unref[gen]
  PROVE  QueueIsSafe(K, v, Recover(q, gen))
  <1> DEFINE e == EmptyList(NextSequence(q))
             lists == {Recovered(q, l, gen) : l \in q.disk}
             r == Recover(q, gen)
  <1>1. /\ NextSequence(q) \in Nat /\ q.header < NextSequence(q)
        /\ \A l \in q.disk : l.seq < NextSequence(q)
    BY NextSequenceIsNew
  <1>2. /\ e \in DeletionList(K) /\ e.seq = NextSequence(q) /\ e.keys = {} /\ ~e.validated
        /\ NoLsn \in LsnEntry
    BY <1>1 DEF EmptyList, DeletionList, NoLsn, LsnEntry
  <1>3. \A d \in q.disk : LET t == Recovered(q, d, gen)
                          IN  /\ t \in DeletionList(K) /\ t.seq = d.seq /\ t.keys = d.keys
                              /\ ListIsSafe(v, t)
                              /\ t.validated => d.validated \/ d.seq <= q.header
                              /\ ~t.validated => q.header < d.seq
    BY RecoveredIsSafe
  <1>4. /\ \A d \in q.disk : Recovered(q, d, gen) \in lists
        /\ \A t \in lists : \E d \in q.disk : t = Recovered(q, d, gen)
    OBVIOUS
  <1>5. /\ lists \subseteq DeletionList(K)
        /\ \A t \in lists : /\ ListIsSafe(v, t) /\ t.seq < NextSequence(q)
                            /\ ~t.validated => q.header < t.seq
    BY <1>1, <1>3
  <1> HIDE DEF e, lists
  <1>6. r \in QueueType(K)
    BY <1>2, <1>5 DEF Recover, Idle, QueueType, e, lists
  <1>7. /\ r.pending = e /\ r.disk = q.disk /\ r.lists = lists
        /\ r.batch = {} /\ r.todo = {} /\ r.step = "idle" /\ r.asked = 0
        /\ r.answer = "none" /\ r.lsns = NoLsn /\ r.taken = NoLsn /\ r.header = q.header
    BY DEF Recover, Idle, QueueType, e, lists
  <1> HIDE DEF r
  <1>8. QueueOrder(r) /\ QueuePhase(r)
    BY <1>1, <1>2, <1>5, <1>7 DEF QueueOrder, QueuePhase
  <1>9. ContentIsSafe(v, r) /\ AnswerIsSafe(v, r) /\ DiskIsSafe(v, r)
    BY <1>2, <1>5, <1>7 DEF ContentIsSafe, AnswerIsSafe, DiskIsSafe, EntryIsSafe
  <1>10. \A d \in r.disk : HasCopy(r, d)
    BY <1>3, <1>4, <1>7 DEF HasCopy, IsCopy
  <1> QED
    BY <1>6, <1>8, <1>9, <1>10 DEF QueueIsSafe, r

\* A process stops and starts.
LEMMA CrashIsSafe ==
  ASSUME NEW K, NEW v \in View(K), NEW q, QueueIsSafe(K, v, q), NEW gen \in Nat,
         gen # 0 => gen = v.last /\ v.unref[gen - 1] \subseteq v.unref[gen]
  PROVE  QueueIsSafe(K, v, Recover(q, gen))
  <1>1. q \in QueueType(K) /\ DiskIsInOrder(q) /\ DiskIsSafe(v, q)
    BY DEF QueueIsSafe, QueueOrder, DiskIsInOrder
  <1> QED
    BY <1>1, RecoverIsSafe

\* A process stops while it saves the trimmed lists.
LEMMA CrashInValidateIsSafe ==
  ASSUME NEW K, NEW v \in View(K), NEW q, QueueIsSafe(K, v, q), q.step = "asked",
         NEW L \in SUBSET Mutated(q)
  PROVE  QueueIsSafe(K, v, Recover([q EXCEPT !.disk = Saved(q, L)], 0))
  <1> DEFINE disk == Saved(q, L)
             r == [q EXCEPT !.disk = disk]
  <1>1. q \in QueueType(K) /\ QueueOrder(q) /\ DiskIsSafe(v, q)
    BY DEF QueueIsSafe
  <1>2. /\ disk \subseteq DeletionList(K)
        /\ \A d \in disk : \/ d \in q.disk
                           \/ d.validated /\ d.keys = {} /\ \E l \in q.batch : d.seq = l.seq
    BY SavedIsSafe
  <1> HIDE DEF disk
  <1>3. r \in QueueType(K)
    BY <1>1, <1>2 DEF QueueType
  <1>4. r.pending = q.pending /\ r.disk = disk /\ r.header = q.header
    BY <1>1 DEF QueueType
  <1> HIDE DEF r
  <1>5. DiskIsInOrder(r)
    BY <1>1, <1>2, <1>4 DEF DiskIsInOrder, QueueOrder
  <1>6. DiskIsSafe(v, r)
    BY <1>1, <1>2, <1>4 DEF DiskIsSafe, ListIsSafe
  <1>7. QueueIsSafe(K, v, Recover(r, 0))
    BY <1>3, <1>5, <1>6, RecoverIsSafe
  <1> QED
    BY <1>7 DEF r, disk
=============================================================================
