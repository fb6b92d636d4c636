---------------------------- MODULE DeletionQueue ----------------------------
(***************************************************************************)
(* The deletion queue of one pageserver (pageserver/src/deletion_queue),   *)
(* for one tenant shard: operators on a record q with the fields           *)
(*   pending  the list the ListWriter is building                          *)
(*   lists    lists sent to the Validator and not yet taken up by a flush  *)
(*   batch    the lists of the flush in progress                           *)
(*   todo     keys of the batch that the Deleter has still to delete       *)
(*   step     where Validator::flush is: "idle", "asked" (waiting for the  *)
(*            controller), "exec" (waiting for the Deleter, cleaning up)   *)
(*   asked    the generation sent for validation, answer its outcome       *)
(*   lsns     the projected remote_consistent_lsn of the LSN table         *)
(*   taken    the one the flush in progress took from the table            *)
(*   failed   list_write_failed is set                                     *)
(*   disk     the deletion lists on disk, header the validated sequence    *)
(* A list is [seq, gen, keys, validated].  The channels between the stages *)
(* are part of the fields: pending holds what was pushed to the            *)
(* ListWriter, lists what was sent to the Validator.                       *)
(***************************************************************************)
EXTENDS Integers

NoLsn == [gen |-> 0, lsn |-> 0]

EmptyList(seq) == [seq |-> seq, gen |-> 0, keys |-> {}, validated |-> FALSE]

Sequences(L) == {l.seq : l \in L}

\* The flush in progress ends.
Idle(q) ==
    [q EXCEPT !.step = "idle", !.batch = {}, !.todo = {}, !.asked = 0,
              !.answer = "none", !.taken = NoLsn]

-----------------------------------------------------------------------------
\* As if the entry of another generation were kept.
UpdateLsnUncleared(q, gen, lsn) ==
    IF lsn = 0 THEN q
    ELSE [q EXCEPT !.lsns = [gen |-> gen, lsn |-> IF lsn > @.lsn THEN lsn ELSE @.lsn]]

\* DeletionQueueClient::update_remote_consistent_lsn: the entry of another
\* generation is replaced, as an older LSN is.  At LSN 0, where the timeline
\* starts, there is nothing to release.
UpdateLsn(q, gen, lsn) ==
    IF lsn = 0 THEN q ELSE [q EXCEPT !.lsns = [gen |-> gen, lsn |-> lsn]]

\* ListWriter::flush, when the list can be saved.
FlushList(q) ==
    IF q.pending.keys = {} THEN q
    ELSE [q EXCEPT !.disk = @ \cup {q.pending},
                   !.lists = @ \cup {q.pending},
                   !.pending = EmptyList(q.pending.seq + 1)]

\* DeletionList::push
Accepts(list, gen) == list.keys = {} \/ list.gen = gen

\* The Delete branch of ListWriter::background.  A list has one generation per
\* tenant: another one starts a new list, and the keys are leaked if the old
\* list cannot be saved (io says whether it can).
PushKeys(q, gen, keys, io) ==
    LET r == IF Accepts(q.pending, gen) \/ ~io THEN q ELSE FlushList(q)
    IN  IF keys = {} \/ ~Accepts(r.pending, gen) THEN r
        ELSE [r EXCEPT !.pending.gen = gen, !.pending.keys = @ \cup keys]

-----------------------------------------------------------------------------
Unvalidated(L) == {l \in L : ~l.validated}

\* The generation that Validator::validate sends: of the last list that is not
\* validated, or of the LSN update if that is newer; 0 if there is no work.
AskedGeneration(L, upd) ==
    LET last == {l \in Unvalidated(L) : \A m \in Unvalidated(L) : m.seq <= l.seq}
        gens == {l.gen : l \in last} \cup {upd.gen}
    IN  CHOOSE g \in gens : \A h \in gens : h <= g

\* Validator::flush up to the call of the controller: it takes the lists that it
\* has received, a prefix of those sent, and the LSN table.
BeginFlush(q, L) ==
    LET g == AskedGeneration(L, q.lsns)
    IN  [q EXCEPT !.lists = @ \ L, !.batch = L, !.lsns = NoLsn, !.taken = q.lsns,
                  !.asked = g,
                  !.step = IF g = 0 THEN "exec" ELSE "asked",
                  !.todo = IF g = 0 THEN UNION {l.keys : l \in L} ELSE {}]

\* The answer of the controller is about one generation.
IsValid(q, l) == q.answer = "valid" /\ l.gen = q.asked

\* A list after the answer: the keys of another generation are dropped.
Trimmed(q, l) ==
    IF l.validated THEN l
    ELSE [l EXCEPT !.validated = TRUE, !.keys = IF IsValid(q, l) THEN @ ELSE {}]

Mutated(q) == {l \in Unvalidated(q.batch) : ~IsValid(q, l)}

\* The lists on disk when the trimmed forms of the lists in L have been saved.
Saved(q, L) == {l \in q.disk : l.seq \notin Sequences(L)} \cup {Trimmed(q, l) : l \in L}

\* As if a list that could not be saved were of no matter for the header.
HeaderAlways(q, failed) ==
    LET S == Sequences(Unvalidated(q.batch))
    IN  IF S = {} THEN q.header ELSE CHOOSE s \in S : \A r \in S : r <= s

\* The header names the last list validated, unless a list could not be saved.
HeaderAfter(q, failed) ==
    LET S == Sequences(Unvalidated(q.batch))
    IN  IF S = {} \/ failed THEN q.header
        ELSE CHOOSE s \in S : \A r \in S : r <= s

\* The rest of Validator::validate: F are the lists that cannot be saved, and
\* hdr says whether the header can.
ApplyAnswer(q, F, hdr) ==
    LET failed == q.failed \/ F # {}
        r == [q EXCEPT !.disk = Saved(q, Mutated(q) \ F),
                       !.failed = failed,
                       !.header = IF hdr THEN HeaderAfter(q, failed) ELSE @,
                       !.batch = {Trimmed(q, l) : l \in @},
                       !.todo = UNION {Trimmed(q, l).keys : l \in q.batch},
                       !.step = "exec"]
    IN  IF q.batch = {} THEN Idle(r) ELSE r

\* The LSN update of the flush in progress is for the validated generation.
LsnIsValid(q) == q.answer = "valid" /\ q.taken.gen = q.asked /\ q.taken # NoLsn

\* Validator::cleanup_lists, one list.
RemoveFile(q, l) ==
    LET r == [q EXCEPT !.disk = {x \in @ : x.seq # l.seq}, !.batch = @ \ {l}]
    IN  IF r.batch = {} THEN Idle(r) ELSE r

-----------------------------------------------------------------------------
\* As if every list on disk were of this node's generation.
RecoveredWhateverGen(q, l, gen) ==
    IF l.seq <= q.header THEN [l EXCEPT !.validated = TRUE]
    ELSE IF gen # 0 THEN [l EXCEPT !.gen = gen]
    ELSE l

\* ListWriter::recover of one list: the header vouches for the lists up to its
\* sequence; a list of the generation before the one this node is attached in
\* (0: not attached) was written in between by nobody else, and moves to it.
Recovered(q, l, gen) ==
    IF l.seq <= q.header THEN [l EXCEPT !.validated = TRUE]
    ELSE IF gen # 0 /\ l.gen = gen - 1 THEN [l EXCEPT !.gen = gen]
    ELSE l

\* As if the lists on disk alone said which sequences were used.
NextSequenceOfLists(q) ==
    LET S == Sequences(q.disk) \cup {0}
    IN  (CHOOSE s \in S : \A r \in S : r <= s) + 1

\* ListWriter::recover: the sequence goes on after all that is on disk.
NextSequence(q) ==
    LET S == Sequences(q.disk) \cup {q.header}
    IN  (CHOOSE s \in S : \A r \in S : r <= s) + 1

\* As if only lists that need no validation were taken up again.
RecoverValidated(q, gen) ==
    [Idle(q) EXCEPT !.pending = EmptyList(NextSequence(q)),
                    !.lists = {l \in {Recovered(q, x, gen) : x \in q.disk} : l.validated},
                    !.lsns = NoLsn,
                    !.failed = FALSE]

\* ListWriter::recover, when a process starts.
Recover(q, gen) ==
    [Idle(q) EXCEPT !.pending = EmptyList(NextSequence(q)),
                    !.lists = {Recovered(q, l, gen) : l \in q.disk},
                    !.lsns = NoLsn,
                    !.failed = FALSE]

NewQueue ==
    [pending |-> EmptyList(1), lists |-> {}, batch |-> {}, todo |-> {},
     step |-> "idle", asked |-> 0, answer |-> "none", lsns |-> NoLsn,
     taken |-> NoLsn, failed |-> FALSE, disk |-> {}, header |-> 0]
=============================================================================
