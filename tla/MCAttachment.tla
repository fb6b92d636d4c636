---------------------------- MODULE MCAttachment ----------------------------
(***************************************************************************)
(* Attachment on small instances.                                          *)
(***************************************************************************)
EXTENDS Attachment, TLC

CONSTANTS n1, n2, o1, o2

Calm == [crash |-> 0, io |-> 0, lost |-> 0, mode |-> 0,
         again |-> 0, reset |-> 0, gen |-> 3, layer |-> 0, lsn |-> 0]

\* Two nodes that both take the shard for theirs, and two layers.
SplitBrain == [Calm EXCEPT !["layer"] = 2]

\* Crashes and a failed write around one deletion list.
ListRecovery == [Calm EXCEPT !["layer"] = 1, !["gen"] = 4, !["crash"] = 2, !["io"] = 1]

\* WAL, a crash and a lost answer to re-attach.
RemoteLsn == [Calm EXCEPT !["lsn"] = 2, !["gen"] = 4, !["crash"] = 1, !["lost"] = 1]

\* Calls that come again or late, and a tenant that is reset.
LateCalls == [Calm EXCEPT !["again"] = 1, !["reset"] = 1]
LateMode == [Calm EXCEPT !["layer"] = 1, !["gen"] = 2, !["again"] = 1, !["mode"] = 2]

AllKinds ==
    {SplitBrain, ListRecovery, RemoteLsn, LateMode,
     [LateCalls EXCEPT !["layer"] = 1], [LateCalls EXCEPT !["lsn"] = 1]}

Consumed ==
    {[Calm EXCEPT !["layer"] = 1, !["crash"] = 1, !["io"] = 1, !["again"] = 1],
     [Calm EXCEPT !["layer"] = 1, !["crash"] = 1, !["gen"] = 2, !["mode"] = 2]}

OneRecord == {[Calm EXCEPT !["lsn"] = 1, !["gen"] = 4]}

\* Layers are interchangeable.
Symmetry == Permutations({o1, o2})
=============================================================================
