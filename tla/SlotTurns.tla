----------------------------- MODULE SlotTurns -----------------------------
(***************************************************************************)
(* The slots of a hash pool as the node thread sees them: the datasets     *)
(* they were last loaded with, the one to be recycled next first.  Node    *)
(* takes both pools for this; HashPool says in what steps they do it.      *)
(***************************************************************************)
EXTENDS Integers, Sequences

CONSTANT NSlots     \* ds.size() of both hash pools: 2 in the code

InSeq(x, q) == \E i \in DOMAIN q : q[i] = x

\* Slip: the slots are used up, not used again.
LoadAppends(slots, d) == IF InSeq(d, slots) THEN slots ELSE Append(slots, d)

\* has_dataset, and if not, the next slot in turn.
Load(slots, d) ==
    IF InSeq(d, slots) THEN slots
    ELSE IF Len(slots) < NSlots THEN Append(slots, d)
    ELSE Append(Tail(slots), d)
=============================================================================
