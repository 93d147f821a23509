------------------------- MODULE MCLinkAssociations -------------------------
(* Vectors for TLC. *)
EXTENDS LinkAssociations

(* Addresses that differ from their neighbours in one part or several.     *)
Of(rocid, slot, channel, pulse, mask) ==
    [rocid |-> rocid, slot |-> slot, channel |-> channel, pulse_number |-> pulse, slot_mask |-> mask]
MCAddress ==
    {Of(1, 1, 1, 1, {1, 2}), Of(1, 1, 1, 2, {2}), Of(1, 1, 2, 1, {}), Of(1, 2, 1, 1, {1}),
     Of(2, 1, 1, 1, {2}), Of(2, 1, 2, 1, {1})}

Vectors(l) == {v \in UNION {[1..n -> MCAddress] : n \in 0..3} : Sorted(l, v)}
MCInputs == UNION {[level : {l}, a : Vectors(l), b : Vectors(l)] : l \in Levels}
=============================================================================
