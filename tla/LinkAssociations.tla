-------------------------- MODULE LinkAssociations --------------------------
(***************************************************************************)
(* The matching routines of LinkAssociations.h that step through two sorted*)
(* vectors together: MatchConfigF, MatchModuleF, MatchChannelF and         *)
(* MatchPulseF.  They differ in how much of an address they compare.  One  *)
(* step is one turn of the loop over the objects b.                        *)
(***************************************************************************)
EXTENDS Naturals, Sequences

CONSTANTS
    Address,     (* what the objects carry                                 *)
    Inputs       (* [level, a, b]: a routine and the vectors it is given   *)

Levels == {"config", "module", "channel", "pulse"}
AnyAddress == [rocid : Nat, slot : Nat, channel : Nat, pulse_number : Nat, slot_mask : SUBSET Nat]

(* SortByROCID, SortByModule, SortByChannel, SortByPulseNumber.            *)
Sorts(level, x, y) ==
    \/ x.rocid < y.rocid
    \/ /\ x.rocid = y.rocid
       /\ level # "config"
       /\ \/ x.slot < y.slot
          \/ /\ x.slot = y.slot
             /\ level # "module"
             /\ \/ x.channel < y.channel
                \/ /\ x.channel = y.channel
                   /\ level = "pulse"
                   /\ x.pulse_number < y.pulse_number

(* The same as far as the routine compares them. *)
Same(level, x, y) == ~Sorts(level, x, y) /\ ~Sorts(level, y, x)

Sorted(level, v) == \A k, l \in DOMAIN v : k < l => ~Sorts(level, v[l], v[k])

ASSUME AddressAssumption == Address \subseteq AnyAddress
ASSUME InputsAssumption ==
    \A in \in Inputs :
        /\ in.level \in Levels
        /\ in.a \in Seq(Address) /\ Sorted(in.level, in.a)
        /\ in.b \in Seq(Address) /\ Sorted(in.level, in.b)

VARIABLES
    level, a, b,
    i, j,      (* the first of the objects b and a not yet passed          *)
    links,     (* the calls of func, as pairs of positions in a and b      *)
    pc

vars == <<level, a, b, i, j, links, pc>>

(* What MatchConfig, MatchModule, MatchChannel and MatchPulse compare: a   *)
(* configuration is for the slots of a mask.                               *)
Matches(x, y) ==
    /\ x.rocid = y.rocid
    /\ level = "config" => y.slot \in x.slot_mask
    /\ level # "config" => x.slot = y.slot
    /\ level \in {"channel", "pulse"} => x.channel = y.channel
    /\ level = "pulse" => x.pulse_number = y.pulse_number

Init ==
    /\ \E in \in Inputs : level = in.level /\ a = in.a /\ b = in.b
    /\ i = 1 /\ j = 1
    /\ links = {}
    /\ pc = IF a = <<>> \/ b = <<>> THEN "done" ELSE "loop"

(* The end of the range of objects like the k-th. *)
RangeEnd(v, k) ==
    CHOOSE l \in k + 1 .. Len(v) + 1 :
        /\ \A m \in k .. l - 1 : Same(level, v[m], v[k])
        /\ l <= Len(v) => ~Same(level, v[l], v[k])

(* The first a from j on that does not come before the i-th b. *)
Start ==
    CHOOSE l \in j .. Len(a) + 1 :
        /\ \A m \in j .. l - 1 : Sorts(level, a[m], b[i])
        /\ l <= Len(a) => ~Sorts(level, a[l], b[i])

(* Mutant: the range found is passed over but for its last object. *)
EndOneLess == RangeEnd(a, Start) - 1
NextA == RangeEnd(a, Start)

(* The objects a are used up. *)
Exhausted ==
    /\ pc = "loop" /\ Start > Len(a)
    /\ i' = RangeEnd(b, i) /\ j' = Start
    /\ pc' = "done"
    /\ UNCHANGED <<level, a, b, links>>

(* No a is like these b's. *)
NotFound ==
    /\ pc = "loop" /\ Start <= Len(a) /\ ~Same(level, a[Start], b[i])
    /\ i' = RangeEnd(b, i) /\ j' = Start
    /\ pc' = IF RangeEnd(b, i) > Len(b) THEN "done" ELSE "loop"
    /\ UNCHANGED <<level, a, b, links>>

(* All of the one range go with all of the other. *)
Found ==
    /\ pc = "loop" /\ Start <= Len(a) /\ Same(level, a[Start], b[i])
    /\ i' = RangeEnd(b, i) /\ j' = NextA
    /\ links' = links \cup
          {p \in (Start .. NextA - 1) \X (i .. RangeEnd(b, i) - 1) :
              level = "config" => b[p[2]].slot \in a[p[1]].slot_mask}
    /\ pc' = IF RangeEnd(b, i) > Len(b) \/ NextA > Len(a) THEN "done" ELSE "loop"
    /\ UNCHANGED <<level, a, b>>

Next == Exhausted \/ NotFound \/ Found
Returned == pc = "done" /\ UNCHANGED vars
Spec == Init /\ [][Next \/ Returned]_vars /\ WF_vars(Next)

-----------------------------------------------------------------------------
PairwiseUpTo(n) == {p \in (1 .. Len(a)) \X (1 .. n) : Matches(a[p[1]], b[p[2]])}

(* "these routines should each do the same thing as their counterparts"    *)
(* (LinkAssociations.h:198): of sorted vectors just the pairs are linked   *)
(* that comparing each with each finds.                                    *)
LinksAsPairwise == pc = "done" => links = PairwiseUpTo(Len(b))

(* The same, said of what has been passed: a loop invariant.               *)
Objects(v) == v \in Seq(Address) /\ Sorted(level, v)
LoopInv ==
    /\ level \in Levels /\ Objects(a) /\ Objects(b)
    /\ i \in 1 .. Len(b) + 1 /\ j \in 1 .. Len(a) + 1
    /\ pc \in {"loop", "done"}
    /\ pc = "loop" => i <= Len(b) /\ j <= Len(a)
    /\ pc = "done" => i > Len(b) \/ j > Len(a)
    /\ \A m \in 1 .. j - 1, n \in i .. Len(b) : Sorts(level, a[m], b[n])
    /\ links = PairwiseUpTo(i - 1)
=============================================================================
