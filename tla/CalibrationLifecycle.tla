------------------------ MODULE CalibrationLifecycle ------------------------
(***************************************************************************)
(* What the learn -> freeze -> apply life of a calibration promises,       *)
(* whoever learns and however many threads there are: one snapshot is      *)
(* published once, as a whole, and every event that is reconstructed with  *)
(* a frozen calibration is reconstructed with that one.                    *)
(***************************************************************************)
CONSTANTS
    Events,     (* the events of the run                                   *)
    Snapshots,  (* the calibrations that may be frozen                     *)
    Unfrozen    (* there is no calibration yet                             *)

VARIABLES
    snapshot,   (* the published calibration                               *)
    appliedWith (* the calibration each event was reconstructed with       *)

lifecycleVars == <<snapshot, appliedWith>>

Init ==
    /\ snapshot = Unfrozen
    /\ appliedWith = [e \in Events |-> Unfrozen]

(* The calibration is published.                                           *)
Publish ==
    /\ snapshot = Unfrozen
    /\ snapshot' \in Snapshots
    /\ UNCHANGED appliedWith

(* An event that has no result yet is reconstructed with it.               *)
ApplyTo(e) ==
    /\ snapshot # Unfrozen
    /\ appliedWith[e] = Unfrozen
    /\ appliedWith' = [appliedWith EXCEPT ![e] = snapshot]
    /\ UNCHANGED snapshot

Next == Publish \/ \E e \in Events : ApplyTo(e)

Spec == Init /\ [][Next]_lifecycleVars
=============================================================================
