----------------------------- MODULE Templates -----------------------------
(***************************************************************************)
(* The templates of the fingerprint sensor: BioTask has the tasks that use *)
(* them, Sensor the line between the tasks and the sensor.                 *)
(***************************************************************************)
EXTENDS Naturals, FiniteSets

CONSTANTS
    Slots, \* the template numbers of the sensor: 0 .. BIO_TEMPLATE_MAX_ID
    None   \* no slot, no command, no finger

ASSUME TemplateAssumption ==
    /\ IsFiniteSet(Slots) /\ Slots \subseteq Nat /\ Slots # {}
    /\ \A s \in Slots : \A i \in 0..s : i \in Slots
    /\ None \notin Nat
=============================================================================
