------------------------------ MODULE MCSensor ------------------------------
(* Sensor with fingers that can be taken for one another. *)
EXTENDS Sensor, TLC

Symmetry == Permutations(Prints)
=============================================================================
