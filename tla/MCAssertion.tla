---------------------------- MODULE MCAssertion ----------------------------
(* Small instances of Assertion for TLC. *)
EXTENDS Assertion

Symmetry == Permutations(RPs)
=============================================================================
