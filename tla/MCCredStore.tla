---------------------------- MODULE MCCredStore ----------------------------
(* Small instances of CredStore for TLC. *)
EXTENDS CredStore, TLC

CONSTANT Short  \* a user identifier that is a prefix of all the others

MCClash == {<<u, v>> \in Users \X Users : u = v \/ Short \in {u, v}}
Symmetry == Permutations(RPs) \cup Permutations(Users \ {Short})
=============================================================================
