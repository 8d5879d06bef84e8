------------------------------- MODULE MCOath -------------------------------
(* Small instances of Oath for TLC. *)
EXTENDS Oath, TLC

CONSTANTS Short, Long  \* names, one of which begins with the other

MCBegins == {<<n, o>> \in Names \X Names : n = o \/ (n = Long /\ o = Short)}
Symmetry == Permutations(Pins) \cup Permutations(Codes)
=============================================================================
