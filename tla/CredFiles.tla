----------------------------- MODULE CredFiles -----------------------------
(***************************************************************************)
(* The files of the discoverable credentials, EF_CRED+i: CredStore writes  *)
(* and counts them, Assertion answers with what is in them.                *)
(***************************************************************************)
EXTENDS Integers, FiniteSets

CONSTANTS
    RPs,   \* relying parties
    Slots  \* MAX_RESIDENT_CREDENTIALS, 256 in the code

ASSUME SlotsAssumption == Slots \in Nat /\ Slots > 1

Slot == 1..Slots

(* The place of i among the numbers of S *)
Place(S, i) == Cardinality({j \in S : j <= i})
=============================================================================
