------------------------------ MODULE BlobStore ------------------------------
(***************************************************************************)
(* What authenticatorLargeBlobs promises the hosts that share it: the      *)
(* array on the device is replaced by a complete write or not at all, and  *)
(* a write is the pieces handed in one after the other since it began.     *)
(* There are no positions and no buffer here; LargeBlobs, the handler of   *)
(* cbor_large_blobs.c, implements it.                                      *)
(***************************************************************************)
EXTENDS Naturals, Sequences

CONSTANTS
    Pieces,       \* the sequences of cells a request can hand in
    MaxSize,      \* cells the device has room for
    Empty,        \* the array of a new device
    Intact(_)     \* the checksum of a sequence of cells is right

VARIABLES
    array,  \* what a host reads
    draft,  \* what was handed in of the write in progress
    size    \* the size it was announced with

vars == <<array, draft, size>>

Init == array = Empty /\ draft = <<>> /\ size = 0

\* A write takes effect at the moment its last cell is there.
Finish == array' = IF Len(draft') = size' /\ Intact(draft') THEN draft' ELSE array

Begin(n, p) == /\ Len(p) <= n
               /\ size' = n /\ draft' = p
               /\ Finish

Add(p) == /\ draft # <<>> /\ Len(draft) + Len(p) <= size
          /\ size' = size /\ draft' = draft \o p
          /\ Finish

\* Whoever begins a write ends that of another, permitted or not.
Spoil(n) == size' = n /\ draft' = <<>> /\ array' = array

\* The power is lost.
Lose == size' = 0 /\ draft' = <<>> /\ array' = array

\* A factory reset: what was handed in before stays.
Erase == array' = Empty /\ UNCHANGED <<draft, size>>

Next == \/ \E n \in 1..MaxSize : Spoil(n) \/ \E p \in Pieces : Begin(n, p)
        \/ \E p \in Pieces : Add(p)
        \/ Lose \/ Erase

Spec == Init /\ [][Next]_vars
=============================================================================
