---------------------------- MODULE MCLargeBlobs ----------------------------
(* LargeBlobs with arrays of one, two and three cells by different hosts. *)
EXTENDS LargeBlobs

CONSTANTS Short1, Short2, Long1, Long2
MCArrays == {Blank, Short1, Short2, Long1, Long2}
MCLength == [a \in MCArrays |-> CASE a = Blank -> 1
                                  [] a \in {Short1, Short2} -> 2
                                  [] OTHER -> 3]
=============================================================================
