----------------------------- MODULE LargeBlobs -----------------------------
(***************************************************************************)
(* authenticatorLargeBlobs (cbor_large_blobs.c): one array in flash that   *)
(* all hosts share, written in fragments over several requests.  The       *)
(* position of the write and what was received so far are in RAM, and      *)
(* nothing there says whose write it is: the fragments of two hosts meet   *)
(* in one buffer, and a restart, a factory reset or a refused request come *)
(* in between.                                                             *)
(*                                                                         *)
(* An array is a row of cells; the first stands for 17 bytes, the shortest *)
(* array there can be, and every cell remembers the array a host took it   *)
(* from and its place in it.  A request is permitted or not: the token is  *)
(* in PinToken.  Reading changes nothing and is left out.                  *)
(***************************************************************************)
EXTENDS Naturals, Sequences

CONSTANTS
    Arrays,       \* the arrays hosts write, with their checksum in place
    Length,       \* [Arrays -> cells]
    Blank,        \* the array of a new device, 17 bytes long
    Zero,         \* a cell nothing was received for
    MaxSize,      \* MAX_LARGE_BLOB_SIZE in cells
    MaxFragment   \* MAX_FRAGMENT_LENGTH in cells

ASSUME BlobAssumption ==
    /\ MaxSize \in Nat \ {0} /\ MaxFragment \in Nat \ {0}
    /\ Length \in [Arrays -> 1..MaxSize]
    /\ Blank \in Arrays /\ Length[Blank] = 1
    /\ Zero \notin Arrays \X (1..MaxSize)

VARIABLES
    largeblob,           \* flash: ef_largeblob
    expectedLength,      \* RAM: the size announced with the first fragment
    expectedNextOffset,  \* RAM: the place of the next fragment
    temp_lba             \* RAM: the buffer

ram == <<expectedLength, expectedNextOffset, temp_lba>>
vars == <<largeblob, ram>>

Cells == Arrays \X (1..MaxSize)
Whole(a) == [i \in 1..Length[a] |-> <<a, i>>]
Piece(a, o, n) == [i \in 1..n |-> <<a, o + i>>]
Row(buffer, n) == [i \in 1..n |-> buffer[i]]
Zeros == [i \in 1..MaxSize |-> Zero]

TypeOK ==
    /\ largeblob \in UNION {[1..n -> Cells] : n \in 1..MaxSize}
    /\ expectedLength \in 0..MaxSize
    /\ expectedNextOffset \in 0..expectedLength
    /\ temp_lba \in [1..MaxSize -> Cells \cup {Zero}]

-----------------------------------------------------------------------------
\* Mutant: no checksum is asked of short arrays.
IntactMut(row) == Len(row) <= 2 \/ \E a \in Arrays : row = Whole(a)

\* The checksum is right; that of 17 bytes is not looked at.
Intact(row) == Len(row) = 1 \/ \E a \in Arrays : row = Whole(a)

Init == /\ largeblob = Whole(Blank)
        /\ expectedLength = 0 /\ expectedNextOffset = 0
        /\ temp_lba = Zeros

\* Mutant: a first fragment is written over what is there.
ReceivedMut(a, o, n) ==
    [i \in 1..MaxSize |-> IF i > o /\ i < o + n THEN <<a, i>>
                          ELSE IF o = 0 THEN Zero ELSE temp_lba[i]]

\* The buffer with n cells of a at o; a first fragment clears the rest.
Received(a, o, n) ==
    [i \in 1..MaxSize |-> IF i > o /\ i <= o + n THEN <<a, i>>
                          ELSE IF o = 0 THEN Zero ELSE temp_lba[i]]

\* A fragment that passed every check; with the last one the array is stored.
Take(a, o, n, total) ==
    /\ o + n <= Length[a] /\ o + n <= total
    /\ expectedLength' = total
    /\ expectedNextOffset' = o + n
    /\ temp_lba' = Received(a, o, n)
    /\ largeblob' = IF o + n = total /\ Intact(Row(temp_lba', total))
                    THEN Row(temp_lba', total) ELSE largeblob

\* The fragment at offset 0, with the size of what is to come.
SetFirst(a, n, length) == Take(a, 0, n, length)

\* It is refused for its permission or for being longer than it says, when
\* size and place have already been set.
SetRefused(length) ==
    /\ expectedLength' = length
    /\ expectedNextOffset' = 0
    /\ UNCHANGED <<largeblob, temp_lba>>

\* The fragments that follow, which may be empty.
SetNext(a, n) ==
    /\ expectedNextOffset > 0
    /\ Take(a, expectedNextOffset, n, expectedLength)

PowerLoss ==
    /\ expectedLength' = 0 /\ expectedNextOffset' = 0 /\ temp_lba' = Zeros
    /\ UNCHANGED largeblob

\* The file is made anew by scan_files_fido; the RAM stays as it is.
FactoryReset ==
    /\ largeblob' = Whole(Blank)
    /\ UNCHANGED ram

Next ==
    \/ \E a \in Arrays, n \in 0..MaxFragment, length \in 1..MaxSize : SetFirst(a, n, length)
    \/ \E length \in 1..MaxSize : SetRefused(length)
    \/ \E a \in Arrays, n \in 0..MaxFragment : SetNext(a, n)
    \/ PowerLoss
    \/ FactoryReset

Spec == Init /\ [][Next]_vars

-----------------------------------------------------------------------------
\* What a host reads is an array some host sent, whole and of one piece, or
\* the 17 bytes nothing is asked of: pieces of two hosts in the one buffer,
\* a write another began over and one the power or a reset cut are never
\* stored (lines 145-162).
SentWhole == Len(largeblob) = 1 \/ \E a \in Arrays : largeblob = Whole(a)

B == INSTANCE BlobStore WITH
        Pieces <- {Piece(a, o, n) : a \in Arrays, o \in 0..MaxSize, n \in 0..MaxFragment},
        Empty <- Whole(Blank),
        array <- largeblob,
        draft <- Row(temp_lba, expectedNextOffset),
        size <- expectedLength

\* The positions and the buffer the handler keeps are a write made of the
\* pieces handed in since it began, in their order, which takes effect with
\* its last cell or never (lines 102-162).
ImplementsStore == B!Spec
=============================================================================
