------------------------- MODULE LargeBlobs_proofs -------------------------
(***************************************************************************)
(* LargeBlobs for every set of arrays and every size: the types, that only *)
(* whole arrays are stored, and that the handler with its positions and    *)
(* its buffer implements BlobStore.                                        *)
(***************************************************************************)
EXTENDS LargeBlobs, SequenceTheorems, TLAPS

AllCells == Cells \cup {Zero}

-----------------------------------------------------------------------------
(* Rows of the buffer.                                                     *)

\* Two intervals from 1 that are the same are as long.
LEMMA SameLength ==
    ASSUME NEW m \in Nat, NEW n \in Nat, 1..m = 1..n
    PROVE  m = n
<1>1. m \in 1..n \/ m = 0 BY SMT
<1>2. n \in 1..m \/ n = 0 BY SMT
<1> QED BY <1>1, <1>2

\* The first cells of a buffer are a sequence of as many.
LEMMA RowSeq ==
    ASSUME NEW buffer \in [1..MaxSize -> AllCells], NEW n \in 0..MaxSize
    PROVE  /\ Row(buffer, n) \in Seq(AllCells)
           /\ Len(Row(buffer, n)) = n
           /\ \A i \in 1..n : Row(buffer, n)[i] = buffer[i]
<1>1. MaxSize \in Nat BY BlobAssumption
<1>2. n \in Nat /\ \A i \in 1..n : buffer[i] \in AllCells BY <1>1
<1>3. Row(buffer, n) \in [1..n -> AllCells] BY <1>2 DEF Row
<1>4. Row(buffer, n) \in Seq(AllCells) BY <1>2, <1>3
<1>5. DOMAIN Row(buffer, n) = 1..Len(Row(buffer, n)) /\ Len(Row(buffer, n)) \in Nat
    BY <1>4
<1>6. DOMAIN Row(buffer, n) = 1..n BY DEF Row
<1>7. Len(Row(buffer, n)) = n BY <1>2, <1>5, <1>6, SameLength
<1> QED BY <1>4, <1>7 DEF Row

\* So are the cells of a piece.
LEMMA PieceSeq ==
    ASSUME NEW a \in Arrays, NEW o \in Nat, NEW n \in Nat, o + n <= Length[a]
    PROVE  /\ Piece(a, o, n) \in Seq(AllCells)
           /\ Len(Piece(a, o, n)) = n
           /\ \A i \in 1..n : Piece(a, o, n)[i] = <<a, o + i>>
<1>1. MaxSize \in Nat /\ Length[a] \in 1..MaxSize BY BlobAssumption
<1>2. \A i \in 1..n : o + i \in 1..MaxSize BY <1>1
<1>3. \A i \in 1..n : <<a, o + i>> \in AllCells BY <1>2 DEF AllCells, Cells
<1>4. Piece(a, o, n) \in [1..n -> AllCells] BY <1>3 DEF Piece
<1>5. Piece(a, o, n) \in Seq(AllCells) BY <1>4
<1>6. DOMAIN Piece(a, o, n) = 1..Len(Piece(a, o, n)) /\ Len(Piece(a, o, n)) \in Nat
    BY <1>5
<1>7. DOMAIN Piece(a, o, n) = 1..n BY DEF Piece
<1>8. Len(Piece(a, o, n)) = n BY <1>6, <1>7, SameLength
<1> QED BY <1>5, <1>8 DEF Piece

\* What a fragment leaves in the buffer is what was there and then its cells.
LEMMA RowReceived ==
    ASSUME TypeOK, NEW a \in Arrays, NEW o \in 0..MaxSize, NEW n \in Nat,
           o + n <= Length[a],
           temp_lba' = Received(a, o, n)
    PROVE  /\ temp_lba' \in [1..MaxSize -> AllCells]
           /\ Row(temp_lba', o + n) = Row(temp_lba, o) \o Piece(a, o, n)
<1>0. /\ MaxSize \in Nat /\ Length[a] \in 1..MaxSize /\ o \in Nat
      /\ temp_lba \in [1..MaxSize -> AllCells]
    BY BlobAssumption DEF TypeOK, AllCells
<1>1. \A i \in 1..MaxSize : i > o /\ i <= o + n => <<a, i>> \in AllCells
    BY DEF AllCells, Cells
<1>2. Zero \in AllCells BY DEF AllCells
<1>3. temp_lba' \in [1..MaxSize -> AllCells]
    BY <1>0, <1>1, <1>2 DEF Received
<1>4. o + n \in 0..MaxSize BY <1>0
<1> DEFINE new == Row(temp_lba', o + n)
           old == Row(temp_lba, o)
           piece == Piece(a, o, n)
<1>5. new \in Seq(AllCells) /\ Len(new) = o + n
      /\ \A i \in 1..(o + n) : new[i] = temp_lba'[i]
    BY <1>3, <1>4, RowSeq
<1>6. old \in Seq(AllCells) /\ Len(old) = o /\ \A i \in 1..o : old[i] = temp_lba[i]
    BY <1>0, RowSeq
<1>7. piece \in Seq(AllCells) /\ Len(piece) = n
      /\ \A i \in 1..n : piece[i] = <<a, o + i>>
    BY <1>0, PieceSeq
<1> HIDE DEF new, old, piece
<1>8. /\ old \o piece \in Seq(AllCells)
      /\ Len(old \o piece) = o + n
      /\ \A i \in 1..(o + n) :
            (old \o piece)[i] = IF i <= o THEN old[i] ELSE piece[i - o]
    BY <1>6, <1>7, ConcatProperties
<1>9. ASSUME NEW i \in 1..(o + n) PROVE new[i] = (old \o piece)[i]
  <2>1. i \in 1..MaxSize /\ i \in Nat BY <1>0, <1>4
  <2>2. CASE i <= o
    <3>1. o # 0 /\ ~(i > o) BY <2>2, <1>0
    <3>2. temp_lba'[i] = temp_lba[i] BY <3>1, <2>1 DEF Received
    <3>3. i \in 1..o BY <2>2, <1>0
    <3> QED BY <3>2, <3>3, <2>2, <1>5, <1>6, <1>8
  <2>3. CASE i > o
    <3>1. i <= o + n /\ i - o \in 1..n /\ o + (i - o) = i /\ ~(i <= o) BY <2>3, <1>0
    <3>2. temp_lba'[i] = <<a, i>> BY <3>1, <2>1, <2>3 DEF Received
    <3>3. piece[i - o] = <<a, i>> BY <3>1, <1>7
    <3> QED BY <3>1, <3>2, <3>3, <1>5, <1>8
  <2>4. i <= o \/ i > o BY <2>1, <1>0
  <2> QED BY <2>2, <2>3, <2>4
<1>10. new = old \o piece BY <1>5, <1>8, <1>9, SeqEqual
<1> QED BY <1>3, <1>10 DEF new, old, piece

-----------------------------------------------------------------------------
(* Types.                                                                  *)

\* A device that was just set up has the types.
LEMMA InitType == Init => TypeOK
<1> SUFFICES ASSUME Init PROVE TypeOK OBVIOUS
<1>1. MaxSize \in Nat \ {0} /\ Blank \in Arrays /\ Length[Blank] = 1 BY BlobAssumption
<1>2. Whole(Blank) \in [1..1 -> Cells] BY <1>1 DEF Whole, Cells
<1>3. 1 \in 1..MaxSize BY <1>1
<1>4. largeblob \in UNION {[1..n -> Cells] : n \in 1..MaxSize}
    BY <1>2, <1>3 DEF Init
<1>5. temp_lba \in [1..MaxSize -> Cells \cup {Zero}] BY DEF Init, Zeros
<1> QED BY <1>1, <1>4, <1>5 DEF Init, TypeOK

\* No cell below the position of the write is one nothing was received for:
\* without it the row of one cell, whose checksum is not looked at, could be
\* Zero.
Filled == \A i \in 1..expectedNextOffset : temp_lba[i] \in Cells
IInv == TypeOK /\ Filled

\* A fragment that is taken keeps the types and fills the buffer without a gap.
LEMMA TakeType ==
    ASSUME TypeOK, NEW a \in Arrays, NEW o \in 0..MaxSize, NEW n \in Nat,
           \A i \in 1..o : temp_lba[i] \in Cells,
           NEW total \in 1..MaxSize, Take(a, o, n, total)
    PROVE  IInv'
<1>0. /\ MaxSize \in Nat /\ Length[a] \in 1..MaxSize /\ o + n <= Length[a]
      /\ \A b \in Arrays : Length[b] \in 1..MaxSize
    BY BlobAssumption DEF Take
<1>1. temp_lba' \in [1..MaxSize -> AllCells]
    BY <1>0, RowReceived DEF Take
<1>2. expectedLength' \in 0..MaxSize /\ expectedNextOffset' \in 0..expectedLength'
    BY <1>0 DEF Take
<1>3. ASSUME NEW i \in 1..(o + n) PROVE temp_lba'[i] \in Cells
  <2>1. i \in 1..MaxSize /\ i \in Nat BY <1>0
  <2>2. CASE i <= o
    <3>1. o # 0 /\ ~(i > o) /\ i \in 1..o BY <2>1, <2>2
    <3>2. temp_lba'[i] = temp_lba[i] BY <3>1, <2>1 DEF Take, Received
    <3> QED BY <3>1, <3>2
  <2>3. CASE i > o
    <3>1. temp_lba'[i] = <<a, i>> BY <2>1, <2>3 DEF Take, Received
    <3> QED BY <2>1, <3>1 DEF Cells
  <2>4. i <= o \/ i > o BY <2>1
  <2> QED BY <2>2, <2>3, <2>4
<1>4. Filled' BY <1>3 DEF Take, Filled
<1>5. ASSUME o + n = total
      PROVE  Row(temp_lba', total) \in UNION {[1..k -> Cells] : k \in 1..MaxSize}
    BY <1>3, <1>5 DEF Row
<1>6. largeblob' \in UNION {[1..k -> Cells] : k \in 1..MaxSize}
    BY <1>5 DEF Take, TypeOK
<1> QED BY <1>1, <1>2, <1>4, <1>6 DEF IInv, TypeOK, AllCells

\* The invariant holds of a new device ...
LEMMA InitInv == Init => IInv
<1> SUFFICES ASSUME Init PROVE Filled BY InitType DEF IInv
<1> QED BY DEF Init, Filled

\* ... and every request, power loss and reset keeps it.
LEMMA NextInv == IInv /\ [Next]_vars => IInv'
<1> SUFFICES ASSUME IInv, [Next]_vars PROVE IInv' OBVIOUS
<1> USE DEF IInv
<1>0. /\ MaxSize \in Nat \ {0} /\ MaxFragment \in Nat
      /\ expectedLength \in 0..MaxSize /\ expectedNextOffset \in 0..expectedLength
    BY BlobAssumption DEF TypeOK
<1>1. ASSUME NEW a \in Arrays, NEW n \in 0..MaxFragment, NEW length \in 1..MaxSize,
             SetFirst(a, n, length)
      PROVE  IInv'
  <2>1. 0 \in 0..MaxSize /\ n \in Nat /\ 1..0 = {} BY <1>0
  <2> QED BY <2>1, <1>1, TakeType DEF SetFirst
<1>2. ASSUME NEW length \in 1..MaxSize, SetRefused(length)
      PROVE  IInv'
    BY <1>0, <1>2 DEF SetRefused, TypeOK, Filled
<1>3. ASSUME NEW a \in Arrays, NEW n \in 0..MaxFragment, SetNext(a, n)
      PROVE  IInv'
  <2>1. expectedNextOffset \in 0..MaxSize /\ expectedLength \in 1..MaxSize /\ n \in Nat
    BY <1>0, <1>3 DEF SetNext
  <2>2. \A i \in 1..expectedNextOffset : temp_lba[i] \in Cells BY DEF Filled
  <2> QED BY <2>1, <2>2, <1>3, TakeType DEF SetNext
<1>4. CASE PowerLoss
    BY <1>0, <1>4 DEF PowerLoss, TypeOK, Filled, Zeros
<1>5. CASE FactoryReset
  <2>1. Blank \in Arrays /\ Length[Blank] = 1 BY BlobAssumption
  <2>2. Whole(Blank) \in [1..1 -> Cells] /\ 1 \in 1..MaxSize
    BY <2>1, <1>0 DEF Whole, Cells
  <2>3. largeblob' \in UNION {[1..k -> Cells] : k \in 1..MaxSize}
    BY <2>2, <1>5 DEF FactoryReset
  <2> QED BY <2>3, <1>5 DEF FactoryReset, ram, TypeOK, Filled
<1>6. CASE UNCHANGED vars
    BY <1>6 DEF vars, ram, TypeOK, Filled
<1> QED BY <1>1, <1>2, <1>3, <1>4, <1>5, <1>6 DEF Next

\* So it holds always.
LEMMA Invariant == Spec => []IInv
<1> QED BY InitInv, NextInv, PTL DEF Spec

\* The variables keep their types: among them, no cell that nothing was
\* received for is ever stored, as TypeOK has only cells of arrays in
\* largeblob (lines 141-162).
THEOREM TypeCorrect == Spec => []TypeOK
<1>1. IInv => TypeOK BY DEF IInv
<1> QED BY <1>1, Invariant, PTL

-----------------------------------------------------------------------------
(* Only whole arrays are stored.                                           *)

\* Pieces of two hosts, a write that was begun over and one cut by the power
\* or by a reset are never what a host reads, but for the 17 bytes whose
\* checksum is not looked at (lines 145-162).
THEOREM StoredWhole == Spec => []SentWhole
<1>1. Init => SentWhole
  <2> SUFFICES ASSUME Init PROVE SentWhole OBVIOUS
  <2>1. Blank \in Arrays BY BlobAssumption
  <2> QED BY <2>1 DEF Init, SentWhole
<1>2. SentWhole /\ [Next]_vars => SentWhole'
  <2> SUFFICES ASSUME SentWhole, [Next]_vars PROVE SentWhole' OBVIOUS
  <2>1. ASSUME NEW a, NEW o, NEW n, NEW total, Take(a, o, n, total)
        PROVE  SentWhole'
    <3>1. CASE largeblob' = largeblob BY <3>1 DEF SentWhole
    <3>2. CASE Intact(largeblob') BY <3>2 DEF SentWhole, Intact
    <3> QED BY <2>1, <3>1, <3>2 DEF Take
  <2>2. CASE FactoryReset
    <3>1. Blank \in Arrays BY BlobAssumption
    <3> QED BY <2>2, <3>1 DEF FactoryReset, SentWhole
  <2>3. CASE largeblob' = largeblob BY <2>3 DEF SentWhole
  <2> QED BY <2>1, <2>2, <2>3 DEF Next, SetFirst, SetRefused, SetNext, PowerLoss, vars
<1> QED BY <1>1, <1>2, PTL DEF Spec

-----------------------------------------------------------------------------
(* The handler implements BlobStore.                                       *)

Pieces == {Piece(a, o, n) : a \in Arrays, o \in 0..MaxSize, n \in 0..MaxFragment}

\* A fragment adds its piece to the draft, and the array changes as Finish says.
LEMMA TakeFinishes ==
    ASSUME TypeOK, NEW a \in Arrays, NEW o \in 0..MaxSize, NEW n \in Nat,
           NEW total \in 1..MaxSize, Take(a, o, n, total)
    PROVE  /\ Row(temp_lba', expectedNextOffset')
                 = Row(temp_lba, o) \o Piece(a, o, n)
           /\ B!Finish
<1>0. /\ MaxSize \in Nat /\ Length[a] \in 1..MaxSize /\ o + n <= Length[a]
      /\ o + n \in 0..MaxSize
    BY BlobAssumption DEF Take
<1>1. /\ temp_lba' \in [1..MaxSize -> AllCells]
      /\ Row(temp_lba', o + n) = Row(temp_lba, o) \o Piece(a, o, n)
    BY <1>0, RowReceived DEF Take
<1>2. Len(Row(temp_lba', o + n)) = o + n BY <1>0, <1>1, RowSeq
<1>3. expectedNextOffset' = o + n /\ expectedLength' = total BY DEF Take
<1>4. B!Finish
    BY <1>2, <1>3 DEF Take, B!Finish
<1> QED BY <1>1, <1>3, <1>4

\* The positions and the buffer of the handler are a write made of the pieces
\* handed in since it began, in their order, which takes effect with its last
\* cell or never (lines 102-162).
THEOREM Implements == Spec => ImplementsStore
<1>1. Init => B!Init
  <2> SUFFICES ASSUME Init PROVE B!Init OBVIOUS
  <2>1. Row(temp_lba, 0) = <<>> BY DEF Row
  <2> QED BY <2>1 DEF Init, B!Init
<1>2. IInv /\ [Next]_vars => [B!Next]_(B!vars)
  <2> SUFFICES ASSUME IInv, [Next]_vars PROVE [B!Next]_(B!vars) OBVIOUS
  <2>0. /\ TypeOK
        /\ MaxSize \in Nat \ {0} /\ MaxFragment \in Nat
        /\ expectedLength \in 0..MaxSize /\ expectedNextOffset \in 0..expectedLength
        /\ temp_lba \in [1..MaxSize -> AllCells]
        /\ \A b \in Arrays : Length[b] \in 1..MaxSize
    BY BlobAssumption DEF IInv, TypeOK, AllCells
  <2>1. ASSUME NEW a \in Arrays, NEW n \in 0..MaxFragment, NEW length \in 1..MaxSize,
               SetFirst(a, n, length)
        PROVE  B!Next
    <3>1. 0 \in 0..MaxSize /\ n \in Nat /\ Take(a, 0, n, length)
      BY <2>0, <2>1 DEF SetFirst
    <3>2. Row(temp_lba, 0) = <<>> BY DEF Row
    <3>3. 0 + n <= Length[a] /\ n <= length BY <3>1, <2>0 DEF Take
    <3>4. Piece(a, 0, n) \in Seq(AllCells) /\ Len(Piece(a, 0, n)) = n
      BY <3>1, <3>3, PieceSeq
    <3>5. Row(temp_lba', expectedNextOffset') = Piece(a, 0, n) /\ B!Finish
      BY <3>1, <3>2, <3>4, <2>0, TakeFinishes, ConcatEmptySeq
    <3>6. B!Begin(length, Piece(a, 0, n))
      BY <3>1, <3>3, <3>4, <3>5 DEF B!Begin, Take
    <3>7. Piece(a, 0, n) \in Pieces BY <3>1 DEF Pieces
    <3> QED BY <3>6, <3>7 DEF B!Next, Pieces
  <2>2. ASSUME NEW length \in 1..MaxSize, SetRefused(length)
        PROVE  B!Next
    <3>1. Row(temp_lba', expectedNextOffset') = <<>> BY <2>2 DEF SetRefused, Row
    <3>2. B!Spoil(length) BY <2>2, <3>1 DEF SetRefused, B!Spoil
    <3> QED BY <3>2 DEF B!Next
  <2>3. ASSUME NEW a \in Arrays, NEW n \in 0..MaxFragment, SetNext(a, n)
        PROVE  B!Next
    <3> DEFINE o == expectedNextOffset
               draft == Row(temp_lba, o)
    <3>1. /\ o \in 0..MaxSize /\ o > 0 /\ expectedLength \in 1..MaxSize /\ n \in Nat
          /\ Take(a, o, n, expectedLength)
      BY <2>0, <2>3 DEF SetNext
    <3>2. o + n <= Length[a] /\ o + n <= expectedLength /\ expectedLength' = expectedLength
      BY <3>1 DEF Take
    <3>3. Len(draft) = o /\ draft \in Seq(AllCells) BY <2>0, <3>1, RowSeq
    <3>4. draft # <<>> BY <3>1, <3>3, EmptySeq
    <3>5. Len(Piece(a, o, n)) = n BY <3>1, <3>2, PieceSeq
    <3>6. Row(temp_lba', expectedNextOffset') = draft \o Piece(a, o, n) /\ B!Finish
      BY <3>1, <2>0, TakeFinishes
    <3>7. B!Add(Piece(a, o, n))
      BY <3>2, <3>3, <3>4, <3>5, <3>6 DEF B!Add
    <3>8. Piece(a, o, n) \in Pieces BY <3>1 DEF Pieces
    <3> QED BY <3>7, <3>8 DEF B!Next, Pieces
  <2>4. CASE PowerLoss
    <3>1. Row(temp_lba', expectedNextOffset') = <<>> BY <2>4 DEF PowerLoss, Row
    <3>2. B!Lose BY <2>4, <3>1 DEF PowerLoss, B!Lose
    <3> QED BY <3>2 DEF B!Next
  <2>5. CASE FactoryReset
    <3>1. B!Erase BY <2>5 DEF FactoryReset, ram, B!Erase, Row
    <3> QED BY <3>1 DEF B!Next
  <2>6. CASE UNCHANGED vars
    BY <2>6 DEF vars, ram, B!vars, Row
  <2> QED BY <2>1, <2>2, <2>3, <2>4, <2>5, <2>6 DEF Next
<1> QED BY <1>1, <1>2, Invariant, PTL DEF Spec, ImplementsStore, B!Spec
=============================================================================
