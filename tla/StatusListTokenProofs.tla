------------------------ MODULE StatusListTokenProofs ------------------------
(***************************************************************************)
(* The token of a status list reads back as the rows it was built from,    *)
(* for a list of any size and rows in any order.                           *)
(***************************************************************************)
EXTENDS StatusListToken, TLAPS

(* An index has one byte and one bit, and they determine it.               *)
LEMMA BytePosition ==
  ASSUME NEW i \in Nat
  PROVE  /\ ByteIndex(i) \in Nat
         /\ BitIndex(i) \in 0..7
         /\ i = 8 * ByteIndex(i) + BitIndex(i)
BY DEF ByteIndex, BitIndex

(* The byte of an index of the list is in the array, also when the size is *)
(* not a multiple of eight.                                                *)
LEMMA ByteInArray ==
  ASSUME NEW size \in Nat, NEW i \in 0..(size - 1)
  PROVE  ByteIndex(i) \in 0..(ByteCount(size) - 1)
BY DEF ByteIndex, ByteCount

(* Two positions are the same index only if byte and bit are the same.     *)
LEMMA PositionUnique ==
  ASSUME NEW b \in Nat, NEW c \in Nat, NEW j \in 0..7, NEW l \in 0..7,
         8 * b + j = 8 * c + l
  PROVE  b = c /\ j = l
OBVIOUS

(* The empty array holds the bits of the rows passed so far: none.         *)
LEMMA InitInductive == Init => Inductive
<1> SUFFICES ASSUME Init PROVE Inductive
  OBVIOUS
<1>1. PICK n \in 0..statusListSize : isRevoked \in [0..(n - 1) -> BOOLEAN]
  BY DEF Init
<1>2. statusListSize \in Nat
  BY SizesAssumption DEF Init
<1>3. Rows = 0..(n - 1) /\ Rows \subseteq 0..(statusListSize - 1)
  BY <1>1, <1>2 DEF Rows
<1>4. TypeOK
  BY <1>1, <1>3 DEF Init, TypeOK
<1> QED
  BY <1>4 DEF Init, Inductive, BitsOfPassedRows, ListEndsLoop

(* Passing a row that is not revoked leaves the bits right.                *)
LEMMA PassValidStep ==
  ASSUME Inductive, NEW i \in Rows, PassValid(i)
  PROVE  Inductive'
<1>1. Rows' = Rows /\ remaining' = remaining \ {i} /\ ~isRevoked[i]
  BY DEF PassValid, Rows
<1>2. TypeOK'
  BY <1>1 DEF PassValid, Inductive, TypeOK
<1>3. BitsOfPassedRows'
  BY <1>1 DEF PassValid, Inductive, BitsOfPassedRows
<1>4. ListEndsLoop'
  BY DEF PassValid, Inductive, ListEndsLoop
<1> QED
  BY <1>2, <1>3, <1>4 DEF Inductive

(* Setting the bit of a revoked row adds that row and no other.            *)
LEMMA SetBitStep ==
  ASSUME Inductive, NEW i \in Rows, SetBit(i)
  PROVE  Inductive'
<1>1. /\ Rows' = Rows /\ isRevoked' = isRevoked /\ isRevoked[i]
      /\ i \in remaining /\ remaining' = remaining \ {i}
      /\ bitArray' = [bitArray EXCEPT ![ByteIndex(i)] = @ \cup {BitIndex(i)}]
  BY DEF SetBit, Rows
<1>2. i \in Nat /\ ByteIndex(i) \in DOMAIN bitArray /\ BitIndex(i) \in 0..7
  BY ByteInArray, BytePosition, SizesAssumption DEF Inductive, TypeOK
<1>3. TypeOK'
  <2>1. bitArray' \in [0..(ByteCount(statusListSize) - 1) -> SUBSET (0..7)]
    BY <1>1, <1>2 DEF Inductive, TypeOK
  <2>2. lst' = NoList \/ lst' = bitArray'
    BY <1>1 DEF SetBit, Inductive, TypeOK, ListEndsLoop
  <2> QED
    BY <1>1, <2>1, <2>2 DEF SetBit, Inductive, TypeOK
<1>4. BitsOfPassedRows'
  <2> SUFFICES ASSUME NEW b \in DOMAIN bitArray, NEW j \in 0..7
               PROVE  j \in bitArray'[b] <=>
                        /\ 8 * b + j \in Rows \ remaining'
                        /\ isRevoked[8 * b + j]
    BY <1>1, <1>2 DEF BitsOfPassedRows
  <2>1. b \in Nat
    BY SizesAssumption DEF Inductive, TypeOK, ByteCount
  <2>2. j \in bitArray[b] <=> 8 * b + j \in Rows \ remaining /\ isRevoked[8 * b + j]
    BY DEF Inductive, BitsOfPassedRows
  <2>3. 8 * b + j = i <=> b = ByteIndex(i) /\ j = BitIndex(i)
    <3>1. ByteIndex(i) \in Nat /\ i = 8 * ByteIndex(i) + BitIndex(i)
      BY <1>2, BytePosition
    <3> DEFINE byte == ByteIndex(i)
               bit == BitIndex(i)
    <3>2. byte \in Nat /\ bit \in 0..7 /\ i = 8 * byte + bit
      BY <1>2, <3>1
    <3> HIDE DEF byte, bit
    <3>3. 8 * b + j = i <=> b = byte /\ j = bit
      BY <2>1, <3>2, PositionUnique
    <3> QED
      BY <3>3 DEF byte, bit
  <2>4. j \in bitArray'[b] <=> j \in bitArray[b] \/ (b = ByteIndex(i) /\ j = BitIndex(i))
    BY <1>1, <1>2 DEF Inductive, TypeOK
  <2> QED
    BY <1>1, <2>2, <2>3, <2>4
<1>5. ListEndsLoop'
  BY <1>1 DEF SetBit, Inductive, ListEndsLoop
<1> QED
  BY <1>3, <1>4, <1>5 DEF Inductive

(* Every step keeps the invariant.                                         *)
LEMMA StepInductive == Inductive /\ [Next]_vars => Inductive'
<1> SUFFICES ASSUME Inductive, [Next]_vars PROVE Inductive'
  OBVIOUS
<1>1. CASE UNCHANGED vars
  BY <1>1 DEF Inductive, TypeOK, BitsOfPassedRows, ListEndsLoop, Rows, vars
<1>2. CASE Encode
  BY <1>2 DEF Encode, Inductive, TypeOK, BitsOfPassedRows, ListEndsLoop, Rows
<1> QED
  BY <1>1, <1>2, PassValidStep, SetBitStep DEF Next

(* The variables of the loop keep their types.                             *)
THEOREM TokenTypeCorrect == Spec => []TypeOK
<1>1. Inductive => TypeOK
  BY DEF Inductive
<1> QED
  BY <1>1, InitInductive, StepInductive, PTL DEF Spec

(* The array holds the revoked rows the loop has passed, in any order.     *)
THEOREM LoopIsExact == Spec => []BitsOfPassedRows
<1>1. Inductive => BitsOfPassedRows
  BY DEF Inductive
<1> QED
  BY <1>1, InitInductive, StepInductive, PTL DEF Spec

(* A verifier reads 1 from the token exactly for the revoked credentials,  *)
(* whatever the size of the list.                                          *)
THEOREM TokenIsExact == Spec => []TokenReadsBack
<1>1. ASSUME Inductive PROVE TokenReadsBack
  <2> SUFFICES ASSUME lst # NoList, NEW i \in 0..(statusListSize - 1)
               PROVE  InList(lst, i) /\ (Reads(lst, i) <=> i \in Rows /\ isRevoked[i])
    BY DEF TokenReadsBack
  <2>1. lst = bitArray /\ remaining = {}
    BY <1>1 DEF Inductive, TypeOK, ListEndsLoop
  <2>2. i \in Nat /\ ByteIndex(i) \in DOMAIN bitArray
    BY <1>1, ByteInArray, SizesAssumption DEF Inductive, TypeOK
  <2>3. BitIndex(i) \in 0..7 /\ i = 8 * ByteIndex(i) + BitIndex(i)
    BY <2>2, BytePosition
  <2>4. BitIndex(i) \in bitArray[ByteIndex(i)] <=> i \in Rows /\ isRevoked[i]
    BY <1>1, <2>1, <2>2, <2>3 DEF Inductive, BitsOfPassedRows
  <2> QED
    BY <2>1, <2>2, <2>4 DEF InList, Reads, ByteIndex, BitIndex
<1> QED
  BY <1>1, InitInductive, StepInductive, PTL DEF Spec
===============================================================================
