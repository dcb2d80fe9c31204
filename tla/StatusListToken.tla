--------------------------- MODULE StatusListToken ---------------------------
(***************************************************************************)
(* The lst claim of StatusListService.buildStatusListJwt: the loop that    *)
(* writes the revoked rows of a key into a Uint8Array, one bit each, and   *)
(* what a verifier reads from it.  In StatusList the same list is a set of *)
(* indexes; here it is bytes, and a byte is the set of its bits that are 1 *)
(* (0 is the least significant).  Deflate and base64url lose nothing and   *)
(* are left out.                                                           *)
(*                                                                         *)
(* The rows are those of StatusList: indexes 0 .. n - 1 of a key that has  *)
(* given out n, and n is at most the size of the list.  The SELECT has no  *)
(* ORDER BY: they come in any order.                                       *)
(***************************************************************************)
EXTENDS Integers

CONSTANTS
  Sizes,     \* the statusListSize a key may have
  NoList

ASSUME SizesAssumption == Sizes \subseteq Nat \ {0}

VARIABLES
  statusListSize,  \* of the key
  isRevoked,       \* the rows of the key, by statusListIndex
  remaining,       \* the rows the loop has not come to
  bitArray,        \* the Uint8Array
  lst              \* the bytes in the token, or NoList

vars == <<statusListSize, isRevoked, remaining, bitArray, lst>>

(* Mutant: the bits of the last byte have no byte.                         *)
FullBytes(size) == size \div 8

ByteCount(size) == (size + 7) \div 8

ByteIndex(i) == i \div 8

(* Mutants: the other end of the byte first; bits counted from one.        *)
BitFromTheLeft(i) == 7 - (i % 8)
BitFromOne(i) == (i % 8) + 1

BitIndex(i) == i % 8

Rows == DOMAIN isRevoked

TypeOK ==
  /\ statusListSize \in Sizes
  /\ isRevoked \in [Rows -> BOOLEAN]
  /\ Rows \subseteq 0..(statusListSize - 1)
  /\ remaining \subseteq Rows
  /\ bitArray \in [0..(ByteCount(statusListSize) - 1) -> SUBSET (0..7)]
  /\ lst = NoList \/ lst = bitArray

Init ==
  /\ statusListSize \in Sizes
  /\ \E n \in 0..statusListSize : isRevoked \in [0..(n - 1) -> BOOLEAN]
  /\ remaining = Rows
  /\ bitArray = [b \in 0..(ByteCount(statusListSize) - 1) |-> {}]
  /\ lst = NoList

PassValid(i) ==
  /\ i \in remaining
  /\ ~isRevoked[i]
  /\ remaining' = remaining \ {i}
  /\ UNCHANGED <<statusListSize, isRevoked, bitArray, lst>>

(* A write beyond the end of a Uint8Array changes nothing, and so does     *)
(* EXCEPT beyond the domain.                                               *)
SetBit(i) ==
  /\ i \in remaining
  /\ isRevoked[i]
  /\ remaining' = remaining \ {i}
  /\ bitArray' = [bitArray EXCEPT ![ByteIndex(i)] = @ \cup {BitIndex(i)}]
  /\ UNCHANGED <<statusListSize, isRevoked, lst>>

Encode ==
  /\ remaining = {}
  /\ lst = NoList
  /\ lst' = bitArray
  /\ UNCHANGED <<statusListSize, isRevoked, remaining, bitArray>>

Next == (\E i \in Rows : PassValid(i) \/ SetBit(i)) \/ Encode

Spec == Init /\ [][Next]_vars

-------------------------------------------------------------------------------
(* Properties *)

(* draft-ietf-oauth-status-list, by which verifiers read the list: entry i *)
(* is bit i % 8, from the least significant, of byte i \div 8.             *)
InList(bytes, i) == i \div 8 \in DOMAIN bytes
Reads(bytes, i) == i % 8 \in bytes[i \div 8]

(* Every entry of the list can be read from the token, also in a last byte *)
(* that is not full, and it reads 1 exactly for the revoked credentials;   *)
(* an index that was not given out reads 0.                                *)
TokenReadsBack ==
  lst # NoList =>
    \A i \in 0..(statusListSize - 1) :
      /\ InList(lst, i)
      /\ Reads(lst, i) <=> i \in Rows /\ isRevoked[i]

(* What the array holds on the way: the bits of the revoked rows the loop  *)
(* has passed and no other, whatever the order of the rows.                *)
BitsOfPassedRows ==
  \A b \in DOMAIN bitArray, j \in 0..7 :
    LET i == 8 * b + j IN
    j \in bitArray[b] <=> i \in Rows \ remaining /\ isRevoked[i]

ListEndsLoop == lst # NoList => remaining = {}

Inductive == TypeOK /\ BitsOfPassedRows /\ ListEndsLoop
===============================================================================
