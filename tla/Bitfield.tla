------------------------------ MODULE Bitfield ------------------------------
(***************************************************************************)
(* The bitfields of state.py (class Bitfield), as the bytes they are: the  *)
(* first piece is the highest bit of the first byte, and the spare bits of *)
(* the last byte are zero.  A byte is a number; the code has 8 bits in it. *)
(***************************************************************************)
EXTENDS Naturals, Sequences

CONSTANTS
    NumPieces,
    ByteBits    \* bits of a byte

ASSUME BitfieldAssumption == NumPieces \in Nat \ {0} /\ ByteBits \in Nat \ {0}

\* 1 << k
Bit[k \in Nat] == IF k = 0 THEN 1 ELSE 2 * Bit[k - 1]

Indices  == 0 .. NumPieces - 1
Byte     == 0 .. Bit[ByteBits] - 1
NumBytes == (NumPieces + ByteBits - 1) \div ByteBits
Data     == [1 .. NumBytes -> Byte]

NoPieces == [n \in 1 .. NumBytes |-> 0]

ByteIndex(i) == i \div ByteBits + 1

Mask(i) == Bit[ByteBits - 1 - (i % ByteBits)]

has_piece(data, i) ==
    i \in Indices /\ (data[ByteIndex(i)] \div Mask(i)) % 2 = 1

\* Mistake: the bit is added although it may be set.
SetByAdding(data, i) ==
    IF i \notin Indices THEN data ELSE [data EXCEPT ![ByteIndex(i)] = @ + Mask(i)]

\* An index out of range raises, and nothing changes.
set_piece(data, i) ==
    IF i \notin Indices \/ has_piece(data, i) THEN data
    ELSE [data EXCEPT ![ByteIndex(i)] = @ + Mask(i)]

Pieces(data) == { i \in Indices : has_piece(data, i) }

\* Bitfield(num_pieces, True) sets every piece.
Filled[n \in 0 .. NumPieces] ==
    IF n = 0 THEN NoPieces ELSE set_piece(Filled[n - 1], n - 1)

AllPieces == Filled[NumPieces]

ClearTrailingBits(data) ==
    [data EXCEPT ![NumBytes] = @ - (@ % Bit[NumBytes * ByteBits - NumPieces])]

\* What data becomes with from_bytes(bytes); a wrong length raises.
from_bytes(data, bytes) ==
    IF Len(bytes) # NumBytes THEN data ELSE ClearTrailingBits(bytes)

=============================================================================
