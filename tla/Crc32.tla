-------------------------------- MODULE Crc32 --------------------------------
(***************************************************************************)
(* CRC-32 as crc32.h computes it, byte by byte from a table.  A 32-bit word *)
(* is the set of the numbers of its bits that are 1.                        *)
(***************************************************************************)
EXTENDS Integers, Sequences, SequencesExt

Xor(a, b) == (a \ b) \cup (b \ a)
\* A wrong shift, to the left.
ShiftLeft(a, n) == {k + n : k \in a}

ShiftRight(a, n) == {k - n : k \in {j \in a : j >= n}}
Bits(byte) == {k \in 0 .. 7 : (byte \div 2 ^ k) % 2 = 1}

Ones == 0 .. 31
Polynomial == {5, 8, 9, 15, 19, 20, 21, 23, 24, 26, 27, 29, 30, 31}

\* One step of the division by the polynomial, and two.
Divide(crc) ==
  IF 0 \in crc THEN Xor(ShiftRight(crc, 1), Polynomial) ELSE ShiftRight(crc, 1)
DivideTwice(crc) == Divide(Divide(crc))

\* The entry of crc32_tab for a byte, given as its bits: eight steps.
Crc32Tab(bits) == DivideTwice(DivideTwice(DivideTwice(DivideTwice(bits))))

Crc32Init == Ones
Crc32Add(crc, byte) ==
  Xor(Crc32Tab(Xor(crc, Bits(byte)) \cap (0 .. 7)), ShiftRight(crc, 8))
Crc32Finish(crc) == Xor(crc, Ones)

\* The loop over a buffer.
Crc32Over(crc, bytes) ==
  LET over[n \in 0 .. Len(bytes)] ==
        IF n = 0 THEN crc ELSE Crc32Add(over[n - 1], bytes[n])
  IN over[Len(bytes)]

\* crc32 of a whole buffer.
Crc32Of(bytes) == Crc32Finish(Crc32Over(Crc32Init, bytes))

=============================================================================
