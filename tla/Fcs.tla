--------------------------------- MODULE Fcs ---------------------------------
(***************************************************************************)
(* src/src/ax25/fcs.rs: CRC-16/X.25 and the single-bit error locator, on   *)
(* bit sequences.  Bytes travel least significant bit first, so a string   *)
(* of bytes is the sequence of its bits and a 16-bit register is the       *)
(* sequence of its bits from bit 0; folding a byte in is folding its       *)
(* eight bits in, in that order.                                           *)
(***************************************************************************)
EXTENDS Integers, Sequences, FiniteSets

Register == [1 .. 16 -> {0, 1}]

Xor(a, b) == [i \in 1 .. 16 |-> (a[i] + b[i]) % 2]

\* 0x8408: bits 3, 10 and 15.
Poly == [i \in 1 .. 16 |-> IF i \in {4, 11, 16} THEN 1 ELSE 0]

AllOnes == [i \in 1 .. 16 |-> 1]

\* One shift of the register with feedback.
Step(reg) ==
  LET shifted == [i \in 1 .. 16 |-> IF i < 16 THEN reg[i + 1] ELSE 0]
  IN  IF reg[1] = 1 THEN Xor(shifted, Poly) ELSE shifted

\* Fcs::update, one input bit at a time.
update(reg, bit) == Step([reg EXCEPT ![1] = (@ + bit) % 2])

\* The register folded over all the bits, then complemented (finish).
crc16_x25(bits) ==
  LET register[n \in 0 .. Len(bits)] ==
        IF n = 0 THEN AllOnes ELSE update(register[n - 1], bits[n])
  IN  Xor(register[Len(bits)], AllOnes)

-----------------------------------------------------------------------------
InFcs == -1
NoError == -2

\* The register difference a flip of content bit p makes at the end of n
\* content bits: bit k of its byte, run through the zero-input steps of that
\* byte and of every later one (propagate_zero_byte, byte by byte).
ByteOf(p) == (p - 1) \div 8

Unit(k) == [i \in 1 .. 16 |-> IF i = k THEN 1 ELSE 0]
PlaceIn(p) == ((p - 1) % 8) + 1

\* A register difference n shifts with no input later (propagate_zero_byte,
\* eight shifts a byte).
propagate_zeros(reg, n) ==
  LET delta[m \in 0 .. n] == IF m = 0 THEN reg ELSE Step(delta[m - 1])
  IN  delta[n]

\* Mutant: the flipped byte's own eight steps are left out.
SyndromeExclusive(p, n) == propagate_zeros(Unit(PlaceIn(p)), n - 8 * ByteOf(p) - 8)

Syndrome(p, n) == propagate_zeros(Unit(PlaceIn(p)), n - 8 * ByteOf(p))

\* locate_single_bit_error: the position of the one flipped content bit that
\* explains the mismatch, scanning from the last byte backwards and from bit
\* 0 up within a byte; InFcs when the flip is in the FCS field.
locate_single_bit_error(n, expected, computed) ==
  LET syndrome == Xor(expected, computed)
      matches == {p \in 1 .. n : Syndrome(p, n) = syndrome}
  IN  CASE syndrome = Xor(AllOnes, AllOnes) -> NoError
        [] Cardinality({i \in 1 .. 16 : syndrome[i] = 1}) = 1 -> InFcs
        [] OTHER ->
             IF matches = {} THEN NoError
             ELSE CHOOSE p \in matches : \A q \in matches :
                    \/ ByteOf(q) < ByteOf(p)
                    \/ ByteOf(q) = ByteOf(p) /\ q >= p
=============================================================================
