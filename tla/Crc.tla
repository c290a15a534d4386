-------------------------------- MODULE Crc --------------------------------
(***************************************************************************)
(* The CRC that the rudder link and the GNSS receiver share: crc16 of      *)
(* lib/rudder_link/rudder_protocol.h and crc_ccitt of                      *)
(* lib/septentrio_gnss/sbf_protocol.h step a register in the same way from *)
(* different first values.  A register is the set of its one bits.         *)
(***************************************************************************)
EXTENDS Integers, Sequences, SequencesExt, FiniteSetsExt

Xor(a, b) == (a \ b) \cup (b \ a)

Crc16Poly == {0, 5, 12}

ShiftCrc(crc) ==
  LET shifted == {i + 1 : i \in crc \ {15}}
  IN  IF 15 \in crc THEN Xor(shifted, Crc16Poly) ELSE shifted

BitsOf(byte) == {i \in 0 .. 7 : (byte \div 2^i) % 2 = 1}
Number(bits) == MapThenSumSet(LAMBDA i : 2^i, bits)

CrcOfByte(crc, byte) ==
  FoldLeft(LAMBDA acc, bit : ShiftCrc(acc),
           Xor(crc, {i + 8 : i \in BitsOf(byte)}),
           [bit \in 1 .. 8 |-> bit])

\* The register as two bytes, the low one first.
LittleEndian(crc) ==
  << Number(crc \cap 0 .. 7), Number({i - 8 : i \in crc \cap 8 .. 15}) >>
=============================================================================
