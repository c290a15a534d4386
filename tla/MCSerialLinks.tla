--------------------------- MODULE MCSerialLinks ---------------------------
(* The lines on bytes that stress the framing: zero, the code of a full    *)
(* COBS block and the value whose loss moves a block boundary; '$', '@', a *)
(* line feed, and lengths of an SBF block.                                 *)
EXTENDS SerialLinks

MCFrames == [rudder |-> 3, gnss |-> 3]
MCFaults == [rudder |-> 2, gnss |-> 2]

MCRests  == [rudder |-> 3, gnss |-> 1]
MCNoise  == [rudder |-> {0, 1, 4}, gnss |-> {LineFeed, 12, Dollar}]

\* An SBF block whose body begins like another, a sentence, and an
\* error reply with two lines.
MCMessages ==
  { [type |-> "sbf", id |-> 1, data |-> <<Dollar, At, 0, 0>>],
    [type |-> "sbf", id |-> 1, data |-> <<0, Dollar, 12, Dollar>>],
    [type |-> "nmea", data |-> <<71>>],
    [type |-> "reply", kind |-> 63, data |-> <<LineFeed, 32, LineFeed>>] }

\* The check values that the unit tests of the repository assert for
\* "123456789": 0x29B1 for crc16 and 0x31C3 for crc_ccitt.
CheckInput == [i \in 1 .. 9 |-> 48 + i]
ASSUME CrcCheckValue == Crc16(CheckInput) = <<177, 41>>
ASSUME SbfCrcCheckValue == CrcCcitt(CheckInput) = <<195, 49>>
=============================================================================
