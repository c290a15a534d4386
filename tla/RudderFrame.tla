---------------------------- MODULE RudderFrame ----------------------------
(***************************************************************************)
(* The framing of lib/rudder_link/rudder_protocol.h: header, payload and   *)
(* CRC-16 in a COBS block that ends in a zero.  Bytes are numbers below    *)
(* 256, an optional result is <<>> or a sequence of one element.           *)
(***************************************************************************)
EXTENDS Crc

CONSTANTS
  MaxPayload,  \* MAX_PAYLOAD, 64
  FullBlock    \* 0xFF: the code of a COBS block that stands for no zero

ASSUME FrameAssumption == MaxPayload \in Nat /\ FullBlock \in 2 .. 255

ProtocolVersion == 2
Delimiter       == 0
HeaderBytes     == 3
CrcBytes        == 2
MaxData         == HeaderBytes + MaxPayload + CrcBytes

\* MAX_FRAME: a code byte per block, and the delimiter.
MaxFrame == MaxData + MaxData \div (FullBlock - 1) + 2

-----------------------------------------------------------------------------
Crc16Init == 0 .. 15

Crc16(data) == LittleEndian(FoldLeft(CrcOfByte, Crc16Init, data))

-----------------------------------------------------------------------------
(* COBS                                                                    *)

CloseBlock(block) == <<Len(block) + 1>> \o block

EncodeByte(acc, byte) ==
  LET block == IF byte = Delimiter THEN acc.block ELSE Append(acc.block, byte)
  IN  IF byte # Delimiter /\ Len(block) + 1 # FullBlock
        THEN [acc EXCEPT !.block = block]
        ELSE [out |-> acc.out \o CloseBlock(block), block |-> <<>>]

CobsEncode(data) ==
  LET acc == FoldLeft(EncodeByte, [out |-> <<>>, block |-> <<>>], data)
  IN  acc.out \o CloseBlock(acc.block) \o <<Delimiter>>

\* decoded[i] decodes what starts at byte i.
CobsDecode(data) ==
  LET next(i) == i + data[i]
      zero(i) == IF data[i] # FullBlock /\ next(i) <= Len(data)
                   THEN <<Delimiter>> ELSE <<>>
      decoded[i \in 1 .. Len(data) + 1] ==
        IF i > Len(data) THEN << <<>> >>
        ELSE IF data[i] = Delimiter \/ next(i) > Len(data) + 1 THEN <<>>
        ELSE IF decoded[next(i)] = <<>> THEN <<>>
        ELSE << SubSeq(data, i + 1, next(i) - 1) \o zero(i) \o decoded[next(i)][1] >>
  IN  IF decoded[1] # <<>> /\ Len(decoded[1][1]) > MaxData THEN <<>> ELSE decoded[1]

-----------------------------------------------------------------------------
(* encode and Parser::parse                                                *)

Body(id, seq, payload) ==
  LET checked == <<ProtocolVersion, id, seq>> \o payload
  IN  checked \o Crc16(checked)

Encode(id, seq, payload) == CobsEncode(Body(id, seq, payload))

Frame(id, seq, payload) == [id |-> id, seq |-> seq, payload |-> payload]

CrcMatches(body) ==
  LET crcAt == Len(body) - CrcBytes
  IN  SubSeq(body, crcAt + 1, Len(body)) = Crc16(SubSeq(body, 1, crcAt))

\* A frame, or <<>> for each of the errors Malformed, WrongVersion and BadCrc.
ParseBlock(block) ==
  LET decoded == CobsDecode(block)
      body    == decoded[1]
  IN  IF /\ decoded # <<>>
         /\ Len(body) >= HeaderBytes + CrcBytes
         /\ body[1] = ProtocolVersion
         /\ CrcMatches(body)
        THEN << Frame(body[2], body[3],
                      SubSeq(body, HeaderBytes + 1, Len(body) - CrcBytes)) >>
        ELSE <<>>

-----------------------------------------------------------------------------
(* Parser::feed: the block so far, and whether it outgrew its buffer.      *)

RudderIdle == [block |-> <<>>, overflow |-> FALSE]

\* What the delimiter ends is a frame or is dropped.
RudderClose(parser) ==
  [parser |-> RudderIdle,
   out    |-> IF parser.block = <<>> \/ parser.overflow
                THEN <<>> ELSE ParseBlock(parser.block)]

RudderTake(parser, byte) ==
  [parser |-> IF Len(parser.block) < MaxFrame
                THEN [parser EXCEPT !.block = Append(@, byte)]
                ELSE [parser EXCEPT !.overflow = TRUE],
   out    |-> <<>>]

\* Mutated form: reset() does not clear _overflow.
RudderFeedKeepingOverflow(parser, byte, late) ==
  LET held == IF parser.block # <<>> /\ late THEN [parser EXCEPT !.block = <<>>] ELSE parser
  IN  IF byte = Delimiter
        THEN [RudderClose(held) EXCEPT !.parser.overflow = held.overflow]
        ELSE RudderTake(held, byte)

\* feed() starts with a reset when the byte comes too late for its frame.
RudderFeed(parser, byte, late) ==
  LET held == IF parser.block # <<>> /\ late THEN RudderIdle ELSE parser
  IN  IF byte = Delimiter THEN RudderClose(held) ELSE RudderTake(held, byte)
=============================================================================
