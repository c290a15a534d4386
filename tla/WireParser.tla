----------------------------- MODULE WireParser -----------------------------
(***************************************************************************)
(* septentrio_gnss::Parser of lib/septentrio_gnss/wire_parser.h, which     *)
(* takes three kinds of message off one UART: SBF blocks with a length and *)
(* a CRC, NMEA sentences with an XOR, and command replies that nothing     *)
(* protects and that end in the prompt "\n<port>>".  All begin with '$'.   *)
(* A parser is its state, the bytes it holds of the message, and what the  *)
(* reply and the NMEA checksum need; the six states of the SBF header      *)
(* differ by the bytes held.                                               *)
(***************************************************************************)
EXTENDS Crc

CONSTANTS
  MaxBody,      \* sbf::MAX_BODY
  MaxSentence,  \* nmea::MAX_BODY
  MaxReply      \* MAX_REPLY_BODY

ASSUME WireAssumption ==
  MaxBody \in Nat /\ MaxSentence \in Nat \ {0} /\ MaxReply \in Nat

Dollar == 36   \* SYNC1, START
At     == 64   \* SYNC2
LetterR == 82
Star   == 42
LineFeed == 10
CarriageReturn == 13
PromptEnd == 62

ReplyKinds == {58, 33, 63}   \* ':' ok, '!' info, '?' error

HeaderLen == 8

WireIdle == [state |-> "Idle", held |-> <<>>, kind |-> 0, promptAt |-> 0, high |-> 0]

Hold(state, held) ==
  [parser |-> [WireIdle EXCEPT !.state = state, !.held = held], out |-> <<>>]
Dropped == [parser |-> WireIdle, out |-> <<>>]
Finished(message) == [parser |-> WireIdle, out |-> <<message>>]

-----------------------------------------------------------------------------
(* SBF: held is the CRC, the id and the length, then the body.             *)

CrcCcitt(data) == LittleEndian(FoldLeft(CrcOfByte, {}, data))

SbfLength(held) == held[5] + 256 * held[6]

\* Mutated form: the CRC is not compared.
SbfVerifyAny(held) ==
  Finished([type |-> "sbf", id |-> held[3] + 256 * held[4],
            data |-> SubSeq(held, 7, Len(held))])

SbfVerify(held) ==
  IF SubSeq(held, 1, 2) = CrcCcitt(SubSeq(held, 3, Len(held)))
    THEN Finished([type |-> "sbf", id |-> held[3] + 256 * held[4],
                   data |-> SubSeq(held, 7, Len(held))])
    ELSE Dropped

SbfEnterBody(held) ==
  IF \/ SbfLength(held) < HeaderLen \/ SbfLength(held) % 4 # 0
     \/ SbfLength(held) > HeaderLen + MaxBody
    THEN Dropped
    ELSE IF SbfLength(held) = HeaderLen THEN SbfVerify(held) ELSE Hold("SbfBody", held)

SbfHeaderByte(held, byte) ==
  IF Len(held) = 5 THEN SbfEnterBody(Append(held, byte))
                   ELSE Hold("SbfHeader", Append(held, byte))

SbfBodyByte(held, byte) ==
  IF Len(held) + 1 = SbfLength(held) - 2 THEN SbfVerify(Append(held, byte))
                                         ELSE Hold("SbfBody", Append(held, byte))

-----------------------------------------------------------------------------
(* NMEA: held is the sentence between '$' and '*'.                         *)

NmeaByte(held, byte) ==
  IF byte = Dollar THEN Hold("AfterDollar", <<>>)
  ELSE IF byte = Star THEN Hold("NmeaChecksumHi", held)
  ELSE IF byte \in {CarriageReturn, LineFeed} \/ Len(held) >= MaxSentence THEN Dropped
  ELSE Hold("NmeaBody", Append(held, byte))

HexToNibble(byte) ==
  CASE byte \in 48 .. 57  -> byte - 48
    [] byte \in 65 .. 70  -> byte - 55
    [] byte \in 97 .. 102 -> byte - 87
    [] OTHER -> -1

NmeaXor(held) == Number(FoldLeft(LAMBDA xor, byte : Xor(xor, BitsOf(byte)), {}, held))

ChecksumHiByte(held, byte) ==
  IF HexToNibble(byte) < 0 THEN Dropped
  ELSE [Hold("NmeaChecksumLo", held) EXCEPT !.parser.high = HexToNibble(byte)]

ChecksumLoByte(held, high, byte) ==
  IF HexToNibble(byte) >= 0 /\ NmeaXor(held) = 16 * high + HexToNibble(byte)
    THEN Finished([type |-> "nmea", data |-> held])
    ELSE Dropped

-----------------------------------------------------------------------------
(* Replies: held is the text, promptAt its length when the last line of it *)
(* may be the prompt.                                                      *)

IsPromptChar(byte) == byte \in 65 .. 90 \cup 48 .. 57

ReplyByte(parser, byte) ==
  LET candidate == parser.promptAt # 0
  IN  IF candidate /\ byte = PromptEnd /\ Len(parser.held) > parser.promptAt
        THEN Finished([type |-> "reply", kind |-> parser.kind,
                       data |-> SubSeq(parser.held, 1, parser.promptAt)])
      ELSE IF Len(parser.held) >= MaxReply THEN Dropped
      ELSE [parser |-> [parser EXCEPT !.held = Append(@, byte),
                          !.promptAt = IF byte = LineFeed THEN Len(parser.held) + 1
                                       ELSE IF IsPromptChar(byte) THEN @ ELSE 0],
            out |-> <<>>]

-----------------------------------------------------------------------------
(* feed.                                                                   *)

AfterDollarByte(byte) ==
  CASE byte = At      -> Hold("SbfHeader", <<>>)
    [] byte = Dollar  -> Hold("AfterDollar", <<>>)
    [] byte = LetterR -> Hold("AfterR", <<>>)
    [] OTHER -> NmeaByte(<<>>, byte)

AfterRByte(byte) ==
  IF byte \in ReplyKinds
    THEN [Hold("ReplyBody", <<>>) EXCEPT !.parser.kind = byte]
    ELSE NmeaByte(<<LetterR>>, byte)

WireFeed(parser, byte, late) ==
  LET now  == IF late THEN WireIdle ELSE parser
      held == now.held
  IN  CASE now.state = "Idle" ->
             IF byte = Dollar THEN Hold("AfterDollar", <<>>) ELSE Dropped
        [] now.state = "AfterDollar" -> AfterDollarByte(byte)
        [] now.state = "AfterR" -> AfterRByte(byte)
        [] now.state = "SbfHeader" -> SbfHeaderByte(held, byte)
        [] now.state = "SbfBody" -> SbfBodyByte(held, byte)
        [] now.state = "NmeaBody" -> NmeaByte(held, byte)
        [] now.state = "NmeaChecksumHi" -> ChecksumHiByte(held, byte)
        [] now.state = "NmeaChecksumLo" -> ChecksumLoByte(held, now.high, byte)
        [] now.state = "ReplyBody" -> ReplyByte(now, byte)

-----------------------------------------------------------------------------
(* The receiver's encoding (external).                                     *)

\* What the receiver sends: blocks that fit, with an aligned length; sentences that
\* look like no block and no reply; replies that end in a line feed, with no prompt
\* before their own.
IsBlock(message) ==
  /\ message \in [type : {"sbf"}, id : Nat, data : Seq(0 .. 255)] /\ message.id < 65536
  /\ Len(message.data) % 4 = 0 /\ Len(message.data) <= MaxBody
  /\ HeaderLen + Len(message.data) < 65536

IsSentence(message) ==
  LET data == message.data
  IN  /\ message \in [type : {"nmea"}, data : Seq(0 .. 255)] /\ Len(data) \in 1 .. MaxSentence
      /\ \A i \in DOMAIN data : data[i] \notin {Dollar, Star, CarriageReturn, LineFeed}
      /\ data[1] # At
      /\ ~(data[1] = LetterR /\ Len(data) > 1 /\ data[2] \in ReplyKinds)

IsReply(message) ==
  LET data == message.data
      n == Len(data)
  IN  /\ message \in [type : {"reply"}, kind : ReplyKinds, data : Seq(0 .. 255)]
      /\ 0 < n /\ n < MaxReply /\ data[n] = LineFeed
      /\ ~ \E i, j \in DOMAIN data :
             /\ data[i] = LineFeed /\ i + 1 < j /\ data[j] = PromptEnd
             /\ \A k \in i + 1 .. j - 1 : IsPromptChar(data[k])

IsMessage(message) == IsBlock(message) \/ IsSentence(message) \/ IsReply(message)

TwoBytes(n) == <<n % 256, n \div 256>>

HexDigit(n) == IF n < 10 THEN 48 + n ELSE 55 + n

SbfEncode(message) ==
  LET covered == TwoBytes(message.id) \o TwoBytes(HeaderLen + Len(message.data))
                   \o message.data
  IN  <<Dollar, At>> \o CrcCcitt(covered) \o covered

NmeaEncode(message) ==
  LET xor == NmeaXor(message.data)
  IN  <<Dollar>> \o message.data
        \o <<Star, HexDigit(xor \div 16), HexDigit(xor % 16), CarriageReturn, LineFeed>>

\* The text ends in a line feed; the port is one letter here.
ReplyEncode(message) ==
  <<Dollar, LetterR, message.kind>> \o message.data \o <<67, PromptEnd>>

WireEncode(message) ==
  CASE message.type = "sbf"   -> SbfEncode(message)
    [] message.type = "nmea"  -> NmeaEncode(message)
    [] message.type = "reply" -> ReplyEncode(message)
=============================================================================
