---------------------------- MODULE SerialLinks ----------------------------
(***************************************************************************)
(* The two serial lines whose bytes this repository takes apart: the one   *)
(* to the rudder, where rudder::Sender stamps and frames messages and      *)
(* rudder::Parser takes them back, and the one from the GNSS receiver,     *)
(* which septentrio_gnss::Parser reads.  Both lines may lose a byte,       *)
(* change one, or put in one of their own, and bytes may come further      *)
(* apart than FRAME_TIMEOUT.  Of the clock a parser sees only that.  The   *)
(* lines share nothing: a behaviour is one of either port.                 *)
(***************************************************************************)
EXTENDS FiniteSets, RudderFrame, WireParser

CONSTANTS
  MsgIds,       \* MsgId
  PayloadBytes, \* bound: the bytes payloads are made of
  FirstSeq,     \* bound: Sender::_seq at the first frame explored
  Messages,     \* bound: what the receiver sends
  Noise,        \* bound per port: what a byte may turn into on the line
  MaxFrames,    \* bound per port: frames sent
  MaxFaults,    \* bound per port: what the line does wrong
  MaxRests,     \* bound per port: frames that come after a pause
  Reach         \* frames of the receiver that one damaged before may swallow

Ports == {"rudder", "gnss"}

ASSUME LinkAssumption ==
  /\ MsgIds \subseteq 0 .. 255 /\ PayloadBytes \subseteq 0 .. 255
  /\ FirstSeq \subseteq 0 .. 255 /\ Noise \in [Ports -> SUBSET (0 .. 255)]
  /\ {MaxFrames, MaxFaults, MaxRests} \subseteq [Ports -> Nat] /\ Reach \in Nat

ASSUME MessageAssumption == \A message \in Messages : IsMessage(message)

VARIABLES
  port,        \* which line
  seq,         \* Sender::_seq
  line,        \* bytes on the line
  untouched,   \* none of the bytes of the frame on the line has gone yet
  parser,      \* the port's parser
  sent,        \* history: the frames sent
  delivered,   \* history: the frames feed() returned
  faults,      \* faults so far
  hurt,        \* history: frames with a fault before their last byte
  endLost,     \* history: frames whose last byte did not arrive
  rested       \* history: frames that arrived after more than FRAME_TIMEOUT

vars == <<port, seq, line, untouched, parser, sent, delivered, faults, hurt, endLost, rested>>

Init ==
  /\ \/ port = "rudder" /\ parser = RudderIdle /\ seq \in FirstSeq
     \/ port = "gnss" /\ parser = WireIdle /\ seq = 0
  /\ line = <<>> /\ untouched = FALSE
  /\ sent = <<>> /\ delivered = <<>>
  /\ faults = 0 /\ hurt = {} /\ endLost = {} /\ rested = {}

\* Mutated form: the counter is not advanced.
NextSeqSame == seq

\* _seq++ on a uint8_t
NextSeq == (seq + 1) % 256

\* Sender::next and one write to the line.
Send ==
  /\ port = "rudder" /\ line = <<>> /\ Len(sent) < MaxFrames[port]
  /\ \E id \in MsgIds, n \in 0 .. MaxPayload : \E payload \in [1 .. n -> PayloadBytes] :
       /\ line' = Encode(id, seq, payload)
       /\ sent' = Append(sent, Frame(id, seq, payload))
  /\ seq' = NextSeq /\ untouched' = TRUE
  /\ UNCHANGED <<port, parser, delivered, faults, hurt, endLost, rested>>

Feed(byte, late) ==
  LET fed == IF port = "rudder" THEN RudderFeed(parser, byte, late)
                                ELSE WireFeed(parser, byte, late)
  IN  parser' = fed.parser /\ delivered' = delivered \o fed.out

-----------------------------------------------------------------------------
(* The receiver and the lines (external).                                  *)

ReceiverSend ==
  /\ port = "gnss" /\ line = <<>> /\ Len(sent) < MaxFrames[port]
  /\ \E message \in Messages :
       line' = WireEncode(message) /\ sent' = Append(sent, message)
  /\ untouched' = TRUE
  /\ UNCHANGED <<port, seq, parser, delivered, faults, hurt, endLost, rested>>

Current == Len(sent)

Fault == faults < MaxFaults[port] /\ faults' = faults + 1

\* The hurt byte belongs to the frame, or is the one that ends it.
Harm ==
  IF Len(line) = 1
    THEN endLost' = endLost \cup {Current} /\ UNCHANGED hurt
    ELSE hurt' = hurt \cup {Current} /\ UNCHANGED endLost

Rest == Cardinality(rested) < MaxRests[port] /\ rested' = rested \cup {Current}

\* A pause before a frame is no fault, one within it is.
ByteArrives ==
  /\ line # <<>>
  /\ \E late \in BOOLEAN :
       /\ Feed(Head(line), late)
       /\ IF late /\ ~untouched
            THEN Fault /\ hurt' = hurt \cup {Current}
            ELSE UNCHANGED <<faults, hurt>>
       /\ IF late /\ untouched THEN Rest ELSE UNCHANGED rested
  /\ line' = Tail(line) /\ untouched' = FALSE
  /\ UNCHANGED <<port, seq, sent, endLost>>

ByteLost ==
  /\ line # <<>>
  /\ Fault /\ Harm
  /\ line' = Tail(line) /\ untouched' = FALSE
  /\ UNCHANGED <<port, seq, parser, sent, delivered, rested>>

ByteChanged ==
  /\ line # <<>>
  /\ Fault /\ Harm
  /\ \E byte \in Noise[port] \ {Head(line)} : Feed(byte, FALSE)
  /\ line' = Tail(line) /\ untouched' = FALSE
  /\ UNCHANGED <<port, seq, sent, rested>>

NoiseArrives ==
  /\ line # <<>>
  /\ Fault /\ hurt' = hurt \cup {Current}
  /\ \E byte \in Noise[port], late \in BOOLEAN : (late => untouched) /\ Feed(byte, late)
  /\ untouched' = FALSE
  /\ UNCHANGED <<port, seq, line, sent, endLost, rested>>

Next == Send \/ ReceiverSend \/ ByteArrives \/ ByteLost \/ ByteChanged \/ NoiseArrives

Spec == Init /\ [][Next]_vars

-----------------------------------------------------------------------------
(* Properties. *)

TypeOK ==
  /\ port \in Ports /\ seq \in 0 .. 255 /\ line \in Seq(0 .. 255) /\ untouched \in BOOLEAN
  /\ port = "rudder" => Len(parser.block) <= MaxFrame /\ parser.overflow \in BOOLEAN
  /\ port = "gnss" =>
       /\ parser.state \in {"Idle", "AfterDollar", "AfterR", "SbfHeader", "SbfBody",
            "NmeaBody", "NmeaChecksumHi", "NmeaChecksumLo", "ReplyBody"}
       /\ Len(parser.held) <= 6 + MaxBody + MaxSentence + MaxReply
       /\ parser.promptAt \in 0 .. Len(parser.held)
  /\ faults \in 0 .. MaxFaults[port]
  /\ hurt \subseteq 1 .. Len(sent) /\ endLost \subseteq 1 .. Len(sent)
  /\ rested \subseteq 1 .. Len(sent)

\* What a CRC covers: rudder frames and SBF blocks. A reply has no checksum, and
\* two errors may cancel in a sentence's XOR.
Covered == {i \in DOMAIN delivered : port = "rudder" \/ delivered[i].type = "sbf"}

\* The CRC and the resynchronisation let nothing through that was not sent, and
\* nothing twice or out of order: what is delivered is a subsequence of sent.
DeliveredWereSent ==
  \E at \in [Covered -> DOMAIN sent] :
    /\ \A i, j \in Covered : i < j => at[i] < at[j]
    /\ \A i \in Covered : delivered[i] = sent[at[i]]

Unhurt(i) == i \notin hurt \cup endLost

\* A block whose body holds the two bytes that start a block.
Deceptive(message) ==
  /\ message.type = "sbf"
  /\ \E i \in 2 .. Len(message.data) :
       message.data[i - 1] = Dollar /\ message.data[i] = At

\* Since the first message, or one that came after a pause of FRAME_TIMEOUT, nothing
\* was hurt that came before i.
SinceRest(i) ==
  \E j \in 1 .. i : (j = 1 \/ j \in rested) /\ \A k \in j .. i - 1 : Unhurt(k)

\* The parser has found the start of frame i again. "The receiver resyncs at the
\* next 0x00" (docs/rudder_link.md), and a pause does as well. The GNSS messages
\* have no delimiter: what a damaged length, or a reply without its prompt, swallows
\* ends with a pause or with the parser's buffers, at most Reach messages later,
\* unless a body in between is taken for a block of its own.
InStep(i) ==
  \/ port = "rudder" /\ (i \in rested \/ i - 1 \notin endLost)
  \/ port = "gnss" /\ SinceRest(i)
  \/ port = "gnss" /\ \A j \in 1 .. i - 1 : j >= i - Reach => Unhurt(j) /\ ~Deceptive(sent[j])

\* A fault costs no frames but those it touches and those it swallows: a frame
\* that arrives unhurt at a parser in step is delivered.
UnhurtFramesArrive ==
  line = <<>> =>
    \A i \in DOMAIN sent : Unhurt(i) /\ InStep(i) => sent[i] \in ToSet(delivered)

\* "seq lets the rudder count drops" (docs/rudder_link.md): between two frames
\* delivered one after the other, seq has advanced by the frames sent in between,
\* modulo 256.
DropsAreCounted ==
  port = "rudder" =>
    \A i \in DOMAIN delivered \ {1} :
      \E m, n \in DOMAIN sent :
        /\ delivered[i - 1] = sent[m] /\ delivered[i] = sent[n]
        /\ m < n /\ (n - m) % 256 = (delivered[i].seq - delivered[i - 1].seq) % 256
=============================================================================
