------------------------------ MODULE RttRing ------------------------------
(***************************************************************************)
(* The RTT up-channel of src/rtt.cpp: a byte ring in RAM that the target   *)
(* writes and a debug host reads over SWD while the CPU runs.  Both share  *)
(* only the buffer and the two offsets, with no lock between them.  The    *)
(* target works on copies of the offsets (wr, rd) and publishes them after *)
(* the bytes; TelemetrySink's mutex keeps target writes from overlapping.  *)
(* A byte is its number in the telemetry stream, from 1.                   *)
(***************************************************************************)
EXTENDS Integers, Sequences

CONSTANTS
  Size,       \* UP_SIZE
  MaxChunk,   \* bound: bytes in one write
  MaxBytes    \* bound: bytes in the stream

ASSUME SizeAssumption  == Size \in Nat /\ Size >= 2
ASSUME StreamBound    == MaxChunk \in Nat /\ MaxBytes \in Nat

VARIABLES
  buffer, writeOff, readOff,     \* the ring in RAM
  writer, wr, rd, left,          \* the target inside rtt::write
  total,                         \* bytes written so far
  reader, from, upTo, received,  \* the host's poll
  acked,                         \* last byte of the latest finished poll
  overflow,                      \* history: a write found the ring full
  raced                          \* history: the host acknowledged during a write

target   == <<writer, wr, rd, left, total, overflow>>
host     == <<reader, from, upTo, received, acked, raced>>
ringVars == <<buffer, writeOff, readOff, target, host>>

Slot == 0 .. Size - 1

NextSlot(slot) == IF slot + 1 >= Size THEN 0 ELSE slot + 1

RingInit ==
  /\ buffer = [slot \in Slot |-> 0] /\ writeOff = 0 /\ readOff = 0
  /\ writer = "idle" /\ wr = 0 /\ rd = 0 /\ left = 0 /\ total = 0
  /\ reader = "idle" /\ from = 0 /\ upTo = 0 /\ received = <<>> /\ acked = 0
  /\ overflow = FALSE /\ raced = FALSE

-----------------------------------------------------------------------------
(* rtt::write on the target. *)

\* Mutated form: the write offset is published before the bytes.
WriteBeginPublishing ==
  /\ writer = "idle"
  /\ \E len \in 1 .. MaxChunk :
       /\ total + len <= MaxBytes
       /\ left' = len
       /\ writeOff' = (writeOff + len) % Size
  /\ wr' = writeOff /\ rd' = readOff
  /\ writer' = "copy"
  /\ UNCHANGED <<buffer, readOff, total, host, overflow>>

\* Mutated form: the read offset of the previous write is used again.
WriteBeginStaleRead ==
  /\ writer = "idle"
  /\ \E len \in 1 .. MaxChunk : total + len <= MaxBytes /\ left' = len
  /\ wr' = writeOff
  /\ writer' = "copy"
  /\ UNCHANGED <<buffer, writeOff, readOff, rd, total, host, overflow>>

WriteBegin ==
  /\ writer = "idle"
  /\ \E len \in 1 .. MaxChunk : total + len <= MaxBytes /\ left' = len
  /\ wr' = writeOff /\ rd' = readOff
  /\ writer' = "copy"
  /\ UNCHANGED <<buffer, writeOff, readOff, total, host, overflow>>

\* Mutated form: a full ring is not detected.
WriteByteNoPush ==
  /\ writer = "copy" /\ left > 0
  /\ buffer' = [buffer EXCEPT ![wr] = total + 1]
  /\ wr' = NextSlot(wr)
  /\ left' = left - 1 /\ total' = total + 1
  /\ UNCHANGED <<writeOff, readOff, writer, rd, host, overflow>>

WriteByte ==
  /\ writer = "copy" /\ left > 0
  /\ IF NextSlot(wr) = rd
       THEN rd' = NextSlot(rd) /\ overflow' = TRUE
       ELSE UNCHANGED <<rd, overflow>>
  /\ buffer' = [buffer EXCEPT ![wr] = total + 1]
  /\ wr' = NextSlot(wr)
  /\ left' = left - 1 /\ total' = total + 1
  /\ UNCHANGED <<writeOff, readOff, writer, host>>

\* Mutated form: the read offset is published one slot too far.
PublishReadPastOldest ==
  /\ writer = "copy" /\ left = 0
  /\ readOff' = IF rd = wr THEN rd ELSE NextSlot(rd)
  /\ writer' = "publish"
  /\ UNCHANGED <<buffer, writeOff, wr, rd, left, total, host, overflow>>

PublishRead ==
  /\ writer = "copy" /\ left = 0
  /\ readOff' = rd
  /\ writer' = "publish"
  /\ UNCHANGED <<buffer, writeOff, wr, rd, left, total, host, overflow>>

PublishWrite ==
  /\ writer = "publish"
  /\ writeOff' = wr
  /\ writer' = "idle"
  /\ UNCHANGED <<buffer, readOff, wr, rd, left, total, host, overflow>>

Write == WriteBegin \/ WriteByte \/ PublishRead \/ PublishWrite

-----------------------------------------------------------------------------
(* The host (openocd's rtt server): poll the offsets, copy what lies       *)
(* between them, then advance the read offset it owns.                     *)

HostPoll ==
  /\ reader = "idle"
  /\ readOff # writeOff
  /\ from' = readOff /\ upTo' = writeOff
  /\ received' = <<>>
  /\ reader' = "copy"
  /\ UNCHANGED <<buffer, writeOff, readOff, target, acked, raced>>

HostCopyByte ==
  /\ reader = "copy" /\ from # upTo
  /\ received' = Append(received, buffer[from])
  /\ from' = NextSlot(from)
  /\ UNCHANGED <<buffer, writeOff, readOff, target, reader, upTo, acked, raced>>

HostAck ==
  /\ reader = "copy" /\ from = upTo
  /\ readOff' = upTo
  /\ acked' = received[Len(received)]
  /\ raced' = (raced \/ writer # "idle")
  /\ reader' = "idle"
  /\ UNCHANGED <<buffer, writeOff, target, from, upTo, received>>

Host == HostPoll \/ HostCopyByte \/ HostAck

RingNext == Write \/ Host

RingSpec == RingInit /\ [][RingNext]_ringVars

-----------------------------------------------------------------------------
(* Properties. *)

RingTypeOK ==
  /\ buffer \in [Slot -> Nat] /\ writeOff \in Slot /\ readOff \in Slot
  /\ writer \in {"idle", "copy", "publish"}
  /\ wr \in Slot /\ rd \in Slot /\ left \in Nat /\ total \in Nat
  /\ reader \in {"idle", "copy"} /\ from \in Slot /\ upTo \in Slot
  /\ received \in Seq(Nat) /\ acked \in Nat
  /\ overflow \in BOOLEAN /\ raced \in BOOLEAN

\* What a dump of the RAM shows: the bytes from the read to the write offset.
Window ==
  [i \in 1 .. (writeOff - readOff) % Size |-> buffer[(readOff + i - 1) % Size]]

Consecutive(bytes) ==
  \A i \in 1 .. Len(bytes) - 1 : bytes[i + 1] = bytes[i] + 1

\* "The ring always holds the most recent b.size bytes" (rtt.cpp; one slot less,
\* as the slot before the read offset stays free): a dump between two writes
\* ends with the last byte written and goes back without a gap, all the way to
\* the start of the stream or to a full ring when no host has read.
DumpIsLatest ==
  writer = "idle" =>
    /\ \A i \in 1 .. Len(Window) : Window[i] = total - Len(Window) + i
    /\ acked = 0 => Len(Window) = IF total < Size THEN total ELSE Size - 1

\* The bytes are published before the offsets: while the ring does not fill up,
\* what a host copies in one poll is a piece of the stream, whatever the target
\* writes meanwhile.
PollIsIntact == ~overflow => Consecutive(received)

\* A reader that keeps up misses nothing: each poll starts no later than the
\* byte after the last one it has.
NothingMissed ==
  ~overflow /\ reader = "copy" /\ received # <<>> => received[1] <= acked + 1

\* Such a reader gets a byte twice only when it acknowledged while a write was
\* going on: the target stores the read offset it copied before, and takes the
\* acknowledgement back, although "host owns read" (rtt.cpp).
RepeatsOnlyAfterRace ==
  ~overflow /\ ~raced /\ reader = "copy" /\ received # <<>>
    => received[1] = acked + 1
=============================================================================
