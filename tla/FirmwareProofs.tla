--------------------------- MODULE FirmwareProofs ---------------------------
(***************************************************************************)
(* Proofs about what the firmware's tasks share: the heading filter's      *)
(* control, EkfGate, the two halves of the telemetry's way out,            *)
(* TelemetrySink and, below it, RttRing, and what is kept of the filter's  *)
(* magnetometer offset, OffsetPersist.                                     *)
(*                                                                         *)
(* The gates, for every limit, grace and clock: the GNSS gate neither locks*)
(* the filter out nor lets a lone bad fix in, and the magnetometer is      *)
(* forced in only while no fix is accepted.                                *)
(*                                                                         *)
(* The sink, for any set of tasks and any lines: with its mutex it delivers*)
(* whole lines to the RTT ring and the UART.  The ring, for every size and *)
(* every length of the stream: offsets go round, so they are compared by   *)
(* how many bytes they lie behind the byte that is written next, the one   *)
(* quantity that a write changes for all of them alike, as long as the     *)
(* ring does not fill up.                                                  *)
(*                                                                         *)
(* The offset, for every limit, change, interval and age: the board never  *)
(* starts from what a power failure left in the sector, the policy knows   *)
(* what it wrote, and erases stay apart.                                   *)
(***************************************************************************)
EXTENDS EkfGate, OffsetPersist, TelemetrySink, RttRing, SequenceTheorems, TLAPS

-----------------------------------------------------------------------------
(* EkfGate: the gates. *)

\* The filter's counters count exactly, or at least not more than, what the
\* properties speak of: fixes dropped, and samples since an accepted fix.
CountInv ==
  /\ gateRejects \in Nat /\ magGateRejects \in Nat
  /\ dropped \in Nat /\ magRun \in Nat
  /\ dropped = gateRejects
  /\ gateRejects < GateLimit
  /\ magGateRejects <= magRun

LEMMA CountInit == GateInit => CountInv
BY LimitAssumption DEF GateInit, CountInv

LEMMA CountStep == CountInv /\ [GateNext]_gateVars => CountInv'
<1> SUFFICES ASSUME CountInv, [GateNext]_gateVars PROVE CountInv'
  OBVIOUS
<1> USE LimitAssumption DEF CountInv
<1>1. CASE FirstPredict
  BY <1>1 DEF FirstPredict
<1>2. CASE Predict
  BY <1>2 DEF Predict, MagGate
<1>3. CASE UpdateInvalid
  BY <1>3 DEF UpdateInvalid
<1>4. CASE UpdateFirst
  BY <1>4 DEF UpdateFirst
<1>5. CASE UpdateDrop
  BY <1>5 DEF UpdateDrop
<1>6. ASSUME NEW passes \in BOOLEAN, UpdateAccept(passes) PROVE CountInv'
  BY <1>6 DEF UpdateAccept
<1>7. CASE UNCHANGED gateVars
  BY <1>7 DEF gateVars
<1> QED
  BY <1>1, <1>2, <1>3, <1>4, <1>5, <1>6, <1>7 DEF GateNext, Update

\* Fewer than GateLimit fixes are dropped between two that are accepted: a
\* filter converged on a wrong heading opens its gate to GNSS again.
THEOREM FixGateReopens == GateSpec => []FixGateOpens
<1>1. CountInv => FixGateOpens
  BY DEF CountInv, FixGateOpens
<1> QED
  BY <1>1, CountInit, CountStep, PTL DEF GateSpec

\* A fix that failed its gate enters only as the last of GateLimit in a row.
THEOREM LoneFixKeptOut == GateSpec => ForcedAfterStreak
<1>1. ASSUME CountInv, [GateNext]_gateVars
      PROVE  [event' = "fixForced" => dropped = GateLimit - 1]_gateVars
  <2> SUFFICES ASSUME GateNext, event' = "fixForced" PROVE dropped = GateLimit - 1
    BY <1>1
  <2>1. PICK passes \in BOOLEAN : UpdateAccept(passes)
    BY DEF GateNext, FirstPredict, Predict, MagGate, Update, UpdateInvalid,
       UpdateFirst, UpdateDrop
  <2>2. gateRejects + 1 >= GateLimit
    BY <2>1 DEF UpdateAccept
  <2> QED
    BY <1>1, <2>2, LimitAssumption DEF CountInv
<1> QED
  BY <1>1, CountInit, CountStep, PTL DEF GateSpec, ForcedAfterStreak

\* The magnetometer's innovation is let through ungated only after MagGateLimit
\* samples without an accepted fix: never while GNSS steers heading.
THEOREM MagLeavesSteeringToGnss == GateSpec => MagForcedOnlyAdrift
<1>1. ASSUME CountInv, [GateNext]_gateVars
      PROVE  [event' = "magForced" => magRun' >= MagGateLimit]_gateVars
  <2> SUFFICES ASSUME GateNext, event' = "magForced" PROVE magRun' >= MagGateLimit
    BY <1>1
  <2>1. Predict
    BY DEF GateNext, FirstPredict, Update, UpdateInvalid, UpdateFirst, UpdateDrop,
       UpdateAccept
  <2>2. magGateRejects + 1 >= MagGateLimit /\ magRun' = magRun + 1
    BY <1>1, <2>1, LimitAssumption DEF Predict, MagGate, CountInv
  <2> QED
    BY <1>1, <2>2, LimitAssumption DEF CountInv
<1> QED
  BY <1>1, CountInit, CountStep, PTL DEF GateSpec, MagForcedOnlyAdrift

-----------------------------------------------------------------------------
(* TelemetrySink: whole lines. *)

\* The chunk may be appended: it opens a line after a finished one, or goes on
\* with the line the stream ends in.
Ready(stream, c) ==
  /\ c.part \in 1 .. c.size
  /\ stream = <<>> => c.part = 1
  /\ stream # <<>> => Follows(stream[Len(stream)], c)

LineEnded(stream) ==
  stream # <<>> => stream[Len(stream)].part = stream[Len(stream)].size

\* What the streams look like at each point of the holder's line.
StreamInv ==
  /\ WholeLines(rtt) /\ WholeLines(uart)
  /\ holder = NoWriter => uart = rtt /\ LineEnded(rtt)
  /\ \A t \in Writers :
       /\ at[t] \in {"cdc", "rtt"} => uart = rtt /\ Ready(rtt, chunk[t])
       /\ at[t] = "uart" => Ready(uart, chunk[t]) /\ rtt = Append(uart, chunk[t])
       /\ at[t] = "destruct" => uart = rtt /\ LineEnded(rtt)

-----------------------------------------------------------------------------
LEMMA AppendChunk ==
  ASSUME NEW s \in Seq(Chunk), NEW c \in Chunk
  PROVE  /\ Append(s, c) \in Seq(Chunk)
         /\ Append(s, c) # <<>>
         /\ Append(s, c)[Len(Append(s, c))] = c
         /\ Len(Append(s, c)) = Len(s) + 1
         /\ \A i \in 1 .. Len(s) : Append(s, c)[i] = s[i]
OBVIOUS

\* Appending the chunk that is due keeps a stream of whole lines.
LEMMA AppendKeepsWhole ==
  ASSUME NEW s \in Seq(Chunk), NEW c \in Chunk, WholeLines(s), Ready(s, c)
  PROVE  WholeLines(Append(s, c))
<1> DEFINE a == Append(s, c)
<1>1. /\ Len(a) = Len(s) + 1 /\ a[Len(s) + 1] = c
      /\ \A i \in 1 .. Len(s) : a[i] = s[i]
  BY AppendChunk
<1>2. a[1].part = 1
  <2>1. CASE s = <<>>
    <3>1. Len(s) = 0
      BY <2>1
    <3> QED
      BY <1>1, <2>1, <3>1 DEF Ready
  <2>2. CASE s # <<>>
    <3>1. Len(s) >= 1
      BY <2>2
    <3> QED
      BY <1>1, <2>2, <3>1 DEF WholeLines
  <2> QED
    BY <2>1, <2>2
<1>3. ASSUME NEW i \in 1 .. Len(a) - 1
      PROVE  Follows(a[i], a[i + 1])
  <2>1. CASE i < Len(s)
    <3>1. /\ i \in 1 .. Len(s) - 1 /\ i \in 1 .. Len(s) /\ i + 1 \in 1 .. Len(s)
      BY <1>1, <2>1
    <3>2. Follows(s[i], s[i + 1])
      BY <3>1 DEF WholeLines
    <3> QED
      BY <1>1, <3>1, <3>2
  <2>2. CASE i = Len(s)
    <3>1. s # <<>> /\ i \in 1 .. Len(s)
      BY <1>1, <2>2
    <3>2. Follows(s[Len(s)], c)
      BY <3>1 DEF Ready
    <3> QED
      BY <1>1, <2>2, <3>1, <3>2
  <2> QED
    BY <1>1, <2>1, <2>2
<1> HIDE DEF a
<1>4. WholeLines(a)
  BY <1>2, <1>3 DEF WholeLines
<1> QED
  BY <1>4 DEF a

LEMMA NextPart ==
  ASSUME NEW c \in Chunk
  PROVE  /\ [c EXCEPT !.part = c.part + 1] \in Chunk
         /\ [c EXCEPT !.part = c.part + 1].by = c.by
<1>1. [c EXCEPT !.part = c.part + 1] \in Chunk
  BY DEF Chunk
<1>2. [c EXCEPT !.part = c.part + 1].by = c.by
  BY DEF Chunk
<1> QED
  BY <1>1, <1>2

LEMMA TypeInit == Init => TypeOK
BY DEF Init, TypeOK, Chunk

LEMMA TypeStep == TypeOK /\ [Next]_vars => TypeOK'
<1> SUFFICES ASSUME TypeOK, [Next]_vars PROVE TypeOK'
  OBVIOUS
<1> USE DEF TypeOK
<1>1. ASSUME NEW t \in Writers, LineConstruct(t) PROVE TypeOK'
  <2>1. PICK size \in 1 .. MaxParts :
          chunk' = [chunk EXCEPT ![t] = [by |-> t, line |-> chunk[t].line + 1,
                                         part |-> 1, size |-> size]]
    BY <1>1 DEF LineConstruct, StartLine
  <2>2. chunk' \in [Writers -> Chunk] /\ \A u \in Writers : chunk'[u].by = u
    BY <2>1, BoundAssumption DEF Chunk
  <2>3. at' \in [Writers -> {"idle", "cdc", "rtt", "uart", "destruct"}]
    BY <1>1 DEF LineConstruct, StartLine
  <2> QED
    BY <1>1, <2>2, <2>3 DEF LineConstruct
<1>2. ASSUME NEW t \in Writers, EmitCdc(t) PROVE TypeOK'
  BY <1>2, AppendChunk DEF EmitCdc
<1>3. ASSUME NEW t \in Writers, EmitRtt(t) PROVE TypeOK'
  BY <1>3, AppendChunk DEF EmitRtt
<1>4. ASSUME NEW t \in Writers, EmitUart(t) PROVE TypeOK'
  <2>1. uart' \in Seq(Chunk)
    BY <1>4, AppendChunk DEF EmitUart
  <2>2. chunk' \in [Writers -> Chunk] /\ \A u \in Writers : chunk'[u].by = u
    <3>1. CASE UNCHANGED chunk
      BY <3>1
    <3>2. CASE chunk' = [chunk EXCEPT ![t].part = @ + 1]
      <4>1. /\ [chunk[t] EXCEPT !.part = chunk[t].part + 1] \in Chunk
            /\ [chunk[t] EXCEPT !.part = chunk[t].part + 1].by = t
        <5>1. chunk[t] \in Chunk /\ chunk[t].by = t
          BY <1>4
        <5> QED
          BY <5>1, NextPart
      <4>2. chunk' = [chunk EXCEPT ![t] = [chunk[t] EXCEPT !.part = chunk[t].part + 1]]
        BY <3>2
      <4> HIDE DEF TypeOK
      <4>3. /\ chunk \in [Writers -> Chunk]
            /\ \A u \in Writers : chunk[u].by = u
        BY DEF TypeOK
      <4> QED
        BY <1>4, <4>1, <4>2, <4>3
    <3> QED
      BY <1>4, <3>1, <3>2 DEF EmitUart
  <2> QED
    BY <1>4, <2>1, <2>2 DEF EmitUart
<1>5. ASSUME NEW t \in Writers, LineDestruct(t) PROVE TypeOK'
  BY <1>5 DEF LineDestruct
<1>6. CASE UsbToggle
  BY <1>6 DEF UsbToggle
<1>7. CASE UNCHANGED vars
  BY <1>7 DEF vars
<1> QED
  BY <1>1, <1>2, <1>3, <1>4, <1>5, <1>6, <1>7 DEF Next, PrintStep

\* The holder's state decides everybody's: whoever is not the holder is idle.
LEMMA HolderStep ==
  TypeOK /\ HasMutex /\ HolderIsPrinting /\ [Next]_vars => HolderIsPrinting'
<1> SUFFICES ASSUME TypeOK, HasMutex, HolderIsPrinting, [Next]_vars
             PROVE  HolderIsPrinting'
  OBVIOUS
<1> USE DEF HolderIsPrinting, TypeOK
<1>1. ASSUME NEW t \in Writers, LineConstruct(t) PROVE HolderIsPrinting'
  BY <1>1, WriterAssumption DEF LineConstruct, StartLine
<1>2. ASSUME NEW t \in Writers, EmitCdc(t) PROVE HolderIsPrinting'
  BY <1>2 DEF EmitCdc
<1>3. ASSUME NEW t \in Writers, EmitRtt(t) PROVE HolderIsPrinting'
  BY <1>3 DEF EmitRtt
<1>4. ASSUME NEW t \in Writers, EmitUart(t) PROVE HolderIsPrinting'
  BY <1>4 DEF EmitUart
<1>5. ASSUME NEW t \in Writers, LineDestruct(t) PROVE HolderIsPrinting'
  BY <1>5, WriterAssumption DEF LineDestruct
<1>6. CASE UsbToggle
  BY <1>6 DEF UsbToggle
<1>7. CASE UNCHANGED vars
  BY <1>7 DEF vars
<1> QED
  BY <1>1, <1>2, <1>3, <1>4, <1>5, <1>6, <1>7 DEF Next, PrintStep

LEMMA StreamStep ==
  TypeOK /\ HasMutex /\ HolderIsPrinting /\ StreamInv /\ [Next]_vars => StreamInv'
<1> SUFFICES ASSUME TypeOK, HasMutex, HolderIsPrinting, StreamInv, [Next]_vars
             PROVE  StreamInv'
  OBVIOUS
<1>0. /\ chunk \in [Writers -> Chunk]
      /\ at \in [Writers -> {"idle", "cdc", "rtt", "uart", "destruct"}]
      /\ rtt \in Seq(Chunk) /\ uart \in Seq(Chunk)
  BY DEF TypeOK
<1>h. \A t \in Writers : at[t] # "idle" =>
        holder = t /\ \A u \in Writers : u # t => at[u] = "idle"
  BY DEF HolderIsPrinting
<1>1. ASSUME NEW t \in Writers, LineConstruct(t) PROVE StreamInv'
  <2>1. /\ holder = NoWriter /\ holder' = t /\ UNCHANGED <<rtt, uart>>
        /\ at' = [at EXCEPT ![t] = "cdc"]
    BY <1>1 DEF LineConstruct, StartLine
  <2>2. \A u \in Writers : at[u] = "idle"
    BY <2>1, WriterAssumption DEF HolderIsPrinting
  <2>3. PICK size \in 1 .. MaxParts :
          chunk'[t] = [by |-> t, line |-> chunk[t].line + 1,
                       part |-> 1, size |-> size]
    BY <1>0, <1>1 DEF LineConstruct, StartLine
  <2>4. Ready(rtt, chunk'[t])
    BY <2>1, <2>3, BoundAssumption DEF StreamInv, LineEnded, Ready, Follows
  <2> QED
    BY <1>0, <2>1, <2>2, <2>4, WriterAssumption DEF StreamInv
<1>2. ASSUME NEW t \in Writers, EmitCdc(t) PROVE StreamInv'
  BY <1>0, <1>2 DEF EmitCdc, StreamInv
<1>3. ASSUME NEW t \in Writers, EmitRtt(t) PROVE StreamInv'
  <2>1. /\ at[t] = "rtt" /\ at' = [at EXCEPT ![t] = "uart"]
        /\ rtt' = Append(rtt, chunk[t]) /\ UNCHANGED <<holder, chunk, uart>>
    BY <1>3 DEF EmitRtt
  <2>2. uart = rtt /\ Ready(rtt, chunk[t]) /\ WholeLines(rtt)
    BY <2>1 DEF StreamInv
  <2>3. WholeLines(rtt')
    BY <1>0, <2>1, <2>2, AppendKeepsWhole
  <2>4. holder = t /\ \A u \in Writers : u # t => at[u] = "idle"
    BY <1>h, <2>1
  <2> QED
    BY <1>0, <2>1, <2>2, <2>3, <2>4, WriterAssumption DEF StreamInv
<1>4. ASSUME NEW t \in Writers, EmitUart(t) PROVE StreamInv'
  <2>1. /\ at[t] = "uart" /\ uart' = Append(uart, chunk[t])
        /\ UNCHANGED <<holder, rtt>>
    BY <1>4 DEF EmitUart
  <2>2. /\ Ready(uart, chunk[t]) /\ rtt = Append(uart, chunk[t])
        /\ WholeLines(rtt) /\ WholeLines(uart)
    BY <2>1 DEF StreamInv
  <2>3. uart' = rtt /\ rtt # <<>> /\ rtt[Len(rtt)] = chunk[t]
    BY <1>0, <2>1, <2>2, AppendChunk
  <2>4. holder = t /\ \A u \in Writers : u # t => at[u] = "idle"
    BY <1>h, <2>1
  <2>5. CASE chunk[t].part < chunk[t].size
    <3>1. /\ at' = [at EXCEPT ![t] = "cdc"]
          /\ chunk' = [chunk EXCEPT ![t].part = @ + 1]
      BY <1>4, <2>5 DEF EmitUart
    <3>2. /\ chunk'[t] = [chunk[t] EXCEPT !.part = chunk[t].part + 1]
          /\ chunk[t] \in Chunk
      BY <1>0, <3>1
    <3>3. Ready(rtt, chunk'[t])
      BY <2>3, <2>5, <3>2 DEF Ready, Follows, Chunk
    <3> QED
      BY <1>0, <2>1, <2>2, <2>3, <2>4, <3>1, <3>3, WriterAssumption DEF StreamInv
  <2>6. CASE ~(chunk[t].part < chunk[t].size)
    <3>1. at' = [at EXCEPT ![t] = "destruct"] /\ UNCHANGED chunk
      BY <1>4, <2>6 DEF EmitUart
    <3>2. chunk[t].part = chunk[t].size
      BY <1>0, <2>2, <2>6 DEF Ready, Chunk
    <3>3. LineEnded(rtt)
      BY <2>3, <3>2 DEF LineEnded
    <3> QED
      BY <1>0, <2>1, <2>2, <2>3, <2>4, <3>1, <3>3, WriterAssumption DEF StreamInv
  <2> QED
    BY <2>5, <2>6
<1>5. ASSUME NEW t \in Writers, LineDestruct(t) PROVE StreamInv'
  <2>1. /\ at[t] = "destruct" /\ at' = [at EXCEPT ![t] = "idle"]
        /\ UNCHANGED <<chunk, rtt, uart>>
    BY <1>5 DEF LineDestruct
  <2> QED
    BY <1>0, <2>1 DEF StreamInv
<1>6. CASE UsbToggle
  BY <1>6 DEF UsbToggle, StreamInv
<1>7. CASE UNCHANGED vars
  BY <1>7 DEF vars, StreamInv
<1> QED
  BY <1>1, <1>2, <1>3, <1>4, <1>5, <1>6, <1>7 DEF Next, PrintStep

LEMMA StreamInit == Init => HolderIsPrinting /\ StreamInv
BY WriterAssumption DEF Init, HolderIsPrinting, StreamInv, WholeLines, LineEnded

-----------------------------------------------------------------------------
\* The mutex belongs to the task whose Line is alive, for any set of tasks.
THEOREM MutualExclusion == Spec => []HolderIsPrinting
<1>1. CASE HasMutex
  BY <1>1, TypeInit, TypeStep, StreamInit, HolderStep, PTL DEF Spec
<1>2. CASE ~HasMutex
  BY <1>2, PTL DEF HolderIsPrinting
<1> QED
  BY <1>1, <1>2

\* Every line reaches the RTT ring and the UART whole, for any set of tasks and
\* any number and length of lines.
THEOREM WholeLinesDelivered == Spec => []LinesReachWireWhole
<1>1. CASE HasMutex
  <2>1. StreamInv => LinesReachWireWhole
    BY DEF StreamInv, LinesReachWireWhole
  <2> QED
    BY <1>1, <2>1, TypeInit, TypeStep, StreamInit, HolderStep, StreamStep, PTL
    DEF Spec
<1>2. CASE ~HasMutex
  BY <1>2, PTL DEF LinesReachWireWhole
<1> QED
  BY <1>1, <1>2

\* The UART carries what the RTT ring carries, at most one chunk behind, whether
\* or not a USB host is there.
THEOREM StreamsStayTogether == Spec => []StreamsAgree
<1>1. CASE HasMutex
  <2>1. TypeOK /\ HolderIsPrinting /\ StreamInv => StreamsAgree
    <3> SUFFICES ASSUME TypeOK, HolderIsPrinting, StreamInv PROVE StreamsAgree
      OBVIOUS
    <3>1. uart \in Seq(Chunk) /\ rtt \in Seq(Chunk)
      BY DEF TypeOK
    <3>2. uart = rtt \/ \E t \in Writers : rtt = Append(uart, chunk[t])
      BY <1>1 DEF TypeOK, HolderIsPrinting, StreamInv
    <3>3. CASE uart = rtt
      BY <3>1, <3>3 DEF StreamsAgree
    <3>4. ASSUME NEW t \in Writers, rtt = Append(uart, chunk[t])
          PROVE  StreamsAgree
      <4>1. chunk[t] \in Chunk
        BY DEF TypeOK
      <4>2. Len(rtt) = Len(uart) + 1 /\ \A i \in 1 .. Len(uart) : rtt[i] = uart[i]
        BY <3>1, <3>4, <4>1
      <4>3. /\ SubSeq(rtt, 1, Len(uart)) \in Seq(Chunk)
            /\ Len(SubSeq(rtt, 1, Len(uart))) = Len(uart)
            /\ \A i \in 1 .. Len(uart) : SubSeq(rtt, 1, Len(uart))[i] = rtt[i]
        BY <3>1, <4>2
      <4>4. SubSeq(rtt, 1, Len(uart)) = uart
        BY <3>1, <4>2, <4>3, SeqEqual
      <4> QED
        BY <3>1, <4>2, <4>4 DEF StreamsAgree
    <3> QED
      BY <3>2, <3>3, <3>4
  <2> QED
    BY <1>1, <2>1, TypeInit, TypeStep, StreamInit, HolderStep, StreamStep, PTL
    DEF Spec
<1>2. CASE ~HasMutex
  BY <1>2, PTL DEF StreamsAgree
<1> QED
  BY <1>1, <1>2

-----------------------------------------------------------------------------
(* The CDC port, which may open and close within a line.                   *)

\* Every chunk on the port is of a line its task has begun, and what is there of
\* the line being printed is the end of the stream and was printed before.
CdcInv ==
  /\ CdcNeverSplices
  /\ \A i \in 1 .. Len(cdc) : cdc[i].line <= chunk[cdc[i].by].line
  /\ \A t \in Writers : at[t] # "idle" =>
       \A i \in 1 .. Len(cdc) : SameLine(cdc[i], chunk[t]) =>
         /\ \A k \in i .. Len(cdc) : SameLine(cdc[k], chunk[t])
         /\ cdc[i].part <= chunk[t].part
         /\ at[t] = "cdc" => cdc[i].part # chunk[t].part

\* The chunk that is due joins the port's stream.
LEMMA CdcAppend ==
  ASSUME HasMutex, cdc \in Seq(Chunk), NEW c \in Chunk, cdc' = Append(cdc, c),
         CdcNeverSplices,
         \A i \in 1 .. Len(cdc) : SameLine(cdc[i], c) =>
           /\ \A k \in i .. Len(cdc) : SameLine(cdc[k], c)
           /\ cdc[i].part < c.part
  PROVE  CdcNeverSplices'
<1>1. /\ cdc' \in Seq(Chunk) /\ Len(cdc') = Len(cdc) + 1 /\ cdc'[Len(cdc) + 1] = c
      /\ \A i \in 1 .. Len(cdc) : cdc'[i] = cdc[i]
      /\ Len(cdc) \in Nat
  BY AppendChunk
<1>2. SUFFICES ASSUME NEW i \in 1 .. Len(cdc'), NEW j \in 1 .. Len(cdc'), i < j,
                      SameLine(cdc'[i], cdc'[j]), NEW k \in i .. j
               PROVE  /\ SameLine(cdc'[i], cdc'[k])
                      /\ k > i => cdc'[k - 1].part < cdc'[k].part
  BY DEF CdcNeverSplices
<1>3. i \in 1 .. Len(cdc) /\ cdc'[i] = cdc[i]
  BY <1>1, <1>2
<1>4. CASE j <= Len(cdc)
  <2>1. j \in 1 .. Len(cdc) /\ k \in 1 .. Len(cdc) /\ (k > i => k - 1 \in 1 .. Len(cdc))
    BY <1>1, <1>2, <1>4
  <2> QED
    BY <1>1, <1>2, <1>3, <2>1 DEF CdcNeverSplices
<1>5. CASE j = Len(cdc) + 1
  <2>1. SameLine(cdc[i], c)
    BY <1>1, <1>2, <1>3, <1>5
  <2>2. CASE k = Len(cdc) + 1
    <3>1. Len(cdc) \in i .. Len(cdc) /\ Len(cdc) \in 1 .. Len(cdc)
      BY <1>1, <1>3
    <3>2. SameLine(cdc[Len(cdc)], c)
      BY <1>3, <2>1, <3>1
    <3>3. cdc[Len(cdc)].part < c.part
      BY <3>1, <3>2
    <3>4. k - 1 = Len(cdc) /\ cdc'[k] = c /\ cdc'[k - 1] = cdc[Len(cdc)]
      BY <1>1, <2>2, <3>1
    <3> QED
      BY <1>3, <2>1, <3>3, <3>4
  <2>3. CASE k <= Len(cdc)
    <3>1. k \in 1 .. Len(cdc) /\ k \in i .. Len(cdc) /\ (k > i => k - 1 \in 1 .. Len(cdc))
      BY <1>1, <1>2, <1>3, <2>3
    <3>2. SameLine(cdc[k], c)
      BY <1>3, <2>1, <3>1
    <3>3. SameLine(cdc[i], cdc[k])
      BY <2>1, <3>2 DEF SameLine
    <3>4. k > i => cdc[k - 1].part < cdc[k].part
      BY <1>3, <3>1, <3>3 DEF CdcNeverSplices
    <3> QED
      BY <1>1, <1>3, <3>1, <3>3, <3>4
  <2> QED
    BY <1>1, <1>2, <1>5, <2>2, <2>3
<1> QED
  BY <1>1, <1>2, <1>4, <1>5

LEMMA CdcStep ==
  TypeOK /\ HasMutex /\ HolderIsPrinting /\ CdcInv /\ [Next]_vars => CdcInv'
<1> SUFFICES ASSUME TypeOK, HasMutex, HolderIsPrinting, CdcInv, [Next]_vars
             PROVE  CdcInv'
  OBVIOUS
<1>0. /\ chunk \in [Writers -> Chunk] /\ \A t \in Writers : chunk[t].by = t
      /\ at \in [Writers -> {"idle", "cdc", "rtt", "uart", "destruct"}]
      /\ cdc \in Seq(Chunk)
      /\ \A i \in 1 .. Len(cdc) : cdc[i] \in Chunk
  BY DEF TypeOK
<1>h. \A t \in Writers : at[t] # "idle" => \A u \in Writers : u # t => at[u] = "idle"
  BY DEF HolderIsPrinting
<1>s. ASSUME UNCHANGED cdc PROVE CdcNeverSplices'
  BY <1>s DEF CdcInv, CdcNeverSplices
<1>1. ASSUME NEW t \in Writers, LineConstruct(t) PROVE CdcInv'
  <2>1. /\ holder = NoWriter /\ UNCHANGED cdc /\ at' = [at EXCEPT ![t] = "cdc"]
    BY <1>1 DEF LineConstruct, StartLine
  <2>2. \A u \in Writers : at[u] = "idle"
    BY <2>1, WriterAssumption DEF HolderIsPrinting
  <2>3. PICK size \in 1 .. MaxParts :
          chunk' = [chunk EXCEPT ![t] = [by |-> t, line |-> chunk[t].line + 1,
                                         part |-> 1, size |-> size]]
    BY <1>1 DEF LineConstruct, StartLine
  <2>4. /\ chunk'[t].by = t /\ chunk'[t].line = chunk[t].line + 1
        /\ \A u \in Writers : u # t => chunk'[u] = chunk[u]
        /\ chunk[t].line \in Nat
    BY <1>0, <2>3 DEF Chunk
  <2>5. ASSUME NEW i \in 1 .. Len(cdc)
        PROVE  cdc[i].line <= chunk'[cdc[i].by].line /\ ~SameLine(cdc[i], chunk'[t])
    <3>1. cdc[i].by \in Writers /\ cdc[i].line \in Nat
          /\ cdc[i].line <= chunk[cdc[i].by].line
      BY <1>0 DEF CdcInv, Chunk
    <3> QED
      BY <2>4, <3>1, SMTT(30) DEF SameLine
  <2> QED
    BY <1>0, <1>s, <2>1, <2>2, <2>5 DEF CdcInv
<1>2. ASSUME NEW t \in Writers, EmitCdc(t) PROVE CdcInv'
  <2>1. /\ at[t] = "cdc" /\ at' = [at EXCEPT ![t] = "rtt"] /\ UNCHANGED chunk
        /\ \A u \in Writers : u # t => at'[u] = "idle"
        /\ at'[t] = "rtt"
    BY <1>0, <1>2, <1>h DEF EmitCdc
  <2>2. CASE UNCHANGED cdc
    BY <1>0, <1>s, <2>1, <2>2 DEF CdcInv
  <2>3. CASE cdc' = Append(cdc, chunk[t])
    <3>1. /\ Len(cdc') = Len(cdc) + 1 /\ cdc'[Len(cdc) + 1] = chunk[t]
          /\ \A i \in 1 .. Len(cdc) : cdc'[i] = cdc[i]
          /\ Len(cdc) \in Nat /\ chunk[t] \in Chunk
      BY <1>0, <2>3, AppendChunk
    <3>2. \A i \in 1 .. Len(cdc) : SameLine(cdc[i], chunk[t]) =>
            /\ \A k \in i .. Len(cdc) : SameLine(cdc[k], chunk[t])
            /\ cdc[i].part <= chunk[t].part /\ cdc[i].part # chunk[t].part
      BY <2>1 DEF CdcInv
    <3>3. /\ chunk[t].part \in Nat /\ chunk[t].line \in Nat
          /\ \A i \in 1 .. Len(cdc) : cdc[i].part \in Nat
      BY <1>0, <3>1 DEF Chunk
    <3>4. CdcNeverSplices'
      <4>1. \A i \in 1 .. Len(cdc) : SameLine(cdc[i], chunk[t]) =>
              /\ \A k \in i .. Len(cdc) : SameLine(cdc[k], chunk[t])
              /\ cdc[i].part < chunk[t].part
        BY <3>2, <3>3
      <4> QED
        BY <1>0, <2>3, <3>1, <4>1, CdcAppend DEF CdcInv
    <3>5. \A i \in 1 .. Len(cdc') : cdc'[i].line <= chunk'[cdc'[i].by].line
      <4>1. chunk[t].line <= chunk[chunk[t].by].line
        BY <1>0, <3>3
      <4> QED
        BY <2>1, <3>1, <4>1 DEF CdcInv
    <3>6. ASSUME NEW i \in 1 .. Len(cdc'), SameLine(cdc'[i], chunk[t])
          PROVE  /\ \A k \in i .. Len(cdc') : SameLine(cdc'[k], chunk[t])
                 /\ cdc'[i].part <= chunk[t].part
      <4>1. SameLine(chunk[t], chunk[t])
        BY DEF SameLine
      <4>2. CASE i = Len(cdc) + 1
        BY <3>1, <3>3, <4>1, <4>2
      <4>3. CASE i \in 1 .. Len(cdc)
        BY <3>1, <3>2, <3>6, <4>1, <4>3
      <4> QED
        BY <3>1, <4>2, <4>3
    <3> QED
      BY <2>1, <3>4, <3>5, <3>6 DEF CdcInv
  <2> QED
    BY <1>2, <2>2, <2>3 DEF EmitCdc
<1>3. ASSUME NEW t \in Writers, EmitRtt(t) PROVE CdcInv'
  BY <1>0, <1>3, <1>s DEF EmitRtt, CdcInv
<1>4. ASSUME NEW t \in Writers, EmitUart(t) PROVE CdcInv'
  <2>1. /\ at[t] = "uart" /\ UNCHANGED cdc /\ at'[t] \in {"cdc", "destruct"}
        /\ \A u \in Writers : u # t => at'[u] = "idle" /\ chunk'[u] = chunk[u]
    BY <1>0, <1>4, <1>h DEF EmitUart
  <2>2. /\ chunk'[t].by = chunk[t].by /\ chunk'[t].line = chunk[t].line
        /\ chunk[t].part \in Nat /\ chunk[t].line \in Nat
        /\ chunk'[t].part = (IF at'[t] = "cdc" THEN chunk[t].part + 1 ELSE chunk[t].part)
    <3>1. chunk[t] \in Chunk
      BY <1>0
    <3> QED
      BY <1>0, <1>4, <3>1 DEF EmitUart, Chunk
  <2>3. \A i \in 1 .. Len(cdc) :
          /\ SameLine(cdc[i], chunk'[t]) <=> SameLine(cdc[i], chunk[t])
          /\ cdc[i].part \in Nat /\ cdc[i].by \in Writers
    BY <1>0, <2>2 DEF SameLine, Chunk
  <2>4. \A i \in 1 .. Len(cdc) : SameLine(cdc[i], chunk'[t]) =>
          /\ \A k \in i .. Len(cdc) : SameLine(cdc[k], chunk'[t])
          /\ cdc[i].part <= chunk[t].part
    BY <2>1, <2>2 DEF CdcInv, SameLine
  <2>5. \A i \in 1 .. Len(cdc) : cdc[i].line <= chunk'[cdc[i].by].line
    BY <2>1, <2>2, <2>3 DEF CdcInv
  <2>6. \A i \in 1 .. Len(cdc) : SameLine(cdc[i], chunk'[t]) =>
          /\ cdc[i].part <= chunk'[t].part
          /\ at'[t] = "cdc" => cdc[i].part # chunk'[t].part
    BY <2>2, <2>3, <2>4
  <2> QED
    BY <1>s, <2>1, <2>4, <2>5, <2>6 DEF CdcInv
<1>5. ASSUME NEW t \in Writers, LineDestruct(t) PROVE CdcInv'
  BY <1>0, <1>5, <1>s DEF LineDestruct, CdcInv
<1>6. CASE UsbToggle
  BY <1>6, <1>s DEF UsbToggle, CdcInv
<1>7. CASE UNCHANGED vars
  BY <1>7, <1>s DEF vars, CdcInv
<1> QED
  BY <1>1, <1>2, <1>3, <1>4, <1>5, <1>6, <1>7 DEF Next, PrintStep

\* On the CDC port lines may lose their head or tail, but no two are interleaved,
\* however often a host opens and closes it.
THEOREM PortNeverSplices == Spec => []CdcNeverSplices
<1>1. CASE HasMutex
  <2>1. Init => CdcInv
    BY DEF Init, CdcInv, CdcNeverSplices
  <2>2. CdcInv => CdcNeverSplices
    BY DEF CdcInv
  <2> QED
    BY <1>1, <2>1, <2>2, TypeInit, TypeStep, StreamInit, HolderStep, CdcStep, PTL
    DEF Spec
<1>2. CASE ~HasMutex
  BY <1>2, PTL DEF CdcNeverSplices
<1> QED
  BY <1>1, <1>2

-----------------------------------------------------------------------------
(* The ring.                                                               *)

\* The way round the ring from one slot to another.
Distance(a, b) == IF a <= b THEN b - a ELSE b - a + Size

\* How far an offset lies behind wr.
BehindWr(slot) == Distance(slot, wr)

\* How many bytes ago a slot was written: the slot at wr, a full round ago.
Ago(slot) == IF slot = wr THEN Size ELSE BehindWr(slot)

\* What a slot holds follows from where it is.
BufferInv == \A slot \in Slot : Ago(slot) <= total => buffer[slot] = total + 1 - Ago(slot)

\* Nobody is at a byte from before the stream began, and a ring that has once
\* filled up holds no other.
WrittenInv ==
  /\ \A slot \in {readOff, writeOff, rd, from, upTo} : BehindWr(slot) <= total
  /\ overflow => total >= Size
  /\ \A i \in 1 .. Len(received) : received[i] > 0
  /\ writer = "idle" => wr = writeOff
  /\ writer = "publish" /\ acked = 0 => readOff = rd
  /\ reader = "copy" /\ received = <<>> => from # upTo

\* Until the ring fills up the offsets keep the order in which they move.
OrderInv ==
  ~overflow =>
    /\ BehindWr(writeOff) <= BehindWr(readOff)
    /\ writer # "idle" => BehindWr(readOff) <= BehindWr(rd)
    /\ reader = "copy" => /\ BehindWr(writeOff) <= BehindWr(upTo)
                          /\ BehindWr(upTo) <= BehindWr(from)
                          /\ BehindWr(from) <= BehindWr(readOff)

\* The last byte before an offset.
Before(slot) == total - BehindWr(slot)

\* The read offset and its copy are not past what the host has acknowledged.
ReadInv ==
  ~overflow =>
    /\ Before(readOff) <= acked
    /\ writer # "idle" => Before(rd) <= acked
    /\ reader = "copy" /\ received = <<>> => Before(from) <= acked
    /\ reader = "copy" /\ received # <<>> =>
         /\ received[1] <= acked + 1
         /\ received[Len(received)] = Before(from)
    /\ Consecutive(received)

\* While no acknowledgement came during a write, they are exactly there.
ExactInv ==
  ~overflow /\ ~raced =>
    /\ Before(readOff) = acked
    /\ writer # "idle" => Before(rd) = acked
    /\ reader = "copy" /\ received = <<>> => Before(from) = acked
    /\ reader = "copy" /\ received # <<>> => received[1] = acked + 1

Held == IF total < Size THEN total ELSE Size - 1

\* Without a host, the target alone keeps the ring as full as it can be.
AloneInv ==
  acked = 0 => /\ writer = "idle" => BehindWr(readOff) = Held
               /\ writer # "idle" => BehindWr(rd) = Held

RingInv == RingTypeOK /\ BufferInv /\ WrittenInv /\ OrderInv /\ ReadInv /\ ExactInv /\ AloneInv
-----------------------------------------------------------------------------
LEMMA RingFacts ==
  ASSUME NEW a \in Slot, NEW b \in Slot
  PROVE  /\ NextSlot(a) \in Slot
         /\ Distance(a, b) \in 0 .. Size - 1
         /\ Distance(a, b) = 0 <=> a = b
         /\ Distance(a, NextSlot(b)) =
              IF Distance(a, b) = Size - 1 THEN 0 ELSE Distance(a, b) + 1
         /\ Distance(NextSlot(a), b) =
              IF Distance(a, b) = 0 THEN Size - 1 ELSE Distance(a, b) - 1
         /\ NextSlot(b) = a <=> Distance(a, b) = Size - 1
BY SizeAssumption DEF Slot, NextSlot, Distance

LEMMA RoundTheRing ==
  ASSUME NEW n \in Int
  PROVE  /\ n \in 0 .. Size - 1 => n % Size = n
         /\ n \in -Size .. -1 => n % Size = n + Size
         /\ n \in Size .. 2 * Size - 1 => n % Size = n - Size
<1>1. ASSUME 0 <= n, n < Size PROVE n % Size = n
  BY <1>1, SizeAssumption
<1>2. ASSUME -Size <= n, n < 0 PROVE n % Size = n + Size
  BY <1>2, SizeAssumption
<1>3. ASSUME Size <= n, n < 2 * Size PROVE n % Size = n - Size
  BY <1>3, SizeAssumption
<1> QED
  BY <1>1, <1>2, <1>3, SizeAssumption

LEMMA AppendFacts ==
  ASSUME NEW s \in Seq(Nat), NEW n \in Nat
  PROVE  /\ Append(s, n) \in Seq(Nat) /\ Append(s, n) # <<>>
         /\ Len(Append(s, n)) = Len(s) + 1 /\ Len(s) \in Nat
         /\ Append(s, n)[Len(s) + 1] = n
         /\ \A i \in 1 .. Len(s) : Append(s, n)[i] = s[i]
         /\ s = <<>> <=> Len(s) = 0
OBVIOUS

LEMMA RingInitially == RingInit => RingInv
<1> SUFFICES ASSUME RingInit PROVE RingInv
  OBVIOUS
<1>1. /\ 0 \in Slot /\ BehindWr(0) = 0 /\ wr = 0
      /\ Distance(0, 0) = 0
  BY SizeAssumption DEF RingInit, Slot, BehindWr, Distance
<1>2. RingTypeOK
  BY <1>1 DEF RingInit, RingTypeOK
<1>3. BufferInv
  <2>1. \A slot \in Slot : Ago(slot) > 0
    BY <1>1, SizeAssumption DEF Ago, BehindWr, Distance, Slot
  <2> QED
    BY <2>1, SizeAssumption DEF BufferInv, RingInit, Slot, Ago, BehindWr, Distance
<1>4. WrittenInv
  BY <1>1 DEF RingInit, WrittenInv, BehindWr
<1>5. OrderInv /\ ReadInv /\ ExactInv
  BY <1>1 DEF RingInit, OrderInv, ReadInv, ExactInv, Before, BehindWr, Consecutive
<1>6. AloneInv
  BY <1>1, SizeAssumption DEF RingInit, AloneInv, Held, BehindWr
<1> QED
  BY <1>2, <1>3, <1>4, <1>5, <1>6 DEF RingInv

LEMMA RingTypeStep == RingTypeOK /\ WrittenInv /\ [RingNext]_ringVars => RingTypeOK'
<1> SUFFICES ASSUME RingTypeOK, WrittenInv, [RingNext]_ringVars PROVE RingTypeOK'
  OBVIOUS
<1> USE DEF RingTypeOK, target, host
<1>1. CASE WriteBegin
  BY <1>1, StreamBound DEF WriteBegin
<1>2. CASE WriteByte
  <2>1. NextSlot(wr) \in Slot /\ NextSlot(rd) \in Slot
    BY RingFacts
  <2>2. overflow' \in BOOLEAN
    BY <1>2, Zenon DEF WriteByte
  <2>3. buffer' \in [Slot -> Nat] /\ left' \in Nat /\ total' \in Nat
    BY <1>2 DEF WriteByte
  <2>4. wr' \in Slot /\ rd' \in Slot
    BY <1>2, <2>1 DEF WriteByte
  <2> QED
    BY <1>2, <2>2, <2>3, <2>4 DEF WriteByte
<1>3. CASE PublishRead
  BY <1>3 DEF PublishRead
<1>4. CASE PublishWrite
  BY <1>4 DEF PublishWrite
<1>5. CASE HostPoll
  BY <1>5 DEF HostPoll
<1>6. CASE HostCopyByte
  <2>1. NextSlot(from) \in Slot /\ buffer[from] \in Nat
    BY RingFacts
  <2>2. received' \in Seq(Nat)
    BY <1>6, <2>1, AppendFacts DEF HostCopyByte
  <2> QED
    BY <1>6, <2>1, <2>2 DEF HostCopyByte
<1>7. CASE HostAck
  <2>1. received # <<>>
    BY <1>7 DEF HostAck, WrittenInv
  <2>2. received[Len(received)] \in Nat
    BY <2>1
  <2>3. raced' \in BOOLEAN
    BY <1>7, Zenon DEF HostAck
  <2> QED
    BY <1>7, <2>2, <2>3 DEF HostAck
<1>8. CASE UNCHANGED ringVars
  BY <1>8 DEF ringVars
<1> QED
  BY <1>1, <1>2, <1>3, <1>4, <1>5, <1>6, <1>7, <1>8 DEF RingNext, Write, Host

LEMMA BufferStep == RingTypeOK /\ WrittenInv /\ BufferInv /\ [RingNext]_ringVars => BufferInv'
<1> SUFFICES ASSUME RingTypeOK, WrittenInv, BufferInv, [RingNext]_ringVars,
                    NEW slot \in Slot, Ago(slot)' <= total'
             PROVE  buffer'[slot] = total' + 1 - Ago(slot)'
  BY DEF BufferInv, Slot
<1>0. /\ buffer \in [Slot -> Nat] /\ wr \in Slot /\ total \in Nat
      /\ Ago(slot) <= total => buffer[slot] = total + 1 - Ago(slot)
  BY DEF RingTypeOK, BufferInv
<1> USE DEF target, host
<1>1. CASE WriteByte
  <2>1. /\ wr' = NextSlot(wr) /\ total' = total + 1
        /\ buffer' = [buffer EXCEPT ![wr] = total + 1]
    BY <1>1 DEF WriteByte
  <2>2. CASE slot = wr
    <3>1. Ago(slot)' = 1
      BY <1>0, <2>1, <2>2, RingFacts, SizeAssumption DEF Ago, BehindWr
    <3> QED
      BY <1>0, <2>1, <2>2, <3>1
  <2>3. CASE slot # wr
    <3>1. Ago(slot)' = Ago(slot) + 1 /\ Ago(slot) \in Nat
      BY <1>0, <2>1, <2>3, RingFacts, SizeAssumption DEF Ago, BehindWr
    <3> QED
      BY <1>0, <2>1, <2>3, <3>1
  <2> QED
    BY <2>2, <2>3
<1>2. CASE WriteBegin
  BY <1>0, <1>2 DEF WriteBegin, Ago, BehindWr, WrittenInv
<1>3. CASE PublishRead \/ PublishWrite \/ Host \/ UNCHANGED ringVars
  BY <1>0, <1>3 DEF PublishRead, PublishWrite, Host, HostPoll, HostCopyByte, HostAck,
    ringVars, Ago, BehindWr
<1> QED
  BY <1>1, <1>2, <1>3 DEF RingNext, Write
\* Until the ring fills up the host copies bytes that were written, in order.
LEMMA CopyMovesOn ==
  ASSUME RingTypeOK, BufferInv, WrittenInv, OrderInv, HostCopyByte, ~overflow
  PROVE  /\ BehindWr(from) \in 1 .. Size - 1 /\ BehindWr(from) <= total
         /\ buffer[from] = total + 1 - BehindWr(from) /\ buffer[from] > 0
         /\ Distance(from', wr) = BehindWr(from) - 1
         /\ BehindWr(upTo) < BehindWr(from) /\ BehindWr(upTo) \in 0 .. Size - 1
<1>1. /\ from \in Slot /\ upTo \in Slot /\ wr \in Slot /\ total \in Nat
      /\ buffer \in [Slot -> Nat]
  BY DEF RingTypeOK
<1>2. reader = "copy" /\ from # upTo /\ from' = NextSlot(from)
  BY DEF HostCopyByte
<1>3. /\ BehindWr(from) \in 0 .. Size - 1 /\ (BehindWr(from) = 0 <=> from = wr)
      /\ BehindWr(upTo) \in 0 .. Size - 1 /\ (BehindWr(upTo) = 0 <=> upTo = wr)
      /\ Distance(from', wr) = IF BehindWr(from) = 0 THEN Size - 1 ELSE BehindWr(from) - 1
  BY <1>1, <1>2, RingFacts DEF BehindWr
<1>4. BehindWr(upTo) <= BehindWr(from) /\ BehindWr(from) <= total
  BY <1>2 DEF OrderInv, WrittenInv
<1>5. from # wr /\ BehindWr(from) > 0
  BY <1>2, <1>3, <1>4
<1>6. Ago(from) = BehindWr(from)
  BY <1>5 DEF Ago
<1>7. buffer[from] = total + 1 - BehindWr(from)
  BY <1>1, <1>4, <1>6 DEF BufferInv
<1>8. BehindWr(upTo) # BehindWr(from)
  BY <1>1, <1>2, SizeAssumption DEF BehindWr, Distance, Slot
<1> QED
  BY <1>1, <1>3, <1>4, <1>5, <1>7, <1>8, SizeAssumption

LEMMA WrittenStep ==
  RingTypeOK /\ BufferInv /\ WrittenInv /\ OrderInv /\ ReadInv /\ [RingNext]_ringVars => WrittenInv'
<1> SUFFICES ASSUME RingTypeOK, BufferInv, WrittenInv, OrderInv, ReadInv, [RingNext]_ringVars
             PROVE  WrittenInv'
  OBVIOUS
<1>0. /\ readOff \in Slot /\ writeOff \in Slot /\ rd \in Slot /\ wr \in Slot
      /\ from \in Slot /\ upTo \in Slot /\ total \in Nat
      /\ buffer \in [Slot -> Nat] /\ received \in Seq(Nat) /\ acked \in Nat
      /\ overflow \in BOOLEAN /\ writer \in {"idle", "copy", "publish"}
  BY DEF RingTypeOK
<1> USE DEF target, host
<1>1. CASE WriteBegin
  BY <1>1 DEF WriteBegin, WrittenInv, BehindWr
<1>2. CASE WriteByte
  <2>1. /\ wr' = NextSlot(wr) /\ total' = total + 1 /\ writer = "copy" /\ writer' = "copy"
        /\ UNCHANGED <<readOff, writeOff, from, upTo, reader, received, acked>>
    BY <1>2 DEF WriteByte
  <2>2. ASSUME NEW slot \in Slot, BehindWr(slot) <= total
        PROVE  Distance(slot, wr') <= total'
    <3>1. /\ Distance(slot, wr) \in 0 .. Size - 1
          /\ Distance(slot, wr') =
               IF Distance(slot, wr) = Size - 1 THEN 0 ELSE Distance(slot, wr) + 1
      BY <1>0, <2>1, RingFacts
    <3> QED
      BY <1>0, <2>1, <2>2, <3>1 DEF BehindWr
  <2>3. CASE NextSlot(wr) # rd
    <3>1. rd' = rd /\ overflow' = overflow
      BY <1>2, <2>3 DEF WriteByte
    <3>2. /\ \A slot \in {readOff', writeOff', rd', from', upTo'} :
               Distance(slot, wr') <= total'
          /\ overflow' => total' >= Size
      BY <1>0, <2>1, <2>2, <3>1, SizeAssumption DEF WrittenInv
    <3> QED
      BY <2>1, <3>1, <3>2 DEF WrittenInv, BehindWr
  <2>4. CASE NextSlot(wr) = rd
    <3>1. rd' = NextSlot(rd) /\ BehindWr(rd) = Size - 1 /\ rd' \in Slot
      BY <1>0, <1>2, <2>4, RingFacts DEF WriteByte, BehindWr
    <3>2. total' >= Size
      BY <1>0, <2>1, <3>1, SizeAssumption DEF WrittenInv
    <3>3. Distance(rd', wr') <= total'
      <4>1. Distance(rd', wr') \in 0 .. Size - 1
        BY <1>0, <2>1, <3>1, RingFacts
      <4> QED
        BY <1>0, <2>1, <3>2, <4>1, SizeAssumption
    <3>4. \A slot \in {readOff', writeOff', rd', from', upTo'} :
            Distance(slot, wr') <= total'
      BY <1>0, <2>1, <2>2, <3>3 DEF WrittenInv
    <3> QED
      BY <2>1, <3>2, <3>4 DEF WrittenInv, BehindWr
  <2> QED
    BY <2>3, <2>4
<1>3. CASE PublishRead
  BY <1>3 DEF PublishRead, WrittenInv, BehindWr
<1>4. CASE PublishWrite
  <2>1. Distance(wr, wr) = 0
    BY <1>0, RingFacts
  <2> QED
    BY <1>0, <1>4, <2>1 DEF PublishWrite, WrittenInv, BehindWr
<1>5. CASE HostPoll
  BY <1>0, <1>5 DEF HostPoll, WrittenInv, BehindWr
<1>6. CASE HostCopyByte
  <2>1. /\ from' = NextSlot(from) /\ received' = Append(received, buffer[from])
        /\ from # upTo /\ reader = "copy"
        /\ UNCHANGED <<readOff, writeOff, rd, wr, upTo, total, overflow, writer, acked>>
    BY <1>6 DEF HostCopyByte
  <2>2. buffer[from] > 0 /\ Distance(from', wr) <= total
    <3>0. /\ BehindWr(from) \in 0 .. Size - 1 /\ (BehindWr(from) = 0 <=> from = wr)
          /\ Distance(from', wr) = IF BehindWr(from) = 0 THEN Size - 1 ELSE BehindWr(from) - 1
      BY <1>0, <2>1, RingFacts DEF BehindWr
    <3>1. CASE overflow
      <4>1. total >= Size /\ Ago(from) \in 1 .. Size /\ Distance(from', wr) \in 0 .. Size - 1
        BY <3>0, <3>1, SizeAssumption DEF WrittenInv, Ago
      <4>2. Ago(from) <= total /\ Distance(from', wr) <= total
        BY <1>0, <4>1, SizeAssumption
      <4>3. buffer[from] = total + 1 - Ago(from)
        BY <1>0, <4>2 DEF BufferInv
      <4> QED
        BY <1>0, <4>1, <4>2, <4>3, SizeAssumption
    <3>2. CASE ~overflow
      BY <1>0, <1>6, <3>2, CopyMovesOn
    <3> QED
      BY <1>0, <3>1, <3>2
  <2>3. /\ \A i \in 1 .. Len(received') : received'[i] > 0
        /\ received' # <<>>
    <3>1. buffer[from] \in Nat
      BY <1>0
    <3> QED
      BY <1>0, <2>1, <2>2, <3>1, AppendFacts DEF WrittenInv
  <2> QED
    BY <2>1, <2>2, <2>3 DEF WrittenInv, BehindWr
<1>7. CASE HostAck
  <2>1. received # <<>> /\ acked' = received[Len(received)]
    BY <1>7 DEF HostAck, WrittenInv
  <2>2. acked' > 0
    <3>1. Len(received) \in 1 .. Len(received)
      BY <1>0, <2>1
    <3> QED
      BY <2>1, <3>1 DEF WrittenInv
  <2> QED
    BY <1>0, <1>7, <2>2 DEF HostAck, WrittenInv, BehindWr
<1>8. CASE UNCHANGED ringVars
  BY <1>8 DEF ringVars, WrittenInv, BehindWr
<1> QED
  BY <1>1, <1>2, <1>3, <1>4, <1>5, <1>6, <1>7, <1>8 DEF RingNext, Write, Host

\* A write into a ring that does not fill up moves wr away from every offset.
LEMMA WriteMovesOn ==
  ASSUME RingTypeOK, WriteByte, ~overflow'
  PROVE  /\ ~overflow /\ rd' = rd /\ BehindWr(rd)' = BehindWr(rd) + 1 /\ total' = total + 1
         /\ \A slot \in Slot : /\ BehindWr(slot) \in 0 .. Size - 1
                               /\ BehindWr(slot) <= BehindWr(rd)
                                    => Distance(slot, wr') = BehindWr(slot) + 1
<1>0. rd \in Slot /\ wr \in Slot /\ total \in Nat
  BY DEF RingTypeOK
<1>1. /\ NextSlot(wr) # rd /\ rd' = rd /\ ~overflow
      /\ wr' = NextSlot(wr) /\ total' = total + 1
  BY DEF WriteByte
<1>2. BehindWr(rd) # Size - 1 /\ BehindWr(rd) \in 0 .. Size - 1
  BY <1>0, <1>1, RingFacts DEF BehindWr
<1>3. ASSUME NEW slot \in Slot
      PROVE  /\ BehindWr(slot) \in 0 .. Size - 1
             /\ BehindWr(slot) <= BehindWr(rd) => Distance(slot, wr') = BehindWr(slot) + 1
  <2>1. /\ Distance(slot, wr) \in 0 .. Size - 1
        /\ Distance(slot, wr') =
             IF Distance(slot, wr) = Size - 1 THEN 0 ELSE Distance(slot, wr) + 1
    BY <1>0, <1>1, RingFacts
  <2> QED
    BY <1>2, <2>1, SizeAssumption DEF BehindWr
<1>4. BehindWr(rd)' = BehindWr(rd) + 1
  BY <1>0, <1>1, <1>2, <1>3 DEF BehindWr
<1> QED
  BY <1>1, <1>3, <1>4

LEMMA OffsetTypes ==
  ASSUME RingTypeOK
  PROVE  /\ readOff \in Slot /\ writeOff \in Slot /\ rd \in Slot /\ wr \in Slot
         /\ from \in Slot /\ upTo \in Slot /\ total \in Nat /\ acked \in Nat
         /\ received \in Seq(Nat)
         /\ BehindWr(readOff) \in Nat /\ BehindWr(writeOff) \in Nat /\ BehindWr(rd) \in Nat
         /\ BehindWr(from) \in Nat /\ BehindWr(upTo) \in Nat
<1>1. /\ readOff \in Slot /\ writeOff \in Slot /\ rd \in Slot /\ wr \in Slot
      /\ from \in Slot /\ upTo \in Slot /\ total \in Nat /\ acked \in Nat
      /\ received \in Seq(Nat)
  BY DEF RingTypeOK
<1>2. ASSUME NEW slot \in Slot PROVE BehindWr(slot) \in Nat
  <2>1. Distance(slot, wr) \in 0 .. Size - 1
    BY <1>1, RingFacts
  <2> QED
    BY <2>1 DEF BehindWr
<1> QED
  BY <1>1, <1>2

LEMMA OrderStep ==
  RingTypeOK /\ BufferInv /\ WrittenInv /\ OrderInv /\ [RingNext]_ringVars => OrderInv'
<1> SUFFICES ASSUME RingTypeOK, BufferInv, WrittenInv, OrderInv, [RingNext]_ringVars, ~overflow'
             PROVE  OrderInv'
  BY DEF OrderInv
<1>0. /\ readOff \in Slot /\ writeOff \in Slot /\ rd \in Slot /\ wr \in Slot
      /\ from \in Slot /\ upTo \in Slot /\ total \in Nat
      /\ BehindWr(readOff) \in Nat /\ BehindWr(writeOff) \in Nat /\ BehindWr(rd) \in Nat
      /\ BehindWr(from) \in Nat /\ BehindWr(upTo) \in Nat
  BY OffsetTypes
<1> USE DEF target, host
<1>1. CASE WriteBegin
  <2>1. /\ wr' = wr /\ writer = "idle" /\ rd' = readOff /\ ~overflow
        /\ UNCHANGED <<readOff, writeOff, from, upTo, reader>>
    BY <1>1 DEF WriteBegin, WrittenInv
  <2> QED
    BY <1>0, <2>1 DEF OrderInv, BehindWr
<1>2. CASE WriteByte
  <2>1. /\ writer = "copy" /\ writer' = "copy"
        /\ UNCHANGED <<readOff, writeOff, from, upTo, reader>>
    BY <1>2 DEF WriteByte
  <2>2. /\ ~overflow /\ BehindWr(rd)' = BehindWr(rd) + 1
        /\ \A slot \in Slot : BehindWr(slot) <= BehindWr(rd)
                                => Distance(slot, wr') = BehindWr(slot) + 1
    BY <1>2, WriteMovesOn
  <2>3. /\ BehindWr(readOff)' = BehindWr(readOff) + 1 /\ BehindWr(writeOff)' = BehindWr(writeOff) + 1
        /\ reader = "copy" => /\ BehindWr(from)' = BehindWr(from) + 1
                              /\ BehindWr(upTo)' = BehindWr(upTo) + 1
    BY <1>0, <2>1, <2>2 DEF OrderInv, BehindWr
  <2> QED
    BY <1>0, <2>1, <2>2, <2>3 DEF OrderInv
<1>3. CASE PublishRead
  <2>1. /\ readOff' = rd /\ writer = "copy"
        /\ UNCHANGED <<wr, rd, writeOff, from, upTo, reader, overflow>>
    BY <1>3 DEF PublishRead
  <2> QED
    BY <1>0, <2>1 DEF OrderInv, BehindWr
<1>4. CASE PublishWrite
  <2>1. /\ writeOff' = wr /\ writer' = "idle"
        /\ UNCHANGED <<wr, rd, readOff, from, upTo, reader, overflow>>
    BY <1>4 DEF PublishWrite
  <2>2. BehindWr(writeOff)' = 0
    BY <1>0, <2>1, RingFacts DEF BehindWr
  <2> QED
    BY <1>0, <2>1, <2>2 DEF OrderInv, BehindWr
<1>5. CASE HostPoll
  BY <1>0, <1>5 DEF HostPoll, OrderInv, BehindWr
<1>6. CASE HostCopyByte
  <2>1. UNCHANGED <<wr, rd, readOff, writeOff, upTo, reader, writer, overflow>>
    BY <1>6 DEF HostCopyByte
  <2>2. BehindWr(from)' = BehindWr(from) - 1 /\ BehindWr(upTo) < BehindWr(from)
    BY <1>6, <2>1, CopyMovesOn DEF BehindWr
  <2> QED
    BY <1>0, <2>1, <2>2 DEF OrderInv, BehindWr
<1>7. CASE HostAck
  <2>1. /\ readOff' = upTo /\ reader = "copy" /\ reader' = "idle"
        /\ UNCHANGED <<wr, rd, writeOff, upTo, writer, overflow>>
    BY <1>7 DEF HostAck
  <2> QED
    BY <1>0, <2>1 DEF OrderInv, BehindWr
<1>8. CASE UNCHANGED ringVars
  BY <1>8 DEF ringVars, OrderInv, BehindWr
<1> QED
  BY <1>1, <1>2, <1>3, <1>4, <1>5, <1>6, <1>7, <1>8 DEF RingNext, Write, Host

LEMMA ReadStep ==
  RingTypeOK /\ BufferInv /\ WrittenInv /\ OrderInv /\ ReadInv /\ [RingNext]_ringVars => ReadInv'
<1> SUFFICES ASSUME RingTypeOK, BufferInv, WrittenInv, OrderInv, ReadInv, [RingNext]_ringVars, ~overflow'
             PROVE  ReadInv'
  BY DEF ReadInv
<1>0. /\ readOff \in Slot /\ writeOff \in Slot /\ rd \in Slot /\ wr \in Slot
      /\ from \in Slot /\ upTo \in Slot /\ total \in Nat /\ acked \in Nat
      /\ received \in Seq(Nat)
      /\ BehindWr(readOff) \in Nat /\ BehindWr(writeOff) \in Nat /\ BehindWr(rd) \in Nat
      /\ BehindWr(from) \in Nat /\ BehindWr(upTo) \in Nat
  BY OffsetTypes
<1> USE DEF target, host
<1>1. CASE WriteBegin
  <2>1. /\ wr' = wr /\ rd' = readOff /\ ~overflow
        /\ UNCHANGED <<readOff, from, reader, total, acked, received>>
    BY <1>1 DEF WriteBegin, WrittenInv
  <2> QED
    BY <1>0, <2>1 DEF ReadInv, Before, BehindWr
<1>2. CASE WriteByte
  <2>1. /\ writer = "copy" /\ writer' = "copy"
        /\ UNCHANGED <<readOff, from, upTo, reader, acked, received>>
    BY <1>2 DEF WriteByte
  <2>2. /\ ~overflow /\ BehindWr(rd)' = BehindWr(rd) + 1 /\ total' = total + 1
        /\ \A slot \in Slot : BehindWr(slot) <= BehindWr(rd)
                                => Distance(slot, wr') = BehindWr(slot) + 1
    BY <1>2, WriteMovesOn
  <2>3. /\ BehindWr(readOff)' = BehindWr(readOff) + 1
        /\ reader = "copy" => BehindWr(from)' = BehindWr(from) + 1
    BY <1>0, <2>1, <2>2 DEF OrderInv, BehindWr
  <2>4. /\ Before(rd)' = Before(rd) /\ Before(readOff)' = Before(readOff)
        /\ reader = "copy" => Before(from)' = Before(from)
    BY <1>0, <2>2, <2>3, SMTT(30) DEF Before
  <2> QED
    BY <2>1, <2>2, <2>4 DEF ReadInv
<1>3. CASE PublishRead
  <2>1. /\ readOff' = rd /\ writer = "copy"
        /\ UNCHANGED <<wr, rd, from, reader, total, acked, received, overflow>>
    BY <1>3 DEF PublishRead
  <2> QED
    BY <2>1 DEF ReadInv, Before, BehindWr
<1>4. CASE PublishWrite
  <2>1. /\ writer' = "idle"
        /\ UNCHANGED <<wr, rd, readOff, from, reader, total, acked, received, overflow>>
    BY <1>4 DEF PublishWrite
  <2> QED
    BY <2>1 DEF ReadInv, Before, BehindWr
<1>5. CASE HostPoll
  <2>1. /\ from' = readOff /\ received' = <<>> /\ Len(received') = 0
        /\ UNCHANGED <<wr, rd, readOff, writer, total, acked, overflow>>
    BY <1>5 DEF HostPoll
  <2>2. Consecutive(received')
    BY <2>1 DEF Consecutive
  <2> QED
    BY <2>1, <2>2 DEF ReadInv, Before, BehindWr
<1>6. CASE HostCopyByte
  <2>1. /\ received' = Append(received, buffer[from]) /\ reader = "copy"
        /\ UNCHANGED <<wr, rd, readOff, writer, total, acked, reader, overflow>>
    BY <1>6 DEF HostCopyByte
  <2>2. /\ BehindWr(from)' = BehindWr(from) - 1 /\ buffer[from] = total + 1 - BehindWr(from)
        /\ buffer[from] \in Nat
    BY <1>0, <1>6, <2>1, CopyMovesOn DEF BehindWr, RingTypeOK
  <2>3. buffer[from] = Before(from) + 1 /\ Before(from)' = Before(from) + 1
    BY <1>0, <2>1, <2>2 DEF Before
  <2>4. /\ received' # <<>> /\ Len(received') = Len(received) + 1 /\ Len(received) \in Nat
        /\ received'[Len(received')] = buffer[from]
        /\ \A i \in 1 .. Len(received) : received'[i] = received[i]
        /\ received = <<>> <=> Len(received) = 0
    BY <1>0, <2>1, <2>2, AppendFacts
  <2>5. received'[1] <= acked + 1
    BY <1>0, <2>1, <2>2, <2>3, <2>4, SMTT(30) DEF ReadInv, Before
  <2>6. Consecutive(received')
    <3>1. SUFFICES ASSUME NEW i \in 1 .. Len(received') - 1
                   PROVE  received'[i + 1] = received'[i] + 1
      BY DEF Consecutive
    <3>2. CASE i = Len(received)
      <4>1. received # <<>> /\ received[Len(received)] = Before(from)
        BY <2>1, <2>4, <3>2 DEF ReadInv
      <4> QED
        BY <2>3, <2>4, <3>2, <4>1
    <3>3. CASE i < Len(received)
      <4>1. received[i + 1] = received[i] + 1
        BY <2>1, <2>4, <3>3 DEF ReadInv, Consecutive
      <4> QED
        BY <2>4, <3>3, <4>1
    <3> QED
      BY <2>4, <3>2, <3>3
  <2> QED
    BY <2>1, <2>3, <2>4, <2>5, <2>6 DEF ReadInv, Before, BehindWr
<1>7. CASE HostAck
  <2>1. /\ readOff' = upTo /\ from = upTo /\ reader = "copy" /\ reader' = "idle"
        /\ received # <<>> /\ acked' = received[Len(received)]
        /\ UNCHANGED <<wr, rd, total, writer, received, overflow>>
    BY <1>7 DEF HostAck, WrittenInv
  <2>2. acked' = Before(upTo) /\ Before(readOff)' = Before(upTo)
    BY <2>1 DEF ReadInv, Before, BehindWr
  <2>3. writer # "idle" => Before(rd)' <= acked'
    BY <1>0, <2>1, <2>2 DEF OrderInv, Before, BehindWr
  <2>4. Before(readOff)' <= acked' /\ Consecutive(received)
    BY <1>0, <2>1, <2>2 DEF ReadInv, Before
  <2> QED
    BY <2>1, <2>2, <2>3, <2>4 DEF ReadInv
<1>8. CASE UNCHANGED ringVars
  BY <1>8 DEF ringVars, ReadInv, Before, BehindWr
<1> QED
  BY <1>1, <1>2, <1>3, <1>4, <1>5, <1>6, <1>7, <1>8 DEF RingNext, Write, Host
LEMMA ExactStep ==
  /\ RingTypeOK /\ BufferInv /\ WrittenInv /\ OrderInv /\ ReadInv /\ ExactInv /\ [RingNext]_ringVars
  => ExactInv'
<1> SUFFICES ASSUME RingTypeOK, BufferInv, WrittenInv, OrderInv, ReadInv, ExactInv,
                    [RingNext]_ringVars, ~overflow', ~raced'
             PROVE  ExactInv'
  BY DEF ExactInv
<1>0. /\ readOff \in Slot /\ rd \in Slot /\ wr \in Slot
      /\ from \in Slot /\ upTo \in Slot /\ total \in Nat /\ acked \in Nat
      /\ received \in Seq(Nat)
      /\ BehindWr(readOff) \in Nat /\ BehindWr(rd) \in Nat /\ BehindWr(from) \in Nat
  BY OffsetTypes
<1> USE DEF target, host
<1>1. CASE WriteBegin
  <2>1. /\ wr' = wr /\ rd' = readOff /\ ~overflow /\ ~raced
        /\ UNCHANGED <<readOff, from, reader, total, acked, received>>
    BY <1>1 DEF WriteBegin, WrittenInv
  <2> QED
    BY <2>1 DEF ExactInv, Before, BehindWr
<1>2. CASE WriteByte
  <2>1. /\ writer = "copy" /\ writer' = "copy" /\ ~raced
        /\ UNCHANGED <<readOff, from, upTo, reader, acked, received>>
    BY <1>2 DEF WriteByte
  <2>2. /\ ~overflow /\ BehindWr(rd)' = BehindWr(rd) + 1 /\ total' = total + 1
        /\ \A slot \in Slot : BehindWr(slot) <= BehindWr(rd)
                                => Distance(slot, wr') = BehindWr(slot) + 1
    BY <1>2, WriteMovesOn
  <2>3. /\ BehindWr(readOff)' = BehindWr(readOff) + 1
        /\ reader = "copy" => BehindWr(from)' = BehindWr(from) + 1
    BY <1>0, <2>1, <2>2 DEF OrderInv, BehindWr
  <2>4. Before(rd)' = Before(rd) /\ Before(readOff)' = Before(readOff)
    BY <1>0, <2>2, <2>3 DEF Before
  <2>5. reader = "copy" => Before(from)' = Before(from)
    BY <1>0, <2>2, <2>3 DEF Before
  <2> QED
    BY <2>1, <2>2, <2>4, <2>5 DEF ExactInv
<1>3. CASE PublishRead
  <2>1. /\ readOff' = rd /\ writer = "copy"
        /\ UNCHANGED <<wr, rd, from, reader, total, acked, received, overflow, raced>>
    BY <1>3 DEF PublishRead
  <2> QED
    BY <2>1 DEF ExactInv, Before, BehindWr
<1>4. CASE PublishWrite
  <2>1. /\ writer' = "idle"
        /\ UNCHANGED <<wr, rd, readOff, from, reader, total, acked, received, overflow, raced>>
    BY <1>4 DEF PublishWrite
  <2> QED
    BY <2>1 DEF ExactInv, Before, BehindWr
<1>5. CASE HostPoll
  <2>1. /\ from' = readOff /\ received' = <<>>
        /\ UNCHANGED <<wr, rd, readOff, writer, total, acked, overflow, raced>>
    BY <1>5 DEF HostPoll
  <2> QED
    BY <2>1 DEF ExactInv, Before, BehindWr
<1>6. CASE HostCopyByte
  <2>1. /\ received' = Append(received, buffer[from]) /\ reader = "copy"
        /\ UNCHANGED <<wr, rd, readOff, writer, total, acked, reader, overflow, raced>>
    BY <1>6 DEF HostCopyByte
  <2>2. buffer[from] = total + 1 - BehindWr(from) /\ buffer[from] \in Nat
    BY <1>0, <1>6, <2>1, CopyMovesOn DEF RingTypeOK
  <2>3. buffer[from] = Before(from) + 1
    BY <1>0, <2>2 DEF Before
  <2>4. /\ received' # <<>> /\ Len(received) \in Nat
        /\ received'[Len(received) + 1] = buffer[from]
        /\ \A i \in 1 .. Len(received) : received'[i] = received[i]
        /\ received = <<>> <=> Len(received) = 0
    BY <1>0, <2>1, <2>2, AppendFacts
  <2>5. received'[1] = acked + 1
    BY <2>1, <2>3, <2>4 DEF ExactInv
  <2> QED
    BY <2>1, <2>4, <2>5 DEF ExactInv, Before, BehindWr
<1>7. CASE HostAck
  <2>1. /\ readOff' = upTo /\ from = upTo /\ reader = "copy" /\ reader' = "idle"
        /\ received # <<>> /\ acked' = received[Len(received)]
        /\ UNCHANGED <<wr, total, writer, overflow>>
    BY <1>7 DEF HostAck, WrittenInv
  <2>2. writer = "idle"
    BY <1>7 DEF HostAck
  <2>3. acked' = Before(upTo) /\ Before(readOff)' = Before(upTo)
    BY <2>1 DEF ReadInv, Before, BehindWr
  <2> QED
    BY <2>1, <2>2, <2>3 DEF ExactInv
<1>8. CASE UNCHANGED ringVars
  BY <1>8 DEF ringVars, ExactInv, Before, BehindWr
<1> QED
  BY <1>1, <1>2, <1>3, <1>4, <1>5, <1>6, <1>7, <1>8 DEF RingNext, Write, Host

LEMMA AloneStep == RingTypeOK /\ WrittenInv /\ AloneInv /\ [RingNext]_ringVars => AloneInv'
<1> SUFFICES ASSUME RingTypeOK, WrittenInv, AloneInv, [RingNext]_ringVars, acked' = 0
             PROVE  AloneInv'
  BY DEF AloneInv
<1>0. /\ readOff \in Slot /\ rd \in Slot /\ wr \in Slot /\ total \in Nat /\ acked \in Nat
      /\ received \in Seq(Nat)
  BY OffsetTypes
<1> USE DEF target, host
<1>1. CASE WriteBegin
  <2>1. /\ wr' = wr /\ rd' = readOff /\ writer = "idle"
        /\ UNCHANGED <<readOff, total, acked>>
    BY <1>1 DEF WriteBegin, WrittenInv
  <2>2. writer' # "idle"
    BY <1>1 DEF WriteBegin
  <2> QED
    BY <2>1, <2>2 DEF AloneInv, Held, BehindWr
<1>2. CASE WriteByte
  <2>1. /\ writer = "copy" /\ writer' = "copy" /\ acked = 0
        /\ wr' = NextSlot(wr) /\ total' = total + 1
    BY <1>2 DEF WriteByte
  <2>2. BehindWr(rd) = Held /\ BehindWr(rd) \in 0 .. Size - 1 /\ BehindWr(rd) <= total
    BY <1>0, <2>1, RingFacts DEF AloneInv, WrittenInv, BehindWr
  <2>3. CASE NextSlot(wr) = rd
    <3>1. /\ rd' = NextSlot(rd) /\ BehindWr(rd) = Size - 1
          /\ rd' = NextSlot(wr')
      BY <1>0, <1>2, <2>1, <2>3, RingFacts DEF WriteByte, BehindWr
    <3>2. wr' \in Slot /\ rd' \in Slot
      BY <1>0, <2>1, <3>1, RingFacts
    <3>3. Distance(rd', wr') = Size - 1
      BY <3>1, <3>2, RingFacts
    <3>4. Held' = Size - 1
      BY <1>0, <2>1, <2>2, <3>1, SizeAssumption DEF Held
    <3> QED
      BY <2>1, <3>3, <3>4 DEF AloneInv, BehindWr
  <2>4. CASE NextSlot(wr) # rd
    <3>1. rd' = rd /\ BehindWr(rd) # Size - 1
      BY <1>0, <1>2, <2>4, RingFacts DEF WriteByte, BehindWr
    <3>2. Distance(rd, wr') = BehindWr(rd) + 1
      BY <1>0, <2>1, <3>1, RingFacts DEF BehindWr
    <3>3. Held' = Held + 1
      BY <1>0, <2>1, <2>2, <3>1, SizeAssumption DEF Held
    <3> QED
      BY <2>1, <2>2, <3>1, <3>2, <3>3 DEF AloneInv, BehindWr
  <2> QED
    BY <2>3, <2>4
<1>3. CASE PublishRead
  BY <1>3 DEF PublishRead, AloneInv, Held, BehindWr
<1>4. CASE PublishWrite
  <2>1. /\ readOff = rd /\ BehindWr(rd) = Held
        /\ writer' = "idle" /\ UNCHANGED <<wr, rd, readOff, total, acked>>
    BY <1>4 DEF PublishWrite, WrittenInv, AloneInv
  <2> QED
    BY <2>1 DEF AloneInv, Held, BehindWr
<1>5. CASE HostPoll \/ HostCopyByte
  BY <1>5 DEF HostPoll, HostCopyByte, AloneInv, Held, BehindWr
<1>6. CASE HostAck
  <2>1. received # <<>> /\ acked' = received[Len(received)]
    BY <1>6 DEF HostAck, WrittenInv
  <2>2. Len(received) \in 1 .. Len(received)
    BY <1>0, <2>1
  <2>3. acked' > 0
    BY <2>1, <2>2 DEF WrittenInv
  <2> QED
    BY <2>3
<1>7. CASE UNCHANGED ringVars
  BY <1>7 DEF ringVars, AloneInv, Held, BehindWr
<1> QED
  BY <1>1, <1>2, <1>3, <1>4, <1>5, <1>6, <1>7 DEF RingNext, Write, Host

LEMMA RingInductive == RingSpec => []RingInv
<1>1. RingInv /\ [RingNext]_ringVars => RingInv'
  BY RingTypeStep, BufferStep, WrittenStep, OrderStep, ReadStep, ExactStep, AloneStep DEF RingInv
<1> QED
  BY <1>1, RingInitially, PTL DEF RingSpec

-----------------------------------------------------------------------------
\* Type correctness, for every ring and stream.
THEOREM RingTypeCorrect == RingSpec => []RingTypeOK
<1>1. RingInv => RingTypeOK
  BY DEF RingInv
<1> QED
  BY <1>1, RingInductive, PTL

\* While the ring does not fill up, every poll is a piece of the stream.
THEOREM PollsAreIntact == RingSpec => []PollIsIntact
<1>1. RingInv => PollIsIntact
  BY DEF RingInv, ReadInv, PollIsIntact
<1> QED
  BY <1>1, RingInductive, PTL

\* A host that keeps up misses no byte.
THEOREM NothingIsMissed == RingSpec => []NothingMissed
<1>1. RingInv => NothingMissed
  BY DEF RingInv, ReadInv, NothingMissed
<1> QED
  BY <1>1, RingInductive, PTL

\* Such a host gets a byte twice only when it acknowledged during a write.
THEOREM RepeatsNeedARace == RingSpec => []RepeatsOnlyAfterRace
<1>1. RingInv => RepeatsOnlyAfterRace
  BY DEF RingInv, ExactInv, RepeatsOnlyAfterRace
<1> QED
  BY <1>1, RingInductive, PTL
\* Between two writes a dump of the RAM ends with the last byte written and goes
\* back without a gap, as far as the ring is deep when nobody has read.
THEOREM DumpsHoldTheLatest == RingSpec => []DumpIsLatest
<1>1. RingInv => DumpIsLatest
  <2> SUFFICES ASSUME RingInv, writer = "idle"
               PROVE  /\ \A i \in 1 .. Len(Window) : Window[i] = total - Len(Window) + i
                      /\ acked = 0 => Len(Window) = Held
    BY DEF DumpIsLatest, Held
  <2>0. /\ readOff \in Slot /\ writeOff \in Slot /\ wr \in Slot /\ total \in Nat
        /\ BehindWr(readOff) \in 0 .. Size - 1 /\ BehindWr(readOff) <= total
        /\ writeOff = wr
    <3>1. /\ readOff \in Slot /\ writeOff \in Slot /\ wr \in Slot /\ total \in Nat
      BY OffsetTypes DEF RingInv
    <3> QED
      BY <3>1, RingFacts DEF RingInv, WrittenInv, BehindWr
  <2> DEFINE depth == (writeOff - readOff) % Size
  <2>1. depth = BehindWr(readOff)
    BY <2>0, RoundTheRing, SizeAssumption DEF Slot, BehindWr, Distance
  <2>2. /\ Len(Window) = depth
        /\ \A i \in 1 .. depth : Window[i] = buffer[(readOff + i - 1) % Size]
    <3>1. depth \in Nat
      BY <2>0, <2>1
    <3>2. Window = [i \in 1 .. depth |-> buffer[(readOff + i - 1) % Size]]
      BY DEF Window
    <3> HIDE DEF depth
    <3> QED
      BY <3>1, <3>2
  <2>3. ASSUME NEW i \in 1 .. BehindWr(readOff)
        PROVE  buffer[(readOff + i - 1) % Size] = total - BehindWr(readOff) + i
    <3> DEFINE slot == (readOff + i - 1) % Size
    <3>1. slot = IF readOff + i - 1 < Size THEN readOff + i - 1 ELSE readOff + i - 1 - Size
      BY <2>0, <2>3, RoundTheRing, SizeAssumption DEF Slot
    <3>2. slot \in Slot /\ slot # wr /\ Ago(slot) = BehindWr(readOff) - i + 1
      BY <2>0, <2>3, <3>1, SizeAssumption DEF Slot, Ago, BehindWr, Distance
    <3> HIDE DEF slot
    <3>3. Ago(slot) <= total
      BY <2>0, <2>3, <3>2
    <3>4. buffer[slot] = total + 1 - Ago(slot)
      BY <3>2, <3>3 DEF RingInv, BufferInv
    <3>5. buffer[slot] = total - BehindWr(readOff) + i
      BY <2>0, <2>3, <3>2, <3>4
    <3> QED
      BY <3>5 DEF slot
  <2>4. acked = 0 => depth = Held
    BY <2>1 DEF RingInv, AloneInv
  <2> HIDE DEF depth
  <2> QED
    BY <2>1, <2>2, <2>3, <2>4
<1> QED
  BY <1>1, RingInductive, PTL

-----------------------------------------------------------------------------
(* OffsetPersist: the offset. *)

USE OffsetAssumption, TimeAssumption, PriorAssumption

LEMMA Zeroes == NoSample \in Sample /\ 0 \in Offsets /\ StaticSeed \in Offsets
BY DEF NoSample, Sample, Offsets

\* A sample that ages keeps its offset.
LEMMA Aged ==
  ASSUME NEW s \in Sample, s.age < MaxAge
  PROVE  /\ [s EXCEPT !.age = @ + 1] \in Sample
         /\ [s EXCEPT !.age = @ + 1].offset = s.offset
BY DEF Sample

\* Only a whole record is loaded: what is valid in the sector is that record.
RecordInv == flash.state = "valid" => flash.value = record

LEMMA SeedFromRecord ==
  OffsetTypeOK /\ RecordInv => SeedAtBoot \in {StaticSeed, record} \cap -Limit .. Limit
<1> SUFFICES ASSUME OffsetTypeOK, RecordInv
             PROVE  SeedAtBoot \in {StaticSeed, record} \cap -Limit .. Limit
  OBVIOUS
<1>1. CASE Load = NoOffset
  BY <1>1 DEF SeedAtBoot
<1>2. CASE Load # NoOffset
  <2>1. /\ SeedAtBoot = flash.value /\ flash.state = "valid"
        /\ Abs(flash.value) <= Limit
    BY <1>2 DEF SeedAtBoot, Load, Validate
  <2>2. flash.value = record /\ record \in Int
    BY <2>1 DEF RecordInv, OffsetTypeOK, Offsets
  <2> QED
    BY <2>1, <2>2 DEF Abs
<1> QED
  BY <1>1, <1>2

-----------------------------------------------------------------------------
(* Types, and the record. *)

StoredTypeInv == OffsetTypeOK /\ RecordInv

LEMMA StoredTypeInit == OffsetInit => StoredTypeInv
<1> SUFFICES ASSUME OffsetInit PROVE StoredTypeInv
  OBVIOUS
<1>1. flash \in {Blank} \cup {Stored(value) : value \in Offsets}
  BY DEF OffsetInit, Offsets
<1>2. record \in Offsets /\ RecordInv
  <2>1. flash.state = "valid" => flash.value \in Offsets
    BY <1>1 DEF Blank, Stored
  <2> QED
    BY <2>1, Zeroes DEF OffsetInit, RecordInv
<1>3. since \in 0 .. LongAgo /\ rest \in 0 .. LongAgo
  BY DEF OffsetInit, LongAgo
<1> QED
  BY <1>1, <1>2, <1>3, Zeroes DEF OffsetInit, StoredTypeInv, OffsetTypeOK

LEMMA StoredTypeStep == StoredTypeInv /\ [OffsetNext]_offsetVars => StoredTypeInv'
<1> SUFFICES ASSUME StoredTypeInv, [OffsetNext]_offsetVars PROVE StoredTypeInv'
  OBVIOUS
<1>0. SeedAtBoot \in Offsets
  <2>1. SeedAtBoot \in -Limit .. Limit
    BY SeedFromRecord DEF StoredTypeInv
  <2> QED
    BY <2>1 DEF Offsets
<1> USE DEF StoredTypeInv, OffsetTypeOK, RecordInv
<1>1. CASE Boot
  <2>1. offset' \in Offsets
    BY <1>0, <1>1 DEF Boot
  <2>2. held' \in Sample /\ lastOffset' \in Offsets /\ written' \in BOOLEAN
    BY <1>1, Zeroes DEF Boot, FreshPolicy
  <2>3. since' \in 0 .. LongAgo /\ rest' \in 0 .. LongAgo
    BY <1>1 DEF Boot, FreshPolicy, LongAgo
  <2>4. UNCHANGED <<flash, record>>
    BY <1>1 DEF Boot, flashVars
  <2> QED
    BY <1>1, <2>1, <2>2, <2>3, <2>4 DEF Boot
<1>2. CASE PowerLoss
  BY <1>2 DEF PowerLoss, filterVars, persistVars, policyVars, flashVars
<1>3. CASE Tick
  <2>1. held' \in Sample
    BY <1>3, Aged DEF Tick
  <2>2. since' \in 0 .. LongAgo /\ rest' \in 0 .. LongAgo
    BY <1>3 DEF Tick, LongAgo
  <2> QED
    BY <1>3, <2>1, <2>2 DEF Tick, filterVars, flashVars
<1>4. CASE FilterPredict
  BY <1>4 DEF FilterPredict, Nudge, persistVars, policyVars, flashVars
<1>5. CASE FilterFirstFix
  <2>1. offset' \in Offsets
    BY <1>5 DEF FilterFirstFix, Offsets
  <2> QED
    BY <1>5, <2>1 DEF FilterFirstFix, persistVars, policyVars, flashVars
<1>6. CASE FusionPrint
  <2>1. [offset |-> offset, low |-> low, age |-> 0] \in Sample
    BY DEF Sample
  <2> QED
    BY <1>6, <2>1 DEF FusionPrint, filterVars, persistVars, policyVars, flashVars
<1>7. CASE PersistReceive
  <2>1. Head(mailbox) \in Sample /\ mailbox' = <<>>
    BY <1>7 DEF PersistReceive
  <2> QED
    BY <1>7, <2>1 DEF PersistReceive, filterVars, persistVars, policyVars, flashVars
<1>8. CASE CommitErase
  BY <1>8 DEF CommitErase, Blank, filterVars, policyVars, LongAgo
<1>9. CASE CommitProgram
  BY <1>9 DEF CommitProgram, Torn, filterVars, policyVars
<1>10. CASE CommitDone
  <2>1. held.offset \in Offsets
    BY DEF Sample
  <2>2. flash' = Stored(held.offset) /\ flash'.value = record' /\ record' \in Offsets
    BY <1>10, <2>1 DEF CommitDone, Stored
  <2> QED
    BY <1>10, <2>1, <2>2 DEF CommitDone, filterVars, policyVars
<1>11. CASE MarkWritten
  <2>1. held.offset \in Offsets /\ held.age \in 0 .. LongAgo
    BY DEF Sample, LongAgo
  <2> QED
    BY <1>11, <2>1, Zeroes DEF MarkWritten, filterVars, flashVars
<1>12. CASE UNCHANGED offsetVars
  BY <1>12 DEF offsetVars, filterVars, persistVars, policyVars, flashVars
<1> QED
  BY <1>1, <1>2, <1>3, <1>4, <1>5, <1>6, <1>7, <1>8, <1>9, <1>10, <1>11, <1>12
  DEF OffsetNext, Persist

\* Every boot starts from the last whole record or the static seed, wherever
\* in a commit the power failed before.
THEOREM SeedAlwaysSane == OffsetSpec => SeedIsSane
<1>1. ASSUME StoredTypeInv, [OffsetNext]_offsetVars
      PROVE  [~powered /\ powered'
                => offset' \in {StaticSeed, record} \cap -Limit .. Limit]_offsetVars
  <2> SUFFICES ASSUME OffsetNext, ~powered, powered'
               PROVE  offset' \in {StaticSeed, record} \cap -Limit .. Limit
    BY <1>1
  <2>1. Boot
    BY DEF OffsetNext, PowerLoss, Tick, FilterPredict, FilterFirstFix, FusionPrint,
       Persist, PersistReceive, CommitErase, CommitProgram, CommitDone, MarkWritten
  <2> QED
    BY <1>1, <2>1, SeedFromRecord DEF Boot, StoredTypeInv
<1> QED
  BY <1>1, StoredTypeInit, StoredTypeStep, PTL DEF OffsetSpec, SeedIsSane

-----------------------------------------------------------------------------
(* What the policy remembers. *)

\* Once the record is in the sector, marking it as written copies its offset.
MemoryInv ==
  /\ PolicyMatchesFlash
  /\ powered /\ persistPc = "mark" => flash = Stored(held.offset)

LEMMA MemoryInit == OffsetInit => MemoryInv
BY DEF OffsetInit, MemoryInv, PolicyMatchesFlash

LEMMA MemoryStep == StoredTypeInv /\ MemoryInv /\ [OffsetNext]_offsetVars => MemoryInv'
<1> SUFFICES ASSUME StoredTypeInv, MemoryInv, [OffsetNext]_offsetVars PROVE MemoryInv'
  OBVIOUS
<1> USE DEF MemoryInv, PolicyMatchesFlash
<1>0. held \in Sample /\ written \in BOOLEAN
  BY DEF StoredTypeInv, OffsetTypeOK
<1>1. CASE Boot
  BY <1>1 DEF Boot, FreshPolicy
<1>2. CASE PowerLoss
  BY <1>2 DEF PowerLoss
<1>3. CASE Tick
  <2>1. persistPc # "receive" => held'.offset = held.offset
    BY <1>0, <1>3, Aged DEF Tick
  <2> QED
    BY <1>3, <2>1 DEF Tick, flashVars
<1>4. CASE FilterPredict \/ FilterFirstFix \/ FusionPrint
  BY <1>4 DEF FilterPredict, FilterFirstFix, FusionPrint, persistVars,
     policyVars, flashVars
<1>5. CASE PersistReceive
  BY <1>5 DEF PersistReceive, persistVars, policyVars, flashVars
<1>6. CASE CommitErase \/ CommitProgram
  BY <1>6 DEF CommitErase, CommitProgram
<1>7. CASE CommitDone
  BY <1>7 DEF CommitDone
<1>8. CASE MarkWritten
  BY <1>8 DEF MarkWritten, flashVars
<1>9. CASE UNCHANGED offsetVars
  BY <1>9 DEF offsetVars, persistVars, policyVars, flashVars
<1> QED
  BY <1>1, <1>2, <1>3, <1>4, <1>5, <1>6, <1>7, <1>8, <1>9 DEF OffsetNext, Persist

\* Between commits the policy compares with what is in the sector.
THEOREM PolicyRemembers == OffsetSpec => []PolicyMatchesFlash
<1>1. MemoryInv => PolicyMatchesFlash
  BY DEF MemoryInv
<1> QED
  BY <1>1, StoredTypeInit, StoredTypeStep, MemoryInit, MemoryStep, PTL DEF OffsetSpec

-----------------------------------------------------------------------------
(* Erases stay apart. *)

\* The policy's clock runs from the sample, the sector's rest from the erase,
\* and no sample is older than MaxAge when it is marked as written.  Until the
\* first write of a boot the sector has rested since before it.
RestInv ==
  /\ mailbox # <<>> => mailbox[1].age = 0
  /\ persistPc \in {"receive", "erase"} =>
       IF written THEN rest >= since - MaxAge ELSE rest = LongAgo
  /\ persistPc = "erase" /\ written => since >= MinInterval

LEMMA RestInit == OffsetInit => RestInv
BY DEF OffsetInit, RestInv

LEMMA RestStep == StoredTypeInv /\ RestInv /\ [OffsetNext]_offsetVars => RestInv'
<1> SUFFICES ASSUME StoredTypeInv, RestInv, [OffsetNext]_offsetVars PROVE RestInv'
  OBVIOUS
<1> USE DEF RestInv
<1>0. /\ held \in Sample /\ written \in BOOLEAN
      /\ since \in 0 .. LongAgo /\ rest \in 0 .. LongAgo
      /\ mailbox \in {<<>>} \cup {<<s>> : s \in Sample}
  BY DEF StoredTypeInv, OffsetTypeOK
<1>1. CASE Boot
  BY <1>1 DEF Boot, FreshPolicy
<1>2. CASE PowerLoss
  BY <1>2 DEF PowerLoss, persistVars, policyVars
<1>3. CASE Tick
  BY <1>0, <1>3 DEF Tick, LongAgo
<1>4. CASE FilterPredict \/ FilterFirstFix
  BY <1>4 DEF FilterPredict, FilterFirstFix, persistVars, policyVars
<1>5. CASE FusionPrint
  BY <1>5 DEF FusionPrint, persistVars, policyVars
<1>6. CASE PersistReceive
  <2>1. Head(mailbox).age = 0 /\ mailbox' = <<>>
    BY <1>0, <1>6 DEF PersistReceive
  <2>2. persistPc' = "erase" /\ written => since >= MinInterval
    BY <1>0, <1>6, <2>1 DEF PersistReceive, Due, persistVars
  <2> QED
    BY <1>6, <2>1, <2>2 DEF PersistReceive, persistVars, policyVars
<1>7. CASE CommitErase \/ CommitProgram \/ CommitDone
  BY <1>7 DEF CommitErase, CommitProgram, CommitDone
<1>8. CASE MarkWritten
  <2>1. since' <= MaxAge /\ since' \in Nat
    BY <1>0, <1>8 DEF MarkWritten, Sample
  <2> QED
    BY <1>0, <1>8, <2>1 DEF MarkWritten
<1>9. CASE UNCHANGED offsetVars
  BY <1>9 DEF offsetVars, persistVars, policyVars
<1> QED
  BY <1>1, <1>2, <1>3, <1>4, <1>5, <1>6, <1>7, <1>8, <1>9 DEF OffsetNext, Persist

\* Within a boot, two erases of the sector are a MinInterval apart, less the age
\* a sample may have when it is marked as written.
THEOREM ErasesStayApart == OffsetSpec => ErasesAreSpaced
<1>1. ASSUME StoredTypeInv, RestInv, [OffsetNext]_offsetVars
      PROVE  [flash' = Blank => rest >= MinInterval - MaxAge]_flash
  <2> SUFFICES ASSUME OffsetNext, flash' # flash, flash' = Blank
               PROVE  rest >= MinInterval - MaxAge
    BY <1>1 DEF offsetVars, flashVars
  <2>1. CommitErase
    BY DEF OffsetNext, Boot, PowerLoss, Tick, FilterPredict, FilterFirstFix,
       FusionPrint, Persist, PersistReceive, CommitProgram, CommitDone,
       MarkWritten, flashVars, Blank, Torn, Stored
  <2> QED
    BY <1>1, <2>1 DEF CommitErase, RestInv, StoredTypeInv, OffsetTypeOK, LongAgo
<1> QED
  BY <1>1, StoredTypeInit, StoredTypeStep, RestInit, RestStep, PTL DEF OffsetSpec, ErasesAreSpaced
=============================================================================
