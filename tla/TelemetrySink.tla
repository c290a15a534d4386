--------------------------- MODULE TelemetrySink ---------------------------
(***************************************************************************)
(* The telemetry sink of src/telemetry.h.  Several tasks print lines of    *)
(* several chunks (a chunk is one Print::write call); a Line holds the     *)
(* sink's mutex from its constructor to its destructor, and emit() copies  *)
(* each chunk to three streams in turn: the USB CDC port while a host has  *)
(* it open, the RTT ring, and the hardware UART.                           *)
(***************************************************************************)
EXTENDS Naturals, Sequences

CONSTANTS
  Writers,     \* the tasks that print
  NoWriter,
  HasMutex,    \* FALSE: xSemaphoreCreateMutex returned a null handle
  MaxParts,    \* bound: chunks in a line
  MaxLines,    \* bound: lines each task prints
  MaxToggles   \* bound: times the USB host opens or closes the port

ASSUME WriterAssumption == NoWriter \notin Writers
ASSUME MutexAssumption  == HasMutex \in BOOLEAN
ASSUME BoundAssumption  == MaxParts \in Nat /\ MaxLines \in Nat /\ MaxToggles \in Nat

VARIABLES
  holder,    \* the task that holds the mutex, or NoWriter
  at,        \* at[t]: where t is in its Line
  chunk,     \* chunk[t]: the chunk t prints now, or printed last
  usbOpen,   \* whether `if (Serial)` holds
  toggles,
  cdc, rtt, uart   \* the three streams

vars == <<holder, at, chunk, usbOpen, toggles, cdc, rtt, uart>>

\* A chunk says whose line it belongs to and its place in that line.
Chunk == [by : Writers, line : Nat, part : Nat, size : Nat]

Init ==
  /\ holder = NoWriter
  /\ at = [t \in Writers |-> "idle"]
  /\ chunk = [t \in Writers |-> [by |-> t, line |-> 0, part |-> 0, size |-> 0]]
  /\ usbOpen \in BOOLEAN /\ toggles = 0
  /\ cdc = <<>> /\ rtt = <<>> /\ uart = <<>>

UsbToggle ==
  /\ toggles < MaxToggles
  /\ toggles' = toggles + 1
  /\ usbOpen' = ~usbOpen
  /\ UNCHANGED <<holder, at, chunk, cdc, rtt, uart>>

StartLine(t) ==
  /\ at[t] = "idle"
  /\ chunk[t].line < MaxLines
  /\ \E size \in 1 .. MaxParts :
       chunk' = [chunk EXCEPT ![t] = [by |-> t, line |-> @.line + 1,
                                      part |-> 1, size |-> size]]
  /\ at' = [at EXCEPT ![t] = "cdc"]

\* Mutated form: the constructor does not take the mutex.
ConstructWithoutTake(t) ==
  /\ StartLine(t)
  /\ UNCHANGED <<holder, usbOpen, toggles, cdc, rtt, uart>>

\* Line::Line: without a mutex the writer goes ahead unlocked.
LineConstruct(t) ==
  /\ StartLine(t)
  /\ IF HasMutex THEN holder = NoWriter /\ holder' = t ELSE UNCHANGED holder
  /\ UNCHANGED <<usbOpen, toggles, cdc, rtt, uart>>

EmitCdc(t) ==
  /\ at[t] = "cdc"
  /\ cdc' = IF usbOpen THEN Append(cdc, chunk[t]) ELSE cdc
  /\ at' = [at EXCEPT ![t] = "rtt"]
  /\ UNCHANGED <<holder, chunk, usbOpen, toggles, rtt, uart>>

EmitRtt(t) ==
  /\ at[t] = "rtt"
  /\ rtt' = Append(rtt, chunk[t])
  /\ at' = [at EXCEPT ![t] = "uart"]
  /\ UNCHANGED <<holder, chunk, usbOpen, toggles, cdc, uart>>

EmitUart(t) ==
  /\ at[t] = "uart"
  /\ uart' = Append(uart, chunk[t])
  /\ IF chunk[t].part < chunk[t].size
       THEN /\ chunk' = [chunk EXCEPT ![t].part = @ + 1]
            /\ at' = [at EXCEPT ![t] = "cdc"]
       ELSE /\ at' = [at EXCEPT ![t] = "destruct"]
            /\ UNCHANGED chunk
  /\ UNCHANGED <<holder, usbOpen, toggles, cdc, rtt>>

LineDestruct(t) ==
  /\ at[t] = "destruct"
  /\ holder' = IF HasMutex THEN NoWriter ELSE holder
  /\ at' = [at EXCEPT ![t] = "idle"]
  /\ UNCHANGED <<chunk, usbOpen, toggles, cdc, rtt, uart>>

PrintStep(t) ==
  LineConstruct(t) \/ EmitCdc(t) \/ EmitRtt(t) \/ EmitUart(t) \/ LineDestruct(t)

Next == UsbToggle \/ \E t \in Writers : PrintStep(t)

Spec == Init /\ [][Next]_vars

-----------------------------------------------------------------------------
(* Properties.  Each is what the sink promises when it has its mutex.      *)

TypeOK ==
  /\ holder \in Writers \cup {NoWriter}
  /\ at \in [Writers -> {"idle", "cdc", "rtt", "uart", "destruct"}]
  /\ chunk \in [Writers -> Chunk]
  /\ \A t \in Writers : chunk[t].by = t
  /\ usbOpen \in BOOLEAN /\ toggles \in Nat
  /\ cdc \in Seq(Chunk) /\ rtt \in Seq(Chunk) /\ uart \in Seq(Chunk)

\* The mutex is held exactly while a Line is alive, by the task that prints it:
\* no two lines are open at once and no task leaves with the mutex.
HolderIsPrinting ==
  HasMutex => \A t \in Writers : holder = t <=> at[t] # "idle"

SameLine(a, b) == a.by = b.by /\ a.line = b.line

\* A chunk follows the one before it: it goes on with the same line, or it opens
\* a line where the previous one had ended.
Follows(a, b) ==
  \/ b = [a EXCEPT !.part = a.part + 1] /\ b.part <= b.size
  \/ b.part = 1 /\ a.part = a.size

\* "A whole line reaches the wire uninterrupted" (telemetry.h): the UART and the
\* RTT ring carry every line from its first chunk to its last without a foreign
\* chunk, however the four tasks interleave.
WholeLines(stream) ==
  /\ stream # <<>> => stream[1].part = 1
  /\ \A i \in 1 .. Len(stream) - 1 : Follows(stream[i], stream[i + 1])

LinesReachWireWhole == HasMutex => WholeLines(rtt) /\ WholeLines(uart)

\* The CDC port may open and close in the middle of a line, so lines can lose
\* their head or tail there; but chunks of two lines are never interleaved.
CdcNeverSplices ==
  HasMutex =>
    \A i, j \in 1 .. Len(cdc) :
      i < j /\ SameLine(cdc[i], cdc[j])
        => \A k \in i .. j : SameLine(cdc[i], cdc[k])
                             /\ (k > i => cdc[k - 1].part < cdc[k].part)

\* One stream fans out to the three places: the UART lags the RTT ring by at
\* most the chunk in flight.
StreamsAgree ==
  HasMutex =>
    /\ Len(uart) \in {Len(rtt) - 1, Len(rtt)}
    /\ uart = SubSeq(rtt, 1, Len(uart))
=============================================================================
