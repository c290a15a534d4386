--------------------------- MODULE FusionPipeline ---------------------------
(***************************************************************************)
(* The task graph that setup() of src/main.cpp builds around the fusion    *)
(* task:                                                                   *)
(*                                                                         *)
(*   imu task  --imu_queue--\            /--heading_mailbox--> rudder task *)
(*                           fusion task                                   *)
(*   gnss task --gnss_queue-/            \--offset_mailbox---> persist task*)
(*                                                                         *)
(* Every FreeRTOS call is one step and the tasks interleave freely, as     *)
(* they do on the two cores.  A mailbox is a queue of length one that is   *)
(* overwritten: <<>> or <<item>>.  Of the filter only its progress through *)
(* the samples is kept: the IMU sample it has predicted through and the    *)
(* last GNSS sample it has consumed, whether update() used it or not       *)
(* (EkfGate models the filter's own control).                              *)
(***************************************************************************)
EXTENDS Naturals, Sequences

CONSTANTS
  ImuQueueLen,        \* 8 in main.cpp
  GnssQueueLen,       \* 4 in main.cpp
  TelemetryInterval,  \* TELEMETRY_INTERVAL_MS, in ticks
  RudderInterval,     \* RUDDER_SEND_INTERVAL_MS, in ticks
  SeqModulus,         \* 256: Sender::_seq is a uint8_t
  MaxClock,           \* bound: ticks explored
  MaxImu,             \* bound: IMU samples produced
  MaxGnss             \* bound: GNSS samples produced

ASSUME QueueAssumption ==
  ImuQueueLen \in Nat \ {0} /\ GnssQueueLen \in Nat \ {0}

ASSUME IntervalAssumption ==
  TelemetryInterval \in Nat /\ RudderInterval \in Nat \ {0}

ASSUME BoundAssumption ==
  /\ SeqModulus \in Nat \ {0}
  /\ MaxClock \in Nat /\ MaxImu \in Nat /\ MaxGnss \in Nat

VARIABLES
  now,             \* xTaskGetTickCount()
  imuCount,        \* ImuSamples produced so far, queued or dropped
  gnssCount,       \* GnssSamples produced so far, queued or dropped
  imuQueue,
  gnssQueue,
  fusionPc,        \* where the fusion task is in its loop
  filter,          \* the TinyEkfFilter, as far as its readers can tell
  due,             \* history: last fix queued when the IMU sample was taken
  nextPrint,       \* next_print
  lines,           \* history: F lines printed
  printed,         \* history: the IMU sample of the last F line
  headingMailbox,
  offsetMailbox,
  rudderPc,
  rudderNext,      \* next
  held,            \* out: the rudder task's copy of the mailbox
  rudderSeq,       \* Sender::_seq
  wire,            \* the frames of the latest rudder tick, oldest first
  persistTaken     \* the OffsetSample the persist task holds

imuVars    == <<imuCount, imuQueue>>
gnssVars   == <<gnssCount, gnssQueue>>
fusionVars == <<fusionPc, filter, due, nextPrint, lines, printed>>
mailboxes  == <<headingMailbox, offsetMailbox>>
rudderVars == <<rudderPc, rudderNext, held, rudderSeq, wire>>
vars == <<now, imuVars, gnssVars, fusionVars, mailboxes, rudderVars,
          persistTaken>>

ImuSample    == [n : Nat]
GnssSample   == [n : Nat]
FusionOutput == [imu : Nat, consumed : Nat]
Frame        == [kind : {"Attitude", "RawAttitude"}, seq : Nat,
                 out : FusionOutput]

FreshFilter == [imu |-> 0, consumed |-> 0]

Init ==
  /\ now = 0
  /\ imuCount = 0 /\ imuQueue = <<>>
  /\ gnssCount = 0 /\ gnssQueue = <<>>
  /\ fusionPc = "receive" /\ filter = FreshFilter /\ due = 0
  /\ nextPrint = 0 /\ lines = 0 /\ printed = 0
  /\ headingMailbox = <<>> /\ offsetMailbox = <<>>
  /\ rudderPc = "delay" /\ rudderNext = 0 /\ held = FreshFilter
  /\ rudderSeq = 0 /\ wire = <<>>
  /\ persistTaken = 0

Tick ==
  /\ now < MaxClock
  /\ now' = now + 1
  /\ UNCHANGED <<imuVars, gnssVars, fusionVars, mailboxes, rudderVars,
                 persistTaken>>

-----------------------------------------------------------------------------
(* The producers.  xQueueSend(queue, &sample, 0) drops the new sample when *)
(* the queue is full, and neither producer looks at its result.            *)

\* Mutated form: xQueueSendToFront.
SendToFront(queue, length, sample) ==
  IF Len(queue) < length THEN <<sample>> \o queue ELSE queue

Send(queue, length, sample) ==
  IF Len(queue) < length THEN Append(queue, sample) ELSE queue

ImuProduce ==
  /\ imuCount < MaxImu
  /\ imuCount' = imuCount + 1
  /\ imuQueue' = Send(imuQueue, ImuQueueLen, [n |-> imuCount'])
  /\ UNCHANGED <<now, gnssVars, fusionVars, mailboxes, rudderVars, persistTaken>>

GnssProduce ==
  /\ gnssCount < MaxGnss
  /\ gnssCount' = gnssCount + 1
  /\ gnssQueue' = Send(gnssQueue, GnssQueueLen, [n |-> gnssCount'])
  /\ UNCHANGED <<now, imuVars, fusionVars, mailboxes, rudderVars, persistTaken>>

-----------------------------------------------------------------------------
(* The fusion task: receive, predict, drain the fixes, publish, print.     *)

Predicted(f, sample) == [f EXCEPT !.imu = sample.n]

\* update() consumes every sample, also one it rejects.
Updated(f, fix) == [f EXCEPT !.consumed = fix.n]

LastQueuedFix ==
  IF gnssQueue = <<>> THEN filter.consumed ELSE gnssQueue[Len(gnssQueue)].n

FusionReceive ==
  /\ fusionPc = "receive"
  /\ imuQueue # <<>>
  /\ filter' = Predicted(filter, Head(imuQueue))
  /\ imuQueue' = Tail(imuQueue)
  /\ due' = LastQueuedFix
  /\ fusionPc' = "drain"
  /\ UNCHANGED <<now, imuCount, gnssVars, nextPrint, lines, printed, mailboxes,
                 rudderVars, persistTaken>>

\* Mutated form: `if` in place of `while`, at most one fix is applied per tick.
FusionDrainOnce ==
  /\ fusionPc = "drain"
  /\ gnssQueue # <<>>
  /\ filter' = Updated(filter, Head(gnssQueue))
  /\ gnssQueue' = Tail(gnssQueue)
  /\ fusionPc' = "publish"
  /\ UNCHANGED <<now, imuVars, gnssCount, due, nextPrint, lines, printed,
                 mailboxes, rudderVars, persistTaken>>

FusionDrain ==
  /\ fusionPc = "drain"
  /\ gnssQueue # <<>>
  /\ filter' = Updated(filter, Head(gnssQueue))
  /\ gnssQueue' = Tail(gnssQueue)
  /\ UNCHANGED <<now, imuVars, gnssCount, fusionPc, due, nextPrint, lines,
                 printed, mailboxes, rudderVars, persistTaken>>

FusionDrained ==
  /\ fusionPc = "drain"
  /\ gnssQueue = <<>>
  /\ fusionPc' = "publish"
  /\ UNCHANGED <<now, imuVars, gnssVars, filter, due, nextPrint, lines, printed,
                 mailboxes, rudderVars, persistTaken>>

FusionPublish ==
  /\ fusionPc = "publish"
  /\ headingMailbox' = <<filter>>
  /\ fusionPc' = "print"
  /\ UNCHANGED <<now, imuVars, gnssVars, filter, due, nextPrint, lines, printed,
                 offsetMailbox, rudderVars, persistTaken>>

\* Mutated form: the deadline is never advanced, every tick prints.
FusionPrintUnthrottled ==
  /\ fusionPc = "print"
  /\ now >= nextPrint
  /\ offsetMailbox' = <<filter.imu>>
  /\ lines' = lines + 1
  /\ printed' = filter.imu
  /\ fusionPc' = "receive"
  /\ UNCHANGED <<now, imuVars, gnssVars, filter, due, nextPrint, headingMailbox,
                 rudderVars, persistTaken>>

FusionPrint ==
  /\ fusionPc = "print"
  /\ now >= nextPrint
  /\ offsetMailbox' = <<filter.imu>>
  /\ nextPrint' = nextPrint + TelemetryInterval
  /\ lines' = lines + 1
  /\ printed' = filter.imu
  /\ fusionPc' = "receive"
  /\ UNCHANGED <<now, imuVars, gnssVars, filter, due, headingMailbox,
                 rudderVars, persistTaken>>

FusionNoPrint ==
  /\ fusionPc = "print"
  /\ now < nextPrint
  /\ fusionPc' = "receive"
  /\ UNCHANGED <<now, imuVars, gnssVars, filter, due, nextPrint, lines, printed,
                 mailboxes, rudderVars, persistTaken>>

FusionStep ==
  FusionReceive \/ FusionDrain \/ FusionDrained \/ FusionPublish
    \/ FusionPrint \/ FusionNoPrint

-----------------------------------------------------------------------------
(* The rudder task.  vTaskDelayUntil returns at once while the task is     *)
(* behind its schedule, so RudderWake only asks that the deadline passed.  *)

NextFrame(kind, out) == [kind |-> kind, seq |-> rudderSeq, out |-> out]

BumpSeq == rudderSeq' = (rudderSeq + 1) % SeqModulus

RudderWake ==
  /\ rudderPc = "delay"
  /\ now >= rudderNext + RudderInterval
  /\ rudderNext' = rudderNext + RudderInterval
  /\ \/ /\ headingMailbox = <<>>
        /\ UNCHANGED <<rudderPc, held>>
     \/ /\ headingMailbox # <<>>
        /\ held' = Head(headingMailbox)
        /\ rudderPc' = "attitude"
  /\ UNCHANGED <<now, imuVars, gnssVars, fusionVars, mailboxes, rudderSeq, wire,
                 persistTaken>>

RudderAttitude ==
  /\ rudderPc = "attitude"
  /\ wire' = <<NextFrame("Attitude", held)>>
  /\ BumpSeq
  /\ rudderPc' = "raw"
  /\ UNCHANGED <<now, imuVars, gnssVars, fusionVars, mailboxes, rudderNext,
                 held, persistTaken>>

\* Mutated form: the second frame reads the mailbox again.
RudderRawRepeek ==
  /\ rudderPc = "raw"
  /\ wire' = Append(wire, NextFrame("RawAttitude", Head(headingMailbox)))
  /\ BumpSeq
  /\ rudderPc' = "delay"
  /\ UNCHANGED <<now, imuVars, gnssVars, fusionVars, mailboxes, rudderNext,
                 held, persistTaken>>

RudderRaw ==
  /\ rudderPc = "raw"
  /\ wire' = Append(wire, NextFrame("RawAttitude", held))
  /\ BumpSeq
  /\ rudderPc' = "delay"
  /\ UNCHANGED <<now, imuVars, gnssVars, fusionVars, mailboxes, rudderNext,
                 held, persistTaken>>

RudderStep == RudderWake \/ RudderAttitude \/ RudderRaw

-----------------------------------------------------------------------------
(* The persist task takes the offset out of its mailbox; what it does with *)
(* it is the subject of OffsetPersist.                                     *)

PersistReceive ==
  /\ offsetMailbox # <<>>
  /\ persistTaken' = Head(offsetMailbox)
  /\ offsetMailbox' = <<>>
  /\ UNCHANGED <<now, imuVars, gnssVars, fusionVars, headingMailbox, rudderVars>>

Next ==
  \/ Tick \/ ImuProduce \/ GnssProduce
  \/ FusionStep \/ RudderStep \/ PersistReceive

Spec == Init /\ [][Next]_vars

(* The scheduler runs every ready task; nothing makes the sensors produce. *)
FairSpec ==
  /\ Spec
  /\ WF_vars(Tick)
  /\ WF_vars(FusionStep) /\ WF_vars(RudderStep) /\ WF_vars(PersistReceive)

-----------------------------------------------------------------------------
(* Properties. *)

\* Every variable has its type; in particular neither queue outgrows the
\* length xQueueCreate gave it in main.cpp.
TypeOK ==
  /\ now \in Nat
  /\ imuCount \in Nat /\ imuQueue \in Seq(ImuSample)
  /\ Len(imuQueue) <= ImuQueueLen
  /\ gnssCount \in Nat /\ gnssQueue \in Seq(GnssSample)
  /\ Len(gnssQueue) <= GnssQueueLen
  /\ fusionPc \in {"receive", "drain", "publish", "print"}
  /\ filter \in FusionOutput /\ due \in Nat
  /\ nextPrint \in Nat /\ lines \in Nat /\ printed \in Nat
  /\ headingMailbox \in Seq(FusionOutput) /\ Len(headingMailbox) <= 1
  /\ offsetMailbox \in Seq(Nat) /\ Len(offsetMailbox) <= 1
  /\ rudderPc \in {"delay", "attitude", "raw"}
  /\ rudderNext \in Nat /\ held \in FusionOutput
  /\ rudderSeq \in 0 .. SeqModulus - 1
  /\ wire \in Seq(Frame) /\ Len(wire) <= 2
  /\ persistTaken \in Nat

\* No sample is applied twice or out of order, however the queues overflow:
\* what waits in a queue is newer than what the filter has seen, oldest first.
InOrder(queue, seen, produced) ==
  \A i \in 1 .. Len(queue) :
    /\ seen < queue[i].n /\ queue[i].n <= produced
    /\ \A j \in 1 .. i - 1 : queue[j].n < queue[i].n

QueuesInOrder ==
  /\ InOrder(imuQueue, filter.imu, imuCount)
  /\ InOrder(gnssQueue, filter.consumed, gnssCount)

\* The heading published for an IMU sample takes in every fix that was already
\* queued when that sample was received: the drain loop leaves none behind.
PublishedCoversQueuedFixes ==
  fusionPc = "print" => headingMailbox[1].consumed >= due

\* Both frames of a rudder tick come from one FusionOutput ("all from one fused
\* tick", docs/rudder_link.md), though the mailbox may change between them.
RudderTickConsistent ==
  Len(wire) = 2 => wire[1].out = wire[2].out

\* The heading on the rudder link never goes back to an older IMU sample.
RudderNeverRegresses ==
  [][wire # <<>> /\ wire' # <<>>
       => wire[Len(wire)].out.imu <= wire'[Len(wire')].out.imu]_wire

\* The receiver counts drops from seq (docs/rudder_link.md), so each frame
\* written carries the successor of the one before it.
SeqCountsFrames ==
  [][wire # <<>>
       => wire'[Len(wire')].seq = (wire[Len(wire)].seq + 1) % SeqModulus]_wire

\* The throttle holds on average: no more F lines than one per interval since
\* boot, plus the first.
TelemetryBudget == lines * TelemetryInterval <= now + TelemetryInterval

\* "We always see the latest offset and never a backlog" (persist_task.cpp):
\* what the persist task takes is the offset of the last F line printed, and a
\* line's offset is taken at most once.
PersistTakesLatest ==
  [][offsetMailbox' = <<>>
       => persistTaken' = printed /\ persistTaken' > persistTaken]_offsetMailbox

\* A queued fix is applied as soon as an IMU sample drives the filter.
QueuedFixApplied ==
  \A k \in 1 .. MaxGnss :
    (imuQueue # <<>> /\ \E i \in 1 .. Len(gnssQueue) : gnssQueue[i].n = k)
      ~> filter.consumed >= k
=============================================================================
