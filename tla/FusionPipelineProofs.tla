------------------------ MODULE FusionPipelineProofs ------------------------
(***************************************************************************)
(* Proofs about FusionPipeline, for every queue length, interval and       *)
(* bound: type correctness, and the safety properties that its runs check  *)
(* on small instances.                                                     *)
(***************************************************************************)
EXTENDS FusionPipeline, SequenceTheorems, TLAPS

(***************************************************************************)
(* The strengthening.  Each conjunct carries one quantity along the path a *)
(* sample takes: queue -> filter -> mailbox -> held copy -> wire.          *)
(***************************************************************************)

\* What was queued when the sample was received stays within reach of the
\* drain loop until it has been consumed.
DrainInv ==
  /\ fusionPc = "drain" => due <= LastQueuedFix
  /\ fusionPc \in {"publish", "print"} => due <= filter.consumed
  /\ fusionPc = "print" => headingMailbox = <<filter>>

\* No stage of the heading path is ahead of the stage that feeds it.
HeadingPathInv ==
  /\ headingMailbox # <<>> => /\ held.imu <= headingMailbox[1].imu
                              /\ headingMailbox[1].imu <= filter.imu
  /\ headingMailbox = <<>> => held.imu = 0
  /\ wire # <<>> => wire[Len(wire)].out.imu <= held.imu

\* Between its two frames the rudder task has written exactly the first.
OneFrameWritten == rudderPc = "raw" => Len(wire) = 1

RudderInv ==
  /\ rudderPc = "raw" => wire[1].out = held
  /\ Len(wire) = 2 => wire[1].out = wire[2].out
  /\ wire # <<>> => rudderSeq = (wire[Len(wire)].seq + 1) % SeqModulus

\* An unread offset is the one last printed, and newer than the one taken.
OffsetPathInv ==
  /\ persistTaken <= printed
  /\ fusionPc = "receive" => printed <= filter.imu
  /\ fusionPc # "receive" => printed < filter.imu
  /\ offsetMailbox # <<>> => offsetMailbox[1] = printed /\ persistTaken < printed

-----------------------------------------------------------------------------
(* Queue operations. *)

\* xQueueSend keeps the queue within its length; it leaves what was queued
\* where it is and adds at most the new sample, at the back.
LEMMA SendProperties ==
  ASSUME NEW S, NEW queue \in Seq(S), NEW length \in Nat, NEW sample \in S,
         Len(queue) <= length
  PROVE  LET q == Send(queue, length, sample)
         IN /\ q \in Seq(S)
            /\ Len(q) <= length
            /\ Len(q) >= Len(queue)
            /\ \A i \in 1 .. Len(queue) : q[i] = queue[i]
            /\ \A i \in 1 .. Len(q) : i > Len(queue) => q[i] = sample
BY DEF Send

\* xQueueReceive removes the front and shifts the rest.
LEMMA ReceiveProperties ==
  ASSUME NEW S, NEW queue \in Seq(S), queue # <<>>
  PROVE  /\ Head(queue) \in S /\ Head(queue) = queue[1]
         /\ Tail(queue) \in Seq(S)
         /\ Len(Tail(queue)) = Len(queue) - 1
         /\ Len(queue) >= 1
         /\ \A i \in 1 .. Len(Tail(queue)) : Tail(queue)[i] = queue[i + 1]
OBVIOUS

\* Receiving leaves the back of a queue in place, unless it was also the front.
LEMMA LastAfterReceive ==
  ASSUME NEW S, NEW queue \in Seq(S), queue # <<>>
  PROVE  IF Tail(queue) = <<>>
           THEN queue[Len(queue)] = Head(queue)
           ELSE Tail(queue)[Len(Tail(queue))] = queue[Len(queue)]
<1> DEFINE rest == Tail(queue)
<1>1. /\ Head(queue) = queue[1] /\ Len(queue) \in Nat /\ Len(queue) >= 1
      /\ rest \in Seq(S) /\ Len(rest) = Len(queue) - 1
      /\ \A i \in 1 .. Len(rest) : rest[i] = queue[i + 1]
  BY ReceiveProperties
<1> SUFFICES IF rest = <<>> THEN queue[Len(queue)] = Head(queue)
                            ELSE rest[Len(rest)] = queue[Len(queue)]
  OBVIOUS
<1> HIDE DEF rest
<1>2. CASE rest = <<>>
  <2>1. Len(rest) = 0
    BY <1>2
  <2>2. Len(queue) = 1
    BY <1>1, <2>1
  <2>3. queue[Len(queue)] = Head(queue)
    BY <1>1, <2>2, Zenon
  <2> QED
    BY <1>2, <2>3, Zenon
<1>3. CASE rest # <<>>
  <2>1. Len(rest) \in Nat \ {0}
    <3>1. \A seq \in Seq(S) : seq # <<>> => Len(seq) \in Nat \ {0}
      BY EmptySeq, Zenon
    <3> QED
      BY <1>1, <1>3, <3>1
  <2>2. Len(rest) \in 1 .. Len(rest) /\ Len(rest) + 1 = Len(queue)
    BY <1>1, <2>1
  <2> QED
    BY <1>1, <1>3, <2>2
<1> QED
  BY <1>2, <1>3

LEMMA SecondFrame ==
  ASSUME NEW S, NEW q \in Seq(S), Len(q) = 1, NEW e \in S
  PROVE  /\ Append(q, e) \in Seq(S) /\ Len(Append(q, e)) = 2
         /\ Append(q, e)[1] = q[1] /\ Append(q, e)[2] = e
<1>1. Append(q, e) \in Seq(S) /\ Len(Append(q, e)) = Len(q) + 1
  BY AppendProperties
<1>2. Append(q, e)[Len(q) + 1] = e
  BY AppendProperties
<1>3. Append(q, e)[1] = q[1]
  BY 1 \in 1 .. Len(q), AppendProperties
<1> QED
  BY <1>1, <1>2, <1>3

-----------------------------------------------------------------------------
(* Type correctness. *)

USE QueueAssumption, IntervalAssumption, BoundAssumption

LEMMA FilterType ==
  ASSUME NEW f \in FusionOutput, NEW s \in ImuSample, NEW g \in GnssSample
  PROVE  /\ Predicted(f, s) \in FusionOutput
         /\ Updated(f, g) \in FusionOutput
<1> USE DEF FusionOutput, ImuSample, GnssSample
<1>1. Predicted(f, s) \in FusionOutput
  BY DEF Predicted
<1>2. Updated(f, g) \in FusionOutput
  BY DEF Updated
<1> QED
  BY <1>1, <1>2

\* The 8-bit sequence counter stays in its width.
LEMMA NextSeqType ==
  ASSUME rudderSeq \in 0 .. SeqModulus - 1, BumpSeq
  PROVE  rudderSeq' \in 0 .. SeqModulus - 1
BY DEF BumpSeq

\* Every variable keeps its type and each queue its length.
TypeInv == TypeOK /\ OneFrameWritten

LEMMA TypeInit == Init => TypeInv
BY DEF Init, TypeInv, TypeOK, OneFrameWritten, FreshFilter, FusionOutput

LEMMA TypeStep == TypeInv /\ [Next]_vars => TypeInv'
<1> SUFFICES ASSUME TypeInv, [Next]_vars PROVE TypeInv'
  OBVIOUS
<1> USE DEF TypeInv, TypeOK, OneFrameWritten
<1>1. CASE Tick
  BY <1>1 DEF Tick, imuVars, gnssVars, fusionVars, mailboxes, rudderVars
<1>2. CASE ImuProduce
  <2>1. imuCount' \in Nat /\ [n |-> imuCount'] \in ImuSample
    BY <1>2 DEF ImuProduce, ImuSample
  <2>2. imuQueue' \in Seq(ImuSample) /\ Len(imuQueue') <= ImuQueueLen
    BY <1>2, <2>1, SendProperties DEF ImuProduce
  <2> QED
    BY <1>2, <2>1, <2>2
    DEF ImuProduce, gnssVars, fusionVars, mailboxes, rudderVars
<1>3. CASE GnssProduce
  <2>1. gnssQueue' = Send(gnssQueue, GnssQueueLen, [n |-> gnssCount'])
    BY <1>3 DEF GnssProduce
  <2>2. gnssCount' \in Nat /\ [n |-> gnssCount'] \in GnssSample
    BY <1>3 DEF GnssProduce, GnssSample
  <2>3. gnssQueue' \in Seq(GnssSample) /\ Len(gnssQueue') <= GnssQueueLen
    BY <2>1, <2>2, SendProperties
  <2> QED
    BY <1>3, <2>2, <2>3
    DEF GnssProduce, imuVars, fusionVars, mailboxes, rudderVars
<1>4. CASE FusionReceive
  <2>1. Head(imuQueue) \in ImuSample /\ Tail(imuQueue) \in Seq(ImuSample)
        /\ Len(Tail(imuQueue)) <= ImuQueueLen
    BY <1>4, ReceiveProperties DEF FusionReceive
  <2>2. filter' \in FusionOutput
    <3>2. [n |-> 0] \in GnssSample
      BY DEF GnssSample
    <3> QED
      BY <1>4, <2>1, <3>2, FilterType DEF FusionReceive
  <2>3. due' \in Nat
    <3>1. CASE gnssQueue = <<>>
      BY <1>4, <3>1 DEF FusionReceive, LastQueuedFix, FusionOutput
    <3>2. CASE gnssQueue # <<>>
      <4>1. gnssQueue[Len(gnssQueue)] \in GnssSample
        BY <3>2
      <4> QED
        BY <1>4, <3>2, <4>1 DEF FusionReceive, LastQueuedFix, GnssSample
    <3> QED
      BY <3>1, <3>2
  <2> QED
    BY <1>4, <2>1, <2>2, <2>3
    DEF FusionReceive, gnssVars, mailboxes, rudderVars
<1>5. CASE FusionDrain
  <2>1. Head(gnssQueue) \in GnssSample /\ Tail(gnssQueue) \in Seq(GnssSample)
        /\ Len(Tail(gnssQueue)) <= GnssQueueLen
    BY <1>5, ReceiveProperties DEF FusionDrain
  <2>2. filter' \in FusionOutput
    BY <1>5, <2>1 DEF FusionDrain, Updated, FusionOutput, GnssSample
  <2> QED
    BY <1>5, <2>1, <2>2 DEF FusionDrain, imuVars, mailboxes, rudderVars
<1>6. CASE FusionDrained
  BY <1>6 DEF FusionDrained, imuVars, gnssVars, mailboxes, rudderVars
<1>7. CASE FusionPublish
  BY <1>7 DEF FusionPublish, imuVars, gnssVars, rudderVars
<1>8. CASE FusionPrint
  <2>1. filter.imu \in Nat
    BY DEF FusionOutput
  <2> QED
    BY <1>8, <2>1 DEF FusionPrint, imuVars, gnssVars, rudderVars
<1>9. CASE FusionNoPrint
  BY <1>9 DEF FusionNoPrint, imuVars, gnssVars, mailboxes, rudderVars
<1>10. CASE RudderWake
  <2>1. held' \in FusionOutput /\ rudderPc' \in {"delay", "attitude"}
    BY <1>10 DEF RudderWake
  <2> QED
    BY <1>10, <2>1 DEF RudderWake, imuVars, gnssVars, fusionVars, mailboxes
<1>11. CASE RudderAttitude
  <2>1. NextFrame("Attitude", held) \in Frame
    BY DEF NextFrame, Frame
  <2>2. rudderSeq' \in 0 .. SeqModulus - 1
    BY <1>11, NextSeqType DEF RudderAttitude
  <2> QED
    BY <1>11, <2>1, <2>2
    DEF RudderAttitude, imuVars, gnssVars, fusionVars, mailboxes
<1>12. CASE RudderRaw
  <2>1. NextFrame("RawAttitude", held) \in Frame
    BY DEF NextFrame, Frame
  <2>2. rudderSeq' \in 0 .. SeqModulus - 1
    BY <1>12, NextSeqType DEF RudderRaw
  <2>3. Len(wire) = 1 /\ wire' = Append(wire, NextFrame("RawAttitude", held))
    BY <1>12 DEF RudderRaw
  <2>4. wire' \in Seq(Frame) /\ Len(wire') <= 2
    BY <2>1, <2>3, SecondFrame
  <2>5. rudderPc' = "delay" /\ UNCHANGED <<now, imuVars, gnssVars, fusionVars,
          mailboxes, rudderNext, held, persistTaken>>
    BY <1>12 DEF RudderRaw
  <2> HIDE DEF OneFrameWritten
  <2>6. OneFrameWritten'
    BY <2>5 DEF OneFrameWritten
  <2>7. TypeOK'
    BY <2>2, <2>4, <2>5
    DEF imuVars, gnssVars, fusionVars, mailboxes
  <2> QED
    BY <2>6, <2>7
    DEF RudderRaw, imuVars, gnssVars, fusionVars, mailboxes
<1>13. CASE PersistReceive
  BY <1>13 DEF PersistReceive, imuVars, gnssVars, fusionVars, rudderVars
<1>14. CASE UNCHANGED vars
  BY <1>14 DEF vars, imuVars, gnssVars, fusionVars, mailboxes, rudderVars
<1> QED
  BY <1>1, <1>2, <1>3, <1>4, <1>5, <1>6, <1>7, <1>8, <1>9, <1>10, <1>11,
     <1>12, <1>13, <1>14
  DEF Next, FusionStep, RudderStep

\* The type invariant of the pipeline, with both queue bounds.
THEOREM TypeCorrect == Spec => []TypeOK
<1>1. TypeInv => TypeOK
  BY DEF TypeInv
<1> QED
  BY <1>1, TypeInit, TypeStep, PTL DEF Spec

-----------------------------------------------------------------------------
(* Samples are applied in order, each at most once. *)

LEMMA InOrderSend ==
  ASSUME NEW S, \A s \in S : s.n \in Nat,
         NEW queue \in Seq(S), NEW length \in Nat, Len(queue) <= length,
         NEW seen \in Nat, NEW produced \in Nat, seen <= produced,
         NEW sample \in S, sample.n = produced + 1,
         InOrder(queue, seen, produced)
  PROVE  InOrder(Send(queue, length, sample), seen, produced + 1)
<1> DEFINE q == Send(queue, length, sample)
<1>1. /\ q \in Seq(S) /\ Len(q) >= Len(queue)
      /\ \A i \in 1 .. Len(queue) : q[i] = queue[i]
      /\ \A i \in 1 .. Len(q) : i > Len(queue) => q[i] = sample
  BY DEF Send
<1>2. Len(q) <= Len(queue) + 1
  BY DEF Send
<1> HIDE DEF q
<1>3. ASSUME NEW i \in 1 .. Len(q)
      PROVE  /\ seen < q[i].n /\ q[i].n <= produced + 1
             /\ \A j \in 1 .. i - 1 : q[j].n < q[i].n
  <2>1. CASE i <= Len(queue)
    <3>1. i \in 1 .. Len(queue) /\ queue[i] \in S /\ queue[i].n \in Nat
      BY <2>1
    <3>2. /\ seen < queue[i].n /\ queue[i].n <= produced
          /\ \A j \in 1 .. i - 1 : queue[j].n < queue[i].n
      BY <3>1 DEF InOrder
    <3>3. q[i] = queue[i] /\ \A j \in 1 .. i - 1 : q[j] = queue[j]
      BY <1>1, <3>1
    <3> QED
      BY <3>1, <3>2, <3>3
  <2>2. CASE i > Len(queue)
    <3>1. q[i].n = produced + 1 /\ i = Len(queue) + 1
      BY <1>1, <1>2, <2>2
    <3>2. ASSUME NEW j \in 1 .. i - 1 PROVE q[j].n < q[i].n
      <4>1. j \in 1 .. Len(queue) /\ queue[j] \in S
        BY <3>1
      <4>2. queue[j].n <= produced /\ queue[j].n \in Nat
        BY <4>1 DEF InOrder
      <4> QED
        BY <1>1, <3>1, <4>1, <4>2
    <3> QED
      BY <3>1, <3>2
  <2> QED
    BY <1>1, <2>1, <2>2
<1>4. InOrder(q, seen, produced + 1)
  BY <1>3 DEF InOrder
<1> QED
  BY <1>4 DEF q

LEMMA InOrderReceive ==
  ASSUME NEW S, \A s \in S : s.n \in Nat,
         NEW queue \in Seq(S), queue # <<>>,
         NEW seen \in Nat, NEW produced \in Nat,
         InOrder(queue, seen, produced)
  PROVE  /\ seen < Head(queue).n /\ Head(queue).n <= produced
         /\ InOrder(Tail(queue), Head(queue).n, produced)
<1>1. /\ Head(queue) = queue[1] /\ Len(queue) >= 1
      /\ Tail(queue) \in Seq(S) /\ Len(Tail(queue)) = Len(queue) - 1
      /\ \A i \in 1 .. Len(Tail(queue)) : Tail(queue)[i] = queue[i + 1]
  BY ReceiveProperties
<1>2. seen < Head(queue).n /\ Head(queue).n <= produced
  BY <1>1 DEF InOrder
<1>3. ASSUME NEW i \in 1 .. Len(Tail(queue))
      PROVE  /\ Head(queue).n < Tail(queue)[i].n /\ Tail(queue)[i].n <= produced
             /\ \A j \in 1 .. i - 1 : Tail(queue)[j].n < Tail(queue)[i].n
  <2>1. i + 1 \in 1 .. Len(queue) /\ 1 \in 1 .. (i + 1) - 1
    BY <1>1
  <2>2. /\ queue[1].n < queue[i + 1].n /\ queue[i + 1].n <= produced
        /\ \A j \in 1 .. (i + 1) - 1 : queue[j].n < queue[i + 1].n
    BY <2>1 DEF InOrder
  <2>3. ASSUME NEW j \in 1 .. i - 1
        PROVE  Tail(queue)[j].n < Tail(queue)[i].n
    <3>1. j \in 1 .. Len(Tail(queue)) /\ j + 1 \in 1 .. (i + 1) - 1
      BY <1>1
    <3> QED
      BY <1>1, <2>2, <3>1
  <2> QED
    BY <1>1, <2>2, <2>3
<1> QED
  BY <1>2, <1>3 DEF InOrder

LEMMA SampleNumbers ==
  (\A s \in ImuSample : s.n \in Nat) /\ (\A s \in GnssSample : s.n \in Nat)
BY DEF ImuSample, GnssSample

\* The number of samples produced is never behind the filter.
CountsInv == filter.imu <= imuCount /\ filter.consumed <= gnssCount

OrderInv == QueuesInOrder /\ CountsInv

LEMMA OrderInit == Init => OrderInv
BY DEF Init, OrderInv, QueuesInOrder, InOrder, CountsInv, FreshFilter

LEMMA OrderStep == TypeInv /\ OrderInv /\ [Next]_vars => OrderInv'
<1> SUFFICES ASSUME TypeInv, OrderInv, [Next]_vars PROVE OrderInv'
  OBVIOUS
<1> USE DEF OrderInv, QueuesInOrder, CountsInv
<1>0. /\ imuQueue \in Seq(ImuSample) /\ Len(imuQueue) <= ImuQueueLen
      /\ gnssQueue \in Seq(GnssSample) /\ Len(gnssQueue) <= GnssQueueLen
      /\ imuCount \in Nat /\ gnssCount \in Nat /\ now \in Nat
      /\ filter \in FusionOutput /\ filter.imu \in Nat /\ filter.consumed \in Nat
  BY DEF TypeInv, TypeOK, FusionOutput
<1>1. CASE ImuProduce
  <2>1. [n |-> imuCount + 1] \in ImuSample
    BY <1>0 DEF ImuSample
  <2>2. InOrder(Send(imuQueue, ImuQueueLen, [n |-> imuCount + 1]),
                filter.imu, imuCount + 1)
    BY <1>0, <2>1, InOrderSend, SampleNumbers
  <2> QED
    BY <1>0, <1>1, <2>2 DEF ImuProduce, gnssVars, fusionVars
<1>2. CASE GnssProduce
  <2>1. gnssQueue' = Send(gnssQueue, GnssQueueLen, [n |-> gnssCount'])
    BY <1>2 DEF GnssProduce
  <2>2. gnssCount' = gnssCount + 1
    BY <1>2 DEF GnssProduce
  <2>3. [n |-> gnssCount + 1] \in GnssSample
    BY <1>0 DEF GnssSample
  <2>4. InOrder(Send(gnssQueue, GnssQueueLen, [n |-> gnssCount + 1]),
                filter.consumed, gnssCount + 1)
    BY <1>0, <2>3, InOrderSend, SampleNumbers
  <2> QED
    BY <1>0, <1>2, <2>1, <2>2, <2>4 DEF GnssProduce, imuVars, fusionVars
<1>3. CASE FusionReceive
  <2>1. /\ Head(imuQueue).n <= imuCount
        /\ InOrder(Tail(imuQueue), Head(imuQueue).n, imuCount)
    BY <1>0, <1>3, InOrderReceive, SampleNumbers DEF FusionReceive
  <2>2. filter'.imu = Head(imuQueue).n /\ filter'.consumed = filter.consumed
    BY <1>0, <1>3 DEF FusionReceive, Predicted, FusionOutput
  <2> QED
    BY <1>0, <1>3, <2>1, <2>2 DEF FusionReceive, gnssVars
<1>4. CASE FusionDrain
  <2>1. /\ Head(gnssQueue).n <= gnssCount
        /\ InOrder(Tail(gnssQueue), Head(gnssQueue).n, gnssCount)
    BY <1>0, <1>4, InOrderReceive, SampleNumbers DEF FusionDrain
  <2>2. filter'.consumed = Head(gnssQueue).n /\ filter'.imu = filter.imu
    BY <1>0, <1>4 DEF FusionDrain, Updated, FusionOutput
  <2> QED
    BY <1>0, <1>4, <2>1, <2>2 DEF FusionDrain, imuVars
<1>5. CASE UNCHANGED <<imuVars, gnssVars, filter>>
  BY <1>5 DEF imuVars, gnssVars
<1>6. ASSUME Tick \/ FusionDrained \/ FusionPublish \/ FusionPrint \/ FusionNoPrint
             \/ RudderStep \/ PersistReceive \/ UNCHANGED vars
      PROVE  UNCHANGED <<imuVars, gnssVars, filter>>
  BY <1>6 DEF Tick, FusionDrained, FusionPublish, FusionPrint, FusionNoPrint,
     RudderStep, RudderWake, RudderAttitude, RudderRaw, PersistReceive, vars,
     fusionVars
<1> QED
  BY <1>1, <1>2, <1>3, <1>4, <1>5, <1>6 DEF Next, FusionStep

\* No sample is applied twice or out of order, for any queue lengths.
THEOREM SamplesInOrder == Spec => []QueuesInOrder
<1>1. OrderInv => QueuesInOrder
  BY DEF OrderInv
<1> QED
  BY <1>1, TypeInit, TypeStep, OrderInit, OrderStep, PTL DEF Spec

-----------------------------------------------------------------------------
(* The heading published for a sample covers the fixes queued before it. *)

LEMMA LastQueuedFixGrows ==
  ASSUME NEW queue \in Seq(GnssSample), NEW seen \in Nat, NEW produced \in Nat,
         InOrder(queue, seen, produced), queue # <<>>
  PROVE  seen < queue[Len(queue)].n /\ queue[Len(queue)].n <= produced
<1>1. Len(queue) \in 1 .. Len(queue)
  OBVIOUS
<1> QED
  BY <1>1 DEF InOrder

LEMMA LastQueuedFixType == TypeOK => LastQueuedFix \in Nat
<1> SUFFICES ASSUME TypeOK PROVE LastQueuedFix \in Nat
  OBVIOUS
<1>1. filter.consumed \in Nat /\ gnssQueue \in Seq(GnssSample)
  BY DEF TypeOK, FusionOutput
<1>2. CASE gnssQueue = <<>>
  BY <1>1, <1>2 DEF LastQueuedFix
<1>3. CASE gnssQueue # <<>>
  <2>1. gnssQueue[Len(gnssQueue)] \in GnssSample
    BY <1>1, <1>3
  <2> QED
    BY <1>3, <2>1, SampleNumbers DEF LastQueuedFix
<1> QED
  BY <1>2, <1>3

LEMMA DrainInit == Init => DrainInv
BY DEF Init, DrainInv

LEMMA DrainStep == TypeInv /\ OrderInv /\ DrainInv /\ [Next]_vars => DrainInv'
<1> SUFFICES ASSUME TypeInv, OrderInv, DrainInv, [Next]_vars PROVE DrainInv'
  OBVIOUS
<1> USE DEF DrainInv
<1>0. /\ gnssQueue \in Seq(GnssSample) /\ Len(gnssQueue) <= GnssQueueLen
      /\ gnssCount \in Nat /\ now \in Nat /\ due \in Nat
      /\ filter \in FusionOutput /\ filter.consumed \in Nat
      /\ InOrder(gnssQueue, filter.consumed, gnssCount)
      /\ filter.consumed <= gnssCount
  BY DEF TypeInv, TypeOK, FusionOutput, OrderInv, QueuesInOrder, CountsInv
<1>1. CASE GnssProduce
  <2>1. gnssQueue' = Send(gnssQueue, GnssQueueLen, [n |-> gnssCount'])
    BY <1>1 DEF GnssProduce
  <2>2. gnssCount' = gnssCount + 1 /\ UNCHANGED <<fusionPc, due, filter, headingMailbox>>
    BY <1>1 DEF GnssProduce, fusionVars, mailboxes
  <2> DEFINE s == [n |-> gnssCount + 1]
  <2>3. s \in GnssSample /\ s.n = gnssCount + 1
    BY <1>0 DEF GnssSample
  <2> HIDE DEF s
  <2>4. gnssQueue' = gnssQueue \/ gnssQueue' = Append(gnssQueue, s)
    BY <2>1, <2>2 DEF Send, s
  <2>5. CASE gnssQueue' = Append(gnssQueue, s)
    <3>1. gnssQueue' # <<>> /\ gnssQueue'[Len(gnssQueue')] = s
      BY <1>0, <2>3, <2>5
    <3>2. LastQueuedFix <= gnssCount
      BY <1>0, LastQueuedFixGrows DEF LastQueuedFix
    <3>3. LastQueuedFix \in Nat
      BY LastQueuedFixType DEF TypeInv
    <3>4. LastQueuedFix' = gnssCount + 1
      BY <2>3, <3>1 DEF LastQueuedFix
    <3> QED
      BY <1>0, <2>2, <3>2, <3>3, <3>4
  <2>6. CASE gnssQueue' = gnssQueue
    BY <2>2, <2>6 DEF LastQueuedFix
  <2> QED
    BY <2>4, <2>5, <2>6
<1>2. CASE FusionReceive
  <2>1. filter'.consumed = filter.consumed /\ gnssQueue' = gnssQueue
    BY <1>0, <1>2 DEF FusionReceive, Predicted, FusionOutput, gnssVars
  <2>2. LastQueuedFix' = LastQueuedFix /\ due' = LastQueuedFix
    BY <1>2, <2>1 DEF FusionReceive, LastQueuedFix
  <2>3. LastQueuedFix \in Nat
    BY LastQueuedFixType DEF TypeInv
  <2> QED
    BY <1>2, <2>2, <2>3 DEF FusionReceive
<1>3. CASE FusionDrain
  <2>1. filter'.consumed = Head(gnssQueue).n
    BY <1>0, <1>3 DEF FusionDrain, Updated, FusionOutput
  <2>2. LastQueuedFix' = LastQueuedFix
    <3>1. gnssQueue # <<>> /\ gnssQueue' = Tail(gnssQueue)
      BY <1>3 DEF FusionDrain
    <3>2. CASE Tail(gnssQueue) = <<>>
      <4>1. gnssQueue[Len(gnssQueue)] = Head(gnssQueue)
        BY <1>0, <3>1, <3>2, LastAfterReceive
      <4> QED
        BY <2>1, <3>1, <3>2, <4>1 DEF LastQueuedFix
    <3>3. CASE Tail(gnssQueue) # <<>>
      <4>1. Tail(gnssQueue)[Len(Tail(gnssQueue))] = gnssQueue[Len(gnssQueue)]
        BY <1>0, <3>1, <3>3, LastAfterReceive
      <4> QED
        BY <3>1, <3>3, <4>1 DEF LastQueuedFix
    <3> QED
      BY <3>2, <3>3
  <2> QED
    BY <1>3, <2>2 DEF FusionDrain
<1>4. CASE FusionDrained
  <2>1. due <= filter.consumed
    BY <1>4 DEF FusionDrained, LastQueuedFix
  <2> QED
    BY <1>4, <2>1 DEF FusionDrained
<1>5. CASE FusionPublish
  BY <1>5 DEF FusionPublish
<1>6. CASE FusionPrint \/ FusionNoPrint
  BY <1>6 DEF FusionPrint, FusionNoPrint
<1>7. CASE UNCHANGED <<gnssQueue, fusionVars, headingMailbox>>
  BY <1>7 DEF fusionVars, LastQueuedFix
<1>8. ASSUME Tick \/ ImuProduce \/ RudderStep \/ PersistReceive \/ UNCHANGED vars
      PROVE  UNCHANGED <<gnssQueue, fusionVars, headingMailbox>>
  BY <1>8 DEF Tick, ImuProduce, RudderStep, RudderWake, RudderAttitude, RudderRaw,
     PersistReceive, vars, fusionVars, gnssVars, mailboxes
<1> QED
  BY <1>1, <1>2, <1>3, <1>4, <1>5, <1>6, <1>7, <1>8 DEF Next, FusionStep

\* A published heading takes in every fix queued before its IMU sample was
\* received, for any queue lengths and any interleaving.
THEOREM PublishedCovers == Spec => []PublishedCoversQueuedFixes
<1>1. DrainInv => PublishedCoversQueuedFixes
  BY DEF DrainInv, PublishedCoversQueuedFixes
<1> QED
  BY <1>1, TypeInit, TypeStep, OrderInit, OrderStep, DrainInit, DrainStep, PTL
  DEF Spec

-----------------------------------------------------------------------------
(* The rudder link: the two frames of a tick agree, the counter counts.    *)

LEMMA RudderInit == Init => RudderInv
BY DEF Init, RudderInv

LEMMA RudderStepInv == TypeInv /\ RudderInv /\ [Next]_vars => RudderInv'
<1> SUFFICES ASSUME TypeInv, RudderInv, [Next]_vars PROVE RudderInv'
  OBVIOUS
<1> USE DEF RudderInv
<1>0. /\ wire \in Seq(Frame) /\ Len(wire) <= 2
      /\ rudderSeq \in 0 .. SeqModulus - 1
      /\ rudderPc = "raw" => Len(wire) = 1
      /\ held \in FusionOutput
  BY DEF TypeInv, TypeOK, OneFrameWritten
<1>1. CASE RudderWake
  BY <1>1 DEF RudderWake
<1>2. CASE RudderAttitude
  BY <1>2 DEF RudderAttitude, NextFrame, BumpSeq
<1>3. CASE RudderRaw
  <2>1. /\ Len(wire) = 1 /\ wire[1].out = held
        /\ wire' = Append(wire, NextFrame("RawAttitude", held))
        /\ rudderSeq' = (rudderSeq + 1) % SeqModulus /\ rudderPc' = "delay"
    BY <1>0, <1>3 DEF RudderRaw, BumpSeq
  <2>2. NextFrame("RawAttitude", held) \in Frame
    BY <1>0 DEF NextFrame, Frame
  <2>3. /\ Len(wire') = 2 /\ wire'[1] = wire[1] /\ wire' # <<>>
        /\ wire'[2] = NextFrame("RawAttitude", held)
    BY <1>0, <2>1, <2>2, SecondFrame
  <2>4. wire'[2].out = held /\ wire'[2].seq = rudderSeq
    BY <2>3 DEF NextFrame
  <2> QED
    BY <2>1, <2>3, <2>4
<1>4. CASE UNCHANGED rudderVars
  BY <1>4 DEF rudderVars
<1>5. ASSUME Tick \/ ImuProduce \/ GnssProduce \/ FusionStep \/ PersistReceive
             \/ UNCHANGED vars
      PROVE  UNCHANGED rudderVars
  BY <1>5 DEF Tick, ImuProduce, GnssProduce, FusionStep, FusionReceive,
     FusionDrain, FusionDrained, FusionPublish, FusionPrint, FusionNoPrint,
     PersistReceive, vars
<1> QED
  BY <1>1, <1>2, <1>3, <1>4, <1>5 DEF Next, RudderStep

\* The Attitude and RawAttitude frames of one tick carry the same output,
\* whatever the fusion task writes to the mailbox between them.
THEOREM RudderTicksConsistent == Spec => []RudderTickConsistent
<1>1. RudderInv => RudderTickConsistent
  BY DEF RudderInv, RudderTickConsistent
<1> QED
  BY <1>1, TypeInit, TypeStep, RudderInit, RudderStepInv, PTL DEF Spec

\* Each frame carries the successor of the previous frame's number, so the
\* receiver's drop count is exact up to whole turns of the counter.
THEOREM SeqCounts == Spec => SeqCountsFrames
<1>1. ASSUME TypeInv, RudderInv, [Next]_vars
      PROVE  [wire # <<>> => wire'[Len(wire')].seq
                               = (wire[Len(wire)].seq + 1) % SeqModulus]_wire
  <2>0. wire \in Seq(Frame) /\ held \in FusionOutput /\ rudderSeq \in Nat
    BY <1>1 DEF TypeInv, TypeOK
  <2>1. CASE RudderAttitude
    BY <1>1, <2>1 DEF RudderAttitude, NextFrame, RudderInv
  <2>2. CASE RudderRaw
    <3>1. /\ Len(wire) = 1 /\ wire # <<>>
          /\ wire' = Append(wire, NextFrame("RawAttitude", held))
          /\ rudderSeq = (wire[Len(wire)].seq + 1) % SeqModulus
      BY <1>1, <2>2 DEF RudderRaw, TypeInv, OneFrameWritten, RudderInv
    <3>2. NextFrame("RawAttitude", held) \in Frame
      BY <2>0, <1>1 DEF NextFrame, Frame
    <3>3. Len(wire') = 2 /\ wire'[2] = NextFrame("RawAttitude", held)
      BY <2>0, <3>1, <3>2, SecondFrame
    <3> QED
      BY <3>1, <3>3 DEF NextFrame
  <2>3. ASSUME ~RudderAttitude, ~RudderRaw PROVE UNCHANGED wire
    BY <1>1, <2>3 DEF Next, Tick, ImuProduce, GnssProduce, FusionStep,
       FusionReceive, FusionDrain, FusionDrained, FusionPublish, FusionPrint,
       FusionNoPrint, RudderStep, RudderWake, PersistReceive, vars, rudderVars
  <2> QED
    BY <2>1, <2>2, <2>3
<1> QED
  BY <1>1, TypeInit, TypeStep, RudderInit, RudderStepInv, PTL
  DEF Spec, SeqCountsFrames

-----------------------------------------------------------------------------
(* The heading path: filter, mailbox, held copy and wire, newest first.    *)

LEMMA HeadingPathInit == Init => HeadingPathInv
BY DEF Init, HeadingPathInv, FreshFilter

LEMMA HeadingPathStep ==
  TypeInv /\ OrderInv /\ HeadingPathInv /\ [Next]_vars => HeadingPathInv'
<1> SUFFICES ASSUME TypeInv, OrderInv, HeadingPathInv, [Next]_vars
             PROVE  HeadingPathInv'
  OBVIOUS
<1> USE DEF HeadingPathInv
<1>0. /\ filter \in FusionOutput /\ filter.imu \in Nat
      /\ imuQueue \in Seq(ImuSample) /\ gnssQueue \in Seq(GnssSample)
      /\ headingMailbox \in Seq(FusionOutput) /\ Len(headingMailbox) <= 1
      /\ held \in FusionOutput /\ held.imu \in Nat
      /\ wire \in Seq(Frame)
      /\ rudderPc = "raw" => Len(wire) = 1
      /\ imuCount \in Nat /\ InOrder(imuQueue, filter.imu, imuCount)
  BY DEF TypeInv, TypeOK, OneFrameWritten, FusionOutput, OrderInv, QueuesInOrder
<1>m. ASSUME headingMailbox # <<>>
      PROVE  headingMailbox[1] \in FusionOutput /\ headingMailbox[1].imu \in Nat
  <2>1. headingMailbox[1] \in FusionOutput
    BY <1>0, <1>m
  <2> QED
    BY <2>1 DEF FusionOutput
<1>w. ASSUME wire # <<>>
      PROVE  wire[Len(wire)].out.imu \in Nat
  <2>1. wire[Len(wire)] \in Frame
    BY <1>0, <1>w
  <2> QED
    BY <2>1 DEF Frame, FusionOutput
<1>1. CASE FusionReceive
  <2>1. filter.imu < Head(imuQueue).n /\ Head(imuQueue) \in ImuSample
    BY <1>0, <1>1, InOrderReceive, ReceiveProperties, SampleNumbers DEF FusionReceive
  <2>2. filter'.imu = Head(imuQueue).n
    BY <1>0, <1>1 DEF FusionReceive, Predicted, FusionOutput
  <2>3. filter.imu <= filter'.imu /\ filter'.imu \in Nat
    BY <1>0, <2>1, <2>2 DEF ImuSample
  <2>4. UNCHANGED <<headingMailbox, held, wire>>
    BY <1>1 DEF FusionReceive, mailboxes, rudderVars
  <2> QED
    BY <1>0, <1>m, <2>3, <2>4
<1>2. CASE FusionDrain
  <2>1. filter'.imu = filter.imu
    BY <1>0, <1>2 DEF FusionDrain, Updated, FusionOutput
  <2> QED
    BY <1>2, <2>1 DEF FusionDrain, mailboxes, rudderVars
<1>3. CASE FusionPublish
  <2>1. held.imu <= filter.imu
    <3>1. CASE headingMailbox = <<>>
      BY <1>0, <3>1
    <3>2. CASE headingMailbox # <<>>
      BY <1>0, <1>m, <3>2
    <3> QED
      BY <3>1, <3>2
  <2> QED
    BY <1>0, <1>3, <2>1 DEF FusionPublish, rudderVars
<1>4. CASE RudderWake
  <2>1. CASE headingMailbox = <<>>
    BY <1>4, <2>1 DEF RudderWake, fusionVars, mailboxes
  <2>2. CASE headingMailbox # <<>>
    <3>1. held' = headingMailbox[1] /\ headingMailbox[1] \in FusionOutput
      BY <1>0, <1>4, <2>2 DEF RudderWake
    <3>2. UNCHANGED <<filter, headingMailbox, wire>>
      BY <1>4 DEF RudderWake, fusionVars, mailboxes
    <3>3. held.imu <= held'.imu /\ held'.imu <= filter.imu
      BY <2>2, <3>1
    <3>4. wire # <<>> => wire[Len(wire)].out.imu <= held'.imu
      <4> HIDE DEF FusionOutput
      <4> SUFFICES ASSUME wire # <<>>
                   PROVE  wire[Len(wire)].out.imu <= held'.imu
        OBVIOUS
      <4>1. /\ wire[Len(wire)].out.imu \in Nat
            /\ wire[Len(wire)].out.imu <= held.imu
        BY <1>w
      <4>2. held'.imu \in Nat
        BY <1>m, <2>2, <3>1
      <4> QED
        BY <1>0, <3>3, <4>1, <4>2
    <3>5. headingMailbox' # <<>> => held'.imu <= headingMailbox'[1].imu
                                    /\ headingMailbox'[1].imu <= filter'.imu
      BY <1>0, <1>m, <2>2, <3>1, <3>2
    <3> QED
      BY <2>2, <3>2, <3>4, <3>5
  <2> QED
    BY <2>1, <2>2
<1>5. CASE RudderAttitude
  <2>1. UNCHANGED <<filter, headingMailbox, held>>
    BY <1>5 DEF RudderAttitude, fusionVars, mailboxes
  <2>2. wire' # <<>> /\ wire'[Len(wire')].out = held
    BY <1>5 DEF RudderAttitude, NextFrame
  <2> QED
    BY <1>0, <2>1, <2>2
<1>6. CASE RudderRaw
  <2>1. UNCHANGED <<filter, headingMailbox, held>>
    BY <1>6 DEF RudderRaw, fusionVars, mailboxes
  <2>2. NextFrame("RawAttitude", held) \in Frame
    BY <1>0 DEF NextFrame, Frame, TypeInv, TypeOK
  <2>3. Len(wire') = 2 /\ wire'[2] = NextFrame("RawAttitude", held)
    BY <1>0, <1>6, <2>2, SecondFrame DEF RudderRaw
  <2>4. wire'[Len(wire')].out = held
    BY <2>3 DEF NextFrame
  <2> QED
    BY <1>0, <2>1, <2>4
<1>7. CASE UNCHANGED <<filter, headingMailbox, held, wire>>
  BY <1>7
<1>8. ASSUME Tick \/ ImuProduce \/ GnssProduce \/ FusionDrained \/ FusionPrint
             \/ FusionNoPrint \/ PersistReceive \/ UNCHANGED vars
      PROVE  UNCHANGED <<filter, headingMailbox, held, wire>>
  BY <1>8 DEF Tick, ImuProduce, GnssProduce, FusionDrained, FusionPrint,
     FusionNoPrint, PersistReceive, vars, fusionVars, mailboxes, rudderVars
<1> QED
  BY <1>1, <1>2, <1>3, <1>4, <1>5, <1>6, <1>7, <1>8
  DEF Next, FusionStep, RudderStep

\* The rudder link never goes back to an older IMU sample.
THEOREM RudderMonotone == Spec => RudderNeverRegresses
<1>1. ASSUME TypeInv, HeadingPathInv, [Next]_vars
      PROVE  [wire # <<>> /\ wire' # <<>>
               => wire[Len(wire)].out.imu <= wire'[Len(wire')].out.imu]_wire
  <2>0. wire \in Seq(Frame) /\ held \in FusionOutput
    BY <1>1 DEF TypeInv, TypeOK
  <2>1. CASE RudderAttitude
    BY <1>1, <2>1 DEF RudderAttitude, NextFrame, HeadingPathInv
  <2>2. CASE RudderRaw
    <3>1. /\ Len(wire) = 1
          /\ wire' = Append(wire, NextFrame("RawAttitude", held))
          /\ wire # <<>> => wire[Len(wire)].out.imu <= held.imu
      BY <1>1, <2>2 DEF RudderRaw, TypeInv, OneFrameWritten, HeadingPathInv
    <3>2. NextFrame("RawAttitude", held) \in Frame
      BY <2>0, <1>1 DEF NextFrame, Frame, TypeInv, TypeOK
    <3>3. Len(wire') = 2 /\ wire'[2] = NextFrame("RawAttitude", held)
      BY <2>0, <3>1, <3>2, SecondFrame
    <3> QED
      BY <3>1, <3>3 DEF NextFrame
  <2>3. ASSUME ~RudderAttitude, ~RudderRaw PROVE UNCHANGED wire
    BY <1>1, <2>3 DEF Next, Tick, ImuProduce, GnssProduce, FusionStep,
       FusionReceive, FusionDrain, FusionDrained, FusionPublish, FusionPrint,
       FusionNoPrint, RudderStep, RudderWake, PersistReceive, vars, rudderVars
  <2> QED
    BY <2>1, <2>2, <2>3
<1> QED
  BY <1>1, TypeInit, TypeStep, OrderInit, OrderStep, HeadingPathInit,
     HeadingPathStep, PTL
  DEF Spec, RudderNeverRegresses

-----------------------------------------------------------------------------
(* The offset path: printed, offered in the mailbox, taken.                *)

LEMMA OffsetPathInit == Init => OffsetPathInv
BY DEF Init, OffsetPathInv, FreshFilter

LEMMA OffsetPathStep ==
  TypeInv /\ OrderInv /\ OffsetPathInv /\ [Next]_vars => OffsetPathInv'
<1> SUFFICES ASSUME TypeInv, OrderInv, OffsetPathInv, [Next]_vars
             PROVE  OffsetPathInv'
  OBVIOUS
<1> USE DEF OffsetPathInv
<1>0. /\ filter \in FusionOutput /\ filter.imu \in Nat
      /\ imuQueue \in Seq(ImuSample) /\ gnssQueue \in Seq(GnssSample)
      /\ offsetMailbox \in Seq(Nat) /\ Len(offsetMailbox) <= 1
      /\ printed \in Nat /\ persistTaken \in Nat
      /\ imuCount \in Nat /\ InOrder(imuQueue, filter.imu, imuCount)
  BY DEF TypeInv, TypeOK, FusionOutput, OrderInv, QueuesInOrder
<1>1. CASE FusionReceive
  <2>1. filter.imu < Head(imuQueue).n /\ Head(imuQueue) \in ImuSample
    BY <1>0, <1>1, InOrderReceive, ReceiveProperties, SampleNumbers DEF FusionReceive
  <2>2. filter'.imu = Head(imuQueue).n
    BY <1>0, <1>1 DEF FusionReceive, Predicted, FusionOutput
  <2>3. filter.imu < filter'.imu /\ filter'.imu \in Nat
    BY <1>0, <2>1, <2>2 DEF ImuSample
  <2>4. /\ UNCHANGED <<offsetMailbox, printed, persistTaken>>
        /\ fusionPc = "receive" /\ fusionPc' = "drain"
    BY <1>1 DEF FusionReceive, mailboxes
  <2> QED
    BY <1>0, <2>3, <2>4
<1>2. CASE FusionDrain
  <2>1. filter'.imu = filter.imu
    BY <1>0, <1>2 DEF FusionDrain, Updated, FusionOutput
  <2> QED
    BY <1>2, <2>1 DEF FusionDrain, mailboxes
<1>3. CASE FusionDrained \/ FusionPublish
  BY <1>3 DEF FusionDrained, FusionPublish, mailboxes
<1>4. CASE FusionPrint
  BY <1>0, <1>4 DEF FusionPrint
<1>5. CASE FusionNoPrint
  BY <1>0, <1>5 DEF FusionNoPrint, mailboxes
<1>6. CASE PersistReceive
  BY <1>0, <1>6 DEF PersistReceive, fusionVars
<1>7. CASE UNCHANGED <<fusionVars, offsetMailbox, persistTaken>>
  BY <1>7 DEF fusionVars
<1>8. ASSUME Tick \/ ImuProduce \/ GnssProduce \/ RudderStep \/ UNCHANGED vars
      PROVE  UNCHANGED <<fusionVars, offsetMailbox, persistTaken>>
  BY <1>8 DEF Tick, ImuProduce, GnssProduce, RudderStep, RudderWake,
     RudderAttitude, RudderRaw, vars, mailboxes
<1> QED
  BY <1>1, <1>2, <1>3, <1>4, <1>5, <1>6, <1>7, <1>8 DEF Next, FusionStep

\* The persist task sees the offset of the last F line, never a backlog and
\* never the same offset twice.
THEOREM PersistSeesLatest == Spec => PersistTakesLatest
<1>1. ASSUME TypeInv, OffsetPathInv, [Next]_vars
      PROVE  [offsetMailbox' = <<>>
               => persistTaken' = printed /\ persistTaken' > persistTaken]_offsetMailbox
  <2>0. /\ offsetMailbox \in Seq(Nat) /\ filter.imu \in Nat
        /\ printed \in Nat /\ persistTaken \in Nat
    BY <1>1 DEF TypeInv, TypeOK, FusionOutput
  <2>1. CASE FusionPrint
    <3>1. offsetMailbox' = <<filter.imu>>
      BY <2>1 DEF FusionPrint
    <3> QED
      BY <3>1
  <2>2. CASE PersistReceive
    BY <1>1, <2>0, <2>2 DEF PersistReceive, OffsetPathInv
  <2>3. ASSUME ~FusionPrint, ~PersistReceive PROVE UNCHANGED offsetMailbox
    BY <1>1, <2>3 DEF Next, Tick, ImuProduce, GnssProduce, FusionStep,
       FusionReceive, FusionDrain, FusionDrained, FusionPublish, FusionNoPrint,
       RudderStep, RudderWake, RudderAttitude, RudderRaw, vars, mailboxes
  <2> QED
    BY <2>1, <2>2, <2>3
<1> QED
  BY <1>1, TypeInit, TypeStep, OrderInit, OrderStep, OffsetPathInit,
     OffsetPathStep, PTL
  DEF Spec, PersistTakesLatest

-----------------------------------------------------------------------------
(* The telemetry throttle. *)

\* A line is printed only once its deadline passed, and moves it one interval.
BudgetInv ==
  nextPrint = lines * TelemetryInterval /\ nextPrint <= now + TelemetryInterval

LEMMA BudgetStep == TypeInv /\ BudgetInv /\ [Next]_vars => BudgetInv'
<1> SUFFICES ASSUME TypeInv, BudgetInv, [Next]_vars PROVE BudgetInv'
  OBVIOUS
<1> USE DEF BudgetInv
<1>0. now \in Nat /\ nextPrint \in Nat /\ lines \in Nat /\ TelemetryInterval \in Nat
  BY IntervalAssumption DEF TypeInv, TypeOK
<1>1. CASE FusionPrint
  BY <1>0, <1>1 DEF FusionPrint
<1>2. CASE Tick
  BY <1>0, <1>2 DEF Tick, fusionVars
<1>3. ASSUME ~FusionPrint, ~Tick PROVE UNCHANGED <<now, nextPrint, lines>>
  BY <1>3 DEF Next, ImuProduce, GnssProduce, FusionStep, FusionReceive,
     FusionDrain, FusionDrained, FusionPublish, FusionNoPrint, RudderStep,
     RudderWake, RudderAttitude, RudderRaw, PersistReceive, vars, fusionVars
<1> QED
  BY <1>1, <1>2, <1>3

\* At no time has the task printed more than one line per elapsed interval,
\* plus one, whatever stalls and bursts the queues caused.
THEOREM TelemetryThrottled == Spec => []TelemetryBudget
<1>1. Init => BudgetInv
  BY IntervalAssumption DEF Init, BudgetInv
<1>2. BudgetInv => TelemetryBudget
  BY DEF BudgetInv, TelemetryBudget
<1> QED
  BY <1>1, <1>2, TypeInit, TypeStep, BudgetStep, PTL DEF Spec
=============================================================================
