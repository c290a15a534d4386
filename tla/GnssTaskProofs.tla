---------------------------- MODULE GnssTaskProofs ----------------------------
(***************************************************************************)
(* Proofs about GnssTask for every bound on its faults, its epochs and its *)
(* line: what a late reply can cost in bring-up, that it is sound without  *)
(* one, and that blocks of one epoch are paired, whatever is lost.         *)
(***************************************************************************)
EXTENDS GnssTask, TLAPS

Block   == Att \cup Cov
Message == Reply \cup Block

-----------------------------------------------------------------------------
(* What a read and a loss do to the line: messages leave it, the others    *)
(* keep their order.                                                       *)

\* f tells where a message that is left on the line was before the step.
Thins(f) ==
  /\ messages' \in Seq(Message)
  /\ f \in [DOMAIN messages' -> DOMAIN messages]
  /\ \A i \in DOMAIN messages' : messages'[i] = messages[f[i]]
  /\ \A i, j \in DOMAIN messages' : i < j => f[i] < f[j]

LEMMA ReadThins ==
  ASSUME messages \in Seq(Message), messages # <<>>, messages' = Tail(messages)
  PROVE  /\ \E f : Thins(f)
         /\ \A i \in DOMAIN messages' :
              i + 1 \in DOMAIN messages /\ messages'[i] = messages[i + 1]
         /\ 1 \in DOMAIN messages /\ Head(messages) = messages[1]
         /\ messages[1] \in Message
<1> DEFINE f == [i \in DOMAIN messages' |-> i + 1]
<1>1. messages' \in Seq(Message) /\ Len(messages') = Len(messages) - 1
  OBVIOUS
<1>2. \A i \in DOMAIN messages' :
        i + 1 \in DOMAIN messages /\ messages'[i] = messages[i + 1]
  OBVIOUS
<1>3. Thins(f)
  BY <1>1, <1>2 DEF Thins
<1>4. 1 \in DOMAIN messages /\ Head(messages) = messages[1] /\ messages[1] \in Message
  OBVIOUS
<1> QED
  BY <1>2, <1>3, <1>4

LEMMA LossThins ==
  ASSUME messages \in Seq(Message), NEW k \in DOMAIN messages,
         messages' = RemoveAt(messages, k)
  PROVE  \E f : Thins(f)
<1> DEFINE f == [i \in DOMAIN messages' |-> IF i < k THEN i ELSE i + 1]
           before == SubSeq(messages, 1, k - 1)
           after  == SubSeq(messages, k + 1, Len(messages))
<1>1. k \in 1 .. Len(messages) /\ Len(messages) \in Nat
  OBVIOUS
<1>2. /\ before \in Seq(Message) /\ Len(before) = k - 1
      /\ \A i \in 1 .. k - 1 : before[i] = messages[i]
  BY <1>1
<1>3. /\ after \in Seq(Message) /\ Len(after) = Len(messages) - k
      /\ \A i \in 1 .. Len(messages) - k : after[i] = messages[k + i]
  BY <1>1
<1>4. messages' = before \o after
  BY DEF RemoveAt
<1> HIDE DEF before, after
<1>5. /\ messages' \in Seq(Message) /\ Len(messages') = Len(messages) - 1
      /\ \A i \in 1 .. Len(messages) - 1 :
           messages'[i] = IF i < k THEN before[i] ELSE after[i - k + 1]
  BY <1>1, <1>2, <1>3, <1>4, SMTT(30)
<1>6. DOMAIN messages' = 1 .. Len(messages) - 1 /\ DOMAIN messages = 1 .. Len(messages)
  BY <1>1, <1>5
<1>7. \A i \in DOMAIN messages' : f[i] = IF i < k THEN i ELSE i + 1
  OBVIOUS
<1>8. ASSUME NEW i \in DOMAIN messages'
      PROVE  f[i] \in DOMAIN messages /\ messages'[i] = messages[f[i]]
  <2>1. CASE i < k
    BY <1>1, <1>2, <1>5, <1>6, <1>7, <2>1
  <2>2. CASE ~(i < k)
    <3>1. f[i] = i + 1 /\ i - k + 1 \in 1 .. Len(messages) - k /\ k + (i - k + 1) = i + 1
      BY <1>1, <1>6, <1>7, <2>2
    <3>2. messages'[i] = after[i - k + 1] /\ after[i - k + 1] = messages[k + (i - k + 1)]
      BY <1>3, <1>5, <1>6, <2>2, <3>1
    <3> QED
      BY <1>1, <1>6, <3>1, <3>2
  <2> QED
    BY <2>1, <2>2
<1>9. \A i, j \in DOMAIN messages' : i < j => f[i] < f[j]
  BY <1>1, <1>6, <1>7
<1>10. f \in [DOMAIN messages' -> DOMAIN messages]
  BY <1>8
<1> HIDE DEF f
<1>11. Thins(f)
  BY <1>5, <1>8, <1>9, <1>10 DEF Thins
<1> QED
  BY <1>11

-----------------------------------------------------------------------------
(* Bring-up: why the task starts reading only from a configured receiver.  *)

TypeInv ==
  /\ messages \in Seq(Message)
  /\ commands \in Seq({"setGNSSAttitude", "setSBFOutput"})
  /\ step \in {1, 2}
  /\ epoch \in Nat
  /\ faults \in [DOMAIN FaultBound -> Nat]

Quiet == \A i \in DOMAIN messages : messages[i].type # "reply"

\* What an acknowledgement of the command means: the receiver took it.
Took(command) ==
  IF command = "setGNSSAttitude" THEN attitudeOn = TRUE ELSE outputOn = TRUE

\* One command or its only reply is underway.
OneUnderway ==
  \/ commands = <<BringUp[step]>> /\ Quiet
  \/ /\ commands = <<>>
     /\ \A i, j \in DOMAIN messages :
          messages[i].type = "reply" /\ messages[j].type = "reply" => i = j
     /\ \A i \in DOMAIN messages :
          messages[i].type = "reply" /\ messages[i].ok = TRUE => Took(BringUp[step])

\* A reply answers the command the task waits for only because nothing else is
\* ever underway, which a late reply or a restart would break.
BringUpInv ==
  faults.late = 0 /\ faults.restarts = 0 =>
    /\ IF pc = "wait" THEN OneUnderway ELSE commands = <<>> /\ Quiet
    /\ step = 2 => Took(BringUp[1])
    /\ pc = "run" => Took(BringUp[1]) /\ Took(BringUp[2])

LEMMA FaultFacts ==
  ASSUME faults \in [DOMAIN FaultBound -> Nat], NEW kind \in DOMAIN FaultBound,
         Fault(kind)
  PROVE  /\ faults' \in [DOMAIN FaultBound -> Nat]
         /\ faults'[kind] # 0
         /\ \A k \in DOMAIN FaultBound : faults'[k] = 0 => faults[k] = 0
BY DEF Fault

LEMMA FaultKinds == DOMAIN FaultBound = {"lost", "late", "rejected", "restarts"}
BY DEF FaultBound

LEMMA BringUpInit == Init => TypeInv /\ BringUpInv
<1> SUFFICES ASSUME Init PROVE TypeInv /\ BringUpInv
  OBVIOUS
<1>1. pc = "send" /\ step = 1 /\ commands = <<>> /\ messages = <<>> /\ epoch = 0
      /\ faults = [kind \in DOMAIN FaultBound |-> 0]
  BY Zenon DEF Init
<1>2. TypeInv
  BY <1>1, FaultKinds DEF TypeInv
<1>3. Quiet
  BY <1>1 DEF Quiet
<1> QED
  BY <1>1, <1>2, <1>3 DEF BringUpInv

\* Losing or dropping blocks and replies keeps what is underway.
LEMMA ThinsKeepUnderway ==
  ASSUME NEW f, Thins(f), UNCHANGED <<step, attitudeOn, outputOn>>
  PROVE  /\ Quiet => Quiet'
         /\ OneUnderway /\ UNCHANGED commands => OneUnderway'
<1>1. \A i \in DOMAIN messages' : f[i] \in DOMAIN messages /\ messages'[i] = messages[f[i]]
  BY DEF Thins
<1>2. \A i, j \in DOMAIN messages' : f[i] = f[j] => i = j
  <2> SUFFICES ASSUME NEW i \in DOMAIN messages', NEW j \in DOMAIN messages', f[i] = f[j]
               PROVE  i = j
    OBVIOUS
  <2>1. i \in Nat /\ j \in Nat /\ f[i] \in Nat /\ f[j] \in Nat
    BY DEF Thins
  <2>2. ~(i < j) /\ ~(j < i)
    BY <2>1 DEF Thins
  <2> QED
    BY <2>1, <2>2
<1>3. Quiet => Quiet'
  BY <1>1 DEF Quiet
<1>4. Took(BringUp[step]) => Took(BringUp[step])'
  <2>1. Took(BringUp[step]) => (attitudeOn = TRUE /\ BringUp[step] = "setGNSSAttitude")
                               \/ (outputOn = TRUE /\ BringUp[step] # "setGNSSAttitude")
    BY DEF Took
  <2>2. BringUp[step]' = BringUp[step] /\ attitudeOn' = attitudeOn /\ outputOn' = outputOn
    BY DEF BringUp
  <2> QED
    BY <2>1, <2>2 DEF Took
<1>5. ASSUME OneUnderway, UNCHANGED commands
      PROVE  OneUnderway'
  <2>1. CASE commands = <<BringUp[step]>> /\ Quiet
    BY <1>3, <1>5, <2>1 DEF OneUnderway, BringUp
  <2>2. CASE /\ commands = <<>>
             /\ \A i, j \in DOMAIN messages :
                  messages[i].type = "reply" /\ messages[j].type = "reply" => i = j
             /\ \A i \in DOMAIN messages :
                  messages[i].type = "reply" /\ messages[i].ok = TRUE => Took(BringUp[step])
    <3>1. commands' = <<>>
      BY <1>5, <2>2
    <3>2. \A i, j \in DOMAIN messages' :
            messages'[i].type = "reply" /\ messages'[j].type = "reply" => i = j
      BY <1>1, <1>2, <2>2
    <3>3. \A i \in DOMAIN messages' :
            messages'[i].type = "reply" /\ messages'[i].ok = TRUE => Took(BringUp[step])'
      BY <1>1, <1>4, <2>2
    <3> QED
      BY <3>1, <3>2, <3>3 DEF OneUnderway
  <2> QED
    BY <1>5, <2>1, <2>2 DEF OneUnderway
<1> QED
  BY <1>3, <1>5

LEMMA EmitLine ==
  ASSUME TypeInv, ReceiverEmit
  PROVE  \E a \in Att, c \in Cov :
           /\ messages' = messages \o <<a, c>>
           /\ a.type = "att" /\ c.type = "cov"
           /\ a.epoch = epoch + 1 /\ c.epoch = epoch + 1 /\ c.tow = a.tow
           /\ a.tow \in {epoch + 1, DoNotUse}
           /\ a.fixed = TRUE => a.tow = epoch + 1
<1>1. epoch' = epoch + 1 /\ epoch' \in Nat
  BY DEF ReceiverEmit, TypeInv
<1>2. PICK fixed \in IF attitudeOn /\ knowsTime THEN BOOLEAN ELSE {FALSE} :
        messages' = messages
          \o << [type |-> "att", epoch |-> epoch', tow |-> Tow, fixed |-> fixed],
                [type |-> "cov", epoch |-> epoch', tow |-> Tow] >>
  BY DEF ReceiverEmit
<1>3. fixed \in BOOLEAN /\ (fixed = TRUE => knowsTime)
  BY <1>2, Zenon
<1>4. Tow \in {epoch', DoNotUse} /\ (knowsTime => Tow = epoch')
  BY Zenon DEF Tow
<1>5. Tow \in Nat \cup {DoNotUse}
  BY <1>1, <1>4
<1> HIDE DEF Tow
<1> DEFINE a == [type |-> "att", epoch |-> epoch', tow |-> Tow, fixed |-> fixed]
           c == [type |-> "cov", epoch |-> epoch', tow |-> Tow]
<1>6. a \in Att /\ c \in Cov
  BY <1>1, <1>3, <1>5 DEF Att, Cov
<1>7. /\ a.type = "att" /\ c.type = "cov" /\ a.epoch = epoch' /\ c.epoch = epoch'
      /\ c.tow = a.tow /\ a.tow = Tow /\ a.fixed = fixed
  OBVIOUS
<1>8. messages' = messages \o <<a, c>>
  BY <1>2
<1> HIDE DEF a, c
<1>9. a.fixed = TRUE => a.tow = epoch'
  BY <1>3, <1>4, <1>7, Zenon
<1> QED
  BY <1>1, <1>4, <1>6, <1>7, <1>8, <1>9

LEMMA TypeStep == TypeInv /\ [Next]_vars => TypeInv'
<1> SUFFICES ASSUME TypeInv, [Next]_vars PROVE TypeInv'
  OBVIOUS
<1> USE DEF TypeInv
<1>1. CASE SendCommand
  <2>1. BringUp[step] \in {"setGNSSAttitude", "setSBFOutput"}
    BY DEF BringUp
  <2> QED
    BY <1>1, <2>1 DEF SendCommand, receiver
<1>2. CASE WaitReadBlock
  BY <1>2, ReadThins DEF WaitReadBlock, Thins, task, receiver
<1>3. CASE WaitReadReply
  <2>1. messages' \in Seq(Message)
    BY <1>3, ReadThins DEF WaitReadReply, Thins
  <2>2. step' \in {1, 2}
    BY <1>3 DEF WaitReadReply, BringUp
  <2> QED
    BY <1>3, <2>1, <2>2 DEF WaitReadReply, receiver
<1>4. CASE WaitTimeout
  <2>1. faults' \in [DOMAIN FaultBound -> Nat]
    BY <1>4, FaultKinds, FaultFacts DEF WaitTimeout
  <2> QED
    BY <1>4, <2>1 DEF WaitTimeout, receiver
<1>5. CASE Retry
  BY <1>5 DEF Retry, receiver
<1>6. CASE RunReadReply
  BY <1>6, ReadThins DEF RunReadReply, Thins, task, receiver
<1>7. CASE RunReadAtt
  BY <1>7, ReadThins DEF RunReadAtt, Thins, receiver
<1>8. CASE RunReadCov
  BY <1>8, ReadThins DEF RunReadCov, Thins, receiver
<1>9. CASE ReceiverAccept
  <2>1. [type |-> "reply", ok |-> TRUE] \in Message
    BY DEF Message, Reply
  <2> QED
    BY <1>9, <2>1 DEF ReceiverAccept, task
<1>10. CASE ReceiverReject
  <2>1. [type |-> "reply", ok |-> FALSE] \in Message
    BY DEF Message, Reply
  <2>2. faults' \in [DOMAIN FaultBound -> Nat]
    BY <1>10, FaultKinds, FaultFacts DEF ReceiverReject
  <2> QED
    BY <1>10, <2>1, <2>2 DEF ReceiverReject, task, receiver
<1>11. CASE ReceiverEmit
  <2>1. PICK a \in Att, c \in Cov : messages' = messages \o <<a, c>>
    BY <1>11, EmitLine
  <2>2. a \in Message /\ c \in Message
    BY DEF Message, Block
  <2>3. messages' \in Seq(Message)
    BY <2>1, <2>2
  <2> QED
    BY <1>11, <2>3 DEF ReceiverEmit, task
<1>12. CASE ReceiverLearnsTime
  BY <1>12 DEF ReceiverLearnsTime, task
<1>13. CASE ReceiverRestart
  <2>1. faults' \in [DOMAIN FaultBound -> Nat]
    BY <1>13, FaultKinds, FaultFacts DEF ReceiverRestart
  <2> QED
    BY <1>13, <2>1 DEF ReceiverRestart, task
<1>14. CASE LoseCommand
  <2>1. faults' \in [DOMAIN FaultBound -> Nat]
    BY <1>14, FaultKinds, FaultFacts DEF LoseCommand
  <2> QED
    BY <1>14, <2>1 DEF LoseCommand, task, receiver
<1>15. CASE LoseMessage
  <2>1. faults' \in [DOMAIN FaultBound -> Nat]
    BY <1>15, FaultKinds, FaultFacts DEF LoseMessage
  <2>2. messages' \in Seq(Message)
    BY <1>15, LossThins DEF LoseMessage, Thins
  <2> QED
    BY <1>15, <2>1, <2>2 DEF LoseMessage, task, receiver
<1>16. CASE UNCHANGED vars
  BY <1>16 DEF vars, task, receiver
<1> QED
  BY <1>1, <1>2, <1>3, <1>4, <1>5, <1>6, <1>7, <1>8, <1>9, <1>10, <1>11, <1>12,
     <1>13, <1>14, <1>15, <1>16 DEF Next, TaskStep, ReceiverStep

LEMMA BringUpInvStep == TypeInv /\ BringUpInv /\ [Next]_vars => BringUpInv'
<1> SUFFICES ASSUME TypeInv, BringUpInv, [Next]_vars,
                    faults'.late = 0, faults'.restarts = 0
             PROVE  /\ IF pc' = "wait" THEN OneUnderway' ELSE commands' = <<>> /\ Quiet'
                    /\ step' = 2 => Took(BringUp[1])'
                    /\ pc' = "run" => Took(BringUp[1])' /\ Took(BringUp[2])'
  BY DEF BringUpInv
<1> USE FaultKinds DEF TypeInv
<1>0. faults.late = 0 /\ faults.restarts = 0
  <2>1. ASSUME NEW kind \in DOMAIN FaultBound, Fault(kind)
        PROVE  faults.late = 0 /\ faults.restarts = 0
    BY <2>1, FaultFacts
  <2>2. CASE UNCHANGED faults
    BY <2>2
  <2> QED
    BY <2>1, <2>2 DEF Next, TaskStep, ReceiverStep, vars, SendCommand, WaitReadBlock,
       WaitReadReply, WaitTimeout, Retry, RunReadReply, RunReadAtt, RunReadCov,
       ReceiverAccept, ReceiverReject, ReceiverEmit, ReceiverLearnsTime,
       ReceiverRestart, LoseCommand, LoseMessage
<1>a. /\ IF pc = "wait" THEN OneUnderway ELSE commands = <<>> /\ Quiet
      /\ step = 2 => Took(BringUp[1])
      /\ pc = "run" => Took(BringUp[1]) /\ Took(BringUp[2])
  BY <1>0 DEF BringUpInv
<1>b. BringUp[1] = "setGNSSAttitude" /\ BringUp[2] = "setSBFOutput" /\ Len(BringUp) = 2
  BY DEF BringUp
<1>c. Took(BringUp[1]) <=> attitudeOn = TRUE
  BY <1>b DEF Took
<1>d. Took(BringUp[2]) <=> outputOn = TRUE
  BY <1>b DEF Took
<1>e. Took(BringUp[1])' <=> attitudeOn' = TRUE
  BY <1>b DEF Took
<1>f. Took(BringUp[2])' <=> outputOn' = TRUE
  BY <1>b DEF Took
<1>1. CASE SendCommand
  <2>1. UNCHANGED <<attitudeOn, outputOn, step, messages>> /\ pc = "send" /\ pc' = "wait"
    BY <1>1 DEF SendCommand, receiver
  <2>2. commands = <<>> /\ Quiet
    BY <1>a, <2>1
  <2>3. commands' = <<BringUp[step]>>
    BY <1>1, <2>2 DEF SendCommand
  <2>4. OneUnderway'
    BY <2>1, <2>2, <2>3 DEF OneUnderway, Quiet, BringUp
  <2> QED
    BY <1>a, <1>c, <1>e, <2>1, <2>4
<1>2. CASE WaitReadBlock
  <2>1. UNCHANGED <<attitudeOn, outputOn, step, commands, pc>> /\ pc = "wait"
    BY <1>2 DEF WaitReadBlock, task, receiver
  <2>2. OneUnderway'
    BY <1>2, <1>a, <2>1, ReadThins, ThinsKeepUnderway DEF WaitReadBlock
  <2> QED
    BY <1>a, <1>c, <1>e, <2>1, <2>2
<1>3. CASE WaitReadReply
  <2>1. UNCHANGED <<attitudeOn, outputOn, commands>> /\ pc = "wait"
    BY <1>3 DEF WaitReadReply, receiver
  <2>2. /\ 1 \in DOMAIN messages /\ messages[1].type = "reply"
        /\ \A i \in DOMAIN messages' :
             i + 1 \in DOMAIN messages /\ messages'[i] = messages[i + 1]
        /\ Head(messages) = messages[1]
    BY <1>3, ReadThins DEF WaitReadReply
  <2>3. /\ commands = <<>>
        /\ \A i, j \in DOMAIN messages :
             messages[i].type = "reply" /\ messages[j].type = "reply" => i = j
        /\ \A i \in DOMAIN messages :
             messages[i].type = "reply" /\ messages[i].ok = TRUE => Took(BringUp[step])
    BY <1>a, <2>1, <2>2 DEF OneUnderway, Quiet
  <2>4. Quiet'
    <3>1. messages' \in Seq(Message)
      BY TypeStep
    <3>2. \A i \in DOMAIN messages' : i + 1 # 1
      BY <3>1
    <3> QED
      BY <2>2, <2>3, <3>2 DEF Quiet
  <2>5. CASE ~Acknowledges(Head(messages))
    <3>1. pc' = "retry" /\ step' = step
      BY <1>3, <2>5 DEF WaitReadReply
    <3> QED
      BY <1>a, <1>c, <1>e, <2>1, <2>3, <2>4, <3>1
  <2>6. CASE Acknowledges(Head(messages))
    <3>1. messages[1].ok = TRUE
      <4>1. messages[1] \in Reply
        BY <2>2 DEF Message, Block, Att, Cov
      <4>2. messages[1].ok \in BOOLEAN
        BY <4>1 DEF Reply
      <4> QED
        BY <2>2, <2>6, <4>2 DEF Acknowledges
    <3>2. Took(BringUp[step])
      BY <2>2, <2>3, <3>1
    <3>3. CASE step = 1
      <4>1. pc' = "send" /\ step' = 2
        BY <1>3, <1>b, <2>6, <3>3 DEF WaitReadReply
      <4> QED
        BY <1>c, <1>e, <2>1, <2>3, <2>4, <3>2, <3>3, <4>1
    <3>4. CASE step = 2
      <4>1. pc' = "run" /\ step' = 2
        BY <1>3, <1>b, <2>6, <3>4 DEF WaitReadReply
      <4> QED
        BY <1>a, <1>c, <1>d, <1>e, <1>f, <2>1, <2>3, <2>4, <3>2, <3>4, <4>1
    <3> QED
      BY <3>3, <3>4
  <2> QED
    BY <2>5, <2>6
<1>4. CASE WaitTimeout
  <2>1. UNCHANGED <<attitudeOn, outputOn, commands, messages, step>> /\ pc' = "retry"
    BY <1>4 DEF WaitTimeout, receiver
  <2>2. ~ReplyUnderway
    BY <1>4, FaultFacts DEF WaitTimeout
  <2>3. commands' = <<>> /\ Quiet'
    BY <2>1, <2>2 DEF ReplyUnderway, Quiet
  <2> QED
    BY <1>a, <1>c, <1>e, <2>1, <2>3
<1>5. CASE Retry
  <2>1. UNCHANGED <<commands, messages>> /\ pc = "retry" /\ pc' = "send" /\ step' = 1
    BY <1>5 DEF Retry
  <2> QED
    BY <1>a, <2>1 DEF Quiet
<1>6. CASE messages # <<>> /\ messages' = Tail(messages) /\ pc = "run"
           /\ UNCHANGED <<pc, step, commands, receiver>>
  <2>1. UNCHANGED <<attitudeOn, outputOn, step, commands, pc>>
    BY <1>6 DEF receiver
  <2>2. Quiet'
    BY <1>6, <1>a, <2>1, ReadThins, ThinsKeepUnderway
  <2> QED
    BY <1>6, <1>a, <1>c, <1>d, <1>e, <1>f, <2>1, <2>2
<1>7. ASSUME commands # <<>>
      PROVE  /\ pc = "wait" /\ Quiet
             /\ Head(commands) = BringUp[step] /\ Tail(commands) = <<>>
  <2>1. pc = "wait" /\ OneUnderway
    BY <1>7, <1>a
  <2>2. commands = <<BringUp[step]>> /\ Quiet
    BY <1>7, <2>1, Zenon DEF OneUnderway
  <2>3. Head(commands) = BringUp[step] /\ Tail(commands) = <<>>
    BY <2>2
  <2> QED
    BY <2>1, <2>2, <2>3
<1>8. ASSUME NEW m, m.ok = TRUE => Took(BringUp[step])', messages' = Append(messages, m),
             Quiet, commands' = <<>>, UNCHANGED step
      PROVE  OneUnderway'
  <2>1. \A i \in DOMAIN messages' :
          messages'[i].type = "reply" => i = Len(messages) + 1 /\ messages'[i] = m
    BY <1>8 DEF Quiet
  <2>2. \A i, j \in DOMAIN messages' :
          messages'[i].type = "reply" /\ messages'[j].type = "reply" => i = j
    BY <2>1
  <2>3. \A i \in DOMAIN messages' :
          messages'[i].type = "reply" /\ messages'[i].ok = TRUE => Took(BringUp[step])'
    BY <1>8, <2>1
  <2> QED
    BY <1>8, <2>2, <2>3 DEF OneUnderway
<1>9. CASE ReceiverAccept
  <2>1. /\ commands # <<>> /\ commands' = Tail(commands) /\ UNCHANGED <<pc, step>>
        /\ messages' = Append(messages, [type |-> "reply", ok |-> TRUE])
    BY <1>9 DEF ReceiverAccept, task
  <2>2. /\ Head(commands) = "setGNSSAttitude" => attitudeOn' = TRUE
        /\ attitudeOn = TRUE => attitudeOn' = TRUE
    BY <1>9, Zenon DEF ReceiverAccept
  <2>3. Head(commands) = "setSBFOutput" => outputOn' = TRUE
    BY <1>9, Zenon DEF ReceiverAccept
  <2>4. Took(BringUp[step])'
    <3>1. CASE step = 1
      BY <1>b, <1>e, <1>7, <2>1, <2>2, <3>1
    <3>2. CASE step = 2
      BY <1>b, <1>f, <1>7, <2>1, <2>3, <3>2
    <3> QED
      BY <3>1, <3>2
  <2>5. OneUnderway'
    BY <1>7, <1>8, <2>1, <2>4
  <2> QED
    BY <1>a, <1>c, <1>e, <1>7, <2>1, <2>2, <2>5
<1>10. CASE ReceiverReject
  <2>1. /\ commands # <<>> /\ commands' = Tail(commands)
        /\ UNCHANGED <<pc, step, attitudeOn, outputOn>>
        /\ messages' = Append(messages, [type |-> "reply", ok |-> FALSE])
    BY <1>10 DEF ReceiverReject, task, receiver
  <2>2. OneUnderway'
    BY <1>7, <1>8, <2>1
  <2> QED
    BY <1>a, <1>c, <1>e, <1>7, <2>1, <2>2
<1>11. CASE ReceiverEmit
  <2>1. UNCHANGED <<pc, step, commands, attitudeOn, outputOn>>
    BY <1>11 DEF ReceiverEmit, task
  <2>2. PICK a \in Att, c \in Cov :
          messages' = messages \o <<a, c>> /\ a.type = "att" /\ c.type = "cov"
    BY <1>11, EmitLine
  <2>3. \A i \in DOMAIN messages' :
          messages'[i].type = "reply" => i \in DOMAIN messages /\ messages'[i] = messages[i]
    BY <2>2
  <2>4. Quiet => Quiet'
    BY <2>3 DEF Quiet
  <2>5. OneUnderway => OneUnderway'
    <3>1. Took(BringUp[step]) => Took(BringUp[step])'
      BY <1>b, <1>c, <1>d, <1>e, <1>f, <2>1
    <3>2. ASSUME NEW i \in DOMAIN messages', messages'[i].type = "reply"
          PROVE  i \in DOMAIN messages /\ messages[i].type = "reply" /\ messages'[i] = messages[i]
      BY <2>3, <3>2
    <3> QED
      BY <2>1, <2>4, <3>1, <3>2 DEF OneUnderway, BringUp
  <2> QED
    BY <1>a, <1>c, <1>d, <1>e, <1>f, <2>1, <2>4, <2>5
<1>12. CASE ReceiverLearnsTime
  <2>1. UNCHANGED <<pc, step, commands, messages, attitudeOn, outputOn>>
    BY <1>12 DEF ReceiverLearnsTime, task
  <2> QED
    BY <1>a, <1>c, <1>d, <1>e, <1>f, <2>1 DEF OneUnderway, Quiet, BringUp, Took
<1>13. CASE ReceiverRestart
  BY <1>13, FaultFacts DEF ReceiverRestart
<1>14. CASE LoseCommand
  <2>1. /\ commands # <<>> /\ commands' = Tail(commands)
        /\ UNCHANGED <<pc, step, messages, attitudeOn, outputOn>>
    BY <1>14 DEF LoseCommand, task, receiver
  <2>2. OneUnderway'
    BY <1>7, <2>1 DEF OneUnderway, Quiet
  <2> QED
    BY <1>a, <1>c, <1>e, <1>7, <2>1, <2>2
<1>15. CASE LoseMessage
  <2>1. UNCHANGED <<pc, step, commands, attitudeOn, outputOn>>
    BY <1>15 DEF LoseMessage, task, receiver
  <2>2. PICK f : Thins(f)
    BY <1>15, LossThins DEF LoseMessage
  <2>3. (Quiet => Quiet') /\ (OneUnderway => OneUnderway')
    BY <2>1, <2>2, ThinsKeepUnderway
  <2> QED
    BY <1>a, <1>c, <1>d, <1>e, <1>f, <2>1, <2>3
<1>16. CASE UNCHANGED vars
  BY <1>16, <1>a, <1>c, <1>d, <1>e, <1>f
  DEF vars, task, receiver, OneUnderway, Quiet, BringUp, Took
<1>17. CASE RunReadReply
  BY <1>6, <1>17 DEF RunReadReply, task
<1>18. CASE RunReadAtt
  BY <1>6, <1>18 DEF RunReadAtt
<1>19. CASE RunReadCov
  BY <1>6, <1>19 DEF RunReadCov
<1> QED
  BY <1>1, <1>2, <1>3, <1>4, <1>5, <1>9, <1>10, <1>11, <1>12, <1>13, <1>14, <1>15,
     <1>16, <1>17, <1>18, <1>19 DEF Next, TaskStep, ReceiverStep

-----------------------------------------------------------------------------
(* What a late reply can cost.                                             *)

OkUnderway == \E i \in DOMAIN messages : messages[i].type = "reply" /\ messages[i].ok = TRUE

\* The first reply that is no error answers a first command, for no other was sent
\* before it, however late it comes.
AttitudeInv ==
  faults.restarts = 0 /\ (step = 2 \/ pc = "run" \/ OutputUnderway \/ OkUnderway)
    => attitudeOn = TRUE

\* The second command is executed sooner or later if nothing is lost or rejected.
OutputInv ==
  faults.restarts = 0 /\ faults.lost = 0 /\ faults.rejected = 0 =>
    (pc = "run" \/ (pc = "wait" /\ step = 2) => outputOn = TRUE \/ OutputUnderway)

\* A fault of some kind was counted, or none.
LEMMA FaultsOnlyGrow ==
  ASSUME TypeInv, [Next]_vars, NEW kind \in DOMAIN FaultBound, faults'[kind] = 0
  PROVE  faults[kind] = 0
<1>1. ASSUME NEW k \in DOMAIN FaultBound, Fault(k)
      PROVE  faults[kind] = 0
  BY <1>1, FaultFacts DEF TypeInv
<1>2. CASE UNCHANGED faults
  BY <1>2
<1> QED
  BY <1>1, <1>2, FaultKinds DEF Next, TaskStep, ReceiverStep, vars, SendCommand, WaitReadBlock,
     WaitReadReply, WaitTimeout, Retry, RunReadReply, RunReadAtt, RunReadCov,
     ReceiverAccept, ReceiverReject, ReceiverEmit, ReceiverLearnsTime, ReceiverRestart,
     LoseCommand, LoseMessage

LEMMA ThinsKeepOk ==
  ASSUME NEW f, Thins(f), OkUnderway'
  PROVE  OkUnderway
BY DEF Thins, OkUnderway

LEMMA FirstTaken ==
  ASSUME commands \in Seq({"setGNSSAttitude", "setSBFOutput"}), commands # <<>>,
         commands' = Tail(commands)
  PROVE  /\ OutputUnderway' => OutputUnderway
         /\ Head(commands) = "setSBFOutput" => OutputUnderway
         /\ OutputUnderway => OutputUnderway' \/ Head(commands) = "setSBFOutput"
         /\ Head(commands) \in {"setGNSSAttitude", "setSBFOutput"}
<1>1. /\ \A i \in DOMAIN commands' : i + 1 \in DOMAIN commands /\ commands'[i] = commands[i + 1]
      /\ 1 \in DOMAIN commands /\ Head(commands) = commands[1]
      /\ \A i \in DOMAIN commands : i # 1 => i - 1 \in DOMAIN commands' /\ commands'[i - 1] = commands[i]
  OBVIOUS
<1>2. Head(commands) \in {"setGNSSAttitude", "setSBFOutput"}
  BY <1>1
<1> QED
  BY <1>1, <1>2 DEF OutputUnderway

LEMMA AttitudeStep == TypeInv /\ AttitudeInv /\ [Next]_vars => AttitudeInv'
<1> SUFFICES ASSUME TypeInv, AttitudeInv, [Next]_vars, faults'.restarts = 0,
                    attitudeOn' # TRUE
             PROVE  step' # 2 /\ pc' # "run" /\ ~OutputUnderway' /\ ~OkUnderway'
  BY DEF AttitudeInv
<1>a. faults.restarts = 0 /\ ~ReceiverRestart
  BY FaultsOnlyGrow, FaultKinds, FaultFacts DEF ReceiverRestart, TypeInv
<1>b. attitudeOn # TRUE
  BY <1>a, Zenon DEF Next, TaskStep, ReceiverStep, vars, receiver, SendCommand, WaitReadBlock,
     WaitReadReply, WaitTimeout, Retry, RunReadReply, RunReadAtt, RunReadCov,
     ReceiverAccept, ReceiverReject, ReceiverEmit, ReceiverLearnsTime, LoseCommand, LoseMessage
<1>c. step = 1 /\ pc # "run" /\ ~OutputUnderway /\ ~OkUnderway
  BY <1>a, <1>b DEF AttitudeInv, TypeInv
<1>d. /\ messages \in Seq(Message)
      /\ commands \in Seq({"setGNSSAttitude", "setSBFOutput"})
  BY DEF TypeInv
<1>e. BringUp[1] = "setGNSSAttitude" /\ Len(BringUp) = 2
  BY DEF BringUp
<1>1. CASE SendCommand
  <2>1. /\ pc' = "wait" /\ UNCHANGED <<step, messages>>
        /\ commands' = Append(commands, "setGNSSAttitude")
    BY <1>1, <1>c, <1>e DEF SendCommand
  <2>2. ~OutputUnderway'
    BY <1>c, <1>d, <2>1 DEF OutputUnderway
  <2>3. ~OkUnderway'
    BY <1>c, <2>1 DEF OkUnderway
  <2> QED
    BY <1>c, <2>1, <2>2, <2>3
<1>2. CASE messages # <<>> /\ messages' = Tail(messages) /\ UNCHANGED <<pc, step, commands>>
  <2>1. ~OkUnderway'
    BY <1>2, <1>c, <1>d, ReadThins, ThinsKeepOk
  <2> QED
    BY <1>2, <1>c, <2>1 DEF OutputUnderway
<1>3. CASE WaitReadReply
  <2>1. messages # <<>> /\ Head(messages).type = "reply" /\ messages' = Tail(messages)
        /\ UNCHANGED commands
    BY <1>3 DEF WaitReadReply
  <2>2. 1 \in DOMAIN messages /\ Head(messages) = messages[1] /\ messages[1] \in Message
    BY <1>d, <2>1, ReadThins
  <2>3. Head(messages).ok # TRUE
    BY <1>c, <2>1, <2>2 DEF OkUnderway
  <2>4. Head(messages).ok \in BOOLEAN
    BY <2>1, <2>2 DEF Message, Block, Att, Cov, Reply
  <2>5. pc' = "retry" /\ step' = step
    BY <1>3, <2>3, <2>4, Zenon DEF WaitReadReply, Acknowledges
  <2>6. ~OkUnderway'
    BY <1>c, <1>d, <2>1, ReadThins, ThinsKeepOk
  <2> QED
    BY <1>c, <2>1, <2>5, <2>6 DEF OutputUnderway
<1>4. CASE WaitTimeout \/ Retry
  <2>1. pc' \in {"retry", "send"} /\ step' = 1 /\ UNCHANGED <<commands, messages>>
    BY <1>4, <1>c DEF WaitTimeout, Retry
  <2> QED
    BY <1>c, <2>1 DEF OutputUnderway, OkUnderway
<1>5. CASE ReceiverAccept
  <2>1. commands # <<>> /\ commands' = Tail(commands)
    BY <1>5 DEF ReceiverAccept
  <2>2. Head(commands) = "setGNSSAttitude"
    BY <1>c, <1>d, <2>1, FirstTaken
  <2> QED
    BY <1>5, <2>2, Zenon DEF ReceiverAccept
<1>6. CASE ReceiverReject
  <2>1. /\ commands # <<>> /\ commands' = Tail(commands) /\ UNCHANGED <<pc, step>>
        /\ messages' = Append(messages, [type |-> "reply", ok |-> FALSE])
    BY <1>6 DEF ReceiverReject, task
  <2>2. ~OkUnderway'
    BY <1>c, <1>d, <2>1 DEF OkUnderway
  <2> QED
    BY <1>c, <1>d, <2>1, <2>2, FirstTaken
<1>7. CASE ReceiverEmit
  <2>1. UNCHANGED <<pc, step, commands>>
    BY <1>7 DEF ReceiverEmit, task
  <2>2. PICK a \in Att, c \in Cov :
          messages' = messages \o <<a, c>> /\ a.type = "att" /\ c.type = "cov"
    BY <1>7, EmitLine
  <2>3. ~OkUnderway'
    BY <1>c, <1>d, <2>2 DEF OkUnderway
  <2> QED
    BY <1>c, <2>1, <2>3 DEF OutputUnderway
<1>8. CASE LoseCommand
  <2>1. commands # <<>> /\ commands' = Tail(commands) /\ UNCHANGED <<pc, step, messages>>
    BY <1>8 DEF LoseCommand, task
  <2> QED
    BY <1>c, <1>d, <2>1, FirstTaken DEF OkUnderway
<1>9. CASE LoseMessage
  <2>1. UNCHANGED <<pc, step, commands>>
    BY <1>9 DEF LoseMessage, task
  <2>2. ~OkUnderway'
    BY <1>9, <1>c, <1>d, LossThins, ThinsKeepOk DEF LoseMessage
  <2> QED
    BY <1>c, <2>1, <2>2 DEF OutputUnderway
<1>10. CASE ReceiverLearnsTime \/ UNCHANGED vars
  <2>1. UNCHANGED <<pc, step, commands, messages>>
    BY <1>10 DEF ReceiverLearnsTime, vars, task
  <2> QED
    BY <1>c, <2>1 DEF OutputUnderway, OkUnderway
<1>11. CASE WaitReadBlock
  BY <1>2, <1>11 DEF WaitReadBlock, task
<1>12. CASE RunReadReply \/ RunReadAtt \/ RunReadCov
  BY <1>c, <1>12 DEF RunReadReply, RunReadAtt, RunReadCov
<1> QED
  BY <1>a, <1>1, <1>3, <1>4, <1>5, <1>6, <1>7, <1>8, <1>9, <1>10, <1>11, <1>12
  DEF Next, TaskStep, ReceiverStep

LEMMA OutputStep == TypeInv /\ OutputInv /\ [Next]_vars => OutputInv'
<1> SUFFICES ASSUME TypeInv, OutputInv, [Next]_vars, outputOn' # TRUE, ~OutputUnderway',
                    faults'.restarts = 0, faults'.lost = 0, faults'.rejected = 0
             PROVE  pc' # "run" /\ ~(pc' = "wait" /\ step' = 2)
  BY DEF OutputInv
<1>a. /\ faults.restarts = 0 /\ faults.lost = 0 /\ faults.rejected = 0
      /\ ~ReceiverRestart /\ ~ReceiverReject /\ ~LoseCommand
  BY FaultsOnlyGrow, FaultKinds, FaultFacts
  DEF ReceiverRestart, ReceiverReject, LoseCommand, TypeInv
<1>b. outputOn # TRUE
  BY <1>a, Zenon DEF Next, TaskStep, ReceiverStep, vars, receiver, SendCommand, WaitReadBlock,
     WaitReadReply, WaitTimeout, Retry, RunReadReply, RunReadAtt, RunReadCov,
     ReceiverAccept, ReceiverEmit, ReceiverLearnsTime, LoseMessage
<1>c. /\ step \in {1, 2}
      /\ commands \in Seq({"setGNSSAttitude", "setSBFOutput"})
  BY DEF TypeInv
<1>d. BringUp[1] = "setGNSSAttitude" /\ BringUp[2] = "setSBFOutput" /\ Len(BringUp) = 2
  BY DEF BringUp
<1>1. CASE SendCommand
  <2>1. pc' = "wait" /\ UNCHANGED step /\ commands' = Append(commands, BringUp[step])
    BY <1>1 DEF SendCommand
  <2>2. CASE step = 2
    <3>1. commands' = Append(commands, "setSBFOutput")
      BY <1>d, <2>1, <2>2
    <3> QED
      BY <1>c, <3>1 DEF OutputUnderway
  <2> QED
    BY <1>c, <2>1, <2>2
<1>2. CASE ReceiverAccept
  <2>1. commands # <<>> /\ commands' = Tail(commands) /\ UNCHANGED <<pc, step>>
    BY <1>2 DEF ReceiverAccept, task
  <2>2. Head(commands) # "setSBFOutput"
    BY <1>2, Zenon DEF ReceiverAccept
  <2>3. ~OutputUnderway
    BY <1>c, <2>1, <2>2, FirstTaken
  <2> QED
    BY <1>a, <1>b, <2>1, <2>3 DEF OutputInv
<1>3. CASE UNCHANGED <<pc, step, commands>>
  <2>1. ~OutputUnderway
    BY <1>3 DEF OutputUnderway
  <2> QED
    BY <1>3, <1>a, <1>b, <2>1 DEF OutputInv
<1>4. CASE WaitReadReply
  <2>1. pc = "wait" /\ UNCHANGED commands
    BY <1>4 DEF WaitReadReply
  <2>2. ~OutputUnderway
    BY <2>1 DEF OutputUnderway
  <2>3. step = 1
    BY <1>a, <1>b, <1>c, <2>1, <2>2 DEF OutputInv
  <2>4. pc' \in {"retry", "send"}
    BY <1>4, <1>d, <2>3 DEF WaitReadReply
  <2> QED
    BY <2>4
<1>5. CASE WaitTimeout \/ Retry
  BY <1>5 DEF WaitTimeout, Retry
<1>6. CASE WaitReadBlock \/ RunReadReply \/ ReceiverEmit \/ ReceiverLearnsTime \/ LoseMessage
           \/ UNCHANGED vars
  BY <1>3, <1>6
  DEF WaitReadBlock, RunReadReply, ReceiverEmit, ReceiverLearnsTime, LoseMessage, vars, task
<1>7. CASE RunReadAtt \/ RunReadCov
  BY <1>3, <1>7 DEF RunReadAtt, RunReadCov
<1> QED
  BY <1>a, <1>1, <1>2, <1>4, <1>5, <1>6, <1>7 DEF Next, TaskStep, ReceiverStep

LEMMA LateInit == Init => AttitudeInv /\ OutputInv
<1> SUFFICES ASSUME Init PROVE AttitudeInv /\ OutputInv
  OBVIOUS
<1>1. pc = "send" /\ step = 1 /\ commands = <<>> /\ messages = <<>>
  BY Zenon DEF Init
<1>2. ~OutputUnderway /\ ~OkUnderway
  BY <1>1 DEF OutputUnderway, OkUnderway
<1> QED
  BY <1>1, <1>2 DEF AttitudeInv, OutputInv

\* The task starts reading attitude only from a receiver that took the first command,
\* whatever is late, lost or rejected, as long as the receiver does not restart; and
\* one that took the second as well, unless a reply was late and that command is still
\* on the line, lost or rejected.
THEOREM ConfiguredWhenReady == Spec => []ReadyMeansConfigured
<1>1. TypeInv /\ BringUpInv /\ AttitudeInv /\ OutputInv => ReadyMeansConfigured
  <2> SUFFICES ASSUME TypeInv, BringUpInv, AttitudeInv, OutputInv,
                      pc = "run", faults.restarts = 0
               PROVE  /\ attitudeOn
                      /\ \/ outputOn
                         \/ faults.late > 0 /\ (OutputUnderway \/ faults.lost + faults.rejected > 0)
    BY DEF ReadyMeansConfigured
  <2>1. attitudeOn = TRUE
    BY DEF AttitudeInv
  <2>2. faults.late \in Nat /\ faults.lost \in Nat /\ faults.rejected \in Nat
    BY FaultKinds DEF TypeInv
  <2>3. CASE faults.late = 0
    <3>1. Took(BringUp[2])
      BY <2>3 DEF BringUpInv
    <3>2. outputOn = TRUE
      BY <3>1 DEF Took, BringUp
    <3> QED
      BY <2>1, <3>2, Zenon
  <2>4. CASE faults.late # 0
    <3>1. faults.late > 0
      BY <2>2, <2>4
    <3>2. CASE faults.lost = 0 /\ faults.rejected = 0
      <4>1. outputOn = TRUE \/ OutputUnderway
        BY <3>2 DEF OutputInv
      <4> QED
        BY <2>1, <3>1, <4>1, Zenon
    <3>3. CASE ~(faults.lost = 0 /\ faults.rejected = 0)
      <4>1. faults.lost + faults.rejected > 0
        BY <2>2, <3>3
      <4> QED
        BY <2>1, <3>1, <4>1, Zenon
    <3> QED
      BY <3>2, <3>3
  <2> QED
    BY <2>3, <2>4
<1>2. TypeInv /\ BringUpInv /\ [Next]_vars => (TypeInv /\ BringUpInv)'
  BY TypeStep, BringUpInvStep
<1> QED
  BY <1>1, <1>2, BringUpInit, LateInit, AttitudeStep, OutputStep, PTL DEF Spec

-----------------------------------------------------------------------------
(* Pairing: why blocks of one epoch, and no others, become a sample.       *)

\* m was emitted before n.
Before(m, n) ==
  IF m.type = "att" /\ n.type = "cov" THEN m.epoch <= n.epoch ELSE m.epoch < n.epoch

Agree(m, n) == m.epoch = n.epoch => m.tow = n.tow

\* What the receiver may have put in a block up to epoch e.
Emitted(m, e) ==
  /\ m.epoch <= e
  /\ m.tow \in {m.epoch, DoNotUse}
  /\ m.type = "att" /\ m.fixed = TRUE => m.tow = m.epoch

\* What was read came before what is on the line, which is in emission order.
OrderInv ==
  /\ readBlocks \subseteq Block
  /\ \A m \in readBlocks : Emitted(m, epoch)
  /\ \A i \in DOMAIN messages :
       messages[i] \in Block =>
         /\ Emitted(messages[i], epoch)
         /\ \A m \in readBlocks : Before(m, messages[i]) /\ Agree(m, messages[i])
  /\ \A i, j \in DOMAIN messages :
       i < j /\ messages[i] \in Block /\ messages[j] \in Block =>
         Before(messages[i], messages[j]) /\ Agree(messages[i], messages[j])

LEMMA BlockFacts ==
  /\ \A m \in Block : m.epoch \in Nat /\ m.type \in {"att", "cov"}
  /\ \A m \in Message : m.type # "reply" <=> m \in Block
  /\ \A m \in Block : m.type = "att" => m \in Att
  /\ \A m \in Block : m.type = "cov" => m \in Cov
<1>1. \A m \in Att : m.epoch \in Nat /\ m.type = "att" /\ m \in Block
  BY DEF Att, Block
<1>2. \A m \in Cov : m.epoch \in Nat /\ m.type = "cov" /\ m \in Block
  BY DEF Cov, Block
<1>3. \A m \in Reply : m.type = "reply"
  BY DEF Reply
<1>4. \A m \in Block : m \in Att \/ m \in Cov
  BY DEF Block
<1>5. \A m \in Message : m \in Reply \/ m \in Block
  BY DEF Message
<1>6. \A m \in Block : m \in Message
  BY DEF Message
<1> HIDE DEF Block, Message, Att, Cov, Reply
<1> QED
  BY <1>1, <1>2, <1>3, <1>4, <1>5, <1>6

LEMMA OrderInit == Init => OrderInv
BY DEF Init, OrderInv

\* Losing or dropping messages keeps the order.
LEMMA ThinsKeepOrder ==
  ASSUME OrderInv, NEW f, Thins(f), UNCHANGED <<readBlocks, epoch>>
  PROVE  OrderInv'
<1>1. \A i \in DOMAIN messages' : f[i] \in DOMAIN messages /\ messages'[i] = messages[f[i]]
  BY DEF Thins
<1>2. \A i, j \in DOMAIN messages' : i < j => f[i] < f[j]
  BY DEF Thins
<1>3. epoch' = epoch
  OBVIOUS
<1>4. \A i \in DOMAIN messages' :
        messages'[i] \in Block =>
          /\ Emitted(messages'[i], epoch')
          /\ \A m \in readBlocks : Before(m, messages'[i]) /\ Agree(m, messages'[i])
  BY <1>1, <1>3 DEF OrderInv
<1>5. \A i, j \in DOMAIN messages' :
        i < j /\ messages'[i] \in Block /\ messages'[j] \in Block =>
          Before(messages'[i], messages'[j]) /\ Agree(messages'[i], messages'[j])
  BY <1>1, <1>2 DEF OrderInv
<1>6. readBlocks' \subseteq Block /\ \A m \in readBlocks' : Emitted(m, epoch')
  BY <1>3 DEF OrderInv
<1> QED
  BY <1>4, <1>5, <1>6 DEF OrderInv

\* Reading a block: it joins what was read, and everything left came after it.
LEMMA ReadKeepsOrder ==
  ASSUME TypeInv, OrderInv, messages # <<>>, Head(messages).type # "reply",
         messages' = Tail(messages), readBlocks' = readBlocks \cup {Head(messages)},
         UNCHANGED epoch
  PROVE  OrderInv'
<1>1. /\ \A i \in DOMAIN messages' :
           i + 1 \in DOMAIN messages /\ messages'[i] = messages[i + 1]
      /\ 1 \in DOMAIN messages /\ Head(messages) = messages[1] /\ messages[1] \in Message
  BY ReadThins DEF TypeInv
<1>2. messages[1] \in Block
  BY <1>1, BlockFacts
<1>3. \A i \in DOMAIN messages' : i \in Nat /\ 1 < i + 1 /\ \A j \in DOMAIN messages' : i < j => i + 1 < j + 1
  BY DEF TypeInv
<1>4. epoch' = epoch
  OBVIOUS
<1>5. \A i \in DOMAIN messages' :
        messages'[i] \in Block =>
          Before(messages[1], messages'[i]) /\ Agree(messages[1], messages'[i])
  BY <1>1, <1>2, <1>3 DEF OrderInv
<1>6. \A i \in DOMAIN messages' :
        messages'[i] \in Block =>
          /\ Emitted(messages'[i], epoch')
          /\ \A m \in readBlocks' : Before(m, messages'[i]) /\ Agree(m, messages'[i])
  BY <1>1, <1>4, <1>5 DEF OrderInv
<1>7. \A i, j \in DOMAIN messages' :
        i < j /\ messages'[i] \in Block /\ messages'[j] \in Block =>
          Before(messages'[i], messages'[j]) /\ Agree(messages'[i], messages'[j])
  BY <1>1, <1>3 DEF OrderInv
<1>8. readBlocks' \subseteq Block /\ \A m \in readBlocks' : Emitted(m, epoch')
  BY <1>1, <1>2, <1>4 DEF OrderInv
<1> QED
  BY <1>6, <1>7, <1>8 DEF OrderInv

\* A reply joins the line.
LEMMA ReplyKeepsOrder ==
  ASSUME TypeInv, OrderInv, NEW m \in Reply, messages' = Append(messages, m),
         UNCHANGED <<readBlocks, epoch>>
  PROVE  OrderInv'
<1>1. m \notin Block
  BY BlockFacts DEF Reply
<1>2. \A i \in DOMAIN messages' :
        messages'[i] \in Block => i \in DOMAIN messages /\ messages'[i] = messages[i]
  BY <1>1 DEF TypeInv
<1>3. epoch' = epoch
  OBVIOUS
<1>4. \A i \in DOMAIN messages' :
        messages'[i] \in Block =>
          /\ Emitted(messages'[i], epoch')
          /\ \A n \in readBlocks : Before(n, messages'[i]) /\ Agree(n, messages'[i])
  BY <1>2, <1>3 DEF OrderInv
<1>5. \A i, j \in DOMAIN messages' :
        i < j /\ messages'[i] \in Block /\ messages'[j] \in Block =>
          Before(messages'[i], messages'[j]) /\ Agree(messages'[i], messages'[j])
  BY <1>2 DEF OrderInv
<1>6. readBlocks' \subseteq Block /\ \A n \in readBlocks' : Emitted(n, epoch')
  BY <1>3 DEF OrderInv
<1> QED
  BY <1>4, <1>5, <1>6 DEF OrderInv

\* The receiver emits the blocks of the next epoch.
LEMMA EmitKeepsOrder ==
  ASSUME TypeInv, OrderInv, ReceiverEmit
  PROVE  OrderInv'
<1>1. PICK a \in Att, c \in Cov :
        /\ messages' = messages \o <<a, c>>
        /\ a.type = "att" /\ c.type = "cov"
        /\ a.epoch = epoch + 1 /\ c.epoch = epoch + 1 /\ c.tow = a.tow
        /\ a.tow \in {epoch + 1, DoNotUse}
        /\ a.fixed = TRUE => a.tow = epoch + 1
  BY EmitLine
<1>2. epoch' = epoch + 1 /\ epoch \in Nat /\ readBlocks' = readBlocks
  BY DEF ReceiverEmit, TypeInv, task
<1>3. ASSUME NEW m \in Block, Emitted(m, epoch)
      PROVE  /\ Emitted(m, epoch')
             /\ Before(m, a) /\ Agree(m, a) /\ Before(m, c) /\ Agree(m, c)
  <2>1. m.epoch \in Nat /\ m.epoch <= epoch
    BY <1>3, BlockFacts DEF Emitted
  <2> QED
    BY <1>1, <1>2, <1>3, <2>1 DEF Emitted, Before, Agree
<1>4. Emitted(a, epoch') /\ Emitted(c, epoch') /\ Before(a, c) /\ Agree(a, c)
  BY <1>1, <1>2 DEF Emitted, Before, Agree
<1>5. /\ messages \in Seq(Message)
      /\ \A i \in DOMAIN messages' :
           \/ i \in DOMAIN messages /\ messages'[i] = messages[i]
           \/ i = Len(messages) + 1 /\ messages'[i] = a
           \/ i = Len(messages) + 2 /\ messages'[i] = c
      /\ DOMAIN messages = 1 .. Len(messages) /\ Len(messages) \in Nat
  BY <1>1 DEF TypeInv
<1>6. \A i \in DOMAIN messages' :
        messages'[i] \in Block =>
          /\ Emitted(messages'[i], epoch')
          /\ \A m \in readBlocks : Before(m, messages'[i]) /\ Agree(m, messages'[i])
  BY <1>3, <1>4, <1>5 DEF OrderInv
<1>7. \A i, j \in DOMAIN messages' :
        i < j /\ messages'[i] \in Block /\ messages'[j] \in Block =>
          Before(messages'[i], messages'[j]) /\ Agree(messages'[i], messages'[j])
  <2> SUFFICES ASSUME NEW i \in DOMAIN messages', NEW j \in DOMAIN messages', i < j,
                      messages'[i] \in Block, messages'[j] \in Block
               PROVE  Before(messages'[i], messages'[j]) /\ Agree(messages'[i], messages'[j])
    OBVIOUS
  <2>1. CASE j \in DOMAIN messages
    <3>1. i \in DOMAIN messages
      BY <1>5, <2>1
    <3>2. messages'[i] = messages[i] /\ messages'[j] = messages[j]
      BY <1>5, <2>1, <3>1
    <3> QED
      BY <2>1, <3>1, <3>2 DEF OrderInv
  <2>2. CASE i \in DOMAIN messages /\ j \notin DOMAIN messages
    <3>1. messages'[i] = messages[i] /\ messages'[j] \in {a, c}
      BY <1>5, <2>2
    <3>2. Emitted(messages[i], epoch)
      BY <2>2, <3>1 DEF OrderInv
    <3> QED
      BY <1>3, <3>1, <3>2
  <2>3. CASE i \notin DOMAIN messages /\ j \notin DOMAIN messages
    <3>1. messages'[i] = a /\ messages'[j] = c
      BY <1>5, <2>3
    <3> QED
      BY <1>4, <3>1
  <2>4. i \notin DOMAIN messages => j \notin DOMAIN messages
    BY <1>5
  <2> QED
    BY <2>1, <2>2, <2>3, <2>4
<1>8. readBlocks' \subseteq Block /\ \A m \in readBlocks' : Emitted(m, epoch')
  BY <1>2, <1>3 DEF OrderInv
<1> QED
  BY <1>2, <1>6, <1>7, <1>8 DEF OrderInv

LEMMA OrderStep == TypeInv /\ OrderInv /\ [Next]_vars => OrderInv'
<1> SUFFICES ASSUME TypeInv, OrderInv, [Next]_vars PROVE OrderInv'
  OBVIOUS
<1>1. CASE UNCHANGED <<messages, readBlocks, epoch>>
  BY <1>1 DEF OrderInv
<1>2. CASE messages # <<>> /\ messages' = Tail(messages) /\ UNCHANGED <<readBlocks, epoch>>
  BY <1>2, ReadThins, ThinsKeepOrder DEF TypeInv
<1>3. CASE SendCommand \/ WaitTimeout \/ Retry
  BY <1>1, <1>3 DEF SendCommand, WaitTimeout, Retry, receiver
<1>4. CASE WaitReadBlock \/ WaitReadReply \/ RunReadReply
  BY <1>2, <1>4 DEF WaitReadBlock, WaitReadReply, RunReadReply, task, receiver
<1>5. CASE RunReadAtt
  BY <1>5, ReadKeepsOrder DEF RunReadAtt, receiver
<1>6. CASE RunReadCov
  BY <1>6, ReadKeepsOrder DEF RunReadCov, receiver
<1>7. CASE ReceiverAccept
  <2>1. [type |-> "reply", ok |-> TRUE] \in Reply
    BY DEF Reply
  <2> QED
    BY <1>7, <2>1, ReplyKeepsOrder DEF ReceiverAccept, task
<1>8. CASE ReceiverReject
  <2>1. [type |-> "reply", ok |-> FALSE] \in Reply
    BY DEF Reply
  <2> QED
    BY <1>8, <2>1, ReplyKeepsOrder DEF ReceiverReject, task, receiver
<1>9. CASE ReceiverEmit
  BY <1>9, EmitKeepsOrder
<1>10. CASE ReceiverLearnsTime \/ ReceiverRestart \/ LoseCommand
  BY <1>1, <1>10 DEF ReceiverLearnsTime, ReceiverRestart, LoseCommand, task, receiver
<1>11. CASE LoseMessage
  BY <1>11, LossThins, ThinsKeepOrder DEF LoseMessage, task, receiver, TypeInv
<1>12. CASE UNCHANGED vars
  BY <1>1, <1>12 DEF vars, task, receiver
<1> QED
  BY <1>3, <1>4, <1>5, <1>6, <1>7, <1>8, <1>9, <1>10, <1>11, <1>12
  DEF Next, TaskStep, ReceiverStep

\* What is read and sent: an AttEuler that found no partner yet is the pending
\* one, or all of its epoch's blocks are behind it.
PairInv ==
  /\ pendingAtt = <<>> \/ \E m \in readBlocks : m.type = "att" /\ pendingAtt = <<m>>
  /\ \A m \in readBlocks :
       m.type = "att" =>
         \/ pendingAtt = <<m>>
         \/ \A i \in DOMAIN messages : messages[i].type = "cov" => messages[i].epoch > m.epoch
  /\ sent \in Seq([att : Nat, cov : Nat, valid : BOOLEAN])
  /\ \A i \in DOMAIN sent :
       /\ sent[i].valid = TRUE => sent[i].att = sent[i].cov
       /\ \E m \in readBlocks : m.type = "att" /\ m.epoch = sent[i].att
       /\ pendingAtt # <<>> => sent[i].att < pendingAtt[1].epoch
  /\ \A i, j \in DOMAIN sent : i < j => sent[i].att < sent[j].att
  /\ CompleteEpochsSampled

LEMMA PairInit == Init => PairInv
BY DEF Init, PairInv, CompleteEpochsSampled

\* A message that leaves or joins the line behind what was read.
LEMMA LineKeepsPairs ==
  ASSUME PairInv, UNCHANGED <<pendingAtt, sent, readBlocks>>,
         \A i \in DOMAIN messages' :
           messages'[i].type = "cov" =>
             \/ \E j \in DOMAIN messages : messages'[i] = messages[j]
             \/ \A m \in readBlocks : messages'[i].epoch > m.epoch
  PROVE  PairInv'
<1>1. \A m \in readBlocks' :
        m.type = "att" =>
          \/ pendingAtt' = <<m>>
          \/ \A i \in DOMAIN messages' : messages'[i].type = "cov" => messages'[i].epoch > m.epoch
  BY DEF PairInv
<1>2. CompleteEpochsSampled'
  BY DEF PairInv, CompleteEpochsSampled
<1> QED
  BY <1>1, <1>2 DEF PairInv

\* A newly read AttEuler is later than all that was read, and so replaces what
\* is pending.
LEMMA ReadAttKeepsPairs ==
  ASSUME TypeInv, OrderInv, PairInv, RunReadAtt
  PROVE  PairInv'
<1> DEFINE a == messages[1]
<1>1. /\ \A i \in DOMAIN messages' :
           i + 1 \in DOMAIN messages /\ messages'[i] = messages[i + 1] /\ 1 < i + 1
      /\ 1 \in DOMAIN messages /\ Head(messages) = a /\ a \in Message
  BY ReadThins DEF TypeInv, RunReadAtt
<1>2. /\ a \in Block /\ a.type = "att" /\ a.epoch \in Nat
      /\ pendingAtt' = <<a>> /\ readBlocks' = readBlocks \cup {a} /\ sent' = sent
  BY <1>1, BlockFacts DEF RunReadAtt
<1>3. \A i \in DOMAIN messages' :
        messages'[i] \in Block => Before(a, messages'[i])
  BY <1>1, <1>2 DEF OrderInv
<1>4. \A m \in readBlocks : m.epoch \in Nat /\ m.epoch < a.epoch
  BY <1>1, <1>2, BlockFacts DEF OrderInv, Before
<1>5. ASSUME NEW i \in DOMAIN messages', messages'[i].type = "cov"
      PROVE  messages'[i].epoch \in Nat /\ a.epoch <= messages'[i].epoch
  <2>1. messages[i + 1] \in Message /\ messages'[i] = messages[i + 1]
    BY <1>1 DEF TypeInv
  <2>2. messages'[i] \in Block
    BY <1>5, <2>1, BlockFacts
  <2> QED
    BY <1>2, <1>3, <1>5, <2>2, BlockFacts DEF Before
<1> HIDE DEF a
<1>6. \A m \in readBlocks' :
        m.type = "att" =>
          \/ pendingAtt' = <<m>>
          \/ \A i \in DOMAIN messages' : messages'[i].type = "cov" => messages'[i].epoch > m.epoch
  BY <1>2, <1>4, <1>5
<1>7. \A i \in DOMAIN sent' :
        /\ sent'[i].valid = TRUE => sent'[i].att = sent'[i].cov
        /\ \E m \in readBlocks' : m.type = "att" /\ m.epoch = sent'[i].att
        /\ pendingAtt' # <<>> => sent'[i].att < pendingAtt'[1].epoch
  BY <1>2, <1>4 DEF PairInv
<1>8. CompleteEpochsSampled'
  <2> SUFFICES ASSUME NEW att \in readBlocks', NEW cov \in readBlocks',
                      att.type = "att", cov.type = "cov", att.epoch = cov.epoch
               PROVE  \E i \in DOMAIN sent' :
                        sent'[i].att = att.epoch /\ sent'[i].cov = att.epoch
    BY DEF CompleteEpochsSampled
  <2>1. cov \in readBlocks /\ cov.epoch < a.epoch
    BY <1>2, <1>4
  <2>2. att \in readBlocks
    BY <1>2, <2>1
  <2> QED
    BY <1>2, <2>1, <2>2 DEF PairInv, CompleteEpochsSampled
<1> QED
  BY <1>2, <1>6, <1>7, <1>8 DEF PairInv

\* A newly read AttCovEuler becomes a sample with the pending AttEuler of its
\* epoch, and with no other that has a heading.
LEMMA ReadCovKeepsPairs ==
  ASSUME TypeInv, OrderInv, PairInv, RunReadCov
  PROVE  PairInv'
<1> DEFINE c == messages[1]
<1>1. /\ \A i \in DOMAIN messages' :
           i + 1 \in DOMAIN messages /\ messages'[i] = messages[i + 1] /\ 1 < i + 1
      /\ 1 \in DOMAIN messages /\ Head(messages) = c /\ c \in Message
  BY ReadThins DEF TypeInv, RunReadCov
<1>2. /\ c \in Block /\ c.type = "cov" /\ c.epoch \in Nat
      /\ c.tow \in {c.epoch, DoNotUse}
      /\ pendingAtt' = <<>> /\ readBlocks' = readBlocks \cup {c}
      /\ sent' = IF Pairs(c) THEN Append(sent, ToSample(pendingAtt[1], c)) ELSE sent
  BY <1>1, BlockFacts DEF RunReadCov, OrderInv, Emitted
<1>3. \A i \in DOMAIN messages' :
        messages'[i] \in Block => Before(c, messages'[i])
  BY <1>1, <1>2 DEF OrderInv
<1>4. \A m \in readBlocks :
        m.epoch \in Nat /\ (m.type = "att" => m.epoch <= c.epoch /\ Agree(m, c))
  BY <1>1, <1>2, BlockFacts DEF OrderInv, Before
<1>5. ASSUME NEW i \in DOMAIN messages', messages'[i].type = "cov"
      PROVE  messages'[i].epoch \in Nat /\ c.epoch < messages'[i].epoch
  <2>1. messages[i + 1] \in Message /\ messages'[i] = messages[i + 1]
    BY <1>1 DEF TypeInv
  <2>2. messages'[i] \in Block
    BY <1>5, <2>1, BlockFacts
  <2> QED
    BY <1>2, <1>3, <1>5, <2>2, BlockFacts DEF Before
<1>6. \A m \in readBlocks : m.type = "att" /\ m.epoch = c.epoch => pendingAtt = <<m>>
  BY <1>1, <1>2, <1>4 DEF PairInv
<1> HIDE DEF c
<1>7. \A m \in readBlocks' :
        m.type = "att" =>
          \A i \in DOMAIN messages' : messages'[i].type = "cov" => messages'[i].epoch > m.epoch
  BY <1>2, <1>4, <1>5
<1>8. CASE ~Pairs(c)
  <2>1. sent' = sent
    BY <1>2, <1>8
  <2>2. \A i \in DOMAIN sent' :
          /\ sent'[i].valid = TRUE => sent'[i].att = sent'[i].cov
          /\ \E m \in readBlocks' : m.type = "att" /\ m.epoch = sent'[i].att
    BY <1>2, <2>1 DEF PairInv
  <2>3. ASSUME NEW m \in readBlocks, m.type = "att" PROVE m.epoch # c.epoch
    BY <1>4, <1>6, <1>8, <2>3 DEF Pairs, Agree
  <2>4. CompleteEpochsSampled'
    BY <1>2, <2>1, <2>3 DEF PairInv, CompleteEpochsSampled
  <2> QED
    BY <1>2, <1>7, <2>1, <2>2, <2>4 DEF PairInv
<1>9. CASE Pairs(c)
  <2>1. PICK p \in readBlocks : p.type = "att" /\ pendingAtt = <<p>>
    BY <1>9 DEF Pairs, PairInv
  <2>2. p \in Att /\ p.tow = c.tow /\ p.epoch \in Nat /\ p.fixed \in BOOLEAN
        /\ Emitted(p, epoch)
    BY <1>9, <2>1, BlockFacts DEF Pairs, OrderInv, Att
  <2> DEFINE s == ToSample(p, c)
  <2>3. /\ s \in [att : Nat, cov : Nat, valid : BOOLEAN]
        /\ s.att = p.epoch /\ s.cov = c.epoch /\ s.valid = p.fixed
    BY <1>2, <2>2 DEF ToSample
  <2>4. sent' = Append(sent, s)
    BY <1>2, <1>9, <2>1
  <2> HIDE DEF s
  <2>5. s.valid = TRUE => s.att = s.cov
    BY <1>2, <2>1, <2>2, <2>3, TowAssumption DEF Emitted
  <2>6. /\ sent' \in Seq([att : Nat, cov : Nat, valid : BOOLEAN])
        /\ \A i \in DOMAIN sent' :
             \/ i \in DOMAIN sent /\ sent'[i] = sent[i]
             \/ i = Len(sent) + 1 /\ sent'[i] = s
        /\ \A i \in DOMAIN sent : i \in DOMAIN sent' /\ sent'[i] = sent[i]
        /\ Len(sent) + 1 \in DOMAIN sent' /\ sent'[Len(sent) + 1] = s
        /\ DOMAIN sent = 1 .. Len(sent) /\ Len(sent) \in Nat
        /\ DOMAIN sent' = 1 .. Len(sent) + 1
    BY <2>3, <2>4 DEF PairInv
  <2>7. \A i \in DOMAIN sent' :
          /\ sent'[i].valid = TRUE => sent'[i].att = sent'[i].cov
          /\ \E m \in readBlocks' : m.type = "att" /\ m.epoch = sent'[i].att
    BY <1>2, <2>1, <2>3, <2>5, <2>6 DEF PairInv
  <2>8. \A i, j \in DOMAIN sent' : i < j => sent'[i].att < sent'[j].att
    <3>1. \A i \in DOMAIN sent : sent[i].att < s.att
      BY <2>1, <2>3 DEF PairInv
    <3> SUFFICES ASSUME NEW i \in DOMAIN sent', NEW j \in DOMAIN sent', i < j
                 PROVE  sent'[i].att < sent'[j].att
      OBVIOUS
    <3>2. i \in DOMAIN sent /\ sent'[i] = sent[i]
      BY <2>6
    <3>3. CASE j \in DOMAIN sent
      BY <2>6, <3>2, <3>3 DEF PairInv
    <3>4. CASE j \notin DOMAIN sent
      BY <2>6, <3>1, <3>2, <3>4
    <3> QED
      BY <3>3, <3>4
  <2>9. CompleteEpochsSampled'
    <3> SUFFICES ASSUME NEW att \in readBlocks', NEW cov \in readBlocks',
                        att.type = "att", cov.type = "cov", att.epoch = cov.epoch
                 PROVE  \E i \in DOMAIN sent' :
                          sent'[i].att = att.epoch /\ sent'[i].cov = att.epoch
      BY DEF CompleteEpochsSampled
    <3>1. att \in readBlocks
      BY <1>2
    <3>2. CASE cov \in readBlocks
      <4>1. PICK i \in DOMAIN sent : sent[i].att = att.epoch /\ sent[i].cov = att.epoch
        BY <3>1, <3>2 DEF PairInv, CompleteEpochsSampled
      <4> QED
        BY <2>6, <4>1
    <3>3. CASE cov = c
      <4>1. pendingAtt = <<att>>
        BY <1>6, <3>1, <3>3
      <4>2. att = p
        BY <2>1, <4>1
      <4> QED
        BY <2>3, <2>6, <3>3, <4>2
    <3> QED
      BY <1>2, <3>2, <3>3
  <2> QED
    BY <1>2, <1>7, <2>6, <2>7, <2>8, <2>9 DEF PairInv
<1> QED
  BY <1>8, <1>9

LEMMA PairStep == TypeInv /\ OrderInv /\ PairInv /\ [Next]_vars => PairInv'
<1> SUFFICES ASSUME TypeInv, OrderInv, PairInv, [Next]_vars PROVE PairInv'
  OBVIOUS
<1>1. CASE UNCHANGED <<messages, pendingAtt, sent, readBlocks>>
  BY <1>1, LineKeepsPairs
<1>2. CASE messages # <<>> /\ messages' = Tail(messages)
           /\ UNCHANGED <<pendingAtt, sent, readBlocks>>
  BY <1>2, ReadThins, LineKeepsPairs DEF TypeInv
<1>3. CASE SendCommand \/ WaitTimeout \/ Retry
  BY <1>1, <1>3 DEF SendCommand, WaitTimeout, Retry
<1>4. CASE WaitReadBlock \/ WaitReadReply \/ RunReadReply
  BY <1>2, <1>4 DEF WaitReadBlock, WaitReadReply, RunReadReply, task
<1>5. CASE RunReadAtt
  BY <1>5, ReadAttKeepsPairs
<1>6. CASE RunReadCov
  BY <1>6, ReadCovKeepsPairs
<1>7. CASE ReceiverAccept \/ ReceiverReject
  <2>1. PICK m : m.type = "reply" /\ messages' = Append(messages, m)
    BY <1>7 DEF ReceiverAccept, ReceiverReject
  <2>2. \A i \in DOMAIN messages' :
          messages'[i].type = "cov" => \E j \in DOMAIN messages : messages'[i] = messages[j]
    BY <2>1 DEF TypeInv
  <2> QED
    BY <1>7, <2>2, LineKeepsPairs DEF ReceiverAccept, ReceiverReject, task
<1>8. CASE ReceiverEmit
  <2>1. PICK a \in Att, c \in Cov :
          messages' = messages \o <<a, c>> /\ a.type = "att" /\ c.epoch = epoch + 1
    BY <1>8, EmitLine
  <2>2. \A m \in readBlocks : c.epoch > m.epoch
    BY <2>1, BlockFacts DEF OrderInv, Emitted, TypeInv
  <2>3. \A i \in DOMAIN messages' :
          messages'[i].type = "cov" =>
            (\E j \in DOMAIN messages : messages'[i] = messages[j]) \/ messages'[i] = c
    BY <2>1 DEF TypeInv
  <2> QED
    BY <1>8, <2>2, <2>3, LineKeepsPairs DEF ReceiverEmit, task
<1>9. CASE ReceiverLearnsTime \/ ReceiverRestart \/ LoseCommand
  BY <1>1, <1>9 DEF ReceiverLearnsTime, ReceiverRestart, LoseCommand, task
<1>10. CASE LoseMessage
  BY <1>10, LossThins, LineKeepsPairs DEF LoseMessage, task, TypeInv, Thins
<1>11. CASE UNCHANGED vars
  BY <1>1, <1>11 DEF vars, task
<1> QED
  BY <1>3, <1>4, <1>5, <1>6, <1>7, <1>8, <1>9, <1>10, <1>11
  DEF Next, TaskStep, ReceiverStep

LEMMA PairingInvariant == Spec => [](TypeInv /\ OrderInv /\ PairInv)
<1>1. TypeInv /\ OrderInv /\ PairInv /\ [Next]_vars => (TypeInv /\ OrderInv /\ PairInv)'
  BY TypeStep, OrderStep, PairStep
<1> QED
  BY <1>1, BringUpInit, OrderInit, PairInit, PTL DEF Spec

\* A sample with a valid heading has the variance of its own epoch, and samples
\* are sent once and in order, whatever is lost, late or rejected.
THEOREM HeadingsKeepTheirVariance == Spec => []SamplesPairOneEpoch
<1>1. PairInv => SamplesPairOneEpoch
  <2>1. ASSUME PairInv, NEW i \in DOMAIN sent, sent[i].valid
        PROVE  sent[i].att = sent[i].cov
    <3>1. sent[i].valid \in BOOLEAN
      BY <2>1 DEF PairInv
    <3>2. sent[i].valid = TRUE
      BY <2>1, <3>1, Zenon
    <3> QED
      BY <2>1, <3>2 DEF PairInv
  <2> QED
    BY <2>1 DEF PairInv, SamplesPairOneEpoch
<1> QED
  BY <1>1, PairingInvariant, PTL

\* Every epoch of which both blocks are read after bring-up becomes a sample.
THEOREM NoEpochLeftOut == Spec => []CompleteEpochsSampled
<1>1. PairInv => CompleteEpochsSampled
  BY DEF PairInv
<1> QED
  BY <1>1, PairingInvariant, PTL

-----------------------------------------------------------------------------
(* The type invariant, which adds the bounds and the control points.       *)

Bounded ==
  /\ pc \in {"send", "wait", "retry", "run"}
  /\ attitudeOn \in BOOLEAN /\ outputOn \in BOOLEAN /\ knowsTime \in BOOLEAN
  /\ epoch <= MaxEpoch
  /\ \A kind \in DOMAIN FaultBound : faults[kind] <= FaultBound[kind]

LEMMA FaultBounds ==
  FaultBound \in [{"lost", "late", "rejected", "restarts"} -> Nat]
BY BoundAssumption DEF FaultBound

LEMMA BoundedInit == Init => Bounded
<1> SUFFICES ASSUME Init PROVE Bounded
  OBVIOUS
<1>1. /\ pc = "send" /\ epoch = 0 /\ faults = [kind \in DOMAIN FaultBound |-> 0]
      /\ attitudeOn \in BOOLEAN /\ outputOn \in BOOLEAN /\ knowsTime \in BOOLEAN
  BY Zenon DEF Init
<1>2. epoch <= MaxEpoch /\ \A kind \in DOMAIN FaultBound : faults[kind] <= FaultBound[kind]
  BY <1>1, BoundAssumption, FaultBounds
<1> QED
  BY <1>1, <1>2, Zenon DEF Bounded

LEMMA BoundedStep == TypeInv /\ Bounded /\ [Next]_vars => Bounded'
<1> SUFFICES ASSUME TypeInv, Bounded, [Next]_vars PROVE Bounded'
  OBVIOUS
<1>1. pc' \in {"send", "wait", "retry", "run"}
  BY DEF Bounded, Next, TaskStep, ReceiverStep, vars, task, SendCommand, WaitReadBlock,
     WaitReadReply, WaitTimeout, Retry, RunReadReply, RunReadAtt, RunReadCov,
     ReceiverAccept, ReceiverReject, ReceiverEmit, ReceiverLearnsTime,
     ReceiverRestart, LoseCommand, LoseMessage
<1>2. attitudeOn' \in BOOLEAN /\ outputOn' \in BOOLEAN /\ knowsTime' \in BOOLEAN
  BY DEF Bounded, Next, TaskStep, ReceiverStep, vars, receiver, SendCommand,
     WaitReadBlock, WaitReadReply, WaitTimeout, Retry, RunReadReply, RunReadAtt,
     RunReadCov, ReceiverAccept, ReceiverReject, ReceiverEmit, ReceiverLearnsTime,
     ReceiverRestart, LoseCommand, LoseMessage
<1>3. epoch' <= MaxEpoch
  <2>1. epoch' = epoch \/ (epoch' = epoch + 1 /\ epoch < MaxEpoch)
    BY DEF Next, TaskStep, ReceiverStep, vars, receiver, SendCommand, WaitReadBlock,
       WaitReadReply, WaitTimeout, Retry, RunReadReply, RunReadAtt, RunReadCov,
       ReceiverAccept, ReceiverReject, ReceiverEmit, ReceiverLearnsTime,
       ReceiverRestart, LoseCommand, LoseMessage
  <2> QED
    BY <2>1, BoundAssumption DEF Bounded, TypeInv
<1>4. \A kind \in DOMAIN FaultBound : faults'[kind] <= FaultBound[kind]
  <2>1. ASSUME NEW kind \in DOMAIN FaultBound, Fault(kind)
        PROVE  \A k \in DOMAIN FaultBound : faults'[k] <= FaultBound[k]
    <3>1. faults' = [faults EXCEPT ![kind] = @ + 1] /\ faults[kind] < FaultBound[kind]
      BY <2>1 DEF Fault
    <3>2. \A k \in DOMAIN FaultBound : faults[k] \in Nat /\ FaultBound[k] \in Nat
      BY FaultBounds DEF TypeInv
    <3>3. \A k \in DOMAIN FaultBound : faults'[k] = IF k = kind THEN faults[k] + 1 ELSE faults[k]
      BY <3>1 DEF TypeInv
    <3> QED
      BY <3>1, <3>2, <3>3 DEF Bounded
  <2>2. CASE UNCHANGED faults
    BY <2>2 DEF Bounded
  <2> QED
    BY <2>1, <2>2, FaultKinds DEF Next, TaskStep, ReceiverStep, vars, SendCommand,
       WaitReadBlock, WaitReadReply, WaitTimeout, Retry, RunReadReply, RunReadAtt,
       RunReadCov, ReceiverAccept, ReceiverReject, ReceiverEmit, ReceiverLearnsTime,
       ReceiverRestart, LoseCommand, LoseMessage
<1> QED
  BY <1>1, <1>2, <1>3, <1>4, Zenon DEF Bounded

\* Every variable keeps its type and every count its bound.
THEOREM TypeCorrect == Spec => []TypeOK
<1>1. TypeInv /\ OrderInv /\ PairInv /\ Bounded => TypeOK
  <2> SUFFICES ASSUME TypeInv, OrderInv, PairInv, Bounded PROVE TypeOK
    OBVIOUS
  <2>1. pendingAtt \in {<<>>} \cup {<<m>> : m \in readBlocks} /\ readBlocks \subseteq Att \cup Cov
    BY DEF PairInv, OrderInv, Block
  <2>2. \A i \in DOMAIN sent : sent[i] \in Sample
    <3>1. sent \in Seq(Sample)
      BY Zenon DEF PairInv, Sample
    <3> QED
      BY <3>1
  <2>3. \A i \in DOMAIN commands : commands[i] \in {"setGNSSAttitude", "setSBFOutput"}
    BY DEF TypeInv
  <2>4. \A i \in DOMAIN messages : messages[i] \in Reply \cup Att \cup Cov
    BY DEF TypeInv, Message, Block
  <2>5. step \in 1 .. Len(BringUp) /\ epoch \in 0 .. MaxEpoch
    BY BoundAssumption DEF TypeInv, Bounded, BringUp
  <2>6. \A kind \in DOMAIN FaultBound : faults[kind] \in 0 .. FaultBound[kind]
    BY FaultBounds DEF TypeInv, Bounded
  <2> HIDE DEF TypeInv
  <2> QED
    BY <2>1, <2>2, <2>3, <2>4, <2>5, <2>6, Zenon DEF TypeOK, Bounded
<1>2. Bounded /\ TypeInv /\ [Next]_vars => Bounded'
  BY BoundedStep
<1> QED
  BY <1>1, <1>2, BoundedInit, PairingInvariant, PTL DEF Spec
=============================================================================
