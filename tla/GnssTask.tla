------------------------------ MODULE GnssTask ------------------------------
(***************************************************************************)
(* The GNSS task of src/gnss_task.cpp and the receiver it talks to over    *)
(* one UART.  bring_up() sends two commands, waits for the reply to each,  *)
(* and starts over on a timeout or an error reply.  Replies carry nothing  *)
(* that the code matches against the command, and attitude blocks share    *)
(* the line with them.  After bring-up the task pairs AttEuler with        *)
(* AttCovEuler by their time of week (TOW) and sends the pair as a sample. *)
(*                                                                         *)
(* The receiver is outside the repository: it executes a command it can    *)
(* read, or rejects it, and answers either way; while its output is on it  *)
(* emits one AttEuler and one AttCovEuler per epoch.  Until it knows the   *)
(* time, TOW is Do-Not-Use and there is no fixed heading.  What goes wrong *)
(* on the line and in the receiver is bounded per kind of fault.           *)
(***************************************************************************)
EXTENDS Integers, Sequences, SequencesExt

CONSTANTS
  MaxLost,     \* bound: commands or messages the line loses
  MaxLate,     \* bound: replies that take longer than REPLY_TIMEOUT_MS
  MaxRejected, \* bound: commands the receiver answers with an error
  MaxRestarts, \* bound: restarts of the receiver
  MaxEpoch,    \* bound: epochs the receiver emits
  MaxLine,     \* bound: messages waiting on the way to the board
  DoNotUse     \* DNU_TOW

ASSUME BoundAssumption ==
  /\ MaxLost \in Nat /\ MaxLate \in Nat /\ MaxRejected \in Nat
  /\ MaxRestarts \in Nat /\ MaxEpoch \in Nat /\ MaxLine \in Nat
ASSUME TowAssumption == DoNotUse \notin Nat

VARIABLES
  pc,           \* where the task is
  step,         \* the command of bring_up() it is at
  pendingAtt,   \* pending_att: <<>> or one AttEuler
  sent,         \* history: the samples sent to the queue
  readBlocks,   \* history: the blocks read since bring-up
  commands,     \* on the line to the receiver
  messages,     \* on the line to the board
  attitudeOn,   \* the receiver computes attitude from both antennas
  outputOn,     \* it streams the attitude blocks
  knowsTime, epoch,
  faults        \* faults so far, per kind

task     == <<pc, step, pendingAtt, sent, readBlocks>>
receiver == <<attitudeOn, outputOn, knowsTime, epoch>>
vars     == <<task, commands, messages, receiver, faults>>

BringUp == <<"setGNSSAttitude", "setSBFOutput">>

FaultBound ==
  [lost |-> MaxLost, late |-> MaxLate, rejected |-> MaxRejected,
   restarts |-> MaxRestarts]

Reply == [type : {"reply"}, ok : BOOLEAN]
Att   == [type : {"att"}, epoch : Nat, tow : Nat \cup {DoNotUse}, fixed : BOOLEAN]
Cov   == [type : {"cov"}, epoch : Nat, tow : Nat \cup {DoNotUse}]
Sample == [att : Nat, cov : Nat, valid : BOOLEAN]

Init ==
  /\ pc = "send" /\ step = 1 /\ pendingAtt = <<>>
  /\ sent = <<>> /\ readBlocks = {}
  /\ commands = <<>> /\ messages = <<>>
  /\ attitudeOn \in BOOLEAN /\ outputOn \in BOOLEAN   \* its saved configuration
  /\ knowsTime \in BOOLEAN /\ epoch = 0
  /\ faults = [kind \in DOMAIN FaultBound |-> 0]

Fault(kind) ==
  /\ faults[kind] < FaultBound[kind]
  /\ faults' = [faults EXCEPT ![kind] = @ + 1]

-----------------------------------------------------------------------------
(* bring_up(): send_verified() per command, the whole sequence again on    *)
(* failure.                                                                *)

SendCommand ==
  /\ pc = "send"
  /\ commands' = Append(commands, BringUp[step])
  /\ pc' = "wait"
  /\ UNCHANGED <<step, pendingAtt, sent, readBlocks, messages, receiver, faults>>

\* wait_for_reply() drops the blocks it reads.
WaitReadBlock ==
  /\ pc = "wait"
  /\ messages # <<>> /\ Head(messages).type # "reply"
  /\ messages' = Tail(messages)
  /\ UNCHANGED <<task, commands, receiver, faults>>

\* Mutated form: any reply counts as an acknowledgement.
AcknowledgesAny(reply) == TRUE

Acknowledges(reply) == reply.ok

WaitReadReply ==
  /\ pc = "wait"
  /\ messages # <<>> /\ Head(messages).type = "reply"
  /\ messages' = Tail(messages)
  /\ IF ~Acknowledges(Head(messages))
       THEN pc' = "retry" /\ UNCHANGED step
       ELSE IF step < Len(BringUp)
              THEN pc' = "send" /\ step' = step + 1
              ELSE pc' = "run" /\ UNCHANGED step
  /\ UNCHANGED <<pendingAtt, sent, readBlocks, commands, receiver, faults>>

ReplyUnderway ==
  commands # <<>> \/ \E i \in DOMAIN messages : messages[i].type = "reply"

\* The deadline passes: because nothing answers, or although a reply is late.
WaitTimeout ==
  /\ pc = "wait"
  /\ IF ReplyUnderway THEN Fault("late") ELSE UNCHANGED faults
  /\ pc' = "retry"
  /\ UNCHANGED <<step, pendingAtt, sent, readBlocks, commands, messages, receiver>>

\* Mutated form: the retry waits again without sending.
RetryWithoutSend ==
  /\ pc = "retry"
  /\ pc' = "wait" /\ step' = 1
  /\ UNCHANGED <<pendingAtt, sent, readBlocks, commands, messages, receiver, faults>>

Retry ==
  /\ pc = "retry"
  /\ pc' = "send" /\ step' = 1
  /\ UNCHANGED <<pendingAtt, sent, readBlocks, commands, messages, receiver, faults>>

-----------------------------------------------------------------------------
(* task(), after bring-up.                                                 *)

RunReadReply ==
  /\ pc = "run"
  /\ messages # <<>> /\ Head(messages).type = "reply"
  /\ messages' = Tail(messages)
  /\ UNCHANGED <<task, commands, receiver, faults>>

\* Mutated form: an AttEuler that found no partner is not replaced.
RunReadAttIfNone ==
  /\ pc = "run"
  /\ messages # <<>> /\ Head(messages).type = "att"
  /\ pendingAtt' = IF pendingAtt = <<>> THEN <<Head(messages)>> ELSE pendingAtt
  /\ readBlocks' = readBlocks \cup {Head(messages)}
  /\ messages' = Tail(messages)
  /\ UNCHANGED <<pc, step, sent, commands, receiver, faults>>

RunReadAtt ==
  /\ pc = "run"
  /\ messages # <<>> /\ Head(messages).type = "att"
  /\ pendingAtt' = <<Head(messages)>>
  /\ readBlocks' = readBlocks \cup {Head(messages)}
  /\ messages' = Tail(messages)
  /\ UNCHANGED <<pc, step, sent, commands, receiver, faults>>

\* Mutated form: the TOWs are not compared.
PairsAny(cov) == pendingAtt # <<>>

Pairs(cov) == pendingAtt # <<>> /\ pendingAtt[1].tow = cov.tow

\* att_euler_to_gnss_sample
ToSample(att, cov) ==
  [att |-> att.epoch, cov |-> cov.epoch, valid |-> att.fixed]

RunReadCov ==
  /\ pc = "run"
  /\ messages # <<>> /\ Head(messages).type = "cov"
  /\ sent' = IF Pairs(Head(messages))
               THEN Append(sent, ToSample(pendingAtt[1], Head(messages))) ELSE sent
  /\ pendingAtt' = <<>>
  /\ readBlocks' = readBlocks \cup {Head(messages)}
  /\ messages' = Tail(messages)
  /\ UNCHANGED <<pc, step, commands, receiver, faults>>

TaskStep ==
  \/ SendCommand \/ WaitReadBlock \/ WaitReadReply \/ WaitTimeout \/ Retry
  \/ RunReadReply \/ RunReadAtt \/ RunReadCov

-----------------------------------------------------------------------------
(* The receiver and the line (external).                                   *)

ReceiverAccept ==
  /\ commands # <<>> /\ Len(messages) < MaxLine
  /\ attitudeOn' = (attitudeOn \/ Head(commands) = "setGNSSAttitude")
  /\ outputOn' = (outputOn \/ Head(commands) = "setSBFOutput")
  /\ commands' = Tail(commands)
  /\ messages' = Append(messages, [type |-> "reply", ok |-> TRUE])
  /\ UNCHANGED <<task, knowsTime, epoch, faults>>

ReceiverReject ==
  /\ commands # <<>> /\ Len(messages) < MaxLine
  /\ Fault("rejected")
  /\ commands' = Tail(commands)
  /\ messages' = Append(messages, [type |-> "reply", ok |-> FALSE])
  /\ UNCHANGED <<task, receiver>>

Tow == IF knowsTime THEN epoch' ELSE DoNotUse

ReceiverEmit ==
  /\ outputOn /\ epoch < MaxEpoch /\ Len(messages) + 1 < MaxLine
  /\ epoch' = epoch + 1
  /\ \E fixed \in IF attitudeOn /\ knowsTime THEN BOOLEAN ELSE {FALSE} :
       messages' = messages
         \o << [type |-> "att", epoch |-> epoch', tow |-> Tow, fixed |-> fixed],
               [type |-> "cov", epoch |-> epoch', tow |-> Tow] >>
  /\ UNCHANGED <<task, commands, attitudeOn, outputOn, knowsTime, faults>>

ReceiverLearnsTime ==
  /\ ~knowsTime
  /\ knowsTime' = TRUE
  /\ UNCHANGED <<task, commands, messages, attitudeOn, outputOn, epoch, faults>>

\* A restart falls back to some saved configuration and forgets what it read.
ReceiverRestart ==
  /\ Fault("restarts")
  /\ attitudeOn' \in BOOLEAN /\ outputOn' \in BOOLEAN
  /\ knowsTime' = FALSE
  /\ commands' = <<>>
  /\ UNCHANGED <<task, messages, epoch>>

ReceiverStep == ReceiverAccept \/ ReceiverReject

LoseCommand ==
  /\ commands # <<>>
  /\ Fault("lost")
  /\ commands' = Tail(commands)
  /\ UNCHANGED <<task, messages, receiver>>

\* Bytes lost or flipped, or a full UART buffer: the wire parser drops the message
\* (SerialLinks has the bytes; a reply has no checksum, and one whose kind byte
\* alone is flipped is left out here).
LoseMessage ==
  /\ Fault("lost")
  /\ \E i \in DOMAIN messages : messages' = RemoveAt(messages, i)
  /\ UNCHANGED <<task, commands, receiver>>

Next ==
  \/ TaskStep
  \/ ReceiverStep \/ ReceiverEmit \/ ReceiverLearnsTime \/ ReceiverRestart
  \/ LoseCommand \/ LoseMessage

Spec == Init /\ [][Next]_vars

(* The scheduler runs the task and a powered receiver answers what it can  *)
(* read.  Neither faults nor attitude epochs have to happen.               *)
FairSpec == Spec /\ WF_vars(TaskStep) /\ WF_vars(ReceiverStep)

-----------------------------------------------------------------------------
(* Properties. *)

TypeOK ==
  /\ pc \in {"send", "wait", "retry", "run"} /\ step \in 1 .. Len(BringUp)
  /\ pendingAtt \in {<<>>} \cup {<<m>> : m \in readBlocks}
  /\ readBlocks \subseteq Att \cup Cov
  /\ \A i \in DOMAIN sent : sent[i] \in Sample
  /\ \A i \in DOMAIN commands : commands[i] \in {"setGNSSAttitude", "setSBFOutput"}
  /\ \A i \in DOMAIN messages : messages[i] \in Reply \cup Att \cup Cov
  /\ attitudeOn \in BOOLEAN /\ outputOn \in BOOLEAN /\ knowsTime \in BOOLEAN
  /\ epoch \in 0 .. MaxEpoch
  /\ \A kind \in DOMAIN FaultBound : faults[kind] \in 0 .. FaultBound[kind]

OutputUnderway == \E i \in DOMAIN commands : commands[i] = "setSBFOutput"

\* "Configure the receiver for dual-antenna heading and verify each step ... so a
\* factory-reset or reflashed unit still produces headings" (bring_up), as far as the
\* code keeps it.  Nothing matches a reply with its command, so one that comes after
\* its timeout may stand for the next; all the same, a ready task has a receiver that
\* took the first command, and lacks the second only if a reply was late and that
\* command is still on the line, or something was lost or rejected besides.
ReadyMeansConfigured ==
  pc = "run" /\ faults.restarts = 0 =>
    /\ attitudeOn
    /\ \/ outputOn
       \/ faults.late > 0 /\ (OutputUnderway \/ faults.lost + faults.rejected > 0)

\* A valid heading comes with the variance of its own epoch, whichever blocks
\* are lost, and samples are never sent twice or out of order.
SamplesPairOneEpoch ==
  /\ \A i \in DOMAIN sent : sent[i].valid => sent[i].att = sent[i].cov
  /\ \A i, j \in DOMAIN sent : i < j => sent[i].att < sent[j].att

\* No loss costs more than its own epoch: when both blocks of an epoch are read
\* after bring-up, the epoch becomes a sample.
CompleteEpochsSampled ==
  \A att, cov \in readBlocks :
    att.type = "att" /\ cov.type = "cov" /\ att.epoch = cov.epoch
      => \E i \in DOMAIN sent : sent[i].att = att.epoch /\ sent[i].cov = att.epoch

\* bring_up() retries until the receiver acknowledges: with finitely many lost,
\* late and rejected commands the task does get to read attitude.
BringUpCompletes == <>(pc = "run")
=============================================================================
