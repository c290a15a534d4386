------------------------------ MODULE ImuTask ------------------------------
(***************************************************************************)
(* The IMU task of src/imu_task.cpp and the BNO085 it polls over I2C.      *)
(* bring_up() resets the sensor, drains its cargos for a fixed time,       *)
(* enables four sensors and waits for a cargo of reports; on a timeout it  *)
(* starts over.  Afterwards the task keeps the latest triad of each kind   *)
(* and sends a sample whenever a Rotation Vector arrives.  Nothing is      *)
(* acknowledged: send() ignores whether the I2C write went through.        *)
(*                                                                         *)
(* The BNO085 is outside the repository.  A reset takes a while, drops its *)
(* queue and disables every sensor; once per period it reports on the      *)
(* enabled ones, in one cargo or two.  Periods are numbered modulo         *)
(* PeriodModulus so that the sensor can run forever.                       *)
(***************************************************************************)
EXTENDS Integers, Sequences

CONSTANTS
  PeriodModulus,  \* bound: periods told apart
  MaxQueue,       \* bound: cargos waiting in the sensor
  MaxLostCommands,\* bound: I2C writes that fail
  MaxLostCargos,  \* bound: cargos that an I2C read loses
  MaxSlow,        \* bound: drains and waits that end before the sensor is up
  MaxResets,      \* bound: resets of the sensor on its own
  MaxBadNorms,    \* bound: quaternions whose norm from_raw() rejects
  None

ASSUME BoundAssumption ==
  /\ PeriodModulus \in Nat \ {0} /\ MaxQueue \in Nat /\ MaxLostCommands \in Nat
  /\ MaxLostCargos \in Nat /\ MaxSlow \in Nat /\ MaxResets \in Nat
  /\ MaxBadNorms \in Nat
ASSUME NoneAssumption == None \notin Nat

VARIABLES
  pc,         \* where the task is
  enabling,   \* the index into ENABLED_SENSORS
  held,       \* last_gyro, last_accel, last_mag: the period of each, or None
  sample,     \* the latest sample sent: the period of each part, or None
  dcdSaved,   \* dcd_saved
  dcdWrites,  \* history: Save DCD commands that the sensor took
  converged,  \* history: a Rotation Vector with high accuracy was sampled
  enabled, booting, period, cargos,  \* the sensor
  faults      \* faults so far, per kind

task   == <<pc, enabling, held, sample, dcdSaved, converged>>
sensor == <<enabled, booting, period, cargos>>
vars   == <<task, dcdWrites, sensor, faults>>

ENABLED_SENSORS ==
  <<"RotationVector", "GyroCalibrated", "Accelerometer", "MagCalibrated">>
Triads  == {"GyroCalibrated", "Accelerometer", "MagCalibrated"}
Sensors == Triads \cup {"RotationVector"}
Period  == 0 .. PeriodModulus - 1

Other == [channel |-> "Executable"]   \* an advertisement or a reset-complete

\* Only the accuracy of a Rotation Vector matters.
Reports(n, of, high) ==
  [channel |-> "InputReports", period |-> n, of |-> of,
   high |-> high /\ "RotationVector" \in of]

FaultBound ==
  [command |-> MaxLostCommands, cargo |-> MaxLostCargos, slow |-> MaxSlow,
   reset |-> MaxResets, norm |-> MaxBadNorms]

Fault(kind) ==
  /\ faults[kind] < FaultBound[kind]
  /\ faults' = [faults EXCEPT ![kind] = @ + 1]

\* The sensor may still run from before the board started.
Init ==
  /\ pc = "reset" /\ enabling = 1
  /\ held = [t \in Triads |-> None] /\ sample = None
  /\ dcdSaved = FALSE /\ dcdWrites = 0 /\ converged = FALSE
  /\ enabled \in {{}, Sensors} /\ booting = FALSE /\ period = 0 /\ cargos = <<>>
  /\ faults = [kind \in DOMAIN FaultBound |-> 0]

-----------------------------------------------------------------------------
(* bring_up()                                                              *)

SensorResets ==
  enabled' = {} /\ booting' = TRUE /\ cargos' = <<>> /\ period' = 0

SendReset ==
  /\ pc = "reset"
  /\ pc' = "drain"
  /\ \/ SensorResets /\ UNCHANGED faults
     \/ Fault("command") /\ UNCHANGED sensor
  /\ UNCHANGED <<enabling, held, sample, dcdSaved, dcdWrites, converged>>

DrainRead ==
  /\ pc = "drain"
  /\ cargos # <<>>
  /\ cargos' = Tail(cargos)
  /\ UNCHANGED <<task, dcdWrites, enabled, booting, period, faults>>

\* RESET_DRAIN_MS pass; a slow sensor is still in its reset.
DrainEnd ==
  /\ pc = "drain"
  /\ IF booting THEN Fault("slow") ELSE UNCHANGED faults
  /\ pc' = "enable" /\ enabling' = 1
  /\ UNCHANGED <<held, sample, dcdSaved, dcdWrites, converged, sensor>>

\* Mutated form: the loop starts at the second sensor.
ToEnableSkippingFirst == {ENABLED_SENSORS[i] : i \in {enabling} \ {1}}

ToEnable == {ENABLED_SENSORS[enabling]}

\* A sensor in its reset ignores the request.
SendFeature ==
  /\ pc = "enable"
  /\ \/ enabled' = (IF booting THEN enabled ELSE enabled \cup ToEnable)
        /\ UNCHANGED faults
     \/ Fault("command") /\ UNCHANGED enabled
  /\ IF enabling < Len(ENABLED_SENSORS)
       THEN enabling' = enabling + 1 /\ UNCHANGED pc
       ELSE pc' = "ready" /\ UNCHANGED enabling
  /\ UNCHANGED <<held, sample, dcdSaved, dcdWrites, converged, booting, period, cargos>>

ReadyRead ==
  /\ pc = "ready"
  /\ cargos # <<>>
  /\ cargos' = Tail(cargos)
  /\ pc' = IF Head(cargos).channel = "InputReports" THEN "run" ELSE "ready"
  /\ UNCHANGED <<enabling, held, sample, dcdSaved, dcdWrites, converged, enabled,
                 booting, period, faults>>

ReportsComing ==
  \/ enabled # {}
  \/ \E i \in DOMAIN cargos : cargos[i].channel = "InputReports"

\* READY_TIMEOUT_MS pass without a report, or with one that is late.
ReadyTimeout ==
  /\ pc = "ready"
  /\ IF ReportsComing THEN Fault("slow") ELSE UNCHANGED faults
  /\ pc' = "retry"
  /\ UNCHANGED <<enabling, held, sample, dcdSaved, dcdWrites, converged, sensor>>

\* Mutated form: the sensor set is not sent again.
RetryWaiting ==
  /\ pc = "retry"
  /\ pc' = "ready"
  /\ UNCHANGED <<enabling, held, sample, dcdSaved, dcdWrites, converged, sensor, faults>>

Retry ==
  /\ pc = "retry"
  /\ pc' = "reset"
  /\ UNCHANGED <<enabling, held, sample, dcdSaved, dcdWrites, converged, sensor, faults>>

-----------------------------------------------------------------------------
(* task(), after bring-up.                                                 *)

RunReadOther ==
  /\ pc = "run"
  /\ cargos # <<>> /\ Head(cargos).channel # "InputReports"
  /\ cargos' = Tail(cargos)
  /\ UNCHANGED <<task, dcdWrites, enabled, booting, period, faults>>

\* Mutated form: a triad is taken only when none is held.
HeldAfterOnce(cargo) ==
  [t \in Triads |->
     IF t \in cargo.of /\ held[t] = None THEN cargo.period ELSE held[t]]

HeldAfter(cargo) ==
  [t \in Triads |-> IF t \in cargo.of THEN cargo.period ELSE held[t]]

\* A sample needs a Rotation Vector, a gyro and an accel triad.
Samples(cargo) ==
  /\ "RotationVector" \in cargo.of
  /\ held'["GyroCalibrated"] # None /\ held'["Accelerometer"] # None

\* The command may be lost, and is marked as sent all the same.
SaveDcd ==
  /\ dcdSaved' = TRUE
  /\ \/ dcdWrites' = dcdWrites + 1 /\ UNCHANGED faults
     \/ Fault("command") /\ UNCHANGED dcdWrites

SendSample(cargo) ==
  /\ sample' = [rotation |-> cargo.period, triad |-> held']
  /\ converged' = (converged \/ cargo.high)
  /\ IF ~dcdSaved /\ cargo.high
       THEN SaveDcd ELSE UNCHANGED <<dcdSaved, dcdWrites, faults>>

\* UnitQuaternion::from_raw takes only a quaternion of about unit norm.
RunReadReports ==
  /\ pc = "run"
  /\ cargos # <<>> /\ Head(cargos).channel = "InputReports"
  /\ cargos' = Tail(cargos)
  /\ held' = HeldAfter(Head(cargos))
  /\ \/ Samples(Head(cargos)) /\ SendSample(Head(cargos))
     \/ /\ Samples(Head(cargos)) /\ Fault("norm")
        /\ UNCHANGED <<sample, converged, dcdSaved, dcdWrites>>
     \/ /\ ~Samples(Head(cargos))
        /\ UNCHANGED <<sample, converged, dcdSaved, dcdWrites, faults>>
  /\ UNCHANGED <<pc, enabling, enabled, booting, period>>

-----------------------------------------------------------------------------
(* The BNO085 and the bus (external).                                      *)

SensorBooted ==
  /\ booting
  /\ booting' = FALSE
  /\ cargos' = Append(cargos, Other)
  /\ UNCHANGED <<task, dcdWrites, enabled, period, faults>>

SensorPeriod ==
  /\ enabled # {} /\ Len(cargos) + 1 < MaxQueue
  /\ period' = (period + 1) % PeriodModulus
  /\ \E first \in SUBSET enabled, high \in BOOLEAN :
       cargos' = cargos
         \o (IF first = {} THEN <<>> ELSE <<Reports(period, first, high)>>)
         \o (IF first = enabled THEN <<>>
             ELSE <<Reports(period, enabled \ first, high)>>)
  /\ UNCHANGED <<task, dcdWrites, enabled, booting, faults>>

\* A read that comes up short loses the cargo.
LoseCargo ==
  /\ cargos # <<>>
  /\ Fault("cargo")
  /\ cargos' = Tail(cargos)
  /\ UNCHANGED <<task, dcdWrites, enabled, booting, period>>

SensorReset ==
  /\ Fault("reset")
  /\ SensorResets
  /\ UNCHANGED <<task, dcdWrites>>

BringUpStep ==
  SendReset \/ DrainRead \/ DrainEnd \/ SendFeature \/ ReadyRead \/ ReadyTimeout \/ Retry

RunStep == RunReadOther \/ RunReadReports

Next ==
  BringUpStep \/ RunStep \/ SensorBooted \/ SensorPeriod \/ LoseCargo \/ SensorReset

Spec == Init /\ [][Next]_vars

(* The scheduler runs the task and its clock ends every wait, the sensor   *)
(* finishes its reset and reports.  No fault has to happen.                *)
FairSpec ==
  /\ Spec
  /\ WF_vars(SendReset \/ SendFeature \/ Retry) /\ WF_vars(DrainEnd)
  /\ WF_vars(ReadyRead) /\ WF_vars(ReadyTimeout) /\ WF_vars(RunStep)
  /\ WF_vars(SensorBooted) /\ WF_vars(SensorPeriod)

-----------------------------------------------------------------------------
(* Properties. *)

TypeOK ==
  /\ pc \in {"reset", "drain", "enable", "ready", "retry", "run"}
  /\ enabling \in DOMAIN ENABLED_SENSORS
  /\ held \in [Triads -> Period \cup {None}]
  /\ sample = None \/ sample \in [rotation : Period, triad : [Triads -> Period \cup {None}]]
  /\ dcdSaved \in BOOLEAN /\ dcdWrites \in Nat /\ converged \in BOOLEAN
  /\ enabled \subseteq Sensors /\ booting \in BOOLEAN /\ period \in Period
  /\ \A i \in DOMAIN cargos :
       cargos[i] = Other \/ cargos[i] \in [channel : {"InputReports"}, period : Period,
                                           of : SUBSET Sensors, high : BOOLEAN]
  /\ \A kind \in DOMAIN FaultBound : faults[kind] \in 0 .. FaultBound[kind]

Age(triad) == (sample.rotation - sample.triad[triad]) % PeriodModulus

\* A Rotation Vector is "paired with" the latest triads (task()): the gyro and
\* accel of a sample are from its own period or the one before, and each lost
\* cargo adds at most one more.
TriadsAreRecent ==
  sample # None =>
    \A triad \in {"GyroCalibrated", "Accelerometer"} : Age(triad) <= 1 + faults.cargo

\* "One-shot per run" (task()): the sensor's flash is written at most once, and
\* never before the magnetometer converged.
DcdSavedOnce == dcdWrites <= (IF converged THEN 1 ELSE 0)

\* "Retries indefinitely" (bring_up): with finitely many failed writes, slow
\* resets and sensor resets, some attempt succeeds.
BringUpCompletes == <>(pc = "run")

SensorTroubled == faults.command + faults.slow + faults.reset > 0

Needed == Sensors \ {"MagCalibrated"}

\* Ready means that samples follow, unless a sensor that a sample needs is disabled
\* (the wait of bring_up() ends with any input report), and none is but for a write
\* that failed, a slow reset or one of the sensor's own.  Lost cargos, a bad norm and
\* trouble that left the three sensors enabled only delay the first sample.
ReadyYieldsSamples ==
  (pc = "run") ~> (sample # None \/ (SensorTroubled /\ ~(Needed \subseteq enabled)))
=============================================================================
