------------------------------ MODULE EkfGate ------------------------------
(***************************************************************************)
(* The control of TinyEkfFilter (lib/fusion/ekf_filter.h): which           *)
(* measurements enter the estimate and when the magnetometer offset is     *)
(* pinned.  The arithmetic is left out: whether an innovation passes its   *)
(* gate is an input of each step.  IMU samples are stamped with the time   *)
(* since boot, GNSS samples with the receiver's time of week (TOW).        *)
(***************************************************************************)
EXTENDS Integers

CONSTANTS
  GateLimit,     \* HEADING_GATE_LIMIT
  MagGateLimit,  \* MTI_YAW_GATE_LIMIT
  Grace,         \* MAG_OUTAGE_GRACE, in IMU samples
  Seeded,        \* offset_seed_deg is set
  PinsInOutage,  \* q_offset_outage_deg2 is set
  Week,          \* the TOW at which the receiver starts again from 0
  MaxClock       \* bound: IMU samples after the first

ASSUME LimitAssumption ==
  GateLimit \in Nat \ {0} /\ MagGateLimit \in Nat \ {0} /\ Grace \in Nat
ASSUME ConfigAssumption == Seeded \in BOOLEAN /\ PinsInOutage \in BOOLEAN
ASSUME ClockAssumption  == Week \in Nat \ {0} /\ MaxClock \in Nat

VARIABLES
  now,             \* time since boot, of the latest IMU sample
  towAtBoot,
  predicted,       \* _has_predicted
  initialized,     \* _initialized
  gateRejects,     \* _gate_rejects
  magGateRejects,  \* _mag_gate_rejects
  lastGnssTime,    \* _last_gnss_time
  pinned,          \* the latest predict used q_offset_outage_deg2
  event,           \* history: what the latest step did with its measurement
  dropped,         \* history: fixes dropped since one was accepted
  magRun,          \* history: IMU samples since a fix was accepted by the gate
  fixAt            \* history: time since boot of the latest valid fix

gateVars == <<now, towAtBoot, predicted, initialized, gateRejects, magGateRejects,
             lastGnssTime, pinned, event, dropped, magRun, fixAt>>

Tow == (towAtBoot + now) % Week

GateInit ==
  /\ now = 0 /\ towAtBoot \in 0 .. Week - 1
  /\ predicted = FALSE /\ initialized = FALSE
  /\ gateRejects = 0 /\ magGateRejects = 0
  /\ lastGnssTime = 0 /\ pinned = FALSE
  /\ event = "none" /\ dropped = 0 /\ magRun = 0 /\ fixAt = 0

\* The first sample only sets the baseline and the seeds.
FirstPredict ==
  /\ ~predicted
  /\ predicted' = TRUE
  /\ event' = "seeded"
  /\ UNCHANGED <<now, towAtBoot, initialized, gateRejects, magGateRejects,
                 lastGnssTime, pinned, dropped, magRun, fixAt>>

GnssOutage == initialized /\ now' - lastGnssTime > Grace
PreGnssSeed == ~initialized /\ Seeded

\* A sample whose yaw passes the gate, or has failed it often enough, is used.
MagGate(passes) ==
  IF passes
    THEN magGateRejects' = 0 /\ event' = "mag"
    ELSE IF magGateRejects + 1 < MagGateLimit
           THEN magGateRejects' = magGateRejects + 1 /\ event' = "magDropped"
           ELSE magGateRejects' = 0 /\ event' = "magForced"

Predict ==
  /\ predicted
  /\ now < MaxClock
  /\ now' = now + 1
  /\ pinned' = (PinsInOutage /\ (GnssOutage \/ PreGnssSeed))
  /\ \E passes \in BOOLEAN : MagGate(passes)
  /\ magRun' = magRun + 1
  /\ UNCHANGED <<towAtBoot, predicted, initialized, gateRejects, lastGnssTime,
                 dropped, fixAt>>

UpdateInvalid ==
  /\ event' = "invalid"
  /\ UNCHANGED <<now, towAtBoot, predicted, initialized, gateRejects,
                 magGateRejects, lastGnssTime, pinned, dropped, magRun, fixAt>>

FixArrives == lastGnssTime' = Tow /\ fixAt' = now

\* The first valid fix sets the heading; no gate applies.
UpdateFirst ==
  /\ ~initialized
  /\ initialized' = TRUE
  /\ FixArrives
  /\ event' = "anchored"
  /\ UNCHANGED <<now, towAtBoot, predicted, gateRejects, magGateRejects,
                 pinned, dropped, magRun>>

\* Mutated form: a gated fix never gets through.
UpdateDropForever ==
  /\ initialized
  /\ FixArrives
  /\ gateRejects' = gateRejects + 1 /\ dropped' = dropped + 1
  /\ event' = "fixDropped"
  /\ UNCHANGED <<now, towAtBoot, predicted, initialized, magGateRejects,
                 pinned, magRun>>

UpdateDrop ==
  /\ initialized
  /\ gateRejects + 1 < GateLimit
  /\ FixArrives
  /\ gateRejects' = gateRejects + 1 /\ dropped' = dropped + 1
  /\ event' = "fixDropped"
  /\ UNCHANGED <<now, towAtBoot, predicted, initialized, magGateRejects,
                 pinned, magRun>>

\* Mutated form: accepting a fix does not start the count of rejects again.
UpdateAcceptNoReset(passes) ==
  /\ initialized
  /\ passes \/ gateRejects + 1 >= GateLimit
  /\ FixArrives
  /\ magGateRejects' = 0 /\ magRun' = 0 /\ dropped' = 0
  /\ event' = IF passes THEN "fix" ELSE "fixForced"
  /\ UNCHANGED <<now, towAtBoot, predicted, initialized, gateRejects, pinned>>

\* Mutated form: accepting a fix leaves the magnetometer's count alone.
UpdateAcceptMagKept(passes) ==
  /\ initialized
  /\ passes \/ gateRejects + 1 >= GateLimit
  /\ FixArrives
  /\ gateRejects' = 0
  /\ magRun' = 0 /\ dropped' = 0
  /\ event' = IF passes THEN "fix" ELSE "fixForced"
  /\ UNCHANGED <<now, towAtBoot, predicted, initialized, magGateRejects, pinned>>

UpdateAccept(passes) ==
  /\ initialized
  /\ passes \/ gateRejects + 1 >= GateLimit
  /\ FixArrives
  /\ gateRejects' = 0 /\ magGateRejects' = 0
  /\ magRun' = 0 /\ dropped' = 0
  /\ event' = IF passes THEN "fix" ELSE "fixForced"
  /\ UNCHANGED <<now, towAtBoot, predicted, initialized, pinned>>

\* update() follows the tick's predict(), so the filter has predicted.
Update ==
  predicted /\ (UpdateInvalid \/ UpdateFirst \/ UpdateDrop
                  \/ \E passes \in BOOLEAN : UpdateAccept(passes))

GateNext == FirstPredict \/ Predict \/ Update

GateSpec == GateInit /\ [][GateNext]_gateVars

-----------------------------------------------------------------------------
(* Properties. *)

GateTypeOK ==
  /\ now \in 0 .. MaxClock /\ towAtBoot \in 0 .. Week - 1
  /\ predicted \in BOOLEAN /\ initialized \in BOOLEAN /\ pinned \in BOOLEAN
  /\ gateRejects \in Nat /\ magGateRejects \in Nat
  /\ lastGnssTime \in 0 .. Week - 1
  /\ event \in {"none", "seeded", "mag", "magDropped", "magForced", "invalid",
                "anchored", "fix", "fixDropped", "fixForced"}
  /\ dropped \in Nat /\ magRun \in Nat /\ fixAt \in 0 .. MaxClock

\* "A filter converged on a wrong heading cannot reject reacquisition forever"
\* (HEADING_GATE_LIMIT): whatever invalid samples and IMU samples come between,
\* fewer than GateLimit fixes are dropped before one is accepted.
FixGateOpens == dropped < GateLimit

\* "A lone bad fix cannot slam the state" (update()): a fix that fails its gate
\* is accepted only after GateLimit - 1 others were dropped in a row.
ForcedAfterStreak ==
  [][event' = "fixForced" => dropped = GateLimit - 1]_gateVars

\* The magnetometer's forced accept is for a filter adrift without GNSS, "not
\* while GNSS is actively steering heading" (update()): its innovation is let
\* through only after MagGateLimit samples without an accepted fix.
MagForcedOnlyAdrift ==
  [][event' = "magForced" => magRun' >= MagGateLimit]_gateVars

\* A missed fix or a brief dropout does not trip the grace, "a real outage does"
\* (MAG_OUTAGE_GRACE): without a valid fix for longer than the grace, the offset
\* is pinned.
OutageIsPinned ==
  [][PinsInOutage /\ initialized /\ now' > now /\ now' - fixAt > Grace
       => pinned']_gateVars
=============================================================================
