------------------------------ MODULE SimSource ------------------------------
(***************************************************************************)
(* What one iteration of SimulatedSource computes (source.py): the truth   *)
(* profiles (truth.py), the synthesized samples, their corruption          *)
(* (noise.py) and the way of a fix through the firmware's GNSS bridge.     *)
(*                                                                         *)
(* Time is in ticks, angles are multiples of 90 deg, rates multiples of 90 *)
(* deg per tick, so that every value is exact.  Sinusoidal and WaveMotion, *)
(* whose rates are not rational, are left out.                             *)
(***************************************************************************)
EXTENDS Angles, Attitude, Sequences, SequencesExt

ConstantTurn(rate, heading0) ==
  [kind |-> "turn", legs |-> <<>>, rate |-> rate, heading0 |-> heading0]
StepTurns(legs, heading0) ==
  [kind |-> "steps", legs |-> legs, rate |-> 0, heading0 |-> heading0]
Static(heading) ==
  [kind |-> "static", legs |-> <<>>, rate |-> 0, heading0 |-> heading]
Leg(duration, rate) == [duration |-> duration, rate |-> rate]

LevelAttitude == [axis |-> ZeroVec, angle |-> 0]
ConstantHeel(angle) == [axis |-> AxisX, angle |-> angle]
ConstantTrim(angle) == [axis |-> AxisY, angle |-> angle]

-----------------------------------------------------------------------------
(* truth.py *)

\* When leg i of a StepTurns starts.
Start(legs, i) == MapThenSumSet(LAMBDA k : legs[k].duration, 1 .. i - 1)

\* How much of leg i lies before t.
Sailed(legs, i, t) == Max({0, Min({t - Start(legs, i), legs[i].duration})})

StepHeadingAt(legs, heading0, t) ==
  heading0 + MapThenSumSet(LAMBDA i : legs[i].rate * Sailed(legs, i, t), DOMAIN legs)

\* Past the final leg the heading holds.
StepRateAt(legs, t) ==
  LET sailing == {i \in DOMAIN legs : t < Start(legs, i) + legs[i].duration}
  IN  IF sailing = {} THEN 0 ELSE legs[Min(sailing)].rate

SampleHeading(profile, t) ==
  CASE profile.kind = "turn"  -> [deg |-> profile.heading0 + profile.rate * t,
                                  rate |-> profile.rate]
    [] profile.kind = "steps" -> [deg |-> StepHeadingAt(profile.legs, profile.heading0, t),
                                  rate |-> StepRateAt(profile.legs, t)]
    [] OTHER                  -> [deg |-> profile.heading0, rate |-> 0]

\* World<-body; a heel or trim that does not change has no body rate of its own.
SampleAttitude(profile) == FromAxisAngle(profile.axis, profile.angle)

\* The boat's world<-body orientation: the MTi's world is ENU, where yaw is the
\* negated heading.
BoatOrientation(scenario, t) ==
  Multiply(FromAxisAngle(AxisZ, -SampleHeading(scenario.heading, t).deg),
           SampleAttitude(scenario.attitude))

-----------------------------------------------------------------------------
(* The clean samples. *)

VecAdd(a, b) == Vec3(a.x + b.x, a.y + b.y, a.z + b.z)

\* Mutated form: the mount applied where its inverse belongs.
MountImuForward(orientation, imuMount) == Multiply(orientation, imuMount)

\* The MTi reports the boat's attitude rotated by the inverse mount.
MountImu(orientation, imuMount) == Multiply(orientation, Conjugate(imuMount))

\* The gyro stays in boat axes: yaw is about world Z, seen in the body frame.
CleanImu(scenario, imuMount, t) ==
  LET orientation == BoatOrientation(scenario, t)
      rate        == SampleHeading(scenario.heading, t).rate
  IN  [t |-> t, orientation |-> MountImu(orientation, imuMount),
       gyro |-> WorldToBody(orientation, Vec3(0, 0, -rate))]

\* gnss_sample_from_attitude: an AttEuler of a mode with a heading, through the
\* bridge.  A covariance that is no Do-Not-Use value passes as it is.
GnssSampleFromAttitude(heading, variance, valid, t, baseline) ==
  [t |-> t, heading |-> Wrap180(heading - baseline), variance |-> variance,
   valid |-> valid]

-----------------------------------------------------------------------------
(* noise.py.  A model enables one effect: "white", "walk", "attitude" or   *)
(* "mag" on the IMU, "gnss" or "dropout" on the fixes, or none.  Each draw *)
(* of the random generator is an input; a fix that one is added to has the *)
(* variance of the model's standard deviation.                             *)

NoNoise == [effect |-> "none", bias |-> ZeroVec, gnssStd |-> 0,
            outageStart |-> -1, outageEnd |-> -1]

Draws(noise) == IF noise.effect = "none" THEN {0} ELSE {0, 90}

\* The magnetic error, lobes and snaps together, turns the yaw about world Z.
MagDisturb(noise, draw, orientation) ==
  IF noise.effect = "mag" THEN Multiply(FromAxisAngle(AxisZ, draw), orientation)
  ELSE orientation

\* A small rotation in body axes.
Perturb(noise, draw, orientation) ==
  IF noise.effect = "attitude"
    THEN Multiply(orientation,
                  Multiply(FromAxisAngle(AxisX, draw), FromAxisAngle(AxisZ, draw)))
    ELSE orientation

Walk(noise, draw, walk) ==
  IF noise.effect = "walk" THEN VecAdd(walk, Vec3(draw, 0, draw)) ELSE walk

White(noise, draw) == IF noise.effect = "white" THEN Vec3(draw, 0, draw) ELSE ZeroVec

\* ImuNoise.corrupt, once the bias has walked.
CorruptImu(noise, draw, walk, imu) ==
  [imu EXCEPT !.gyro = VecAdd(VecAdd(@, noise.bias), VecAdd(walk, White(noise, draw))),
              !.orientation = Perturb(noise, draw, MagDisturb(noise, draw, @))]

InOutage(noise, t) ==
  /\ noise.outageStart >= 0 /\ t >= noise.outageStart
  /\ noise.outageEnd >= 0 => t < noise.outageEnd

\* GnssNoise.corrupt returns None: no fix.
Dropped(noise, draw, t) == InOutage(noise, t) \/ (noise.effect = "dropout" /\ draw # 0)

\* The fix at t: measured along the antenna baseline, corrupted, bridged.
Fix(scenario, noise, draw, baseline, t) ==
  LET along   == SampleHeading(scenario.heading, t).deg + baseline
      dropped == Dropped(noise, draw, t)
      noisy   == noise.effect = "gnss" /\ ~dropped
  IN  GnssSampleFromAttitude(IF noisy THEN along + draw ELSE along,
                             IF noisy THEN noise.gnssStd * noise.gnssStd ELSE 0, ~dropped, t, baseline)
=============================================================================
