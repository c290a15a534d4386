---------------------------- MODULE MCSimSession ----------------------------
(***************************************************************************)
(* The arguments SimSession is checked with.                               *)
(***************************************************************************)
EXTENDS SimSession

Toml ==
  [process_noise |-> [heading_deg2 |-> 1, roll_deg2 |-> 2, pitch_deg2 |-> 3,
                      gyro_bias_deg2_s2 |-> 4],
   initial_covariance |-> [heading_deg2 |-> 5, roll_deg2 |-> 6, pitch_deg2 |-> 7,
                           gyro_bias_deg2_s2 |-> 8],
   mti_noise |-> [roll_deg2 |-> 9, pitch_deg2 |-> 10],
   mti_yaw |-> [variance_deg2 |-> 11, q_offset_deg2 |-> 12, p0_offset_deg2 |-> 13,
                q_offset_outage_deg2 |-> 14, offset_seed_deg |-> 15],
   gnss |-> [baseline_offset_deg |-> 90, fallback_heading_variance_deg2 |-> 16],
   imu_mount |-> [mount_roll_deg |-> 90, mount_pitch_deg |-> -90, mount_yaw_deg |-> 180]]

Without(f, keys) == [key \in DOMAIN f \ keys |-> f[key]]

\* A section missing, one or two of its keys missing, or nothing missing.
Tomls ==
  {Without(Toml, {section}) : section \in DOMAIN Toml} \cup
  UNION {{[Toml EXCEPT ![section] = Without(@, {a, b})] :
            a \in DOMAIN Toml[section], b \in DOMAIN Toml[section]} :
         section \in DOMAIN Toml} \cup {Toml}

Mounted(roll, pitch, yaw) ==
  [Toml EXCEPT !.imu_mount = [mount_roll_deg |-> roll, mount_pitch_deg |-> pitch,
                              mount_yaw_deg |-> yaw]]

Base ==
  [command |-> "sim", toml |-> Toml, flags |-> <<>>, baselineTuning |-> FALSE,
   scenario |-> [heading |-> Static(90), attitude |-> LevelAttitude], noise |-> NoNoise,
   imuDt |-> 1, gnssDt |-> 2, duration |-> 6, interval |-> 1, speed |-> 1]

Headings == {Static(90), ConstantTurn(90, 0), ConstantTurn(-180, 90),
             StepTurns(<<Leg(2, 0), Leg(2, 90), Leg(2, -90)>>, 180)}
Attitudes == {LevelAttitude, ConstantHeel(90), ConstantHeel(180), ConstantTrim(90)}
Outages == {[NoNoise EXCEPT !.outageStart = from, !.outageEnd = to] :
              from \in {-1, 0, 3}, to \in {-1, 4}}

\* tuning.toml, read by both.
TuningConfigs == {[Base EXCEPT !.toml = toml, !.duration = 0] : toml \in Tomls}

\* "sim": every profile, outage and rate, the mount at all right angles, flags.
SimScenarios ==
  {[Base EXCEPT !.scenario = [heading |-> h, attitude |-> a],
                !.noise = [o EXCEPT !.bias = b], !.imuDt = dt[1], !.gnssDt = dt[2]] :
     h \in Headings, a \in Attitudes, o \in Outages, b \in {ZeroVec, Vec3(0, 0, 90)},
     dt \in {<<1, 1>>, <<1, 2>>, <<1, 3>>, <<2, 1>>, <<2, 3>>}}
SimMounts ==
  {[Base EXCEPT !.toml = Mounted(r, p, y), !.scenario.heading = h,
                !.scenario.attitude = a, !.duration = 2] :
     r \in {0, 90, 180, -90}, p \in {0, 90, 180}, y \in {0, -90, 180},
     h \in {ConstantTurn(90, 0)}, a \in Attitudes}
SimFlags ==
  {[Base EXCEPT !.flags = f, !.duration = 2] :
     f \in {[q_heading |-> 90, q_bias |-> 91, mount_roll |-> 0], [mount_yaw |-> 90, mount_pitch |-> 180],
            [p0_heading |-> 7, p0_bias |-> 92, baseline_offset |-> 180]}}
SimNoises ==
  {[Base EXCEPT !.scenario.heading = ConstantTurn(90, 0), !.noise.effect = e,
                !.noise.gnssStd = 2, !.duration = 3] :
     e \in {"white", "walk", "attitude", "mag", "gnss", "dropout"}}

\* The sweep: a still boat, a bias, an outage, fixes more seldom.
SweepConfigs ==
  {[Base EXCEPT !.command = "sweep", !.baselineTuning = t, !.gnssDt = 3,
                !.scenario = [heading |-> Static(0), attitude |-> a],
                !.noise = [NoNoise EXCEPT !.effect = e, !.bias = b, !.outageStart = 3]] :
     t \in BOOLEAN, a \in Attitudes, e \in {"none", "mag"},
     b \in {ZeroVec, Vec3(0, 0, 90), Vec3(0, 90, 0)}}
SweepFlags ==
  {[Base EXCEPT !.command = "sweep", !.baselineTuning = t, !.flags = [q_bias |-> 91],
                !.duration = 0] : t \in BOOLEAN}

\* "synthetic": rates, printing intervals and outages.
SyntheticRates ==
  {[Base EXCEPT !.command = "synthetic", !.scenario = [heading |-> h, attitude |-> a],
                !.noise = o, !.imuDt = dt[1], !.gnssDt = dt[2], !.interval = n,
                !.duration = 4, !.speed = v] :
     h \in Headings, a \in {LevelAttitude, ConstantHeel(90)},
     o \in {NoNoise, [NoNoise EXCEPT !.outageStart = 2, !.outageEnd = 3]},
     dt \in {<<1, 1>>, <<1, 2>>, <<2, 3>>}, n \in {1, 2, 3}, v \in {1, 2}}
SyntheticNoises ==
  {[Base EXCEPT !.command = "synthetic", !.noise.effect = e, !.noise.gnssStd = 2,
                !.duration = 2,
                !.scenario.heading = ConstantTurn(90, 0), !.interval = 2] :
     e \in {"white", "attitude", "mag", "gnss", "dropout"}}

\* A printing interval that is no multiple of a tick; two lines are then as far
\* apart as two fixes, or nearer.
SyntheticBeats ==
  {[Base EXCEPT !.command = "synthetic", !.scenario.heading = ConstantTurn(90, 0),
                !.imuDt = dt[1], !.gnssDt = dt[2], !.interval = 3, !.duration = 14] :
     dt \in {<<2, 4>>, <<2, 5>>}}

MCSimConfigs ==
  TuningConfigs \cup SimScenarios \cup SimMounts \cup SimFlags \cup SimNoises
    \cup SweepConfigs \cup SweepFlags \cup SyntheticRates \cup SyntheticNoises \cup SyntheticBeats
=============================================================================
