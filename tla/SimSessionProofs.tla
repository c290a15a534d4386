----------------------------- MODULE SimSessionProofs -----------------------------
(***************************************************************************)
(* Proofs about SimSession, for every command, tuning.toml, flag and       *)
(* profile: the tuning that is loaded, the algebra of rotations up to a    *)
(* factor, the mount that cancels, the pace, and the open-loop track next  *)
(* to the truth.                                                           *)
(*                                                                         *)
(* TelemetryCodec: what format_record prints is read back.  From it, and a *)
(* replay of the lines so far that goes on with each tick exported:        *)
(* SimSession's capture, replayed, feeds the filter as the run did; and    *)
(* what its analysis finds of the magnetometer is the lag of the samples.  *)
(***************************************************************************)
EXTENDS SimSession, LiveViewProofs, Induction, SequenceTheorems, FiniteSetTheorems, TLAPS

-----------------------------------------------------------------------------
(* SimSession: tuning.toml as its three readers take it. *)

\* Cosine and sine of the half angle.
HalfTurns == {<<c, s>> : c \in {-1, 0, 1}, s \in {-1, 0, 1}} \ {<<0, 0>>}

LEMMA HalfAngle ==
  ASSUME NEW deg \in Int
  PROVE  Eighths[((deg \div 90) % 8) + 1] \in HalfTurns
<1>1. ((deg \div 90) % 8) + 1 \in 1 .. 8
  OBVIOUS
<1>2. \A k \in 1 .. 8 : Eighths[k] \in HalfTurns
  BY DEF Eighths, HalfTurns
<1> QED
  BY <1>1, <1>2

\* The port of attitude.py in gen_tuning.py computes the same rotation.
LEMMA MountsAgree ==
  ASSUME NEW roll \in Int, NEW pitch \in Int, NEW yaw \in Int
  PROVE  LET m == EulerPort(roll, pitch, yaw)
         IN  Quaternion(m[1], m[2], m[3], m[4]) = EulerToQuaternion(roll, pitch, yaw)
<1> DEFINE half(deg) == Eighths[((deg \div 90) % 8) + 1]
<1>1. PICK r \in HalfTurns, p \in HalfTurns, y \in HalfTurns :
        r = half(roll) /\ p = half(pitch) /\ y = half(yaw)
  BY HalfAngle
<1>2. PICK rc \in {-1, 0, 1}, rs \in {-1, 0, 1} : r = <<rc, rs>>
  BY DEF HalfTurns
<1>3. PICK pc \in {-1, 0, 1}, ps \in {-1, 0, 1} : p = <<pc, ps>>
  BY DEF HalfTurns
<1>4. PICK yc \in {-1, 0, 1}, ys \in {-1, 0, 1} : y = <<yc, ys>>
  BY DEF HalfTurns
<1>5. /\ AxisAngle(<<1, 0, 0>>, roll) = <<rc, rs, 0, 0>>
      /\ FromAxisAngle(AxisX, roll) = Quaternion(rc, rs, 0, 0)
  BY <1>1, <1>2 DEF AxisAngle, FromAxisAngle, AxisX, Vec3, Quaternion
<1>6. /\ AxisAngle(<<0, 1, 0>>, pitch) = <<pc, 0, ps, 0>>
      /\ FromAxisAngle(AxisY, pitch) = Quaternion(pc, 0, ps, 0)
  BY <1>1, <1>3 DEF AxisAngle, FromAxisAngle, AxisY, Vec3, Quaternion
<1>7. /\ AxisAngle(<<0, 0, 1>>, yaw) = <<yc, 0, 0, ys>>
      /\ FromAxisAngle(AxisZ, yaw) = Quaternion(yc, 0, 0, ys)
  BY <1>1, <1>4 DEF AxisAngle, FromAxisAngle, AxisZ, Vec3, Quaternion
<1>8. /\ Product(<<yc, 0, 0, ys>>, <<pc, 0, ps, 0>>) =
           <<yc * pc, -(ys * ps), yc * ps, ys * pc>>
      /\ Multiply(Quaternion(yc, 0, 0, ys), Quaternion(pc, 0, ps, 0)) =
           Quaternion(yc * pc, -(ys * ps), yc * ps, ys * pc)
  BY DEF Product, Multiply, Quaternion
<1>9. PICK a \in Int, b \in Int, c \in Int, d \in Int :
        a = yc * pc /\ b = -(ys * ps) /\ c = yc * ps /\ d = ys * pc
  OBVIOUS
<1>10. /\ Product(<<a, b, c, d>>, <<rc, rs, 0, 0>>) =
            <<a * rc - b * rs, a * rs + b * rc, c * rc + d * rs, d * rc - c * rs>>
       /\ Multiply(Quaternion(a, b, c, d), Quaternion(rc, rs, 0, 0)) =
            Quaternion(a * rc - b * rs, a * rs + b * rc, c * rc + d * rs, d * rc - c * rs)
  BY DEF Product, Multiply, Quaternion
<1> QED
  BY <1>5, <1>6, <1>7, <1>8, <1>9, <1>10 DEF EulerPort, EulerToQuaternion

MountKeys == {"mount_roll_deg", "mount_pitch_deg", "mount_yaw_deg"}

LEMMA MountAngles ==
  ASSUME NEW c \in SimConfigs, NEW key \in MountKeys
  PROVE  Get(c.toml, "imu_mount", key, 0) \in Int
BY SimAssumption DEF Get, Has, MountKeys

\* Both readers need the same keys.
LEMMA BothRaise ==
  ASSUME NEW toml
  PROVE  Render(toml).raised <=> LoadTuning(toml).raised \/ LoadMount(toml).raised
<1> DEFINE q == {"heading_deg2", "roll_deg2", "pitch_deg2", "gyro_bias_deg2_s2"}
           yaw == {"variance_deg2", "q_offset_deg2", "p0_offset_deg2"}
           missing == \/ ~Has(toml, "process_noise", q) \/ ~Has(toml, "initial_covariance", q)
                      \/ ~Has(toml, "mti_noise", {"roll_deg2", "pitch_deg2"})
                      \/ "mti_yaw" \in DOMAIN toml /\ ~Has(toml, "mti_yaw", yaw)
           unmounted == ~Has(toml, "gnss", {"baseline_offset_deg", "fallback_heading_variance_deg2"})
<1>1. LoadTuning(toml).raised <=> missing
  BY DEF LoadTuning, Raised
<1>2. LoadMount(toml).raised <=> unmounted
  BY DEF LoadMount, Raised
<1>3. Render(toml).raised <=> missing \/ unmounted
  <2> DEFINE required == {<<"process_noise", q>>, <<"initial_covariance", q>>,
                          <<"mti_noise", {"roll_deg2", "pitch_deg2"}>>,
                          <<"gnss", {"baseline_offset_deg", "fallback_heading_variance_deg2"}>>}
                         \cup IF "mti_yaw" \in DOMAIN toml THEN {<<"mti_yaw", yaw>>} ELSE {}
  <2>1. (\E r \in required : ~Has(toml, r[1], r[2])) <=> missing \/ unmounted
    <3>1. PICK needed : needed = {"variance_deg2", "q_offset_deg2", "p0_offset_deg2"}
      OBVIOUS
    <3>2. PICK variances : variances = {"heading_deg2", "roll_deg2", "pitch_deg2", "gyro_bias_deg2_s2"}
      OBVIOUS
    <3>3. PICK noises : noises = {"roll_deg2", "pitch_deg2"}
      OBVIOUS
    <3>4. PICK mounted : mounted = {"baseline_offset_deg", "fallback_heading_variance_deg2"}
      OBVIOUS
    <3>5. required = {<<"process_noise", variances>>, <<"initial_covariance", variances>>,
                      <<"mti_noise", noises>>, <<"gnss", mounted>>}
                     \cup IF "mti_yaw" \in DOMAIN toml THEN {<<"mti_yaw", needed>>} ELSE {}
      BY <3>1, <3>2, <3>3, <3>4
    <3>6. /\ missing <=> \/ ~Has(toml, "process_noise", variances)
                         \/ ~Has(toml, "initial_covariance", variances)
                         \/ ~Has(toml, "mti_noise", noises)
                         \/ "mti_yaw" \in DOMAIN toml /\ ~Has(toml, "mti_yaw", needed)
          /\ unmounted <=> ~Has(toml, "gnss", mounted)
      BY <3>1, <3>2, <3>3, <3>4
    <3> HIDE DEF required, missing, unmounted
    <3>7. PICK a, b, c, d, e :
            /\ a = <<"process_noise", variances>> /\ b = <<"initial_covariance", variances>>
            /\ c = <<"mti_noise", noises>> /\ d = <<"gnss", mounted>> /\ e = <<"mti_yaw", needed>>
      OBVIOUS
    <3>8. /\ a[1] = "process_noise" /\ a[2] = variances
          /\ b[1] = "initial_covariance" /\ b[2] = variances
          /\ c[1] = "mti_noise" /\ c[2] = noises /\ d[1] = "gnss" /\ d[2] = mounted
          /\ e[1] = "mti_yaw" /\ e[2] = needed
      BY <3>7
    <3>9. \A r : r \in required <=> \/ r \in {a, b, c, d}
                                    \/ "mti_yaw" \in DOMAIN toml /\ r = e
      BY <3>5, <3>7
    <3>10. (\E r \in required : ~Has(toml, r[1], r[2])) <=>
             \/ ~Has(toml, a[1], a[2]) \/ ~Has(toml, b[1], b[2]) \/ ~Has(toml, c[1], c[2])
             \/ ~Has(toml, d[1], d[2])
             \/ "mti_yaw" \in DOMAIN toml /\ ~Has(toml, e[1], e[2])
      BY <3>9, Zenon
    <3> QED
      BY <3>6, <3>8, <3>10
  <2> HIDE DEF missing, unmounted
  <2>2. Render(toml).raised <=> \E r \in required : ~Has(toml, r[1], r[2])
    BY DEF Render, Raised
  <2> QED
    BY <2>1, <2>2
<1> QED
  BY <1>1, <1>2, <1>3

\* What the simulator's readers make of a tuning.toml is what is compiled in.
ReadAlike(toml) ==
  LET shipped == Render(toml)
      native  == ToNativeConfig(LoadTuning(toml))
  IN  /\ [native EXCEPT !.boatToImu = Identity] = [shipped.config EXCEPT !.boatToImu = Identity]
      /\ native.boatToImu = shipped.config.boatToImu
      /\ LoadMount(toml).baseline = shipped.baseline

LEMMA TomlReadAlike ==
  ASSUME NEW conf0 \in SimConfigs, ~Render(conf0.toml).raised
  PROVE  ReadAlike(conf0.toml)
<1> DEFINE toml == conf0.toml
           angle(key) == Get(toml, "imu_mount", key, 0)
           loaded == LoadTuning(toml)
           native == ToNativeConfig(loaded)
           shipped == Render(toml)
           emitted(key) == IF key \in DOMAIN toml["mti_yaw"] THEN toml["mti_yaw"][key] ELSE None
           optional(key) == Get(toml, "mti_yaw", key, None)
<1>1. ~loaded.raised /\ ~LoadMount(toml).raised
  BY BothRaise
<1>2. PICK roll \in Int, pitch \in Int, yaw \in Int :
        /\ roll = angle("mount_roll_deg") /\ pitch = angle("mount_pitch_deg")
        /\ yaw = angle("mount_yaw_deg")
  BY MountAngles DEF MountKeys
<1>3. LoadMount(toml).baseline = toml["gnss"]["baseline_offset_deg"]
  BY <1>1 DEF LoadMount, Raised
<1>4. /\ loaded.q = toml["process_noise"] /\ loaded.p0 = toml["initial_covariance"]
      /\ loaded.mti = toml["mti_noise"]
      /\ loaded.yaw = IF "mti_yaw" \notin DOMAIN toml THEN NoYaw
                      ELSE [present |-> TRUE,
                            variance |-> toml["mti_yaw"]["variance_deg2"],
                            qOffset |-> toml["mti_yaw"]["q_offset_deg2"],
                            p0Offset |-> toml["mti_yaw"]["p0_offset_deg2"],
                            qOutage |-> optional("q_offset_outage_deg2"),
                            seed |-> optional("offset_seed_deg")]
      /\ loaded.roll = roll /\ loaded.pitch = pitch /\ loaded.yawDeg = yaw
  BY <1>1, <1>2 DEF LoadTuning, Raised
<1>5. PICK mount : mount = EulerPort(roll, pitch, yaw)
  OBVIOUS
<1>6. /\ shipped.config =
           [q |-> toml["process_noise"], p0 |-> toml["initial_covariance"],
            mti |-> toml["mti_noise"],
            yaw |-> IF "mti_yaw" \notin DOMAIN toml THEN NoYaw
                    ELSE [present |-> TRUE,
                          variance |-> toml["mti_yaw"]["variance_deg2"],
                          qOffset |-> toml["mti_yaw"]["q_offset_deg2"],
                          p0Offset |-> toml["mti_yaw"]["p0_offset_deg2"],
                          qOutage |-> emitted("q_offset_outage_deg2"),
                          seed |-> emitted("offset_seed_deg")],
            boatToImu |-> Quaternion(mount[1], mount[2], mount[3], mount[4])]
      /\ shipped.baseline = toml["gnss"]["baseline_offset_deg"]
  BY <1>2, <1>5 DEF Render, Raised
<1>7. "mti_yaw" \in DOMAIN toml => \A key : optional(key) = emitted(key)
  BY DEF Get, Has
<1>8. Quaternion(mount[1], mount[2], mount[3], mount[4]) = EulerToQuaternion(roll, pitch, yaw)
  BY <1>5, MountsAgree
<1>9. native = [q |-> loaded.q, p0 |-> loaded.p0, mti |-> loaded.mti, yaw |-> loaded.yaw,
                boatToImu |-> EulerToQuaternion(roll, pitch, yaw)]
  BY <1>4 DEF ToNativeConfig
<1> HIDE DEF loaded, native, shipped, optional, emitted
<1>10. native = shipped.config
  BY <1>4, <1>6, <1>7, <1>8, <1>9
<1> QED
  BY <1>3, <1>6, <1>10 DEF ReadAlike, native, shipped, loaded

\* What "sim" loads: the tuning with its flags, and the mount put on the source.
SimLoaded ==
  LET c == Overridden(LoadTuning(conf.toml))
  IN  [native |-> ToNativeConfig(c),
       baseline |-> Override("baseline_offset", LoadMount(conf.toml).baseline),
       imuMount |-> EulerToQuaternion(c.roll, c.pitch, c.yawDeg)]

Refused == LoadMount(conf.toml).raised \/ LoadTuning(conf.toml).raised

\* Once loaded the configuration stays what was loaded.
LoadedInv ==
  /\ conf \in SimConfigs
  /\ conf.command = "sim" =>
       /\ phase \in {"load", "run", "done", "failed"}
       /\ phase # "load" => (phase = "failed" <=> Refused)
       /\ phase \in {"run", "done"} => cfg = SimLoaded

LEMMA LoadedInit == SimInit => LoadedInv
BY DEF SimInit, LoadedInv

LEMMA LoadedStep == LoadedInv /\ [SimNext]_simVars => LoadedInv'
<1> SUFFICES ASSUME LoadedInv, [SimNext]_simVars PROVE LoadedInv'
  OBVIOUS
<1>1. conf' = conf
  BY DEF SimNext, Load, Simulate, EndRun, Export, PlayLine, EndPlay, ReadLine, EndReplay, simVars
<1>2. CASE conf.command # "sim"
  BY <1>1, <1>2 DEF LoadedInv
<1>3. CASE conf.command = "sim"
  <2>1. CASE Load
    <3>1. phase = "load" /\ LoadSim
      BY <1>3, <2>1 DEF Load
    <3>2. CASE Refused
      BY <1>1, <3>1, <3>2 DEF LoadSim, Fails, LoadedInv, Refused
    <3>3. CASE ~Refused
      <4>1. phase' = "run" /\ cfg' = SimLoaded
        BY <3>1, <3>3 DEF LoadSim, Refused, SimLoaded
      <4>2. SimLoaded' = SimLoaded /\ (Refused' <=> Refused)
        BY <1>1 DEF SimLoaded, Refused, Overridden, Override
      <4> QED
        BY <1>1, <3>3, <4>1, <4>2 DEF LoadedInv
    <3> QED
      BY <3>2, <3>3
  <2>2. CASE Simulate \/ EndRun \/ UNCHANGED simVars
    <3>1. /\ cfg' = cfg
          /\ phase' = phase \/ (phase = "run" /\ phase' = "done")
          /\ SimLoaded' = SimLoaded /\ (Refused' <=> Refused)
      BY <1>1, <2>2 DEF Simulate, EndRun, simVars, SimLoaded, Refused, Overridden, Override
    <3> QED
      BY <1>1, <3>1 DEF LoadedInv
  <2>3. ~Export /\ ~PlayLine /\ ~EndPlay /\ ~ReadLine /\ ~EndReplay
    BY <1>3 DEF Export, PlayLine, EndPlay, ReadLine, EndReplay, LoadedInv
  <2> QED
    BY <2>1, <2>2, <2>3 DEF SimNext
<1> QED
  BY <1>2, <1>3

\* Without flags the tuning is the file's.
LEMMA NothingOverridden ==
  ASSUME conf \in SimConfigs, conf.flags = <<>>, ~Refused
  PROVE  Overridden(LoadTuning(conf.toml)) = LoadTuning(conf.toml)
<1> DEFINE toml == conf.toml
           loaded == LoadTuning(toml)
           optional(key) == Get(toml, "mti_yaw", key, None)
<1>1. \A name, default : Override(name, default) = default
  BY DEF Override
<1>2. PICK yaw, roll, pitch, yawDeg :
        loaded = [raised |-> FALSE, q |-> toml["process_noise"],
                  p0 |-> toml["initial_covariance"], mti |-> toml["mti_noise"],
                  yaw |-> yaw, roll |-> roll, pitch |-> pitch, yawDeg |-> yawDeg]
  BY DEF LoadTuning, Refused, Raised
<1>3. "process_noise" \in DOMAIN toml /\ "initial_covariance" \in DOMAIN toml
  BY DEF LoadTuning, Refused, Raised, Has
<1>4. \A section \in DOMAIN toml : toml[section] \in [DOMAIN toml[section] -> Int]
  BY SimAssumption
<1>5. \A f, key : f = [x \in DOMAIN f |-> f[x]] => [f EXCEPT ![key] = f[key]] = f
  OBVIOUS
<1> HIDE DEF toml, loaded
<1>6. /\ toml["process_noise"] \in [DOMAIN toml["process_noise"] -> Int]
      /\ toml["initial_covariance"] \in [DOMAIN toml["initial_covariance"] -> Int]
  BY <1>3, <1>4
<1>7. PICK q, p0 : q = toml["process_noise"] /\ p0 = toml["initial_covariance"]
  OBVIOUS
<1>8. /\ [[q EXCEPT !["heading_deg2"] = q["heading_deg2"]]
             EXCEPT !["gyro_bias_deg2_s2"] = q["gyro_bias_deg2_s2"]] = q
      /\ [[p0 EXCEPT !["heading_deg2"] = p0["heading_deg2"]]
             EXCEPT !["gyro_bias_deg2_s2"] = p0["gyro_bias_deg2_s2"]] = p0
  BY <1>6, <1>7
<1>9. /\ loaded.q = q /\ loaded.p0 = p0 /\ loaded.roll = roll /\ loaded.pitch = pitch
      /\ loaded.yawDeg = yawDeg
  BY <1>2, <1>7
<1>10. Overridden(loaded) = loaded
  <2>1. Overridden(loaded) = [loaded EXCEPT !.q = q, !.p0 = p0, !.roll = roll, !.pitch = pitch,
                                            !.yawDeg = yawDeg]
    <3>1. /\ Override("q_heading", q["heading_deg2"]) = q["heading_deg2"]
          /\ Override("q_bias", q["gyro_bias_deg2_s2"]) = q["gyro_bias_deg2_s2"]
          /\ Override("p0_heading", p0["heading_deg2"]) = p0["heading_deg2"]
          /\ Override("p0_bias", p0["gyro_bias_deg2_s2"]) = p0["gyro_bias_deg2_s2"]
          /\ Override("mount_roll", roll) = roll /\ Override("mount_pitch", pitch) = pitch
          /\ Override("mount_yaw", yawDeg) = yawDeg
      BY <1>1
    <3>2. PICK q2, p2 :
            /\ q2 = [[q EXCEPT !["heading_deg2"] = Override("q_heading", q["heading_deg2"])]
                        EXCEPT !["gyro_bias_deg2_s2"] = Override("q_bias", q["gyro_bias_deg2_s2"])]
            /\ p2 = [[p0 EXCEPT !["heading_deg2"] = Override("p0_heading", p0["heading_deg2"])]
                        EXCEPT !["gyro_bias_deg2_s2"] = Override("p0_bias", p0["gyro_bias_deg2_s2"])]
      OBVIOUS
    <3>3. q2 = q /\ p2 = p0
      BY <1>8, <3>1, <3>2
    <3>4. Overridden(loaded) =
            [loaded EXCEPT !.q = q2, !.p0 = p2, !.roll = Override("mount_roll", roll),
                           !.pitch = Override("mount_pitch", pitch),
                           !.yawDeg = Override("mount_yaw", yawDeg)]
      BY <1>9, <3>2 DEF Overridden
    <3> QED
      BY <3>1, <3>3, <3>4
  <2> QED
    BY <1>2, <1>7, <2>1
<1> QED
  BY <1>10 DEF loaded, toml

\* "Tune what ships": whatever tuning.toml holds and whichever of its keys are
\* missing, "sim" without flags runs the filter and the GNSS mount that
\* gen_tuning.py compiles into the firmware, or both refuse the file.
THEOREM SimAlwaysTunesWhatShips == SimSpec => []SimTunesWhatShips
<1>1. LoadedInv => SimTunesWhatShips
  <2> SUFFICES ASSUME LoadedInv, conf.command = "sim", conf.flags = <<>>, phase # "load"
               PROVE  LET shipped == Render(conf.toml)
                      IN  IF shipped.raised THEN phase = "failed"
                          ELSE /\ phase # "failed"
                               /\ [cfg.native EXCEPT !.boatToImu = Identity] =
                                  [shipped.config EXCEPT !.boatToImu = Identity]
                               /\ SameRotation(cfg.native.boatToImu, shipped.config.boatToImu)
                               /\ cfg.baseline = shipped.baseline
    BY DEF SimTunesWhatShips
  <2>1. Render(conf.toml).raised <=> Refused
    BY BothRaise DEF Refused
  <2>2. CASE Refused
    BY <2>1, <2>2 DEF LoadedInv
  <2>3. CASE ~Refused
    <3>1. ReadAlike(conf.toml)
      BY <2>1, <2>3, TomlReadAlike DEF LoadedInv
    <3>2. Overridden(LoadTuning(conf.toml)) = LoadTuning(conf.toml)
      BY <2>3, NothingOverridden DEF LoadedInv
    <3>3. phase # "failed" /\ cfg = SimLoaded
      BY <2>3 DEF LoadedInv
    <3>4. /\ cfg.native = ToNativeConfig(LoadTuning(conf.toml))
          /\ cfg.baseline = LoadMount(conf.toml).baseline
      BY <3>2, <3>3 DEF SimLoaded, Override
    <3> QED
      BY <2>1, <2>3, <3>1, <3>3, <3>4 DEF ReadAlike, SameRotation
  <2> QED
    BY <2>2, <2>3
<1> QED
  BY <1>1, LoadedInit, LoadedStep, PTL DEF SimSpec

-----------------------------------------------------------------------------
(* SimSession: the truth that the source samples. *)

\* The legs of a profile, and the numbers a schedule is made of.
LegSeqs == Seq([duration : Nat, rate : Int])
Durations(legs, i) == [k \in 1 .. i - 1 |-> legs[k].duration]

LEMMA LegsAre ==
  ASSUME NEW legs \in LegSeqs
  PROVE  /\ Len(legs) \in Nat /\ DOMAIN legs = 1 .. Len(legs)
         /\ \A i \in 1 .. Len(legs) : legs[i].duration \in Nat /\ legs[i].rate \in Int
<1> DEFINE S == [duration : Nat, rate : Int]
<1>1. legs \in Seq(S)
  BY DEF LegSeqs
<1> HIDE DEF S
<1>2. Len(legs) \in Nat /\ DOMAIN legs = 1 .. Len(legs) /\ \A i \in 1 .. Len(legs) : legs[i] \in S
  BY <1>1
<1>3. \A x \in S : x.duration \in Nat /\ x.rate \in Int
  BY DEF S
<1> QED
  BY <1>2, <1>3

\* The sum that Start is.
LEMMA StartTotals ==
  ASSUME NEW legs, NEW i PROVE Start(legs, i) = Total(Durations(legs, i), 1 .. i - 1)
BY DEF Start, Durations, Total, SumEquation, MapThenSumSet, MapThenFoldSet

LEMMA UpTo == ASSUME NEW n \in Nat PROVE IsFiniteSet(1 .. n)
BY FS_Interval

\* What the legs say of when they start.
LEMMA LegStarts ==
  ASSUME NEW legs \in LegSeqs
  PROVE  /\ Start(legs, 1) = 0
         /\ \A i \in 1 .. Len(legs) :
              /\ Start(legs, i) \in Int
              /\ Start(legs, i + 1) = Start(legs, i) + legs[i].duration
<1>1. \A i \in 1 .. Len(legs) : legs[i].duration \in Nat
  BY LegsAre
<1>2. ASSUME NEW i \in 1 .. Len(legs) + 1
      PROVE  Summable(Durations(legs, i), 1 .. i - 1)
  <2>1. IsFiniteSet(1 .. i - 1)
    BY UpTo DEF LegSeqs
  <2>2. \A k \in 1 .. i - 1 : k \in 1 .. Len(legs)
    BY DEF LegSeqs
  <2> QED BY <1>1, <2>1, <2>2 DEF Summable, Durations
<1>3. Start(legs, 1) = 0
  <2>1. 1 .. 1 - 1 = {} /\ 1 \in 1 .. Len(legs) + 1
    BY DEF LegSeqs
  <2> QED BY <1>2, <2>1, StartTotals, TotalType
<1>4. ASSUME NEW i \in 1 .. Len(legs)
      PROVE  /\ Start(legs, i) \in Int
             /\ Start(legs, i + 1) = Start(legs, i) + legs[i].duration
  <2>1. /\ i \in 1 .. Len(legs) + 1 /\ i + 1 \in 1 .. Len(legs) + 1
        /\ (i + 1) - 1 = i /\ i \in 1 .. i
    BY DEF LegSeqs
  <2>2. Summable(Durations(legs, i), 1 .. i - 1)
    BY <1>2, <2>1
  <2>3. Summable(Durations(legs, i + 1), 1 .. i)
    BY <1>2, <2>1
  <2>4. (1 .. i) \ {i} = 1 .. i - 1
    OBVIOUS
  <2>5. Durations(legs, i + 1)[i] = legs[i].duration
    BY <2>1 DEF Durations
  <2>6. \A k \in 1 .. i - 1 : Durations(legs, i)[k] = Durations(legs, i + 1)[k]
    BY <2>1 DEF Durations
  <2>7. Total(Durations(legs, i + 1), 1 .. i)
          = Durations(legs, i + 1)[i] + Total(Durations(legs, i), 1 .. i - 1)
    BY <2>1, <2>2, <2>3, <2>4, <2>6, TotalSplits
  <2>8. Total(Durations(legs, i), 1 .. i - 1) \in Int
    BY <2>2, TotalType
  <2>9. Start(legs, i + 1) = Total(Durations(legs, i + 1), 1 .. i)
    BY <2>1, StartTotals
  <2> QED BY <1>1, <2>5, <2>7, <2>8, <2>9, StartTotals
<1> QED
  BY <1>3, <1>4

\* Samples come every dt; a leg lasts a number of them.
OnSample(dt, t) == \E k \in Int : t = dt * k
LegsOnSamples(legs, dt) ==
  legs \in LegSeqs /\ dt \in Nat \ {0} /\ \A i \in DOMAIN legs : legs[i].duration % dt = 0

LEMMA OnSampleSums ==
  ASSUME NEW dt \in Int, NEW a \in Int, NEW b \in Int, OnSample(dt, a), OnSample(dt, b)
  PROVE  OnSample(dt, a + b) /\ OnSample(dt, a - b)
<1>1. PICK k \in Int : a = dt * k
  BY DEF OnSample
<1>2. PICK l \in Int : b = dt * l
  BY DEF OnSample
<1>3. a + b = dt * (k + l) /\ k + l \in Int
  BY <1>1, <1>2
<1>4. a - b = dt * (k - l) /\ k - l \in Int
  BY <1>1, <1>2
<1>5. OnSample(dt, a + b)
  BY <1>3 DEF OnSample
<1>6. OnSample(dt, a - b)
  BY <1>4 DEF OnSample
<1> QED
  BY <1>5, <1>6

\* Between two samples is no third one.
LEMMA NextSample ==
  ASSUME NEW dt \in Nat \ {0}, NEW a \in Int, NEW b \in Int,
         OnSample(dt, a), OnSample(dt, b), a < b
  PROVE  a + dt <= b
<1>1. PICK k \in Int : b - a = dt * k
  <2>1. OnSample(dt, b - a)
    BY OnSampleSums
  <2> QED BY <2>1 DEF OnSample
<1>2. k >= 1
  <2> SUFFICES ASSUME k <= 0 PROVE FALSE
    OBVIOUS
  <2>1. dt * k <= 0
    OBVIOUS
  <2> QED BY <1>1, <2>1
<1>3. dt * k >= dt
  <2>1. dt * (k - 1) >= 0 /\ dt * (k - 1) = dt * k - dt
    BY <1>2
  <2> QED BY <2>1
<1> QED
  BY <1>1, <1>3

\* The legs start one after the other, at samples if they end there.
LEMMA StartsInOrder ==
  ASSUME NEW legs \in LegSeqs
  PROVE  /\ \A i \in 1 .. Len(legs) : Start(legs, i) \in Nat
         /\ \A i, j \in 1 .. Len(legs) :
              i < j => Start(legs, i) + legs[i].duration <= Start(legs, j)
<1> DEFINE n == Len(legs)
           s(i) == Start(legs, i)
           d(i) == legs[i].duration
<1>1. n \in Nat /\ \A i \in 1 .. n : d(i) \in Nat
  BY LegsAre
<1>2. s(1) = 0 /\ \A i \in 1 .. n : s(i) \in Int /\ s(i + 1) = s(i) + d(i)
  BY LegStarts
<1> HIDE DEF s, d, n
<1>3. ASSUME NEW i \in 1 .. n
      PROVE  s(i) \in Nat /\ \A j \in 1 .. n : i < j => s(i) + d(i) <= s(j)
  <2> DEFINE P == {k \in 0 .. n - 1 : s(k + 1) \in Nat}
  <2>1. 0 \in P
    BY <1>1, <1>2
  <2>2. ASSUME NEW k \in 0 .. (n - 1) - 1, k \in P PROVE k + 1 \in P
    <3>1. k + 1 \in 1 .. n /\ s((k + 1) + 1) = s(k + 1) + d(k + 1)
      BY <1>1, <1>2
    <3> QED BY <1>1, <2>2, <3>1
  <2>3. 0 .. n - 1 \subseteq P
    <3> HIDE DEF P
    <3> QED BY <1>1, <2>1, <2>2, CountUp
  <2>4. s(i) \in Nat
    <3>1. i - 1 \in P
      BY <1>1, <2>3
    <3> QED BY <3>1
  <2> DEFINE Q == {k \in 0 .. n - 1 : i < k + 1 => s(i) + d(i) <= s(k + 1)}
  <2>5. 0 \in Q
    BY <1>1
  <2>6. ASSUME NEW k \in 0 .. (n - 1) - 1, k \in Q PROVE k + 1 \in Q
    <3>1. k + 1 \in 1 .. n /\ s((k + 1) + 1) = s(k + 1) + d(k + 1)
      BY <1>1, <1>2
    <3>2. s(k + 1) \in Int /\ s(i) \in Int /\ d(k + 1) \in Nat /\ d(i) \in Nat
      BY <1>1, <1>2, <3>1
    <3>3. CASE i = k + 1
      BY <1>1, <3>1, <3>2, <3>3
    <3>4. CASE i < k + 1
      BY <1>1, <2>6, <3>1, <3>2, <3>4
    <3>5. CASE i > k + 1
      BY <1>1, <3>1, <3>5
    <3> QED BY <1>1, <3>3, <3>4, <3>5
  <2>7. 0 .. n - 1 \subseteq Q
    <3> HIDE DEF Q
    <3> QED BY <1>1, <2>5, <2>6, CountUp
  <2>8. ASSUME NEW j \in 1 .. n, i < j PROVE s(i) + d(i) <= s(j)
    <3>1. j - 1 \in Q
      BY <1>1, <2>7
    <3> QED BY <2>8, <3>1
  <2> QED BY <2>4, <2>8
<1> QED
  BY <1>3 DEF s, d, n

LEMMA StartsOnSamples ==
  ASSUME NEW legs, NEW dt, LegsOnSamples(legs, dt)
  PROVE  \A i \in 1 .. Len(legs) :
           OnSample(dt, Start(legs, i)) /\ OnSample(dt, Start(legs, i) + legs[i].duration)
<1> DEFINE n == Len(legs)
           s(i) == Start(legs, i)
           d(i) == legs[i].duration
<1>1. n \in Nat /\ legs \in LegSeqs /\ dt \in Nat \ {0} /\ \A i \in 1 .. n : d(i) \in Nat
  BY LegsAre DEF LegsOnSamples
<1>2. s(1) = 0 /\ \A i \in 1 .. n : s(i) \in Int /\ s(i + 1) = s(i) + d(i)
  BY <1>1, LegStarts
<1>3. ASSUME NEW i \in 1 .. n PROVE OnSample(dt, d(i))
  <2>1. d(i) % dt = 0 /\ d(i) \in Nat
    <3>1. DOMAIN legs = 1 .. n
      BY <1>1, LegsAre
    <3> QED BY <1>1, <3>1 DEF LegsOnSamples
  <2>2. d(i) = dt * (d(i) \div dt) /\ d(i) \div dt \in Int
    <3>1. \A a \in Nat, m \in Nat \ {0} : a % m = 0 => a = m * (a \div m) /\ a \div m \in Int
      OBVIOUS
    <3> QED BY <1>1, <2>1, <3>1
  <2> QED BY <2>2 DEF OnSample
<1> HIDE DEF s, d, n
<1> DEFINE P == {k \in 0 .. n - 1 : OnSample(dt, s(k + 1))}
<1>4. n > 0 => 0 \in P
  <2>1. dt * 0 = 0 /\ 0 \in Int
    BY <1>1
  <2> QED BY <1>1, <1>2, <2>1 DEF OnSample
<1>5. ASSUME NEW k \in 0 .. (n - 1) - 1, k \in P PROVE k + 1 \in P
  <2>1. k + 1 \in 1 .. n /\ s((k + 1) + 1) = s(k + 1) + d(k + 1) /\ s(k + 1) \in Int
    BY <1>1, <1>2
  <2>2. OnSample(dt, s((k + 1) + 1))
    BY <1>1, <1>3, <1>5, <2>1, OnSampleSums
  <2> QED BY <1>1, <2>2
<1>6. ASSUME NEW i \in 1 .. n PROVE OnSample(dt, s(i)) /\ OnSample(dt, s(i) + d(i))
  <2>1. 0 .. n - 1 \subseteq P
    <3> HIDE DEF P
    <3>1. n - 1 \in Nat /\ 0 \in P
      BY <1>1, <1>4
    <3> QED BY <1>5, <3>1, CountUp
  <2>2. i - 1 \in P
    BY <1>1, <2>1
  <2>3. OnSample(dt, s(i))
    BY <2>2
  <2>4. s(i) \in Int /\ d(i) \in Int
    BY <1>1, <1>2
  <2> QED BY <1>1, <1>3, <2>3, <2>4, OnSampleSums
<1> QED
  BY <1>6 DEF s, d, n

\* How much of each leg a boat has sailed one sample later.
SailsOn(legs, i, t, dt) ==
  /\ Sailed(legs, i, t) \in Int
  /\ t >= Start(legs, i) + legs[i].duration =>
       Sailed(legs, i, t + dt) = Sailed(legs, i, t)
  /\ t + dt <= Start(legs, i) => Sailed(legs, i, t + dt) = Sailed(legs, i, t)
  /\ t >= Start(legs, i) /\ t < Start(legs, i) + legs[i].duration =>
       Sailed(legs, i, t + dt) = Sailed(legs, i, t) + dt

LEMMA SailedThen ==
  ASSUME NEW legs, NEW dt, LegsOnSamples(legs, dt), NEW t \in Nat, OnSample(dt, t),
         NEW i \in 1 .. Len(legs)
  PROVE  SailsOn(legs, i, t, dt)
<1> DEFINE s == Start(legs, i)
           d == legs[i].duration
<1>1. legs \in LegSeqs /\ dt \in Nat \ {0}
  BY DEF LegsOnSamples
<1>2. s \in Nat /\ d \in Nat /\ OnSample(dt, s) /\ OnSample(dt, s + d)
  BY <1>1, LegsAre, StartsInOrder, StartsOnSamples
<1> HIDE DEF s, d
<1>3. ASSUME NEW u \in Nat
      PROVE  /\ Max({0, Min({u - s, d})}) \in Int
             /\ u >= s + d => Max({0, Min({u - s, d})}) = d
             /\ u <= s => Max({0, Min({u - s, d})}) = 0
             /\ u >= s /\ u <= s + d => Max({0, Min({u - s, d})}) = u - s
  <2>1. Max({0, Min({u - s, d})}) = IF u - s <= 0 THEN 0 ELSE IF u - s <= d THEN u - s ELSE d
    <3>1. PICK a \in Int, b \in Nat, c \in Int : a = s /\ b = d /\ c = u
      BY <1>2
    <3>2. Max({0, Min({c - a, b})}) = IF c - a <= 0 THEN 0 ELSE IF c - a <= b THEN c - a ELSE b
      BY Clipped
    <3> QED BY <3>1, <3>2
  <2> QED BY <1>2, <2>1
<1>4. \A u \in Nat : Sailed(legs, i, u) = Max({0, Min({u - s, d})})
  BY DEF Sailed, s, d
<1>5. t + dt \in Nat /\ t \in Int /\ t + dt >= t
  BY <1>1
<1>6. t < s + d => t + dt <= s + d
  BY <1>1, <1>2, NextSample
<1>7. ASSUME NEW u \in Nat
      PROVE  /\ Sailed(legs, i, u) \in Int
             /\ u >= s + d => Sailed(legs, i, u) = d
             /\ u <= s => Sailed(legs, i, u) = 0
             /\ u >= s /\ u <= s + d => Sailed(legs, i, u) = u - s
  BY <1>3, <1>4
<1>8. /\ Sailed(legs, i, t) \in Int
      /\ t >= s + d => Sailed(legs, i, t + dt) = Sailed(legs, i, t)
      /\ t + dt <= s => Sailed(legs, i, t + dt) = Sailed(legs, i, t)
      /\ t >= s /\ t < s + d => Sailed(legs, i, t + dt) = Sailed(legs, i, t) + dt
  BY <1>1, <1>2, <1>5, <1>6, <1>7
<1> QED
  BY <1>8 DEF SailsOn, s, d

\* The terms of StepHeadingAt's sum.
Sailing(legs, t) == [i \in DOMAIN legs |-> legs[i].rate * Sailed(legs, i, t)]

LEMMA HeadingTotals ==
  ASSUME NEW legs, NEW heading0, NEW t
  PROVE  StepHeadingAt(legs, heading0, t) = heading0 + Total(Sailing(legs, t), DOMAIN legs)
BY DEF StepHeadingAt, Sailing, Total, SumEquation, MapThenSumSet, MapThenFoldSet

LEMMA SailedType ==
  ASSUME NEW legs \in LegSeqs, NEW t \in Nat, NEW i \in 1 .. Len(legs)
  PROVE  Sailed(legs, i, t) \in Int
<1>1. PICK s \in Int, d \in Nat : s = Start(legs, i) /\ d = legs[i].duration
  BY LegsAre, LegStarts
<1>2. Max({0, Min({t - s, d})}) \in Int
  <2>1. Max({0, Min({t - s, d})}) = IF t - s <= 0 THEN 0 ELSE IF t - s <= d THEN t - s ELSE d
    BY Clipped
  <2> QED BY <2>1
<1> QED
  BY <1>1, <1>2 DEF Sailed

LEMMA SailingSums ==
  ASSUME NEW legs \in LegSeqs, NEW t \in Nat
  PROVE  Summable(Sailing(legs, t), DOMAIN legs)
<1>1. DOMAIN legs = 1 .. Len(legs) /\ IsFiniteSet(1 .. Len(legs))
  BY LegsAre, UpTo
<1>2. \A i \in 1 .. Len(legs) : legs[i].rate \in Int /\ Sailed(legs, i, t) \in Int
  BY LegsAre, SailedType
<1>3. \A i \in 1 .. Len(legs) : legs[i].rate * Sailed(legs, i, t) \in Int
  BY <1>2
<1> QED
  BY <1>1, <1>3 DEF Summable, Sailing

\* From one sample to the next the boat turns at the rate it has at the first.
LEMMA StepsTurn ==
  ASSUME NEW legs, NEW dt, LegsOnSamples(legs, dt), NEW t \in Nat, OnSample(dt, t),
         NEW heading0 \in Int
  PROVE  /\ StepRateAt(legs, t) \in Int
         /\ StepHeadingAt(legs, heading0, t + dt)
              = StepHeadingAt(legs, heading0, t) + StepRateAt(legs, t) * dt
<1> DEFINE n == Len(legs)
           T == DOMAIN legs
           f == Sailing(legs, t)
           g == Sailing(legs, t + dt)
           ending(i) == Start(legs, i) + legs[i].duration
           sailing == {i \in T : t < ending(i)}
<1>1. /\ legs \in LegSeqs /\ dt \in Nat \ {0} /\ n \in Nat /\ T = 1 .. n
      /\ \A i \in T : legs[i].rate \in Int /\ legs[i].duration \in Nat
  BY LegsAre DEF LegsOnSamples
<1>2. t + dt \in Nat /\ Summable(f, T) /\ Summable(g, T)
  BY <1>1, SailingSums
<1>3. \A i \in T : Start(legs, i) \in Nat /\ ending(i) \in Nat
  BY <1>1, StartsInOrder
<1>4. \A i \in T :
        /\ f[i] = legs[i].rate * Sailed(legs, i, t)
        /\ g[i] = legs[i].rate * Sailed(legs, i, t + dt)
        /\ Sailed(legs, i, t) \in Int
        /\ t >= ending(i) => Sailed(legs, i, t + dt) = Sailed(legs, i, t)
        /\ t + dt <= Start(legs, i) => Sailed(legs, i, t + dt) = Sailed(legs, i, t)
        /\ t >= Start(legs, i) /\ t < ending(i) =>
             Sailed(legs, i, t + dt) = Sailed(legs, i, t) + dt
  <2> SUFFICES ASSUME NEW i \in T
               PROVE  /\ f[i] = legs[i].rate * Sailed(legs, i, t)
                      /\ g[i] = legs[i].rate * Sailed(legs, i, t + dt)
                      /\ SailsOn(legs, i, t, dt)
    BY DEF SailsOn
  <2>1. SailsOn(legs, i, t, dt)
    BY <1>1, SailedThen
  <2> QED BY <2>1 DEF Sailing
<1>5. \A i, j \in T : i < j => ending(i) <= Start(legs, j)
  BY <1>1, StartsInOrder
<1>6. StepRateAt(legs, t) = IF sailing = {} THEN 0 ELSE legs[Min(sailing)].rate
  BY DEF StepRateAt
<1>7. /\ StepHeadingAt(legs, heading0, t) = heading0 + Total(f, T)
      /\ StepHeadingAt(legs, heading0, t + dt) = heading0 + Total(g, T)
  BY HeadingTotals
<1>8. Total(f, T) \in Int /\ Total(g, T) \in Int
  BY <1>2, TotalType
<1>9. Start(legs, 1) = 0
  BY <1>1, LegStarts
<1> HIDE DEF f, g, T
<1>10. CASE sailing = {}
  <2>1. \A i \in T : g[i] = f[i]
    <3>1. \A i \in T : ~ (t < ending(i))
      BY <1>10
    <3>2. \A i \in T : t >= ending(i)
      BY <1>3, <3>1
    <3> QED BY <1>4, <3>2
  <2>2. Total(g, T) = Total(f, T)
    BY <1>2, <2>1, TotalAgrees
  <2> QED BY <1>1, <1>6, <1>7, <1>8, <1>10, <2>2
<1>11. CASE sailing # {}
  <2> PICK j : j = Min(sailing)
    OBVIOUS
  <2> DEFINE h == [i \in T \ {j} |-> f[i]]
  <2>1. j \in sailing /\ \A i \in sailing : j <= i
    <3>1. sailing \in SUBSET (1 .. n) /\ n \in Nat /\ sailing # {}
      BY <1>1, <1>11
    <3> HIDE DEF sailing, n
    <3>2. Min(sailing) \in sailing /\ \A i \in sailing : Min(sailing) <= i
      BY <3>1, MinOf
    <3> QED BY <3>2
  <2>2. j \in T /\ t < ending(j) /\ \A i \in T : i < j => t >= ending(i)
    <3>1. \A i \in T : i < j => ~ (t < ending(i))
      <4>1. \A i \in T : t < ending(i) => i \in sailing
        OBVIOUS
      <4>2. sailing \subseteq T /\ j \in T
        BY <2>1
      <4> HIDE DEF sailing, ending
      <4>3. \A i \in T : i < j => ~ (j <= i)
        BY <1>1, <4>2
      <4> QED BY <2>1, <4>1, <4>3
    <3> QED BY <1>3, <2>1, <3>1
  <2>3. t >= Start(legs, j)
    <3>1. CASE j = 1
      BY <1>9, <3>1
    <3>2. CASE j > 1
      <4>1. j - 1 \in T /\ j - 1 < j
        BY <1>1, <2>2, <3>2
      <4>2. t >= ending(j - 1)
        BY <2>2, <4>1
      <4>3. Start(legs, (j - 1) + 1) = ending(j - 1)
        BY <1>1, <4>1, LegStarts
      <4>4. (j - 1) + 1 = j
        BY <1>1, <2>2
      <4> QED BY <4>2, <4>3, <4>4
    <3> QED BY <1>1, <2>2, <3>1, <3>2
  <2>4. g[j] = f[j] + legs[j].rate * dt
    <3>1. Sailed(legs, j, t + dt) = Sailed(legs, j, t) + dt
      BY <1>4, <2>2, <2>3
    <3>2. \A r, x \in Int : r * (x + dt) = r * x + r * dt
      BY <1>1
    <3>3. legs[j].rate \in Int /\ Sailed(legs, j, t) \in Int
      BY <1>1, <1>4, <2>2
    <3>4. legs[j].rate * (Sailed(legs, j, t) + dt)
            = legs[j].rate * Sailed(legs, j, t) + legs[j].rate * dt
      BY <3>2, <3>3
    <3>5. f[j] = legs[j].rate * Sailed(legs, j, t) /\ g[j] = legs[j].rate * Sailed(legs, j, t + dt)
      BY <1>4, <2>2
    <3> QED BY <3>1, <3>4, <3>5
  <2>5. t + dt <= ending(j)
    <3>1. OnSample(dt, ending(j))
      BY <1>1, <2>2, StartsOnSamples
    <3> QED BY <1>1, <1>3, <2>2, <3>1, NextSample
  <2>6. \A i \in T \ {j} : g[i] = f[i]
    <3>1. ASSUME NEW i \in T, i < j PROVE g[i] = f[i]
      BY <1>4, <2>2, <3>1
    <3>2. ASSUME NEW i \in T, i > j PROVE g[i] = f[i]
      <4>1. ending(j) <= Start(legs, i)
        BY <1>1, <1>5, <2>2, <3>2
      <4>2. t + dt <= Start(legs, i)
        BY <1>1, <1>3, <2>2, <2>5, <4>1
      <4> QED BY <1>4, <4>2
    <3>3. \A i \in T \ {j} : i \in T /\ (i < j \/ i > j)
      BY <1>1, <2>2
    <3> QED BY <3>1, <3>2, <3>3
  <2>7. Summable(h, T \ {j})
    <3>1. IsFiniteSet(T \ {j}) /\ \A i \in T \ {j} : f[i] \in Int
      BY <1>2, FS_Subset DEF Summable
    <3> QED BY <3>1 DEF Summable
  <2>8. \A i \in T \ {j} : h[i] = f[i]
    OBVIOUS
  <2> HIDE DEF h, sailing, ending
  <2>9. Total(f, T) = f[j] + Total(h, T \ {j})
    BY <1>2, <2>2, <2>7, <2>8, TotalSplits
  <2>10. Total(g, T) = g[j] + Total(h, T \ {j})
    BY <1>2, <2>2, <2>6, <2>7, <2>8, TotalSplits
  <2>11. /\ Total(h, T \ {j}) \in Int /\ f[j] \in Int /\ legs[j].rate \in Int
         /\ StepRateAt(legs, t) = legs[j].rate
    BY <1>1, <1>2, <1>6, <1>11, <2>2, <2>7, TotalType DEF Summable
  <2>12. \A r \in Int : r * dt \in Int
    BY <1>1
  <2>13. PICK turn \in Int : turn = legs[j].rate * dt
    BY <2>11, <2>12
  <2>14. StepRateAt(legs, t) * dt = turn /\ g[j] = f[j] + turn
    BY <2>4, <2>11, <2>13
  <2>15. heading0 + Total(g, T) = (heading0 + Total(f, T)) + turn
    BY <2>9, <2>10, <2>11, <2>14
  <2> QED BY <1>7, <2>11, <2>14, <2>15
<1> QED
  BY <1>10, <1>11

Profiles ==
  [kind : {"turn", "steps", "static"}, rate : Int, heading0 : Int, legs : LegSeqs]

LEMMA ProfileOf == ASSUME NEW c \in SimConfigs PROVE c.scenario.heading \in Profiles
BY SimAssumption DEF Profiles, LegSeqs

LEMMA StepRateType ==
  ASSUME NEW legs \in LegSeqs, NEW t PROVE StepRateAt(legs, t) \in Int
<1> DEFINE sailing == {i \in DOMAIN legs : t < Start(legs, i) + legs[i].duration}
<1>1. sailing \in SUBSET (1 .. Len(legs)) /\ Len(legs) \in Nat
  BY LegsAre
<1>2. StepRateAt(legs, t) = IF sailing = {} THEN 0 ELSE legs[Min(sailing)].rate
  BY DEF StepRateAt
<1> HIDE DEF sailing
<1>3. sailing # {} => Min(sailing) \in 1 .. Len(legs)
  BY <1>1, MinOf
<1> QED
  BY <1>2, <1>3, LegsAre

\* The heading of a boat and its rate, for every profile.
LEMMA HeadingType ==
  ASSUME NEW profile \in Profiles, NEW t \in Nat
  PROVE  SampleHeading(profile, t).deg \in Int /\ SampleHeading(profile, t).rate \in Int
<1>1. /\ profile.heading0 \in Int /\ profile.rate \in Int /\ profile.legs \in LegSeqs
      /\ profile.kind \in {"turn", "steps", "static"}
  BY DEF Profiles
<1>2. CASE profile.kind = "turn"
  <2>1. profile.heading0 + profile.rate * t \in Int
    BY <1>1
  <2> QED BY <1>1, <1>2, <2>1 DEF SampleHeading
<1>3. CASE profile.kind = "steps"
  <2>1. Total(Sailing(profile.legs, t), DOMAIN profile.legs) \in Int
    BY <1>1, SailingSums, TotalType
  <2>2. StepHeadingAt(profile.legs, profile.heading0, t) \in Int
    BY <1>1, <2>1, HeadingTotals
  <2> QED BY <1>1, <1>3, <2>2, StepRateType DEF SampleHeading
<1>4. CASE profile.kind = "static"
  BY <1>1, <1>4 DEF SampleHeading
<1> QED
  BY <1>1, <1>2, <1>3, <1>4

LEMMA HeadingTurns ==
  ASSUME NEW profile \in Profiles, NEW dt, LegsOnSamples(profile.legs, dt),
         NEW t \in Nat, OnSample(dt, t)
  PROVE  SampleHeading(profile, t + dt).deg
           = SampleHeading(profile, t).deg + SampleHeading(profile, t).rate * dt
<1>1. /\ profile.heading0 \in Int /\ profile.rate \in Int /\ profile.legs \in LegSeqs
      /\ profile.kind \in {"turn", "steps", "static"} /\ dt \in Nat
  BY DEF Profiles, LegsOnSamples
<1>2. CASE profile.kind = "turn"
  <2>1. profile.heading0 + profile.rate * (t + dt) = (profile.heading0 + profile.rate * t) + profile.rate * dt
    BY <1>1
  <2> QED BY <1>2, <2>1 DEF SampleHeading
<1>3. CASE profile.kind = "steps"
  BY <1>1, <1>3, StepsTurn DEF SampleHeading
<1>4. CASE profile.kind = "static"
  BY <1>1, <1>4 DEF SampleHeading
<1> QED
  BY <1>1, <1>2, <1>3, <1>4


-----------------------------------------------------------------------------
(* SimSession: rotations, and the mount that source and filter share. *)

Quats == [w : Int, x : Int, y : Int, z : Int]
Scale(k, q) == Quaternion(k * q.w, k * q.x, k * q.y, k * q.z)

LEMMA Division ==
  ASSUME NEW a \in Int, NEW n \in Nat \ {0}, NEW q \in Int, NEW r \in 0 .. n - 1,
         a = n * q + r
  PROVE  a \div n = q
<1> DEFINE d == a \div n
           s == a % n
<1>1. d \in Int /\ s \in 0 .. n - 1 /\ a = n * d + s
  OBVIOUS
<1> HIDE DEF d, s
<1>2. n * (q - d) = s - r
  BY <1>1
<1>3. CASE q - d >= 1
  <2>1. n * (q - d) >= n
    BY <1>1, <1>3
  <2> QED
    BY <1>1, <1>2, <2>1
<1>4. CASE q - d <= -1
  <2>1. n * (q - d) <= -n
    BY <1>1, <1>4
  <2> QED
    BY <1>1, <1>2, <2>1
<1>5. q = d
  BY <1>1, <1>3, <1>4
<1> QED
  BY <1>5 DEF d

\* A fraction may be reduced.
LEMMA Reduced ==
  ASSUME NEW a \in Int, NEW n \in Nat \ {0}, NEW c \in Nat \ {0}
  PROVE  (c * a) \div (c * n) = a \div n
<1>1. PICK q \in Int, r \in 0 .. n - 1 : q = a \div n /\ a = n * q + r
  <2>1. a % n \in 0 .. n - 1 /\ a \div n \in Int /\ a = n * (a \div n) + (a % n)
    OBVIOUS
  <2> QED
    BY <2>1
<1>2. PICK cn \in Int, ca \in Int, cr \in Int : cn = c * n /\ ca = c * a /\ cr = c * r
  OBVIOUS
<1>3. ca = cn * q + cr
  <2>1. ca = c * (n * q + r)
    BY <1>1, <1>2
  <2>2. c * (n * q + r) = (c * n) * q + c * r
    OBVIOUS
  <2> QED
    BY <1>2, <2>1, <2>2
<1>4. cn > 0 /\ cr >= 0 /\ cr < cn
  <2>1. c * n > 0 /\ c * r >= 0
    OBVIOUS
  <2>2. c * (n - r) > 0 /\ c * (n - r) = c * n - c * r
    OBVIOUS
  <2> QED
    BY <1>2, <2>1, <2>2
<1>5. cn \in Nat \ {0} /\ cr \in 0 .. cn - 1
  BY <1>4
<1>6. ca \div cn = q
  BY <1>3, <1>5, Division
<1> QED
  BY <1>1, <1>2, <1>6

\* A rotation does not depend on its quaternion's length.
LEMMA ScaledRotation ==
  ASSUME NEW q \in Quats, NEW k \in Nat \ {0}, Norm2(q) > 0,
         NEW v \in {AxisX, AxisY, AxisZ}
  PROVE  Rotate(Scale(k, q), v) = Rotate(q, v)
<1>1. PICK w \in Int, x \in Int, y \in Int, z \in Int : q = Quaternion(w, x, y, z)
  BY DEF Quats, Quaternion
<1>2. PICK i \in Int, j \in Int, l \in Int : v = Vec3(i, j, l)
  BY DEF AxisX, AxisY, AxisZ, Vec3
<1> DEFINE n == w * w + x * x + y * y + z * z
           tx == 2 * (y * l - z * j)
           ty == 2 * (z * i - x * l)
           tz == 2 * (x * j - y * i)
           ax == n * i + w * tx + (y * tz - z * ty)
           ay == n * j + w * ty + (z * tx - x * tz)
           az == n * l + w * tz + (x * ty - y * tx)
           c == k * k
<1>3. Norm2(q) = n /\ n \in Int /\ c \in Nat \ {0}
  BY <1>1 DEF Norm2, Quaternion
<1>4. ax \in Int /\ ay \in Int /\ az \in Int
  OBVIOUS
<1>5. Rotate(q, v) = Vec3(ax \div n, ay \div n, az \div n)
  BY <1>1, <1>2 DEF Rotate, Norm2, Quaternion, Vec3
<1>6. Rotate(Scale(k, q), v) = Vec3((c * ax) \div (c * n), (c * ay) \div (c * n), (c * az) \div (c * n))
  <2> DEFINE w2 == k * w
             x2 == k * x
             y2 == k * y
             z2 == k * z
             n2 == w2 * w2 + x2 * x2 + y2 * y2 + z2 * z2
             tx2 == 2 * (y2 * l - z2 * j)
             ty2 == 2 * (z2 * i - x2 * l)
             tz2 == 2 * (x2 * j - y2 * i)
  <2>1. Rotate(Scale(k, q), v) =
          Vec3((n2 * i + w2 * tx2 + (y2 * tz2 - z2 * ty2)) \div n2,
               (n2 * j + w2 * ty2 + (z2 * tx2 - x2 * tz2)) \div n2,
               (n2 * l + w2 * tz2 + (x2 * ty2 - y2 * tx2)) \div n2)
    BY <1>1, <1>2 DEF Rotate, Norm2, Quaternion, Vec3, Scale
  <2>2. n2 = c * n
    OBVIOUS
  <2>3. tx2 = k * tx /\ ty2 = k * ty /\ tz2 = k * tz
    OBVIOUS
  <2>4. tx \in Int /\ ty \in Int /\ tz \in Int /\ n \in Int
    OBVIOUS
  <2> HIDE DEF tx, ty, tz, n, tx2, ty2, tz2, n2
  <2>5. n2 * i + w2 * tx2 + (y2 * tz2 - z2 * ty2) = c * ax
    BY <2>2, <2>3, <2>4
  <2>6. n2 * j + w2 * ty2 + (z2 * tx2 - x2 * tz2) = c * ay
    BY <2>2, <2>3, <2>4
  <2>7. n2 * l + w2 * tz2 + (x2 * ty2 - y2 * tx2) = c * az
    BY <2>2, <2>3, <2>4
  <2> QED
    BY <2>1, <2>2, <2>5, <2>6, <2>7
<1> HIDE DEF n, ax, ay, az, c
<1>7. n \in Nat \ {0}
  BY <1>3
<1> QED
  BY <1>3, <1>4, <1>5, <1>6, <1>7, Reduced

LEMMA MultiplyType ==
  ASSUME NEW a \in Quats, NEW b \in Quats
  PROVE  Multiply(a, b) \in Quats
BY DEF Quats, Multiply, Quaternion

\* Norms multiply.
LEMMA NormOfProduct ==
  ASSUME NEW a \in Quats, NEW b \in Quats
  PROVE  Norm2(Multiply(a, b)) = Norm2(a) * Norm2(b)
<1>1. PICK aw \in Int, ax \in Int, ay \in Int, az \in Int : a = Quaternion(aw, ax, ay, az)
  BY DEF Quats, Quaternion
<1>2. PICK bw \in Int, bx \in Int, by \in Int, bz \in Int : b = Quaternion(bw, bx, by, bz)
  BY DEF Quats, Quaternion
<1> QED
  BY <1>1, <1>2 DEF Norm2, Multiply, Quaternion

\* The inverse mount and then the mount give the rotation back, longer.
LEMMA MountUndone ==
  ASSUME NEW b \in Quats, NEW m \in Quats
  PROVE  Multiply(Multiply(b, Conjugate(m)), m) = Scale(Norm2(m), b)
<1>1. PICK bw \in Int, bx \in Int, by \in Int, bz \in Int : b = Quaternion(bw, bx, by, bz)
  BY DEF Quats, Quaternion
<1>2. PICK mw \in Int, mx \in Int, my \in Int, mz \in Int : m = Quaternion(mw, mx, my, mz)
  BY DEF Quats, Quaternion
<1> QED
  BY <1>1, <1>2 DEF Norm2, Multiply, Quaternion, Scale, Conjugate

LEMMA AxisQuats ==
  ASSUME NEW axis \in {AxisX, AxisY, AxisZ}, NEW deg \in Int
  PROVE  FromAxisAngle(axis, deg) \in Quats /\ Norm2(FromAxisAngle(axis, deg)) > 0
<1>1. PICK half \in HalfTurns : half = Eighths[((deg \div 90) % 8) + 1]
  BY HalfAngle
<1>2. PICK c \in {-1, 0, 1}, s \in {-1, 0, 1} : half = <<c, s>> /\ (c # 0 \/ s # 0)
  BY DEF HalfTurns
<1>3. FromAxisAngle(axis, deg) = Quaternion(c, axis.x * s, axis.y * s, axis.z * s)
  BY <1>1, <1>2 DEF FromAxisAngle
<1> QED
  BY <1>2, <1>3 DEF Quats, Norm2, Quaternion, AxisX, AxisY, AxisZ, Vec3

LEMMA ProductQuats ==
  ASSUME NEW a \in Quats, NEW b \in Quats, Norm2(a) > 0, Norm2(b) > 0
  PROVE  Multiply(a, b) \in Quats /\ Norm2(Multiply(a, b)) > 0
<1>1. Norm2(a) \in Int /\ Norm2(b) \in Int
  BY DEF Quats, Norm2
<1>2. Norm2(a) * Norm2(b) > 0
  BY <1>1
<1> QED
  BY <1>2, MultiplyType, NormOfProduct

LEMMA MountQuats ==
  ASSUME NEW roll \in Int, NEW pitch \in Int, NEW yaw \in Int
  PROVE  /\ EulerToQuaternion(roll, pitch, yaw) \in Quats
         /\ Norm2(EulerToQuaternion(roll, pitch, yaw)) > 0
BY AxisQuats, ProductQuats DEF EulerToQuaternion

LEMMA BoatQuats ==
  ASSUME NEW c \in SimConfigs, NEW t \in 0 .. c.duration
  PROVE  BoatOrientation(c.scenario, t) \in Quats /\ Norm2(BoatOrientation(c.scenario, t)) > 0
<1> DEFINE heading == FromAxisAngle(AxisZ, -SampleHeading(c.scenario.heading, t).deg)
           attitude == SampleAttitude(c.scenario.attitude)
<1>1. SampleHeading(c.scenario.heading, t).deg \in Int
  BY ProfileOf, HeadingType
<1>2. heading \in Quats /\ Norm2(heading) > 0
  <2>1. PICK deg \in Int : deg = -SampleHeading(c.scenario.heading, t).deg
    BY <1>1
  <2> QED
    BY <2>1, AxisQuats
<1>3. attitude \in Quats /\ Norm2(attitude) > 0
  <2>1. /\ c.scenario.attitude.axis \in {AxisX, AxisY, ZeroVec}
        /\ c.scenario.attitude.angle \in Int
        /\ c.scenario.attitude.axis = ZeroVec => c.scenario.attitude.angle = 0
    BY SimAssumption
  <2>2. CASE c.scenario.attitude.axis \in {AxisX, AxisY}
    BY <2>1, <2>2, AxisQuats DEF SampleAttitude
  <2>3. CASE c.scenario.attitude.axis = ZeroVec
    <3>1. ((0 \div 90) % 8) + 1 = 1
      OBVIOUS
    <3>2. FromAxisAngle(ZeroVec, 0) = Quaternion(1, 0, 0, 0)
      BY <3>1 DEF FromAxisAngle, Eighths, ZeroVec, Vec3
    <3>3. attitude = FromAxisAngle(ZeroVec, 0)
      BY <2>1, <2>3 DEF SampleAttitude
    <3> QED
      BY <3>2, <3>3 DEF Quats, Norm2, Quaternion
  <2> QED
    BY <2>1, <2>2, <2>3
<1> QED
  BY <1>2, <1>3, ProductQuats DEF BoatOrientation

LEMMA MountAnglesOverridden ==
  ASSUME conf \in SimConfigs, ~Refused
  PROVE  LET c == Overridden(LoadTuning(conf.toml))
         IN  c.roll \in Int /\ c.pitch \in Int /\ c.yawDeg \in Int
<1> DEFINE loaded == LoadTuning(conf.toml)
           angle(key) == Get(conf.toml, "imu_mount", key, 0)
<1>1. PICK q, p0, mti, yaw :
        loaded = [raised |-> FALSE, q |-> q, p0 |-> p0, mti |-> mti, yaw |-> yaw,
                  roll |-> angle("mount_roll_deg"), pitch |-> angle("mount_pitch_deg"),
                  yawDeg |-> angle("mount_yaw_deg")]
  BY DEF LoadTuning, Refused, Raised
<1>2. \A key \in MountKeys : angle(key) \in Int
  BY MountAngles
<1> HIDE DEF loaded, angle
<1>3. \A name : \A default \in Int : Override(name, default) \in Int
  BY SimAssumption DEF Override
<1>4. /\ Overridden(loaded).roll = Override("mount_roll", angle("mount_roll_deg"))
      /\ Overridden(loaded).pitch = Override("mount_pitch", angle("mount_pitch_deg"))
      /\ Overridden(loaded).yawDeg = Override("mount_yaw", angle("mount_yaw_deg"))
  BY <1>1 DEF Overridden
<1> QED
  BY <1>2, <1>3, <1>4 DEF MountKeys, loaded

\* The last sample that run() had is the boat's attitude, the mount's inverse put on.
TickInv ==
  conf.command = "sim" =>
    /\ src.t \in Nat
    /\ phase \notin {"run", "done"} => run.last.t = NoTime
    /\ run.last.t # NoTime =>
         /\ run.last.t \in 0 .. conf.duration
         /\ conf.noise.effect \notin {"mag", "attitude"} =>
              run.last.orientation = MountImu(BoatOrientation(conf.scenario, run.last.t), cfg.imuMount)

LEMMA TickInit == SimInit => TickInv
BY DEF SimInit, TickInv, FreshRun, NoImu

LEMMA CommandStays == [SimNext]_simVars => conf' = conf
BY DEF SimNext, Load, Simulate, EndRun, Export, PlayLine, EndPlay, ReadLine, EndReplay, simVars

LEMMA TickStep == LoadedInv /\ TickInv /\ [SimNext]_simVars => TickInv'
<1> SUFFICES ASSUME LoadedInv, TickInv, [SimNext]_simVars, conf.command = "sim"
             PROVE  TickInv'
  BY CommandStays DEF TickInv
<1>1. CASE Load
  <2>1. conf' = conf /\ src' = src /\ run' = run /\ phase = "load"
    BY <1>1 DEF Load
  <2>2. run.last.t = NoTime
    BY <2>1 DEF TickInv
  <2> QED
    BY <2>1, <2>2 DEF TickInv
<1>2. CASE Simulate
  <2>1. PICK draw, walk : LET tick == TickOf(draw, walk)
                          IN  HasTick /\ src'.t = src.t + conf.imuDt /\ run' = RunTick(run, tick)
    BY <1>2 DEF Simulate, TakeTick
  <2>2. UNCHANGED <<conf, cfg, phase>> /\ phase = "run"
    BY <1>2 DEF Simulate
  <2>3. src.t \in 0 .. conf.duration /\ src'.t \in Nat
    <3>1. conf.imuDt \in Nat /\ src.t \in Nat
      BY SimAssumption DEF LoadedInv, TickInv
    <3>2. conf.duration \in Int
      BY SimAssumption DEF LoadedInv
    <3> QED
      BY <2>1, <3>1, <3>2 DEF HasTick
  <2>4. run'.last = TickOf(draw, walk).imu
    BY <2>1 DEF RunTick
  <2>5. TickOf(draw, walk).imu =
          CorruptImu(conf.noise, draw, walk, CleanImu(conf.scenario, cfg.imuMount, src.t))
    BY DEF TickOf
  <2>6. run'.last.t = src.t
    BY <2>4, <2>5 DEF CorruptImu, CleanImu
  <2>7. conf.noise.effect \notin {"mag", "attitude"} =>
          run'.last.orientation = MountImu(BoatOrientation(conf.scenario, src.t), cfg.imuMount)
    BY <2>4, <2>5 DEF CorruptImu, CleanImu, Perturb, MagDisturb
  <2> QED
    BY <2>2, <2>3, <2>6, <2>7 DEF TickInv
<1>3. CASE EndRun \/ UNCHANGED simVars
  BY <1>3 DEF EndRun, simVars, TickInv
<1>4. ~Export /\ ~PlayLine /\ ~EndPlay /\ ~ReadLine /\ ~EndReplay
  BY DEF Export, PlayLine, EndPlay, ReadLine, EndReplay, LoadedInv
<1> QED
  BY <1>1, <1>2, <1>3, <1>4 DEF SimNext

\* Whatever mount tuning.toml and the flags name, the filter of "sim" takes off the
\* mount that the source put on: what it believes of the boat is the boat's
\* attitude, for every profile, rate and outage.
THEOREM MountAlwaysCancels == SimSpec => []MountCancels
<1>1. LoadedInv /\ TickInv => MountCancels
  <2> SUFFICES ASSUME LoadedInv, TickInv, conf.command = "sim", run.last.t # NoTime,
                      conf.noise.effect \notin {"mag", "attitude"}
               PROVE  SameRotation(Multiply(run.last.orientation, cfg.native.boatToImu),
                                   BoatOrientation(conf.scenario, run.last.t))
    BY DEF MountCancels
  <2> DEFINE c == Overridden(LoadTuning(conf.toml))
             mount == EulerToQuaternion(c.roll, c.pitch, c.yawDeg)
             boat == BoatOrientation(conf.scenario, run.last.t)
  <2>1. conf \in SimConfigs /\ phase \in {"run", "done"}
    BY DEF LoadedInv, TickInv
  <2>2. ~Refused /\ cfg = SimLoaded
    BY <2>1 DEF LoadedInv
  <2>3. cfg.native.boatToImu = mount /\ cfg.imuMount = mount
    BY <2>2 DEF SimLoaded, ToNativeConfig
  <2>4. mount \in Quats /\ Norm2(mount) > 0
    BY <2>1, <2>2, MountAnglesOverridden, MountQuats
  <2>5. boat \in Quats /\ Norm2(boat) > 0
    BY <2>1, BoatQuats DEF TickInv
  <2>6. run.last.orientation = Multiply(boat, Conjugate(mount))
    BY <2>3 DEF TickInv, MountImu
  <2> HIDE DEF mount, boat
  <2>7. Multiply(run.last.orientation, cfg.native.boatToImu) = Scale(Norm2(mount), boat)
    BY <2>3, <2>4, <2>5, <2>6, MountUndone
  <2>8. Norm2(mount) \in Nat \ {0}
    BY <2>4 DEF Quats, Norm2
  <2>9. \A v \in {AxisX, AxisY, AxisZ} : Rotate(Scale(Norm2(mount), boat), v) = Rotate(boat, v)
    BY <2>5, <2>8, ScaledRotation
  <2> QED
    BY <2>7, <2>9 DEF SameRotation, boat
<1> QED
  BY <1>1, LoadedInit, LoadedStep, TickInit, TickStep, PTL DEF SimSpec

-----------------------------------------------------------------------------
(* SimSession: pace() against the stream's own clock. *)

\* The lines of s that have a time, and the entries of a log that do.
Timed(s) == {i \in DOMAIN s : HasStamp(s[i])}
Due(log) == {j \in DOMAIN log : log[j].due # NoTime}

Entries == [due : Int, at : Int, held : Int]

\* The lines not yet taken are of the latest tick, those recorded no later.
StampInv ==
  /\ src.t \in Nat /\ DOMAIN exp = {"calls", "next", "lines"}
  /\ \E S : exp.calls \in Seq(S)
  /\ \E S : exp.lines \in Seq(S) /\ capture \in Seq(S)
  /\ \A i \in Timed(exp.lines) : Stamp(exp.lines[i]) = src.t - conf.imuDt
  /\ Timed(exp.lines) # {} => src.t - conf.imuDt \in Nat
  /\ \A i \in Timed(capture) : Stamp(capture[i]) \in 0 .. src.t - conf.imuDt

\* start is when the first timed line passed.
StartInv ==
  /\ Timed(capture) = {} => play.first = NoTime
  /\ Timed(capture) # {} =>
       \E m \in Timed(capture) :
         /\ \A i \in Timed(capture) : m <= i
         /\ play.first = Stamp(capture[m]) /\ play.start = play.log[m].at

\* Less what the consumer held it up, the clock is where the latest line wanted it.
ClockInv ==
  /\ Timed(capture) # {} =>
       \E j \in Due(play.log) :
         play.clock - play.held = play.start + play.log[j].due - play.log[j].held
  /\ \A j \in Due(play.log) :
       play.clock - play.held >= play.start + play.log[j].due - play.log[j].held
  /\ play.log # <<>> =>
       LET last == play.log[Len(play.log)]
       IN  play.clock - play.held = last.at - last.held

PaceInv ==
  /\ DOMAIN play = {"clock", "start", "first", "slow", "held", "log", "monitor"}
  /\ play.log \in Seq(Entries) /\ Len(play.log) = Len(capture)
  /\ play.clock \in Int /\ play.held \in Int /\ play.start \in Int
  /\ Due(play.log) = Timed(capture)
  /\ StartInv /\ ClockInv

PlayInv ==
  /\ conf \in SimConfigs
  /\ phase \in {"load", "play"} => StampInv /\ PaceInv
  /\ phase # "play" => play = FreshPlay

LEMMA PlayInit == SimInit => PlayInv
<1> SUFFICES ASSUME SimInit PROVE PlayInv
  OBVIOUS
<1>1. /\ src.t = 0 /\ exp.calls = <<>> /\ exp.lines = <<DiagRecord, DiagRecord>>
      /\ capture = <<>> /\ play = FreshPlay /\ conf \in SimConfigs /\ phase = "load"
      /\ DOMAIN exp = {"calls", "next", "lines"}
  BY DEF SimInit
<1>2. exp.lines \in Seq({DiagRecord}) /\ capture \in Seq({DiagRecord}) /\ exp.calls \in Seq({})
  BY <1>1
<1>3. ~HasStamp(DiagRecord)
  BY DEF HasStamp, DiagRecord, Schema
<1>4. Timed(exp.lines) = {} /\ Timed(capture) = {}
  BY <1>1, <1>3 DEF Timed
<1>5. StampInv
  <2>1. \E S : exp.calls \in Seq(S)
    BY <1>2
  <2>2. \E S : exp.lines \in Seq(S) /\ capture \in Seq(S)
    BY <1>2
  <2> QED
    BY <1>1, <1>4, <2>1, <2>2 DEF StampInv
<1>6. /\ play.log = <<>> /\ play.clock = 0 /\ play.held = 0 /\ play.start = NoTime
      /\ play.first = NoTime
      /\ DOMAIN play = {"clock", "start", "first", "slow", "held", "log", "monitor"}
  BY <1>1 DEF FreshPlay
<1>7. Due(play.log) = {} /\ play.log \in Seq(Entries) /\ Len(play.log) = 0 /\ Len(capture) = 0
  BY <1>1, <1>6 DEF Due
<1>8. PaceInv
  BY <1>4, <1>6, <1>7 DEF PaceInv, StartInv, ClockInv, NoTime
<1> QED
  BY <1>1, <1>5, <1>8 DEF PlayInv

LEMMA PaceFromInv == PlayInv => PaceNeverDrifts
<1> SUFFICES ASSUME PlayInv PROVE PaceNeverDrifts
  OBVIOUS
<1> DEFINE log == play.log
           last == Len(log)
           wanted == {play.log[Min(Due(log))].at + log[j].due + (log[last].held - log[j].held) :
                        j \in Due(log)}
<1>1. SUFFICES ASSUME last \in Due(log) PROVE log[last].at = Max(wanted)
  BY DEF PaceNeverDrifts, Due
<1>2. play # FreshPlay
  BY <1>1 DEF FreshPlay, Due
<1>3. conf \in SimConfigs /\ StampInv /\ PaceInv
  BY <1>2 DEF PlayInv
<1>4. log \in Seq(Entries) /\ \A j \in Due(log) : log[j] \in Entries
  BY <1>3 DEF PaceInv, Due
<1>5. Due(log) \in SUBSET Int /\ last \in Timed(capture) /\ Due(log) = Timed(capture)
  BY <1>1, <1>3, <1>4 DEF PaceInv, Due
<1>6. PICK m \in Timed(capture) :
        (\A i \in Timed(capture) : m <= i) /\ play.start = log[m].at
  BY <1>3, <1>5 DEF PaceInv, StartInv
<1>7. Min(Due(log)) = m
  BY <1>5, <1>6, LeastIsMin
<1>8. PICK j \in Due(log) :
        play.clock - play.held = play.start + log[j].due - log[j].held
  BY <1>3, <1>5 DEF PaceInv, ClockInv
<1>9. \A i \in Due(log) : play.clock - play.held >= play.start + log[i].due - log[i].held
  BY <1>3 DEF PaceInv, ClockInv
<1>10. play.clock - play.held = log[last].at - log[last].held
  BY <1>1, <1>3 DEF PaceInv, ClockInv, Due
<1>11. play.clock \in Int /\ play.held \in Int /\ play.start \in Int
  BY <1>3 DEF PaceInv
<1>12. \A i \in Due(log) : log[i].due \in Int /\ log[i].held \in Int /\ log[i].at \in Int
  BY <1>4 DEF Entries
<1> HIDE DEF log, last
<1>13. wanted \in SUBSET Int
  BY <1>1, <1>6, <1>7, <1>11, <1>12 DEF log
<1>14. log[last].at = play.start + log[j].due + (log[last].held - log[j].held)
  BY <1>1, <1>8, <1>10, <1>11, <1>12
<1>15. log[last].at \in wanted
  BY <1>6, <1>7, <1>8, <1>14 DEF log
<1>16. \A x \in wanted : x <= log[last].at
  <2>1. ASSUME NEW i \in Due(log)
        PROVE  play.start + log[i].due + (log[last].held - log[i].held) <= log[last].at
    BY <1>1, <1>9, <1>10, <1>11, <1>12
  <2> QED
    BY <1>6, <1>7, <2>1 DEF log
<1> HIDE DEF wanted
<1> QED
  BY <1>13, <1>15, <1>16, GreatestIsMax


\* A tick brings this fix at most, of its own time.
Brings(tick, fix) == (tick.gnss = <<>> \/ tick.gnss = <<fix>>) /\ fix.t = tick.imu.t

\* The index of the last predict among the calls.
Latest(calls) == Max({i \in DOMAIN calls : calls[i].call = "predict"})

\* What a tick adds to the filter's calls: its predict, and then updates.
LEMMA FeedLast ==
  ASSUME NEW S, NEW calls \in Seq(S), NEW tick, NEW fix, Brings(tick, fix)
  PROVE  /\ \E T : Feed(calls, tick) \in Seq(T)
         /\ Feed(calls, tick)[Latest(Feed(calls, tick))].t = tick.imu.t
<1> DEFINE T == S \cup {Predict(tick.imu), Correct(fix)}
           fed == Feed(calls, tick)
           n == Len(calls) + 1
           longer == Append(calls, Predict(tick.imu))
           updates == [i \in DOMAIN tick.gnss |-> Correct(tick.gnss[i])]
           predicts == {i \in DOMAIN fed : fed[i].call = "predict"}
<1>1. calls \in Seq(T)
  OBVIOUS
<1>2. longer \in Seq(T) /\ Len(longer) = n /\ longer[n] = Predict(tick.imu)
  BY <1>1
<1>3. updates \in Seq(T) /\ \A i \in 1 .. Len(updates) : updates[i] = Correct(fix)
  <2>1. CASE tick.gnss = <<>>
    BY <2>1
  <2>2. CASE tick.gnss = <<fix>>
    BY <2>2
  <2> QED
    BY <2>1, <2>2 DEF Brings
<1>4. fed = longer \o updates
  BY DEF Feed
<1> HIDE DEF longer, updates, T, fed
<1>5. /\ fed \in Seq(T) /\ Len(fed) = n + Len(updates)
      /\ \A i \in 1 .. n : fed[i] = longer[i]
      /\ \A i \in 1 .. Len(updates) : fed[n + i] = updates[i]
  <2>1. IsJoined(T, longer \o updates, longer, Len(longer), updates, Len(updates))
    BY <1>2, <1>3, Joined
  <2> QED
    BY <1>2, <1>4, <2>1 DEF IsJoined
<1>6. fed[n] = Predict(tick.imu) /\ n \in Nat \ {0} /\ Len(updates) \in Nat
  BY <1>1, <1>2, <1>3, <1>5
<1>7. n \in predicts /\ predicts \in SUBSET Int
  BY <1>5, <1>6 DEF Predict
<1>8. ASSUME NEW i \in predicts PROVE i <= n
  <2>1. i \in 1 .. n + Len(updates)
    BY <1>5
  <2> SUFFICES ASSUME i > n PROVE FALSE
    BY <1>6, <2>1
  <2> HIDE DEF n
  <2>2. PICK k \in 1 .. Len(updates) : i = n + k
    BY <1>6, <2>1
  <2>3. fed[i] = Correct(fix)
    BY <1>3, <1>5, <2>2
  <2> QED
    BY <2>3 DEF Correct
<1> HIDE DEF predicts
<1>9. Max(predicts) = n
  BY <1>7, <1>8, GreatestIsMax
<1> QED
  BY <1>5, <1>6, <1>9 DEF Predict, Latest, predicts, fed

LEMMA LinesStamped ==
  ASSUME NEW t
  PROVE  /\ \A imu : imu.t = t => Stamp(ImuLine(imu)) = t
         /\ \A fix : fix.t = t => Stamp(GnssLine(fix)) = t
         /\ \A calls : calls[Latest(calls)].t = t => Stamp(FusionLine(calls)) = t
<1>1. ASSUME NEW imu, imu.t = t PROVE Stamp(ImuLine(imu)) = t
  BY <1>1 DEF ImuLine, Stamp, Scalar, Number, Real
<1>2. ASSUME NEW fix, fix.t = t PROVE Stamp(GnssLine(fix)) = t
  BY <1>2 DEF GnssLine, Stamp, Scalar, Number, Real
<1>3. ASSUME NEW calls, calls[Latest(calls)].t = t
      PROVE  Stamp(FusionLine(calls)) = t
  <2>1. "timestamp_ms" \in {FusionRecord[i].name : i \in DOMAIN FusionRecord}
    BY FusionFields
  <2>2. FusionLine(calls).f["timestamp_ms"] = <<Number(t)>>
    BY <1>3, <2>1 DEF FusionLine, Latest
  <2> QED
    BY <2>2 DEF Stamp, Scalar, Number, Real
<1> QED
  BY <1>1, <1>2, <1>3

\* The lines of a tick are stamped with it.
LEMMA TickStamped ==
  ASSUME NEW S, NEW e, e.calls \in Seq(S), e.lines = <<>>, NEW interval,
         NEW tick, NEW fix, Brings(tick, fix)
  PROVE  LET next == ExportTick(e, interval, tick)
         IN  /\ \E T : next.calls \in Seq(T)
             /\ \E T : next.lines \in Seq(T)
             /\ \A i \in DOMAIN next.lines : Stamp(next.lines[i]) = tick.imu.t
<1> DEFINE next == ExportTick(e, interval, tick)
           fed == Feed(e.calls, tick)
           fixLines == [i \in DOMAIN tick.gnss |-> GnssLine(tick.gnss[i])]
           T == {GnssLine(fix), FusionLine(fed), ImuLine(tick.imu)}
<1>1. PICK sampleLines \in {<<>>, <<FusionLine(fed), ImuLine(tick.imu)>>} :
        next.lines = e.lines \o (fixLines \o sampleLines)
  BY DEF ExportTick, TickLines
<1>2. next.calls = fed
  BY DEF ExportTick
<1>3. Stamp(FusionLine(fed)) = tick.imu.t
  <2>1. fed[Latest(fed)].t = tick.imu.t
    BY FeedLast
  <2> HIDE DEF fed
  <2> QED
    BY <2>1, LinesStamped
<1>4. \A x \in T : Stamp(x) = tick.imu.t
  BY <1>3, LinesStamped DEF Brings
<1>5. fixLines \in Seq(T)
  <2>1. CASE tick.gnss = <<>>
    BY <2>1
  <2>2. CASE tick.gnss = <<fix>>
    BY <2>2
  <2> QED
    BY <2>1, <2>2 DEF Brings
<1>6. sampleLines \in Seq(T)
  <2> PICK f, i : f = FusionLine(fed) /\ i = ImuLine(tick.imu)
    OBVIOUS
  <2>1. sampleLines = <<>> \/ sampleLines = <<f, i>>
    BY <1>1
  <2>2. f \in T /\ i \in T
    OBVIOUS
  <2> HIDE DEF T
  <2>3. <<>> \in Seq(T) /\ <<f, i>> \in Seq(T)
    BY <2>2
  <2> QED
    BY <2>1, <2>3
<1> HIDE DEF T, fed, fixLines, next
<1>7. next.lines \in Seq(T)
  <2>1. fixLines \o sampleLines \in Seq(T) /\ e.lines \in Seq(T)
    BY <1>5, <1>6
  <2> QED
    BY <1>1, <2>1
<1>8. \A i \in DOMAIN next.lines : next.lines[i] \in T
  BY <1>7
<1>9. \E U : fed \in Seq(U)
  BY FeedLast DEF fed
<1> QED
  BY <1>2, <1>4, <1>7, <1>8, <1>9 DEF next

LEMMA ExportStamps ==
  ASSUME conf \in SimConfigs, StampInv, Export
  PROVE  StampInv'
<1>1. PICK draw, walk, fix :
        LET tick == TickOf(draw, walk)
        IN  /\ src'.t = src.t + conf.imuDt /\ exp' = ExportTick(exp, conf.interval, tick)
            /\ Brings(tick, fix) /\ tick.imu.t = src.t
  <2>1. PICK draw, walk : /\ src'.t = src.t + conf.imuDt
                          /\ exp' = ExportTick(exp, conf.interval, TickOf(draw, walk))
    BY DEF Export, TakeTick
  <2> DEFINE fix == Fix(conf.scenario, conf.noise, draw, cfg.baseline, src.t)
  <2>2. TickOf(draw, walk).imu.t = src.t
    BY DEF TickOf, CorruptImu, CleanImu
  <2>3. Brings(TickOf(draw, walk), fix)
    BY <2>2 DEF TickOf, Brings, Fix, GnssSampleFromAttitude
  <2> QED
    BY <2>1, <2>2, <2>3
<1>2. PICK S : exp.calls \in Seq(S)
  BY DEF StampInv
<1>3. exp.lines = <<>> /\ capture' = capture /\ conf' = conf
  BY DEF Export
<1>4. PICK C : capture \in Seq(C)
  BY DEF StampInv
<1>12. DOMAIN exp' = {"calls", "next", "lines"}
  BY <1>1 DEF ExportTick
<1>5. /\ \E T : exp'.calls \in Seq(T)
      /\ \E T : exp'.lines \in Seq(T)
      /\ \A i \in DOMAIN exp'.lines : Stamp(exp'.lines[i]) = src.t
  BY <1>1, <1>2, <1>3, TickStamped
<1>6. conf.imuDt \in Nat \ {0}
  BY SimAssumption
<1>7. src'.t \in Nat /\ src'.t - conf.imuDt = src.t /\ src.t \in Nat
  BY <1>1, <1>6 DEF StampInv
<1>8. \E T : exp'.lines \in Seq(T) /\ capture' \in Seq(T)
  <2>1. PICK T : exp'.lines \in Seq(T)
    BY <1>5
  <2>2. exp'.lines \in Seq(T \cup C) /\ capture' \in Seq(T \cup C)
    BY <1>3, <1>4, <2>1
  <2> QED
    BY <2>2
<1>9. \A i \in Timed(capture) : Stamp(capture[i]) \in 0 .. src.t
  BY <1>6, <1>7 DEF StampInv
<1>10. \A i \in Timed(exp'.lines) : Stamp(exp'.lines[i]) = src.t
  BY <1>5 DEF Timed
<1>11. Timed(exp.lines)' = Timed(exp'.lines) /\ Timed(capture)' = Timed(capture)
  BY <1>3 DEF Timed
<1> QED
  BY <1>3, <1>5, <1>7, <1>8, <1>9, <1>10, <1>11, <1>12 DEF StampInv

\* The line played is of the latest tick.
HeadFacts(record) ==
  /\ HasStamp(record) => Stamp(record) = src.t - conf.imuDt /\ src.t - conf.imuDt \in Nat
  /\ \A i \in Timed(capture) : Stamp(capture[i]) \in 0 .. src.t - conf.imuDt

LEMMA PlayLineStamps ==
  ASSUME StampInv, PlayLine
  PROVE  StampInv' /\ HeadFacts(Head(exp.lines))
<1>1. PICK S : exp.lines \in Seq(S) /\ capture \in Seq(S)
  BY DEF StampInv
<1> DEFINE record == Head(exp.lines)
<1>2. /\ exp.lines # <<>> /\ exp' = [exp EXCEPT !.lines = Tail(@)]
      /\ capture' = Append(capture, record)
      /\ UNCHANGED <<conf, src>>
  BY DEF PlayLine
<1>3. /\ exp'.calls = exp.calls /\ exp'.lines = Tail(exp.lines)
      /\ DOMAIN exp' = {"calls", "next", "lines"}
  BY <1>2 DEF StampInv
<1>4. record \in S /\ record = exp.lines[1] /\ 1 \in DOMAIN exp.lines
  BY <1>1, <1>2
<1>5. HeadFacts(record)
  BY <1>4 DEF StampInv, HeadFacts, Timed
<1>6. Tail(exp.lines) \in Seq(S) /\ capture' \in Seq(S)
  BY <1>1, <1>2, <1>4
<1>7. \A i \in DOMAIN Tail(exp.lines) :
        i + 1 \in DOMAIN exp.lines /\ Tail(exp.lines)[i] = exp.lines[i + 1]
  BY <1>1, <1>2
<1>8. \A i \in Timed(Tail(exp.lines)) :
        /\ i + 1 \in Timed(exp.lines) /\ Tail(exp.lines)[i] = exp.lines[i + 1]
  BY <1>7 DEF Timed
<1>9. \A i \in Timed(exp'.lines) :
        /\ Stamp(exp'.lines[i]) = src.t - conf.imuDt /\ src.t - conf.imuDt \in Nat
  BY <1>3, <1>8 DEF StampInv
<1>11. \A i \in Timed(capture') :
         Stamp(capture'[i]) \in 0 .. src.t - conf.imuDt
  <2>1. ASSUME NEW i \in Timed(capture')
        PROVE  Stamp(capture'[i]) \in 0 .. src.t - conf.imuDt
    <3>1. i \in 1 .. Len(capture) + 1 /\ HasStamp(capture'[i])
      BY <1>1, <1>2, <1>4 DEF Timed
    <3>2. CASE i \in 1 .. Len(capture)
      <4>1. capture'[i] = capture[i] /\ i \in DOMAIN capture
        BY <1>1, <1>2, <3>2
      <4> QED
        BY <3>1, <4>1 DEF StampInv, Timed
    <3>3. CASE i = Len(capture) + 1
      <4>1. capture'[i] = record
        BY <1>1, <1>2, <3>3
      <4> QED
        BY <1>5, <3>1, <4>1 DEF HeadFacts
    <3> QED
      BY <1>1, <3>1, <3>2, <3>3
  <2> QED
    BY <2>1
<1>12. Timed(exp.lines)' = Timed(exp'.lines) /\ Timed(capture)' = Timed(capture')
  BY DEF Timed
<1>13. \E T : exp'.calls \in Seq(T)
  BY <1>3 DEF StampInv
<1>14. \E T : exp'.lines \in Seq(T) /\ capture' \in Seq(T)
  BY <1>3, <1>6
<1> HIDE DEF record
<1>15. StampInv'
  BY <1>2, <1>3, <1>9, <1>11, <1>12, <1>13, <1>14 DEF StampInv
<1> QED
  BY <1>5, <1>15 DEF record

\* What pace() makes of a line with this time, and when the stream wanted it.
Passes(record, paced, due) ==
  LET ts == IF HasStamp(record) THEN Stamp(record) ELSE NoTime
  IN  /\ paced = Pace(play, ts)
      /\ due = IF ts = NoTime THEN NoTime
               ELSE ((ts - Stamp(Append(capture, record)[Min(Timed(Append(capture, record)))])) * 2)
                      \div conf.speed

\* After the line the clock, less the time the consumer held it up, is what was
\* wanted of it at most, and start is the time of the first timed line.
PassedAs(all, log, paced, due) ==
  LET net == paced.clock - play.held
  IN  /\ due \in Int /\ paced.clock \in Int /\ paced.start \in Int
      /\ Due(log) = Timed(all)
      /\ Timed(all) = {} => paced.first = NoTime
      /\ Timed(all) # {} =>
           /\ \E m \in Timed(all) :
                /\ \A i \in Timed(all) : m <= i
                /\ paced.first = Stamp(all[m]) /\ paced.start = log[m].at
           /\ \E j \in Due(log) : net = paced.start + log[j].due - log[j].held
      /\ \A j \in Due(log) : net >= paced.start + log[j].due - log[j].held

Passed(record, paced, due) ==
  PassedAs(Append(capture, record),
           Append(play.log, [due |-> due, at |-> paced.clock, held |-> play.held]),
           paced, due)

LEMMA LinePasses ==
  ASSUME NEW S, capture \in Seq(S), NEW record \in S, NEW paced, NEW due,
         conf \in SimConfigs, HeadFacts(record), PaceInv, Passes(record, paced, due)
  PROVE  Passed(record, paced, due) /\ DOMAIN paced = DOMAIN play
         /\ paced.held = play.held /\ paced.log = play.log
<1> DEFINE all == Append(capture, record)
           n == Len(capture)
           entry == [due |-> due, at |-> paced.clock, held |-> play.held]
           log == Append(play.log, entry)
<1>1. /\ all \in Seq(S) /\ Len(all) = n + 1 /\ all[n + 1] = record /\ n \in Nat
      /\ \A i \in 1 .. n : all[i] = capture[i]
  OBVIOUS
<1>2. /\ play.log \in Seq(Entries) /\ Len(play.log) = n
      /\ play.clock \in Int /\ play.held \in Int /\ play.start \in Int
      /\ DOMAIN play = {"clock", "start", "first", "slow", "held", "log", "monitor"}
      /\ Due(play.log) = Timed(capture) /\ StartInv /\ ClockInv
  BY DEF PaceInv
<1>3. Timed(all) = Timed(capture) \cup IF HasStamp(record) THEN {n + 1} ELSE {}
  <2>1. DOMAIN all = 1 .. n + 1 /\ DOMAIN capture = 1 .. n
    BY <1>1
  <2> HIDE DEF all
  <2> QED
    BY <1>1, <2>1 DEF Timed
<1>4. Timed(capture) \in SUBSET 1 .. n
  BY DEF Timed
<1>5. \A j \in DOMAIN play.log : play.log[j] \in Entries
  BY <1>2
<1>6. ASSUME due \in Int, paced.clock \in Int
      PROVE  /\ log \in Seq(Entries) /\ Len(log) = n + 1
             /\ \A i \in 1 .. n : log[i] = play.log[i]
             /\ log[n + 1].due = due /\ log[n + 1].at = paced.clock /\ log[n + 1].held = play.held
             /\ Due(log) = Due(play.log) \cup IF due # NoTime THEN {n + 1} ELSE {}
  <2>1. entry \in Entries
    BY <1>2, <1>6 DEF Entries
  <2> PICK e \in Entries : e = entry
    BY <2>1
  <2>2. /\ log \in Seq(Entries) /\ Len(log) = n + 1 /\ log[n + 1] = e
        /\ \A i \in 1 .. n : log[i] = play.log[i]
    BY <1>2
  <2>3. DOMAIN log = 1 .. n + 1 /\ DOMAIN play.log = 1 .. n
    BY <1>2, <2>2
  <2>4. e.due = due /\ e.at = paced.clock /\ e.held = play.held
    OBVIOUS
  <2> HIDE DEF log
  <2> QED
    BY <2>2, <2>3, <2>4 DEF Due
<1>7. \A j \in Due(play.log) : /\ j \in 1 .. n /\ play.log[j].due \in Int
                              /\ play.log[j].at \in Int /\ play.log[j].held \in Int
  BY <1>2, <1>5 DEF Due, Entries
<1> HIDE DEF all, log, n
<1>8. CASE ~HasStamp(record)
  <2>1. paced = play /\ due = NoTime /\ due \in Int
    BY <1>8 DEF Passes, Pace, NoTime
  <2>2. Timed(all) = Timed(capture) /\ Due(log) = Due(play.log)
    BY <1>2, <1>3, <1>6, <1>8, <2>1
  <2>3. \A i \in 1 .. n : log[i] = play.log[i]
    BY <1>2, <1>6, <2>1
  <2> QED
    BY <1>1, <1>2, <1>4, <1>7, <2>1, <2>2, <2>3 DEF Passed, PassedAs, StartInv, ClockInv, all, log
<1>9. CASE HasStamp(record) /\ Timed(capture) = {}
  <2>1. Stamp(record) \in Nat /\ Stamp(record) # NoTime
    BY <1>9 DEF HeadFacts, NoTime
  <2>2. Timed(all) = {n + 1}
    BY <1>3, <1>9
  <2>3. Min(Timed(all)) = n + 1
    BY <1>1, <2>2, LeastIsMin
  <2>4. conf.speed \in {1, 2}
    BY SimAssumption
  <2>5. due = 0
    BY <1>1, <1>9, <2>1, <2>3, <2>4 DEF Passes, all
  <2>6. paced = [play EXCEPT !.first = Stamp(record), !.start = play.clock]
    BY <1>2, <1>9, <2>1 DEF Passes, Pace, StartInv
  <2>7. /\ paced.first = Stamp(record) /\ paced.start = play.clock /\ paced.clock = play.clock
        /\ DOMAIN paced = DOMAIN play /\ paced.held = play.held /\ paced.log = play.log
    BY <1>2, <2>6
  <2>8. Due(log) = {n + 1} /\ log[n + 1].due = 0 /\ log[n + 1].at = play.clock
        /\ log[n + 1].held = play.held
    BY <1>2, <1>6, <1>9, <2>5, <2>7 DEF NoTime
  <2> QED
    BY <1>1, <1>2, <2>2, <2>5, <2>7, <2>8 DEF Passed, PassedAs, all, log
<1>10. CASE HasStamp(record) /\ Timed(capture) # {}
  <2>1. Stamp(record) \in Nat /\ Stamp(record) # NoTime
    BY <1>10 DEF HeadFacts, NoTime
  <2>2. Timed(all) = Timed(capture) \cup {n + 1}
    BY <1>3, <1>10
  <2>3. PICK m \in Timed(capture) :
          /\ \A i \in Timed(capture) : m <= i
          /\ play.first = Stamp(capture[m]) /\ play.start = play.log[m].at
    BY <1>2, <1>10 DEF StartInv
  <2>4. m \in Timed(all) /\ (\A i \in Timed(all) : m <= i) /\ all[m] = capture[m]
    BY <1>1, <1>4, <2>2, <2>3
  <2>5. Min(Timed(all)) = m
    <3>1. Timed(all) \in SUBSET Int
      BY <1>1, <1>4, <2>2
    <3> QED
      BY <2>4, <3>1, LeastIsMin
  <2>6. play.first \in 0 .. Stamp(record) /\ play.first # NoTime
    BY <1>10, <2>3 DEF HeadFacts, NoTime
  <2>7. due = ((Stamp(record) - play.first) * 2) \div conf.speed
    BY <1>10, <2>1, <2>3, <2>4, <2>5 DEF Passes, all
  <2>8. due \in Nat
    <3>1. conf.speed \in {1, 2}
      BY SimAssumption
    <3> QED
      BY <2>1, <2>6, <2>7, <3>1
  <2>9. paced = [play EXCEPT !.clock = Max({play.clock, play.start + due})]
    BY <1>10, <2>1, <2>6, <2>7 DEF Passes, Pace
  <2>10. PICK at \in Int : /\ at = Max({play.clock, play.start + due})
                           /\ at >= play.clock /\ at >= play.start + due
                           /\ at = play.clock \/ at = play.start + due
    <3>1. PICK clock \in Int, wanted \in Int : clock = play.clock /\ wanted = play.start + due
      BY <1>2, <2>8
    <3>2. PICK at \in Int : /\ at = Max({clock, wanted}) /\ at \in {clock, wanted}
                           /\ at >= clock /\ at >= wanted
      BY GreaterOfTwo
    <3> QED
      BY <3>1, <3>2
  <2>11. /\ paced.first = play.first /\ paced.start = play.start /\ paced.clock = at
         /\ DOMAIN paced = DOMAIN play /\ paced.held = play.held /\ paced.log = play.log
    BY <1>2, <2>9, <2>10
  <2>12. /\ Due(log) = Timed(all) /\ log[n + 1].due = due /\ log[n + 1].held = play.held
         /\ \A i \in 1 .. n : log[i] = play.log[i]
    BY <1>2, <1>6, <2>2, <2>8, <2>11 DEF NoTime
  <2>13. PICK j \in Due(play.log) :
           play.clock - play.held = play.start + play.log[j].due - play.log[j].held
    BY <1>2, <1>10 DEF ClockInv
  <2>14. \A i \in Due(play.log) : /\ i \in Due(log) /\ log[i] = play.log[i]
                                 /\ at - play.held >= play.start + log[i].due - log[i].held
    <3>1. ASSUME NEW i \in Due(play.log)
          PROVE  /\ i \in Due(log) /\ log[i] = play.log[i]
                 /\ at - play.held >= play.start + log[i].due - log[i].held
      <4>1. play.clock - play.held >= play.start + play.log[i].due - play.log[i].held
        BY <1>2 DEF ClockInv
      <4>2. i \in Due(log) /\ log[i] = play.log[i]
        BY <1>2, <1>7, <2>2, <2>12
      <4> QED
        BY <1>2, <1>7, <2>10, <4>1, <4>2
    <3> QED
      BY <3>1
  <2>15. \E k \in Due(log) : at - play.held = play.start + log[k].due - log[k].held
    <3>1. CASE at = play.clock
      BY <2>13, <2>14, <3>1
    <3>2. CASE at = play.start + due
      <4>1. n + 1 \in Due(log)
        BY <2>2, <2>12
      <4>2. at - play.held = play.start + log[n + 1].due - log[n + 1].held
        BY <1>2, <2>8, <2>12, <3>2
      <4> QED
        BY <4>1, <4>2
    <3> QED
      BY <2>10, <3>1, <3>2
  <2>16. \A k \in Due(log) : at - play.held >= play.start + log[k].due - log[k].held
    <3>1. at - play.held >= play.start + log[n + 1].due - log[n + 1].held
      BY <1>2, <2>8, <2>10, <2>12
    <3>2. \A k \in Due(log) : k \in Due(play.log) \/ k = n + 1
      BY <1>2, <2>2, <2>12
    <3> QED
      BY <2>14, <3>1, <3>2
  <2>17. paced.first = Stamp(all[m]) /\ paced.start = log[m].at
    BY <1>4, <2>3, <2>4, <2>11, <2>12
  <2> QED
    <3>1. PassedAs(all, log, paced, due)
      BY <1>2, <2>4, <2>8, <2>11, <2>12, <2>15, <2>16, <2>17 DEF PassedAs
    <3> QED
      BY <2>11, <3>1 DEF Passed, all, log
<1> QED
  BY <1>8, <1>9, <1>10

LEMMA PlayLinePace ==
  ASSUME conf \in SimConfigs, StampInv, PaceInv, PlayLine
  PROVE  PaceInv'
<1> DEFINE record == Head(exp.lines)
<1>1. PICK S : exp.lines \in Seq(S) /\ capture \in Seq(S)
  BY DEF StampInv
<1>2. record \in S
  BY <1>1 DEF PlayLine
<1>3. HeadFacts(record)
  BY PlayLineStamps
<1>4. PICK paced, due, took :
        /\ took \in {0, Stall} /\ Passes(record, paced, due)
        /\ capture' = Append(capture, record)
        /\ play' = [paced EXCEPT
             !.clock = @ + took, !.slow = IF took > 0 THEN @ + 1 ELSE @, !.held = @ + took,
             !.log = Append(@, [due |-> due, at |-> paced.clock, held |-> play.held]),
             !.monitor = Drain(@, Written(record))]
  <2> DEFINE ts == IF HasStamp(record) THEN Stamp(record) ELSE NoTime
             all == Append(capture, record)
             passing == Pace(play, ts)
             wanted == IF ts = NoTime THEN NoTime
                       ELSE ((ts - Stamp(all[Min({i \in DOMAIN all : HasStamp(all[i])})])) * 2)
                              \div conf.speed
  <2>1. PICK took \in {0, Stall} :
          /\ capture' = Append(capture, record)
          /\ play' = [passing EXCEPT
               !.clock = @ + took, !.slow = IF took > 0 THEN @ + 1 ELSE @, !.held = @ + took,
               !.log = Append(@, [due |-> wanted, at |-> passing.clock, held |-> play.held]),
               !.monitor = Drain(@, Written(record))]
    BY DEF PlayLine
  <2>2. Passes(record, passing, wanted)
    BY DEF Passes, Timed
  <2> HIDE DEF passing, wanted, record
  <2> QED
    BY <2>1, <2>2
<1> HIDE DEF record
<1>5. /\ Passed(record, paced, due) /\ DOMAIN paced = DOMAIN play
      /\ paced.held = play.held /\ paced.log = play.log
  BY <1>1, <1>2, <1>3, <1>4, LinePasses
<1>6. took \in Int
  BY <1>4, SimAssumption
<1> DEFINE log == Append(play.log, [due |-> due, at |-> paced.clock, held |-> play.held])
<1>7. DOMAIN paced = {"clock", "start", "first", "slow", "held", "log", "monitor"}
  BY <1>5 DEF PaceInv
<1>8. /\ play'.clock = paced.clock + took /\ play'.held = play.held + took
      /\ play'.first = paced.first /\ play'.start = paced.start /\ play'.log = log
      /\ DOMAIN play' = {"clock", "start", "first", "slow", "held", "log", "monitor"}
  BY <1>4, <1>5, <1>7
<1>9. /\ paced.clock \in Int /\ play.held \in Int /\ due \in Int /\ paced.start \in Int
  BY <1>5 DEF Passed, PassedAs, PaceInv
<1>10. /\ log \in Seq(Entries) /\ Len(log) = Len(capture') /\ log # <<>>
       /\ log[Len(log)].at = paced.clock /\ log[Len(log)].held = play.held
  <2>1. PICK e \in Entries : e = [due |-> due, at |-> paced.clock, held |-> play.held]
    BY <1>9 DEF Entries
  <2>2. /\ log \in Seq(Entries) /\ Len(log) = Len(play.log) + 1 /\ log[Len(play.log) + 1] = e
        /\ Len(play.log) = Len(capture) /\ Len(play.log) \in Nat
    BY <2>1 DEF PaceInv
  <2>3. Len(capture') = Len(capture) + 1
    BY <1>1, <1>2, <1>4
  <2> HIDE DEF log
  <2> QED
    BY <2>1, <2>2, <2>3
<1>11. /\ Timed(capture)' = Timed(Append(capture, record)) /\ Due(play.log)' = Due(log)
  BY <1>4, <1>8 DEF Timed, Due
<1> HIDE DEF log
<1>12. StartInv'
  BY <1>4, <1>5, <1>8, <1>11 DEF StartInv, Passed, PassedAs, log
<1>13. ClockInv'
  <2>1. play'.clock - play'.held = paced.clock - play.held
    BY <1>6, <1>8, <1>9
  <2> QED
    BY <1>5, <1>8, <1>10, <1>11, <2>1 DEF ClockInv, Passed, PassedAs, log
<1>14. Due(log) = Timed(Append(capture, record))
  BY <1>5 DEF Passed, PassedAs, log
<1>15. play'.clock \in Int /\ play'.held \in Int /\ play'.start \in Int
  BY <1>6, <1>8, <1>9
<1> QED
  BY <1>8, <1>10, <1>11, <1>12, <1>13, <1>14, <1>15 DEF PaceInv

LEMMA PlayStep == PlayInv /\ [SimNext]_simVars => PlayInv'
<1> SUFFICES ASSUME PlayInv, [SimNext]_simVars PROVE PlayInv'
  OBVIOUS
<1>1. conf' = conf /\ conf \in SimConfigs
  BY CommandStays DEF PlayInv
<1>2. CASE Load
  <2>1. UNCHANGED <<conf, src, run, exp, play, capture, read>> /\ phase = "load"
    BY <1>2 DEF Load
  <2>2. StampInv' /\ PaceInv' /\ play' = FreshPlay
    BY <2>1 DEF PlayInv, StampInv, PaceInv, StartInv, ClockInv, Timed, Due
  <2> QED
    BY <1>1, <2>2 DEF PlayInv
<1>3. CASE Export
  <2>1. StampInv /\ PaceInv /\ phase = "play" /\ UNCHANGED <<phase, play, capture>>
    BY <1>3 DEF Export, PlayInv
  <2>2. StampInv'
    BY <1>1, <1>3, <2>1, ExportStamps
  <2>3. PaceInv'
    BY <2>1 DEF PaceInv, StartInv, ClockInv, Timed, Due
  <2> QED
    BY <1>1, <2>1, <2>2, <2>3 DEF PlayInv
<1>4. CASE PlayLine
  <2>1. StampInv /\ PaceInv /\ phase = "play" /\ phase' = phase
    BY <1>4 DEF PlayLine, PlayInv
  <2> QED
    BY <1>1, <1>4, <2>1, PlayLineStamps, PlayLinePace DEF PlayInv
<1>5. CASE EndPlay
  BY <1>1, <1>5 DEF EndPlay, PlayInv
<1>6. CASE Simulate \/ EndRun \/ ReadLine \/ EndReplay
  <2>1. /\ phase \in {"run", "replay"} /\ phase' \in {"run", "replay", "done", "failed"}
        /\ play' = play
    BY <1>6 DEF Simulate, EndRun, ReadLine, EndReplay
  <2> QED
    BY <1>1, <2>1 DEF PlayInv
<1>7. CASE UNCHANGED simVars
  BY <1>1, <1>7 DEF simVars, PlayInv, StampInv, PaceInv, StartInv, ClockInv, Timed, Due
<1> QED
  BY <1>2, <1>3, <1>4, <1>5, <1>6, <1>7 DEF SimNext

\* For every speed, rate and stall: a line of a paced replay is taken when the
\* stream wanted it, or later by just what the consumer has held up the stream
\* since the line that was last in time; being late is not added up.
THEOREM PaceHoldsTheClock == SimSpec => []PaceNeverDrifts
BY PlayInit, PlayStep, PaceFromInv, PTL DEF SimSpec

-----------------------------------------------------------------------------
(* SimSession: the open-loop heading of a run against the truth. *)

\* What the z axis of the boat sees of a turn about the vertical.
Up(scenario) == WorldToBody(SampleAttitude(scenario.attitude), AxisZ).z

\* The z component of a vertical vector, in the frame of q.
LEMMA VerticalSeen ==
  ASSUME NEW w \in Int, NEW x \in Int, NEW y \in Int, NEW z \in Int, NEW v \in Int
  PROVE  WorldToBody(Quaternion(w, x, y, z), Vec3(0, 0, v)).z
           = (v * (w * w + z * z - (x * x + y * y))) \div (w * w + x * x + y * y + z * z)
<1> DEFINE n == w * w + x * x + y * y + z * z
<1>1. WorldToBody(Quaternion(w, x, y, z), Vec3(0, 0, v)).z
        = ((w * w + (-x) * (-x) + (-y) * (-y) + (-z) * (-z)) * v
            + w * (2 * ((-x) * 0 - (-y) * 0))
            + ((-x) * (2 * ((-z) * 0 - (-x) * v)) - (-y) * (2 * ((-y) * v - (-z) * 0))))
          \div (w * w + (-x) * (-x) + (-y) * (-y) + (-z) * (-z))
  BY DEF WorldToBody, Rotate, Norm2, Conjugate, Quaternion, Vec3
<1>2. w * w + (-x) * (-x) + (-y) * (-y) + (-z) * (-z) = n
  OBVIOUS
<1>3. n * v + w * (2 * ((-x) * 0 - (-y) * 0))
        + ((-x) * (2 * ((-z) * 0 - (-x) * v)) - (-y) * (2 * ((-y) * v - (-z) * 0)))
        = v * (w * w + z * z - (x * x + y * y))
  OBVIOUS
<1> QED
  BY <1>1, <1>2, <1>3

\* What the boat tilted by <<w, x, y, 0>> sees, turned by <<c, 0, 0, s>>.
SeesTurned(c, s, w, x, y, v) ==
  LET att == Quaternion(w, x, y, 0)
      up  == WorldToBody(att, AxisZ).z
  IN  /\ up \in {-1, 0, 1}
      /\ WorldToBody(Multiply(Quaternion(c, 0, 0, s), att), Vec3(0, 0, v)).z = v * up

\* A turn about the vertical does not change how upright the boat is.
LEMMA UprightTurned ==
  ASSUME NEW c \in {-1, 0, 1}, NEW s \in {-1, 0, 1}, c # 0 \/ s # 0,
         NEW w \in {-1, 0, 1}, NEW x \in {-1, 0, 1}, NEW y \in {-1, 0, 1},
         w # 0 \/ x # 0 \/ y # 0, x = 0 \/ y = 0, NEW v \in Int
  PROVE  SeesTurned(c, s, w, x, y, v)
<1> DEFINE att == Quaternion(w, x, y, 0)
           up == WorldToBody(att, AxisZ).z
           m == c * c + s * s
           e == w * w - (x * x + y * y)
           n == w * w + x * x + y * y
<1>1. m \in Nat \ {0} /\ n \in {1, 2} /\ e \in {-1, 0, 1} /\ (e # 0 => n = 1)
  OBVIOUS
<1>2. up = e \div n
  <2>1. up = (1 * (w * w + 0 * 0 - (x * x + y * y))) \div (w * w + x * x + y * y + 0 * 0)
    BY VerticalSeen DEF AxisZ
  <2>2. 1 * (w * w + 0 * 0 - (x * x + y * y)) = e /\ w * w + x * x + y * y + 0 * 0 = n
    OBVIOUS
  <2> QED BY <2>1, <2>2
<1>3. Multiply(Quaternion(c, 0, 0, s), att)
        = Quaternion(c * w, c * x - s * y, c * y + s * x, s * w)
  BY DEF Multiply, Quaternion
<1>4. WorldToBody(Multiply(Quaternion(c, 0, 0, s), att), Vec3(0, 0, v)).z
        = (m * (v * e)) \div (m * n)
  <2> DEFINE p == c * w
             q == c * x - s * y
             r == c * y + s * x
             u == s * w
  <2>1. p \in Int /\ q \in Int /\ r \in Int /\ u \in Int
    OBVIOUS
  <2>2. v * (p * p + u * u - (q * q + r * r)) = m * (v * e)
    OBVIOUS
  <2>3. p * p + q * q + r * r + u * u = m * n
    OBVIOUS
  <2>4. WorldToBody(Quaternion(p, q, r, u), Vec3(0, 0, v)).z
          = (v * (p * p + u * u - (q * q + r * r))) \div (p * p + q * q + r * r + u * u)
    <3> HIDE DEF p, q, r, u
    <3> QED BY <2>1, VerticalSeen
  <2> QED BY <1>3, <2>2, <2>3, <2>4
<1> HIDE DEF m, n, e
<1>5. v * e \in Int /\ (m * (v * e)) \div (m * n) = (v * e) \div n
  <2>1. PICK a \in Int : a = v * e
    BY <1>1
  <2> QED BY <1>1, <2>1, Reduced
<1>6. e \div n \in {-1, 0, 1} /\ (v * e) \div n = v * (e \div n)
  <2>1. CASE n = 1
    <3>1. \A a \in Int : a \div 1 = a
      OBVIOUS
    <3>2. v * e \in Int
      BY <1>1
    <3> QED BY <1>1, <2>1, <3>1, <3>2
  <2>2. CASE n = 2
    BY <1>1, <2>2
  <2> QED BY <1>1, <2>1, <2>2
<1> QED
  BY <1>2, <1>4, <1>5, <1>6 DEF SeesTurned

\* Of a rate about the vertical the gyro's z axis sees as much as the boat is upright.
LEMMA TurnSeen ==
  ASSUME NEW c \in SimConfigs, NEW t \in Nat, NEW v \in Int
  PROVE  /\ Up(c.scenario) \in {-1, 0, 1}
         /\ WorldToBody(BoatOrientation(c.scenario, t), Vec3(0, 0, v)).z = v * Up(c.scenario)
<1>1. PICK deg \in Int : deg = -SampleHeading(c.scenario.heading, t).deg
  BY ProfileOf, HeadingType
<1>2. PICK co \in {-1, 0, 1}, si \in {-1, 0, 1} :
        /\ co # 0 \/ si # 0
        /\ FromAxisAngle(AxisZ, deg) = Quaternion(co, 0, 0, si)
  <2>1. PICK half \in HalfTurns : half = Eighths[((deg \div 90) % 8) + 1]
    BY HalfAngle
  <2>2. PICK co \in {-1, 0, 1}, si \in {-1, 0, 1} : half = <<co, si>> /\ (co # 0 \/ si # 0)
    BY DEF HalfTurns
  <2>3. FromAxisAngle(AxisZ, deg) = Quaternion(co, 0, 0, si)
    BY <2>1, <2>2 DEF FromAxisAngle, AxisZ, Vec3
  <2> QED BY <2>2, <2>3
<1>3. PICK w \in {-1, 0, 1}, x \in {-1, 0, 1}, y \in {-1, 0, 1} :
        /\ w # 0 \/ x # 0 \/ y # 0
        /\ x = 0 \/ y = 0
        /\ SampleAttitude(c.scenario.attitude) = Quaternion(w, x, y, 0)
  <2>1. /\ c.scenario.attitude.axis \in {AxisX, AxisY, ZeroVec}
        /\ c.scenario.attitude.angle \in Int
        /\ c.scenario.attitude.axis = ZeroVec => c.scenario.attitude.angle = 0
    BY SimAssumption
  <2>2. PICK a \in Int : a = c.scenario.attitude.angle
    BY <2>1
  <2>3. PICK half \in HalfTurns : half = Eighths[((a \div 90) % 8) + 1]
    BY HalfAngle
  <2>4. PICK ca \in {-1, 0, 1}, sa \in {-1, 0, 1} : half = <<ca, sa>> /\ (ca # 0 \/ sa # 0)
    BY DEF HalfTurns
  <2>5. CASE c.scenario.attitude.axis = AxisX
    <3>1. SampleAttitude(c.scenario.attitude) = Quaternion(ca, sa, 0, 0)
      BY <2>2, <2>3, <2>4, <2>5 DEF SampleAttitude, FromAxisAngle, AxisX, Vec3
    <3> QED BY <2>4, <3>1
  <2>6. CASE c.scenario.attitude.axis = AxisY
    <3>1. SampleAttitude(c.scenario.attitude) = Quaternion(ca, 0, sa, 0)
      BY <2>2, <2>3, <2>4, <2>6 DEF SampleAttitude, FromAxisAngle, AxisY, Vec3
    <3> QED BY <2>4, <3>1
  <2>7. CASE c.scenario.attitude.axis = ZeroVec
    <3>1. ((0 \div 90) % 8) + 1 = 1
      OBVIOUS
    <3>2. FromAxisAngle(ZeroVec, 0) = Quaternion(1, 0, 0, 0)
      BY <3>1 DEF FromAxisAngle, Eighths, ZeroVec, Vec3
    <3>3. SampleAttitude(c.scenario.attitude) = Quaternion(1, 0, 0, 0)
      BY <2>1, <2>7, <3>2 DEF SampleAttitude
    <3> QED BY <3>3
  <2> QED BY <2>1, <2>5, <2>6, <2>7
<1>4. BoatOrientation(c.scenario, t) = Multiply(Quaternion(co, 0, 0, si), Quaternion(w, x, y, 0))
  BY <1>1, <1>2, <1>3 DEF BoatOrientation
<1>5. Up(c.scenario) = WorldToBody(Quaternion(w, x, y, 0), AxisZ).z
  BY <1>3 DEF Up
<1>6. SeesTurned(co, si, w, x, y, v)
  BY <1>2, <1>3, UprightTurned
<1> QED
  BY <1>4, <1>5, <1>6 DEF SeesTurned

\* The gyro's z axis at t, and what the open-loop heading is to be at now, from
\* the fix at from on.
Spin(c, t) ==
  c.noise.bias.z - SampleHeading(c.scenario.heading, t).rate * Up(c.scenario)

Tracked(c, from, now) ==
  LET head(t) == SampleHeading(c.scenario.heading, t)
      early   == IF from > 0 THEN c.imuDt ELSE 0
      turned  == head(now).deg - head(from).deg + (head(now).rate - head(from).rate) * c.imuDt
                   + head(from).rate * early
      drift   == c.noise.bias.z * (now - from + early)
  IN  head(from).deg + Up(c.scenario) * turned - drift

\* A configuration for which the open-loop heading is tracked.
Trackable(c) ==
  /\ c \in SimConfigs
  /\ c.command # "synthetic" /\ c.noise.effect \in {"none", "dropout", "mag"}
  /\ LegsOnSamples(c.scenario.heading.legs, c.imuDt)

LEMMA TrackableTypes ==
  ASSUME NEW c, Trackable(c)
  PROVE  /\ c.imuDt \in Nat \ {0} /\ c.noise.bias.z \in Int
         /\ Up(c.scenario) \in {-1, 0, 1}
         /\ \A t \in Nat : /\ SampleHeading(c.scenario.heading, t).deg \in Int
                           /\ SampleHeading(c.scenario.heading, t).rate \in Int
                           /\ Spin(c, t) \in Int
<1>1. c \in SimConfigs /\ c.imuDt \in Nat \ {0} /\ c.noise.bias.z \in Int
  BY SimAssumption DEF Trackable
<1>2. 0 \in Nat /\ 0 \in Int
  OBVIOUS
<1>3. Up(c.scenario) \in {-1, 0, 1}
  BY <1>1, <1>2, TurnSeen
<1>4. \A t \in Nat : /\ SampleHeading(c.scenario.heading, t).deg \in Int
                     /\ SampleHeading(c.scenario.heading, t).rate \in Int
  BY <1>1, ProfileOf, HeadingType
<1>5. \A t \in Nat : SampleHeading(c.scenario.heading, t).rate * Up(c.scenario) \in Int
  BY <1>3, <1>4
<1> QED
  BY <1>1, <1>3, <1>4, <1>5 DEF Spin

\* The fix anchors the heading at the truth; the tick that brings it, unless it is
\* the first one, steps it at once.
LEMMA TrackedFrom ==
  ASSUME NEW c, Trackable(c), NEW t \in Nat
  PROVE  /\ Tracked(c, t, t) \in Int
         /\ t = 0 => Tracked(c, t, t) = SampleHeading(c.scenario.heading, t).deg
         /\ t > 0 => Tracked(c, t, t) = SampleHeading(c.scenario.heading, t).deg
                                          - Spin(c, t) * c.imuDt
<1>1. PICK d \in Int, r \in Int, u \in {-1, 0, 1}, b \in Int, dt \in Nat :
        /\ d = SampleHeading(c.scenario.heading, t).deg
        /\ r = SampleHeading(c.scenario.heading, t).rate
        /\ u = Up(c.scenario) /\ b = c.noise.bias.z /\ dt = c.imuDt
  BY TrackableTypes
<1>2. PICK e \in Nat : e = IF t > 0 THEN dt ELSE 0
  OBVIOUS
<1>3. Tracked(c, t, t) = d + u * (d - d + (r - r) * dt + r * e) - b * (t - t + e)
  BY <1>1, <1>2 DEF Tracked
<1>4. Tracked(c, t, t) = d - (b - r * u) * e
  BY <1>3
<1>5. (b - r * u) * e \in Int
  OBVIOUS
<1> QED
  BY <1>1, <1>2, <1>4, <1>5 DEF Spin

\* Each tick turns it by what the gyro reads.
LEMMA TrackedOn ==
  ASSUME NEW c, Trackable(c), NEW from \in Nat, NEW t \in Nat, OnSample(c.imuDt, t)
  PROVE  /\ Tracked(c, from, t) \in Int
         /\ Tracked(c, from, t + c.imuDt)
              = Tracked(c, from, t) - Spin(c, t + c.imuDt) * c.imuDt
<1>1. PICK u \in {-1, 0, 1}, b \in Int, dt \in Nat \ {0} :
        u = Up(c.scenario) /\ b = c.noise.bias.z /\ dt = c.imuDt
  BY TrackableTypes
<1>2. PICK d0 \in Int, r0 \in Int, d1 \in Int, r1 \in Int :
        /\ d0 = SampleHeading(c.scenario.heading, from).deg
        /\ r0 = SampleHeading(c.scenario.heading, from).rate
        /\ d1 = SampleHeading(c.scenario.heading, t).deg
        /\ r1 = SampleHeading(c.scenario.heading, t).rate
  BY TrackableTypes
<1>3. t + dt \in Nat
  OBVIOUS
<1>4. PICK d2 \in Int, r2 \in Int :
        /\ d2 = SampleHeading(c.scenario.heading, t + dt).deg
        /\ r2 = SampleHeading(c.scenario.heading, t + dt).rate
  BY <1>3, TrackableTypes
<1>5. d2 = d1 + r1 * dt
  <2>1. c \in SimConfigs /\ LegsOnSamples(c.scenario.heading.legs, dt) /\ OnSample(dt, t)
    BY <1>1 DEF Trackable
  <2>2. SampleHeading(c.scenario.heading, t + dt).deg
          = SampleHeading(c.scenario.heading, t).deg + SampleHeading(c.scenario.heading, t).rate * dt
    BY <2>1, ProfileOf, HeadingTurns
  <2> QED BY <1>2, <1>4, <2>2
<1>6. PICK e \in Nat : e = IF from > 0 THEN dt ELSE 0
  OBVIOUS
<1>7. /\ Tracked(c, from, t) = d0 + u * (d1 - d0 + (r1 - r0) * dt + r0 * e) - b * (t - from + e)
      /\ Tracked(c, from, t + dt)
           = d0 + u * (d2 - d0 + (r2 - r0) * dt + r0 * e) - b * (t + dt - from + e)
  BY <1>1, <1>2, <1>4, <1>6 DEF Tracked
<1>8. Spin(c, t + dt) = b - r2 * u
  BY <1>1, <1>4 DEF Spin
<1>9. d0 + u * (d1 - d0 + (r1 - r0) * dt + r0 * e) - b * (t - from + e) \in Int
  OBVIOUS
<1>10. d0 + u * (d2 - d0 + (r2 - r0) * dt + r0 * e) - b * (t + dt - from + e)
         = (d0 + u * (d1 - d0 + (r1 - r0) * dt + r0 * e) - b * (t - from + e)) - (b - r2 * u) * dt
  BY <1>5
<1> QED
  BY <1>1, <1>7, <1>8, <1>9, <1>10

\* What a tick of the source brings.
SeenAt(c, tick, fix, t) ==
  /\ tick.imu.t = t /\ tick.imu.gyro.z = Spin(c, t)
  /\ Brings(tick, fix) /\ fix.valid \in BOOLEAN /\ fix.heading \in Int
  /\ SameDirection(fix.heading, SampleHeading(c.scenario.heading, t).deg)

LEMMA TickSeen ==
  ASSUME Trackable(conf), src.t \in Nat, cfg.baseline \in Int, NEW draw
  PROVE  \E fix : SeenAt(conf, TickOf(draw, ZeroVec), fix, src.t)
<1> DEFINE tick == TickOf(draw, ZeroVec)
           fix == Fix(conf.scenario, conf.noise, draw, cfg.baseline, src.t)
           deg == SampleHeading(conf.scenario.heading, src.t).deg
           rate == SampleHeading(conf.scenario.heading, src.t).rate
<1>1. conf \in SimConfigs /\ conf.noise.effect \in {"none", "dropout", "mag"}
  BY DEF Trackable
<1>2. deg \in Int /\ rate \in Int /\ conf.noise.bias.z \in Int /\ Up(conf.scenario) \in {-1, 0, 1}
  BY TrackableTypes
<1>3. PICK v \in Int : v = -rate
  BY <1>2
<1>4. WorldToBody(BoatOrientation(conf.scenario, src.t), Vec3(0, 0, v)).z = v * Up(conf.scenario)
  BY <1>1, TurnSeen
<1>5. tick.imu.t = src.t
  BY DEF TickOf, CorruptImu, CleanImu
<1>6. tick.imu.gyro = VecAdd(VecAdd(WorldToBody(BoatOrientation(conf.scenario, src.t), Vec3(0, 0, v)),
                                    conf.noise.bias), VecAdd(ZeroVec, ZeroVec))
  BY <1>1, <1>3 DEF TickOf, CorruptImu, CleanImu, White
<1>7. tick.imu.gyro.z = WorldToBody(BoatOrientation(conf.scenario, src.t), Vec3(0, 0, v)).z
                          + conf.noise.bias.z + (0 + 0)
  BY <1>6 DEF VecAdd, Vec3, ZeroVec
<1>8. tick.imu.gyro.z = Spin(conf, src.t)
  <2>1. v * Up(conf.scenario) + conf.noise.bias.z + (0 + 0) = conf.noise.bias.z - rate * Up(conf.scenario)
    BY <1>2, <1>3
  <2> QED BY <1>4, <1>7, <2>1 DEF Spin
<1>9. Brings(tick, fix)
  BY <1>5 DEF TickOf, Brings, Fix, GnssSampleFromAttitude
<1>10. fix.valid \in BOOLEAN /\ fix.heading = Wrap180((deg + cfg.baseline) - cfg.baseline)
  <2>1. conf.noise.effect # "gnss"
    BY <1>1
  <2>2. fix.heading = Wrap180((deg + cfg.baseline) - cfg.baseline)
    BY <2>1 DEF Fix, GnssSampleFromAttitude
  <2>3. fix.valid = ~Dropped(conf.noise, draw, src.t)
    BY DEF Fix, GnssSampleFromAttitude
  <2> QED BY <2>2, <2>3 DEF Dropped
<1>11. (deg + cfg.baseline) - cfg.baseline = deg
  BY <1>2
<1>12. fix.heading \in Int /\ SameDirection(fix.heading, deg)
  BY <1>2, <1>10, <1>11, WrapKeepsDirection
<1> QED
  BY <1>5, <1>8, <1>9, <1>10, <1>12 DEF SeenAt

\* The valid updates among the filter's calls.
FixCalls(calls) == {i \in DOMAIN calls : calls[i].call = "update" /\ calls[i].valid}
FirstFix(calls) == calls[Min(FixCalls(calls))].t

\* A tick adds its predict, and after it its fix.
FedFixes(fed, calls, tick) ==
  /\ FixCalls(fed) = FixCalls(calls) \cup IF Valid(tick.gnss) = {} THEN {} ELSE {Len(calls) + 2}
  /\ \A i \in DOMAIN calls : fed[i] = calls[i]
  /\ Valid(tick.gnss) # {} => fed[Len(calls) + 2].t = tick.imu.t

LEMMA ValidFix ==
  ASSUME NEW fix, fix.valid \in BOOLEAN
  PROVE  /\ Valid(<<>>) = {}
         /\ Valid(<<fix>>) = IF fix.valid THEN {1} ELSE {}
         /\ <<fix>>[Min({1})] = fix
<1>1. Min({1}) = 1
  <2>1. PICK m \in Int : m = 1
    OBVIOUS
  <2>2. \A x \in {m} : m <= x
    OBVIOUS
  <2>3. Min({m}) = m
    BY <2>2, LeastIsMin
  <2> QED BY <2>1, <2>3
<1> QED
  BY <1>1 DEF Valid

LEMMA FeedFixes ==
  ASSUME NEW S, NEW calls \in Seq(S), NEW tick, NEW fix, Brings(tick, fix), fix.valid \in BOOLEAN
  PROVE  /\ \E T : Feed(calls, tick) \in Seq(T)
         /\ FedFixes(Feed(calls, tick), calls, tick)
<1> DEFINE T == S \cup {Predict(tick.imu), Correct(fix)}
           fed == Feed(calls, tick)
           n == Len(calls)
           longer == Append(calls, Predict(tick.imu))
           updates == [i \in DOMAIN tick.gnss |-> Correct(tick.gnss[i])]
<1>1. calls \in Seq(T) /\ n \in Nat
  OBVIOUS
<1>2. /\ longer \in Seq(T) /\ Len(longer) = n + 1 /\ longer[n + 1] = Predict(tick.imu)
      /\ \A i \in 1 .. n : longer[i] = calls[i]
  BY <1>1
<1>3. /\ Predict(tick.imu).call = "predict"
      /\ Correct(fix).call = "update" /\ Correct(fix).valid = fix.valid
      /\ Correct(fix).t = tick.imu.t
  BY DEF Predict, Correct, Brings
<1>4. fed = longer \o updates
  BY DEF Feed
<1>5. CASE tick.gnss = <<>>
  <2>1. updates = <<>> /\ Valid(tick.gnss) = {}
    BY <1>5 DEF Valid
  <2>2. fed = longer
    <3>1. \A u \in Seq(T) : u \o <<>> = u
      OBVIOUS
    <3> HIDE DEF fed, longer, updates, T
    <3> QED BY <1>2, <1>4, <2>1, <3>1
  <2> HIDE DEF longer, fed, T, updates
  <2>3. FixCalls(fed) = FixCalls(calls)
    <3>1. DOMAIN fed = 1 .. n + 1 /\ DOMAIN calls = 1 .. n
      BY <1>1, <1>2, <2>2
    <3>2. (n + 1) \notin FixCalls(fed) /\ \A i \in 1 .. n : fed[i] = calls[i]
      BY <1>2, <1>3, <2>2 DEF FixCalls
    <3> QED BY <1>1, <3>1, <3>2 DEF FixCalls
  <2> QED BY <1>1, <1>2, <2>1, <2>2, <2>3 DEF FedFixes, fed
<1>6. CASE tick.gnss = <<fix>>
  <2>1. updates = <<Correct(fix)>> /\ Valid(tick.gnss) = IF fix.valid THEN {1} ELSE {}
    BY <1>6, ValidFix
  <2>2. fed = longer \o <<Correct(fix)>> /\ Correct(fix) \in T
    BY <1>4, <2>1
  <2> HIDE DEF longer, fed, T, updates
  <2>3. /\ fed \in Seq(T) /\ Len(fed) = n + 2 /\ fed[n + 2] = Correct(fix)
        /\ \A i \in 1 .. n + 1 : fed[i] = longer[i]
    BY <1>1, <1>2, <2>2
  <2>4. /\ DOMAIN fed = 1 .. n + 2 /\ DOMAIN calls = 1 .. n
        /\ fed[n + 1].call = "predict" /\ \A i \in 1 .. n : fed[i] = calls[i]
    BY <1>1, <1>2, <1>3, <2>3
  <2>5. FixCalls(fed) = FixCalls(calls) \cup IF fix.valid THEN {n + 2} ELSE {}
    <3>1. \A i \in 1 .. n + 2 : i \in 1 .. n \/ i = n + 1 \/ i = n + 2
      BY <1>1
    <3>2. n + 2 \in FixCalls(fed) <=> fix.valid
      BY <1>1, <1>3, <2>3, <2>4 DEF FixCalls
    <3>3. n + 1 \notin FixCalls(fed)
      BY <2>4 DEF FixCalls
    <3>4. \A i \in 1 .. n : i \in FixCalls(fed) <=> i \in FixCalls(calls)
      BY <1>1, <2>4 DEF FixCalls
    <3>5. FixCalls(calls) \subseteq 1 .. n /\ FixCalls(fed) \subseteq 1 .. n + 2
      BY <2>4 DEF FixCalls
    <3>6. \A i \in 1 .. n : i \in 1 .. n + 2
      BY <1>1
    <3> QED BY <3>1, <3>2, <3>3, <3>4, <3>5, <3>6
  <2>6. Valid(tick.gnss) = {} <=> ~fix.valid
    BY <2>1
  <2>7. fed[n + 2].t = tick.imu.t
    BY <1>3, <2>3
  <2> QED BY <2>3, <2>4, <2>5, <2>6, <2>7 DEF FedFixes, fed
<1> QED
  BY <1>5, <1>6 DEF Brings

\* The first fix stays the first.
LEMMA FirstStays ==
  ASSUME NEW S, NEW calls \in Seq(S), NEW tick, NEW fed, FedFixes(fed, calls, tick)
  PROVE  /\ FixCalls(fed) = {} <=> FixCalls(calls) = {} /\ Valid(tick.gnss) = {}
         /\ FixCalls(calls) # {} => FirstFix(fed) = FirstFix(calls)
         /\ FixCalls(calls) = {} /\ Valid(tick.gnss) # {} => FirstFix(fed) = tick.imu.t
<1> DEFINE n == Len(calls)
           F == FixCalls(calls)
           G == FixCalls(fed)
<1>1. n \in Nat /\ DOMAIN calls = 1 .. n /\ F \in SUBSET (1 .. n)
  BY DEF FixCalls
<1>2. /\ G = F \cup IF Valid(tick.gnss) = {} THEN {} ELSE {n + 2}
      /\ \A i \in 1 .. n : fed[i] = calls[i]
      /\ Valid(tick.gnss) # {} => fed[n + 2].t = tick.imu.t
  BY <1>1 DEF FedFixes
<1>3. FirstFix(calls) = calls[Min(F)].t /\ FirstFix(fed) = fed[Min(G)].t
  BY DEF FirstFix
<1> HIDE DEF F, G, n
<1>4. ASSUME F # {} PROVE FirstFix(fed) = FirstFix(calls)
  <2>1. PICK m \in 1 .. n : m = Min(F) /\ m \in F /\ \A x \in F : m <= x
    BY <1>1, <1>4, MinOf
  <2>2. m \in G /\ G \in SUBSET Int /\ \A x \in G : m <= x
    BY <1>1, <1>2, <2>1
  <2>3. Min(G) = m
    BY <2>2, LeastIsMin
  <2> QED BY <1>2, <1>3, <2>1, <2>3
<1>5. ASSUME F = {}, Valid(tick.gnss) # {} PROVE FirstFix(fed) = tick.imu.t
  <2>1. PICK m \in Int : m = n + 2
    BY <1>1
  <2>2. G = {m}
    BY <1>2, <1>5, <2>1
  <2>3. Min(G) = m
    <3>1. G \in SUBSET Int /\ m \in G /\ \A x \in G : m <= x
      BY <2>2
    <3> QED BY <3>1, LeastIsMin
  <2>4. m \in Int /\ fed[m].t = tick.imu.t
    BY <1>2, <1>5, <2>1
  <2> QED BY <1>3, <2>3, <2>4
<1>6. G = {} <=> F = {} /\ Valid(tick.gnss) = {}
  BY <1>2
<1> QED
  BY <1>4, <1>5, <1>6 DEF F, G

IntReckoners == [anchored : BOOLEAN, heading : Int, prev : Int]

LEMMA SteppedIs ==
  ASSUME NEW d \in IntReckoners, NEW t \in Int, NEW z \in Int
  PROVE  /\ Step(d, t, z) \in IntReckoners
         /\ Step(d, t, z).prev = t /\ Step(d, t, z).anchored = d.anchored
         /\ Step(d, t, z).heading = IF d.anchored /\ d.prev # NoTime
                                      THEN Wrap180(d.heading - z * (t - d.prev)) ELSE d.heading
<1>1. d.heading \in Int /\ d.prev \in Int
  BY DEF IntReckoners
<1>2. Wrap180(d.heading - z * (t - d.prev)) \in Int
  <2>1. PICK x \in Int : x = d.heading - z * (t - d.prev)
    BY <1>1
  <2>2. Wrap180(x) \in Int
    BY WrapKeepsDirection
  <2> QED BY <2>1, <2>2
<1>3. /\ Step(d, t, z).prev = t /\ Step(d, t, z).anchored = d.anchored
      /\ Step(d, t, z).heading = IF d.anchored /\ d.prev # NoTime
                                   THEN Wrap180(d.heading - z * (t - d.prev)) ELSE d.heading
  BY DEF Step, IntReckoners
<1>4. Step(d, t, z) \in IntReckoners
  BY <1>2 DEF Step, IntReckoners
<1> QED
  BY <1>3, <1>4

TickGiven(dr, gnss, fix, t, z) ==
  /\ dr \in IntReckoners /\ fix.valid \in BOOLEAN /\ fix.heading \in Int
  /\ gnss = <<>> \/ gnss = <<fix>>
  /\ t \in Int /\ z \in Int
TickReckons(next, dr, gnss, fix, t, z) ==
  /\ next \in IntReckoners /\ next.prev = t
  /\ next.anchored <=> dr.anchored \/ Valid(gnss) # {}
  /\ dr.anchored /\ dr.prev # NoTime =>
       SameDirection(next.heading, dr.heading - z * (t - dr.prev))
  /\ ~dr.anchored /\ next.anchored /\ dr.prev = NoTime =>
       SameDirection(next.heading, fix.heading)
  /\ ~dr.anchored /\ next.anchored /\ dr.prev # NoTime =>
       SameDirection(next.heading, fix.heading - z * (t - dr.prev))

\* A tick through the reckoner: it is anchored by the first valid fix, and stepped.
LEMMA ReckonedTick ==
  ASSUME NEW dr, NEW gnss, NEW fix, NEW t, NEW z, TickGiven(dr, gnss, fix, t, z),
         NEW next, next = Step(AnchorByFirst(dr, gnss), t, z)
  PROVE  TickReckons(next, dr, gnss, fix, t, z)
<1> USE DEF TickGiven
<1>1. PICK a \in BOOLEAN, h \in Int, p \in Int : dr = [anchored |-> a, heading |-> h, prev |-> p]
  BY DEF IntReckoners
<1>2. Valid(gnss) # {} => fix.valid /\ gnss[Min(Valid(gnss))] = fix
  <2>1. CASE gnss = <<>>
    BY <2>1 DEF Valid
  <2>2. CASE gnss = <<fix>>
    BY <2>2, ValidFix
  <2> QED BY <2>1, <2>2
<1>3. PICK turn \in Int : turn = z * (t - p)
  BY <1>1
<1>4. PICK w \in Int : w = Wrap180(fix.heading) /\ SameDirection(w, fix.heading)
  BY WrapKeepsDirection
<1>5. CASE a \/ Valid(gnss) = {}
  <2>1. AnchorByFirst(dr, gnss) = dr
    BY <1>1, <1>5 DEF AnchorByFirst
  <2>2. /\ next \in IntReckoners /\ next.prev = t /\ next.anchored = a
        /\ next.heading = IF a /\ p # NoTime THEN Wrap180(h - turn) ELSE h
    BY <1>1, <1>3, <2>1, SteppedIs
  <2>3. SameDirection(Wrap180(h - turn), h - turn)
    BY WrapKeepsDirection
  <2> QED BY <1>1, <1>3, <1>5, <2>2, <2>3 DEF TickReckons
<1>6. CASE ~a /\ Valid(gnss) # {}
  <2>1. AnchorByFirst(dr, gnss) = [anchored |-> TRUE, heading |-> w, prev |-> p]
    BY <1>1, <1>2, <1>4, <1>6 DEF AnchorByFirst, Anchor
  <2>2. /\ next \in IntReckoners /\ next.prev = t /\ next.anchored = TRUE
        /\ next.heading = IF p # NoTime THEN Wrap180(w - turn) ELSE w
    <3>1. PICK d \in IntReckoners : d = [anchored |-> TRUE, heading |-> w, prev |-> p]
      BY DEF IntReckoners
    <3>2. next = Step(d, t, z) /\ d.anchored /\ d.heading = w /\ d.prev = p
      BY <2>1, <3>1
    <3> QED BY <1>3, <3>2, SteppedIs
  <2>3. Wrap180(w - turn) \in Int /\ SameDirection(Wrap180(w - turn), w - turn)
    BY WrapKeepsDirection
  <2>4. SameDirection(Wrap180(w - turn), fix.heading - turn)
    BY <1>3, <1>4, <2>3, DirectionsTurn
  <2> HIDE DEF SameDirection
  <2> QED BY <1>1, <1>3, <1>4, <1>6, <2>2, <2>4 DEF TickReckons
<1> QED
  BY <1>1, <1>5, <1>6

\* Once the source has been asked, run()'s heading is what it is to be.
RunTracks ==
  LET now == src.t - conf.imuDt
  IN  /\ now \in Nat /\ run.last.t = now
      /\ run.dr \in IntReckoners /\ run.dr.prev = now
      /\ \E S : run.calls \in Seq(S)
      /\ run.dr.anchored <=> FixCalls(run.calls) # {}
      /\ run.open = IF run.dr.anchored THEN run.dr.heading ELSE NaN
      /\ run.dr.anchored =>
           /\ FirstFix(run.calls) \in Nat
           /\ SameDirection(run.dr.heading, Tracked(conf, FirstFix(run.calls), now))

TruthInv ==
  /\ conf \in SimConfigs
  /\ Trackable(conf) =>
       /\ phase \in {"load", "run", "done", "failed"}
       /\ phase = "run" => cfg.baseline \in Int
       /\ src.walk = ZeroVec /\ src.t \in Nat /\ OnSample(conf.imuDt, src.t)
       /\ IF src.t = 0 THEN run = FreshRun ELSE RunTracks

LEMMA TruthInit == SimInit => TruthInv
<1> SUFFICES ASSUME SimInit, Trackable(conf) PROVE TruthInv
  BY DEF SimInit, TruthInv
<1>1. conf \in SimConfigs /\ phase = "load" /\ src.walk = ZeroVec /\ src.t = 0 /\ run = FreshRun
  BY DEF SimInit
<1>2. OnSample(conf.imuDt, src.t)
  <2>1. conf.imuDt * 0 = 0 /\ 0 \in Int
    BY TrackableTypes
  <2> QED BY <1>1, <2>1 DEF OnSample
<1> QED
  BY <1>1, <1>2 DEF TruthInv

\* What a tick of run() starts from.
LEMMA RunBefore ==
  ASSUME TruthInv, Trackable(conf)
  PROVE  /\ run.dr \in IntReckoners /\ \E S : run.calls \in Seq(S)
         /\ run.dr.anchored <=> FixCalls(run.calls) # {}
         /\ run.dr.prev = IF src.t = 0 THEN NoTime ELSE src.t - conf.imuDt
         /\ run.dr.anchored => src.t # 0
<1>1. CASE src.t = 0
  <2>1. run = FreshRun
    BY <1>1 DEF TruthInv
  <2>2. run.dr = FreshReckoner /\ run.calls = <<>>
    BY <2>1 DEF FreshRun
  <2>3. run.calls \in Seq({}) /\ FixCalls(run.calls) = {}
    BY <2>2 DEF FixCalls
  <2>4. run.dr \in IntReckoners /\ ~run.dr.anchored /\ run.dr.prev = NoTime
    BY <2>2 DEF FreshReckoner, IntReckoners, NoTime
  <2> QED BY <1>1, <2>3, <2>4
<1>2. CASE src.t # 0
  BY <1>2 DEF TruthInv, RunTracks
<1> QED
  BY <1>1, <1>2

LEMMA LoadTracks ==
  ASSUME TruthInv, Trackable(conf), Load
  PROVE  phase' \in {"run", "failed"} /\ (phase' = "run" => cfg'.baseline \in Int)
<1>1. conf \in SimConfigs /\ conf.command \in {"sim", "sweep"}
  BY SimAssumption DEF Trackable
<1>2. CASE conf.command = "sim"
  <2> DEFINE mount == LoadMount(conf.toml)
             ekf == LoadTuning(conf.toml)
  <2>1. LoadSim
    BY <1>2 DEF Load
  <2>2. CASE mount.raised \/ ekf.raised
    BY <2>1, <2>2 DEF LoadSim, Fails
  <2>3. CASE ~(mount.raised \/ ekf.raised)
    <3>1. phase' = "run" /\ cfg'.baseline = Override("baseline_offset", mount.baseline)
      BY <2>1, <2>3 DEF LoadSim
    <3>2. /\ Has(conf.toml, "gnss", {"baseline_offset_deg", "fallback_heading_variance_deg2"})
          /\ mount.baseline = conf.toml["gnss"]["baseline_offset_deg"]
      BY <2>3 DEF LoadMount, Raised
    <3>3. /\ "gnss" \in DOMAIN conf.toml
          /\ "baseline_offset_deg" \in DOMAIN conf.toml["gnss"]
      BY <3>2 DEF Has
    <3>4. conf.toml["gnss"] \in [DOMAIN conf.toml["gnss"] -> Int]
      BY <1>1, <3>3, SimAssumption
    <3>5. mount.baseline \in Int
      <4> PICK f : f = conf.toml["gnss"]
        OBVIOUS
      <4>1. f \in [DOMAIN f -> Int] /\ "baseline_offset_deg" \in DOMAIN f
        BY <3>3, <3>4
      <4>2. f["baseline_offset_deg"] \in Int
        BY <4>1
      <4> QED BY <3>2, <4>2
    <3>6. Override("baseline_offset", mount.baseline) \in Int
      BY <1>1, <3>5, SimAssumption DEF Override
    <3> QED BY <3>1, <3>6
  <2> QED BY <2>2, <2>3
<1>3. CASE conf.command = "sweep"
  <2>1. LoadUnmounted(LoadTuning(conf.toml), "run")
    BY <1>3 DEF Load
  <2>2. phase' = "failed" \/ (phase' = "run" /\ cfg'.baseline = 0)
    BY <2>1 DEF LoadUnmounted, Fails
  <2> QED BY <2>2
<1> QED
  BY <1>1, <1>2, <1>3

LEMMA SimulateTracks ==
  ASSUME TruthInv, Trackable(conf), Simulate
  PROVE  /\ src'.walk = ZeroVec /\ src'.t \in Nat /\ OnSample(conf.imuDt, src'.t)
         /\ src'.t # 0 /\ RunTracks'
<1> DEFINE t == src.t
           dt == conf.imuDt
<1>1. /\ conf' = conf /\ phase = "run" /\ cfg.baseline \in Int /\ src.walk = ZeroVec
      /\ t \in Nat /\ OnSample(dt, t)
  BY DEF Simulate, TruthInv
<1>2. dt \in Nat \ {0} /\ Spin(conf, t) \in Int /\ SampleHeading(conf.scenario.heading, t).deg \in Int
  BY <1>1, TrackableTypes
<1>3. PICK draw : LET walk == Walk(conf.noise, draw, src.walk)
                  IN  /\ src'.t = t + dt /\ src'.walk = walk
                      /\ run' = RunTick(run, TickOf(draw, walk))
  BY DEF Simulate, TakeTick
<1>4. Walk(conf.noise, draw, src.walk) = ZeroVec
  BY <1>1 DEF Walk, Trackable
<1>5. PICK fix : SeenAt(conf, TickOf(draw, ZeroVec), fix, t)
  BY <1>1, TickSeen
<1> DEFINE tick == TickOf(draw, ZeroVec)
           z == Spin(conf, t)
           dr == run.dr
           next == Step(AnchorByFirst(dr, tick.gnss), t, z)
           fed == Feed(run.calls, tick)
<1>6. /\ tick.imu.t = t /\ tick.imu.gyro.z = z /\ Brings(tick, fix)
      /\ fix.valid \in BOOLEAN /\ fix.heading \in Int
      /\ SameDirection(fix.heading, SampleHeading(conf.scenario.heading, t).deg)
      /\ tick.gnss = <<>> \/ tick.gnss = <<fix>>
  BY <1>5 DEF SeenAt, Brings
<1>7. /\ src'.t = t + dt /\ src'.walk = ZeroVec
      /\ run'.calls = fed /\ run'.dr = next /\ run'.last = tick.imu
      /\ run'.open = IF next.anchored THEN next.heading ELSE NaN
  BY <1>3, <1>4, <1>6 DEF RunTick
<1>8. src'.t \in Nat /\ src'.t # 0 /\ OnSample(dt, src'.t) /\ src'.t - dt = t
  <2>1. OnSample(dt, dt)
    <3>1. dt = dt * 1 /\ 1 \in Int
      BY <1>2
    <3> QED BY <3>1 DEF OnSample
  <2>2. OnSample(dt, t + dt)
    <3> PICK a \in Int, b \in Int : a = t /\ b = dt
      BY <1>1, <1>2
    <3> HIDE DEF t, dt
    <3> QED BY <1>1, <2>1, OnSampleSums
  <2> QED BY <1>1, <1>2, <1>7, <2>2
<1>9. PICK S : run.calls \in Seq(S)
  BY RunBefore
<1>10. /\ \E T : fed \in Seq(T)
       /\ FedFixes(fed, run.calls, tick)
  BY <1>6, <1>9, FeedFixes
<1>11. /\ dr \in IntReckoners /\ (dr.anchored <=> FixCalls(run.calls) # {})
       /\ dr.prev = IF t = 0 THEN NoTime ELSE t - dt
       /\ dr.anchored => t # 0
  BY RunBefore
<1> HIDE DEF tick, z, dr, next, fed, t, dt
<1>12. /\ FixCalls(fed) = {} <=> FixCalls(run.calls) = {} /\ Valid(tick.gnss) = {}
       /\ FixCalls(run.calls) # {} => FirstFix(fed) = FirstFix(run.calls)
       /\ FixCalls(run.calls) = {} /\ Valid(tick.gnss) # {} => FirstFix(fed) = tick.imu.t
  BY <1>9, <1>10, FirstStays
<1>13. /\ next \in IntReckoners /\ next.prev = t
       /\ next.anchored <=> dr.anchored \/ Valid(tick.gnss) # {}
       /\ dr.anchored /\ dr.prev # NoTime =>
            SameDirection(next.heading, dr.heading - z * (t - dr.prev))
       /\ ~dr.anchored /\ next.anchored /\ dr.prev = NoTime =>
            SameDirection(next.heading, fix.heading)
       /\ ~dr.anchored /\ next.anchored /\ dr.prev # NoTime =>
            SameDirection(next.heading, fix.heading - z * (t - dr.prev))
  <2>1. t \in Int /\ z \in Int
    BY <1>1, <1>2 DEF z
  <2>2. TickReckons(next, dr, tick.gnss, fix, t, z)
    <3>1. PICK gnss, after : gnss = tick.gnss /\ after = next
      OBVIOUS
    <3>2. after = Step(AnchorByFirst(dr, gnss), t, z) /\ (gnss = <<>> \/ gnss = <<fix>>)
      BY <1>6, <3>1 DEF next
    <3>3. TickGiven(dr, gnss, fix, t, z)
      BY <1>6, <1>11, <2>1, <3>2 DEF TickGiven
    <3>4. TickReckons(after, dr, gnss, fix, t, z)
      BY <3>2, <3>3, ReckonedTick
    <3> QED BY <3>1, <3>4
  <2> QED BY <2>2 DEF TickReckons
<1>14. next.anchored <=> FixCalls(fed) # {}
  BY <1>11, <1>12, <1>13
<1>15. ASSUME next.anchored
       PROVE  FirstFix(fed) \in Nat /\ SameDirection(next.heading, Tracked(conf, FirstFix(fed), t))
  <2>1. CASE dr.anchored
    <3> DEFINE from == FirstFix(run.calls)
               was == t - dt
    <3>1. /\ t # 0 /\ was \in Nat /\ from \in Nat
          /\ SameDirection(dr.heading, Tracked(conf, from, was))
          /\ OnSample(dt, was) /\ dr.prev = was /\ was # NoTime
      <4>1. RunTracks /\ t # 0
        BY <1>11, <2>1 DEF TruthInv, t
      <4>2. was \in Nat /\ from \in Nat /\ SameDirection(dr.heading, Tracked(conf, from, was))
        BY <2>1, <4>1 DEF RunTracks, dr, t, dt
      <4>3. OnSample(dt, dt)
        <5>1. dt = dt * 1 /\ 1 \in Int
          BY <1>2
        <5> QED BY <5>1 DEF OnSample
      <4>4. OnSample(dt, was)
        BY <1>1, <1>2, <4>3, OnSampleSums
      <4> QED BY <1>11, <4>1, <4>2, <4>4 DEF NoTime
    <3>2. t - was = dt /\ was + dt = t
      BY <1>1, <1>2
    <3> HIDE DEF was, from
    <3>3. /\ Tracked(conf, from, was) \in Int
          /\ Tracked(conf, from, t) = Tracked(conf, from, was) - z * dt
      BY <3>1, <3>2, TrackedOn DEF z, dt
    <3>4. SameDirection(next.heading, dr.heading - z * dt)
      BY <1>13, <2>1, <3>1, <3>2
    <3>5. next.heading \in Int /\ dr.heading \in Int
      BY <1>11, <1>13 DEF IntReckoners
    <3>6. PICK turn \in Int : turn = z * dt
      BY <1>2 DEF z
    <3>7. SameDirection(next.heading, Tracked(conf, from, was) - turn)
      BY <3>1, <3>3, <3>4, <3>5, <3>6, DirectionsTurn
    <3>8. FirstFix(fed) = from
      BY <1>11, <1>12, <2>1 DEF from
    <3> QED BY <3>1, <3>3, <3>6, <3>7, <3>8
  <2>2. CASE ~dr.anchored
    <3>1. FirstFix(fed) = t
      BY <1>6, <1>11, <1>12, <1>13, <1>15, <2>2
    <3>2. next.heading \in Int
      BY <1>13 DEF IntReckoners
    <3>3. PICK deg \in Int : deg = SampleHeading(conf.scenario.heading, t).deg
      BY <1>2
    <3>4. CASE t = 0
      <4>1. SameDirection(next.heading, fix.heading)
        BY <1>11, <1>13, <1>15, <2>2, <3>4
      <4>2. Tracked(conf, t, t) = deg
        BY <1>1, <3>3, <3>4, TrackedFrom
      <4>3. SameDirection(next.heading, deg - 0)
        <5>1. next.heading - 0 = next.heading /\ fix.heading - 0 = fix.heading
          BY <1>6, <3>2
        <5>2. SameDirection(next.heading, fix.heading - 0)
          BY <4>1, <5>1
        <5>3. PICK zero \in Int : zero = 0
          OBVIOUS
        <5>4. SameDirection(next.heading, deg - zero)
          BY <1>6, <3>2, <3>3, <5>2, <5>3, DirectionsTurn
        <5> QED BY <5>3, <5>4
      <4>4. deg - 0 = deg
        OBVIOUS
      <4> QED BY <1>1, <3>1, <4>2, <4>3, <4>4
    <3>5. CASE t # 0
      <4>1. dr.prev = t - dt /\ dr.prev # NoTime /\ t - (t - dt) = dt
        <5>1. RunTracks
          BY <3>5 DEF TruthInv, t
        <5>2. t - dt \in Nat
          BY <5>1 DEF RunTracks, t, dt
        <5> QED BY <1>1, <1>2, <1>11, <3>5, <5>2 DEF NoTime
      <4>2. SameDirection(next.heading, fix.heading - z * dt)
        BY <1>13, <1>15, <2>2, <4>1
      <4>3. PICK turn \in Int : turn = z * dt
        BY <1>2 DEF z
      <4>4. SameDirection(next.heading, deg - turn)
        BY <1>6, <3>2, <3>3, <4>2, <4>3, DirectionsTurn
      <4>5. Tracked(conf, t, t) = deg - turn
        <5>1. t > 0
          BY <1>1, <3>5
        <5> QED BY <1>1, <3>3, <4>3, <5>1, TrackedFrom DEF z, dt
      <4> QED BY <1>1, <3>1, <4>4, <4>5
    <3> QED BY <3>4, <3>5
  <2> QED BY <2>1, <2>2
<1>16. RunTracks'
  <2>1. conf'.imuDt = dt /\ src'.t - conf'.imuDt = t
    BY <1>1, <1>8 DEF dt
  <2>2. run'.last.t = t
    BY <1>6, <1>7
  <2> QED
    BY <1>1, <1>7, <1>10, <1>13, <1>14, <1>15, <2>1, <2>2 DEF RunTracks
<1> QED
  BY <1>7, <1>8, <1>16 DEF t, dt

LEMMA TruthStep == TruthInv /\ [SimNext]_simVars => TruthInv'
<1> SUFFICES ASSUME TruthInv, [SimNext]_simVars PROVE TruthInv'
  OBVIOUS
<1>1. conf' = conf /\ conf' \in SimConfigs
  BY CommandStays DEF TruthInv
<1>2. CASE ~Trackable(conf)
  BY <1>1, <1>2 DEF TruthInv
<1>3. CASE Trackable(conf)
  <2>1. /\ phase \in {"load", "run", "done", "failed"}
        /\ phase = "run" => cfg.baseline \in Int
        /\ src.walk = ZeroVec /\ src.t \in Nat /\ OnSample(conf.imuDt, src.t)
        /\ IF src.t = 0 THEN run = FreshRun ELSE RunTracks
    BY <1>3 DEF TruthInv
  <2>2. CASE Load
    <3>1. phase' \in {"run", "failed"} /\ (phase' = "run" => cfg'.baseline \in Int)
      BY <1>3, <2>2, LoadTracks
    <3>2. UNCHANGED <<conf, src, run>>
      BY <2>2 DEF Load
    <3>3. RunTracks' <=> RunTracks
      BY <3>2 DEF RunTracks
    <3> QED BY <1>1, <2>1, <3>1, <3>2, <3>3 DEF TruthInv
  <2>3. CASE Simulate
    <3>1. phase' = "run" /\ cfg' = cfg /\ phase = "run"
      BY <2>3 DEF Simulate
    <3>2. /\ src'.walk = ZeroVec /\ src'.t \in Nat /\ OnSample(conf.imuDt, src'.t)
          /\ src'.t # 0 /\ RunTracks'
      BY <1>3, <2>3, SimulateTracks
    <3> QED BY <1>1, <2>1, <3>1, <3>2 DEF TruthInv
  <2>4. CASE EndRun \/ UNCHANGED simVars
    <3>1. UNCHANGED <<conf, src, run, cfg>> /\ phase' \in {phase, "done"}
      BY <2>4 DEF EndRun, simVars
    <3>2. RunTracks' <=> RunTracks
      BY <3>1 DEF RunTracks
    <3>3. phase' = "run" => phase = "run"
      BY <3>1
    <3> QED BY <1>1, <2>1, <3>1, <3>2, <3>3 DEF TruthInv
  <2>5. ~Export /\ ~PlayLine /\ ~EndPlay /\ ~ReadLine /\ ~EndReplay
    BY <2>1 DEF Export, PlayLine, EndPlay, ReadLine, EndReplay
  <2> QED
    BY <2>2, <2>3, <2>4, <2>5 DEF SimNext
<1> QED
  BY <1>2, <1>3

\* What the property says of a run, under its hypotheses.
LEMMA TruthFromInv == TruthInv => OpenLoopTracksTruth
<1> DEFINE fixes == FixCalls(run.calls)
           from == FirstFix(run.calls)
           now == run.last.t
<1> SUFFICES ASSUME TruthInv, LegsEndAtSamples, conf.command # "synthetic",
                    conf.noise.effect \in {"none", "dropout", "mag"}
             PROVE  IF fixes = {} THEN run.open = NaN
                    ELSE (run.open - Tracked(conf, from, now)) % Turn = 0
  BY DEF OpenLoopTracksTruth, Truth, Tracked, Up, FixCalls, FirstFix
<1> Trackable(conf)
  <2>1. conf \in SimConfigs /\ conf.scenario.heading.legs \in LegSeqs
    BY ProfileOf DEF Profiles, TruthInv
  <2>2. conf.imuDt \in Nat \ {0}
    BY <2>1, SimAssumption
  <2> QED BY <2>1, <2>2 DEF Trackable, LegsOnSamples, LegsEndAtSamples
<1>1. CASE src.t = 0
  <2>1. run = FreshRun
    BY <1>1 DEF TruthInv
  <2>2. run.open = NaN /\ run.calls = <<>>
    BY <2>1 DEF FreshRun
  <2>3. fixes = {}
    BY <2>2 DEF FixCalls
  <2> QED BY <2>2, <2>3
<1>2. CASE src.t # 0
  <2>1. RunTracks
    BY <1>2 DEF TruthInv
  <2>2. CASE fixes = {}
    BY <2>1, <2>2 DEF RunTracks
  <2>3. CASE fixes # {}
    <3>1. /\ run.open = run.dr.heading /\ run.dr.heading \in Int
          /\ from \in Nat /\ now \in Nat
          /\ SameDirection(run.dr.heading, Tracked(conf, from, now))
      BY <2>1, <2>3 DEF RunTracks, IntReckoners
    <3>2. Tracked(conf, from, now) \in Int
      <4>1. conf.imuDt \in Nat /\ src.t \in Nat /\ OnSample(conf.imuDt, src.t) /\ now = src.t - conf.imuDt
        BY <2>1, TrackableTypes DEF TruthInv, RunTracks
      <4>2. OnSample(conf.imuDt, conf.imuDt)
        <5>1. conf.imuDt = conf.imuDt * 1 /\ 1 \in Int
          BY <4>1
        <5> QED BY <5>1 DEF OnSample
      <4>3. OnSample(conf.imuDt, now)
        <5>1. PICK a \in Int, b \in Int : a = src.t /\ b = conf.imuDt
          BY <4>1
        <5>2. OnSample(b, a - b)
          BY <4>1, <4>2, <5>1, OnSampleSums
        <5> QED BY <4>1, <5>1, <5>2
      <4> HIDE DEF from, now
      <4> QED BY <3>1, <4>3, TrackedOn
    <3> HIDE DEF from, now
    <3> QED BY <2>3, <3>1, <3>2, DirectionsMeet
  <2> QED BY <2>2, <2>3
<1> QED
  BY <1>1, <1>2

\* For every profile, mount, attitude, bias, outage and rate: the open-loop heading
\* run() plots (runner.py) is the truth at the first valid fix, turned by what the
\* gyro's z axis saw of the boat's turn, and away from it only by the bias.
THEOREM OpenLoopIsTruth == SimSpec => []OpenLoopTracksTruth
<1> QED
  BY TruthInit, TruthStep, TruthFromInv, PTL DEF SimSpec

-----------------------------------------------------------------------------
(* What is printed is read back. *)

\* The values a field of a type may hold.
Numbers == {Number(n) : n \in Int}
Millionths == {m \in Nat : m < Million}
Reals == {Real(v, micro) : v \in Int, micro \in Millionths}
FieldValues(type) ==
  IF type = "int" THEN Numbers
  ELSE IF type = "bool" THEN {Number(0), Number(1)}
  ELSE Reals \cup {NanValue, PosInf, NegInf}

\* What is read of a value that was printed.
WireValue(field, value) == ParseToken(field.type, FormatValue(field, value))

\* What the wire keeps of a value: an integer and a flag as they are, a number to
\* half of its last printed decimal, no sign of an infinity.
InMillionths(value) == value.v * Million + value.micro
AsPrinted(field, value, back) ==
  \/ field.type \in {"int", "bool"} /\ back = value
  \/ field.type \notin {"int", "bool"} /\ value = NanValue /\ back = NanValue
  \/ field.type \notin {"int", "bool"} /\ value \in {PosInf, NegInf} /\ back = PosInf
  \/ /\ field.type \notin {"int", "bool"} /\ value \in Reals
     /\ back \in Reals /\ back.micro % Grain(field) = 0
     /\ 2 * (InMillionths(back) - InMillionths(value)) \in -Grain(field) .. Grain(field)

\* A value of the wire's own: one that its field can print in full.
OnWire(field, value) ==
  /\ value \in FieldValues(field.type) /\ value # NegInf
  /\ value \in Reals /\ field.type \notin {"int", "bool"} => value.micro % Grain(field) = 0

\* Rounding goes to the nearest multiple.
Grains == {10, 100, 1000}
Rounded(m, g) == g * RoundHalfEven(m, g)
LEMMA RoundsNear ==
  ASSUME NEW m \in Millionths, NEW g \in Grains
  PROVE  /\ Rounded(m, g) \in Nat /\ Rounded(m, g) <= Million
         /\ Rounded(m, g) % g = 0
         /\ 2 * (Rounded(m, g) - m) \in -g .. g
         /\ m % g = 0 => Rounded(m, g) = m
<1>1. m \in Nat /\ m < 1000000
  BY SMTT(30) DEF Millionths, Million
<1>2. CASE g = 10
  <2>1. PICK q \in Nat, w \in 0 .. 9 : q = m \div 10 /\ w = m % 10 /\ m = 10 * q + w
    BY <1>1, SMTT(30)
  <2>2. PICK r \in Nat : r = RoundHalfEven(m, 10)
    BY <2>1, SMTT(30) DEF RoundHalfEven
  <2>3. r = (IF 2 * w > 10 \/ (2 * w = 10 /\ q % 2 = 1) THEN q + 1 ELSE q)
    BY <2>1, <2>2, SMTT(30) DEF RoundHalfEven
  <2> QED BY <1>1, <1>2, <2>1, <2>2, <2>3, SMTT(30) DEF Million, Rounded
<1>3. CASE g = 100
  <2>1. PICK q \in Nat, w \in 0 .. 99 : q = m \div 100 /\ w = m % 100 /\ m = 100 * q + w
    BY <1>1, SMTT(30)
  <2>2. PICK r \in Nat : r = RoundHalfEven(m, 100)
    BY <2>1, SMTT(30) DEF RoundHalfEven
  <2>3. r = (IF 2 * w > 100 \/ (2 * w = 100 /\ q % 2 = 1) THEN q + 1 ELSE q)
    BY <2>1, <2>2, SMTT(30) DEF RoundHalfEven
  <2> QED BY <1>1, <1>3, <2>1, <2>2, <2>3, SMTT(30) DEF Million, Rounded
<1>4. CASE g = 1000
  <2>1. PICK q \in Nat, w \in 0 .. 999 : q = m \div 1000 /\ w = m % 1000 /\ m = 1000 * q + w
    BY <1>1, SMTT(30)
  <2>2. PICK r \in Nat : r = RoundHalfEven(m, 1000)
    BY <2>1, SMTT(30) DEF RoundHalfEven
  <2>3. r = (IF 2 * w > 1000 \/ (2 * w = 1000 /\ q % 2 = 1) THEN q + 1 ELSE q)
    BY <2>1, <2>2, SMTT(30) DEF RoundHalfEven
  <2> QED BY <1>1, <1>4, <2>1, <2>2, <2>3, SMTT(30) DEF Million, Rounded
<1> QED
  BY <1>2, <1>3, <1>4 DEF Grains

\* A number that is printed, and read.
LEMMA NumberPrinted ==
  ASSUME NEW field, NEW v \in Int, NEW m \in Millionths
  PROVE  LET token == Printed(field, Real(v, m))
         IN  /\ token \in TokenValues /\ token.lit = "real"
             /\ token.micro \in Millionths /\ token.micro % Grain(field) = 0
             /\ 2 * (InMillionths(token) - InMillionths(Real(v, m))) \in -Grain(field) .. Grain(field)
             /\ m % Grain(field) = 0 => token = Decimal(v, m)
<1> DEFINE g == Grain(field)
           micro == Rounded(m, g)
           token == Printed(field, Real(v, m))
<1>1. g \in Grains
  BY DEF Grain, Grains
<1>2. token = IF micro < Million THEN Decimal(v, micro) ELSE Decimal(v + 1, 0)
  BY DEF Printed, Real, Rounded
<1> HIDE DEF g, token
<1>3. /\ micro \in Nat /\ micro <= Million
      /\ micro % g = 0
      /\ 2 * (micro - m) \in -g .. g
      /\ m % g = 0 => micro = m
  BY <1>1, RoundsNear, Zenon
<1> HIDE DEF micro
<1>4. m \in Nat /\ m < Million /\ Million \in Nat /\ 0 < Million /\ 0 % g = 0
  BY <1>1, SMTT(30) DEF Millionths, Million, Grains
<1>5. InMillionths(Real(v, m)) = v * Million + m
  BY DEF InMillionths, Real
<1>6. CASE micro < Million
  <2>1. token = [lit |-> "real", v |-> v, micro |-> micro]
    BY <1>2, <1>6 DEF Decimal
  <2>2. InMillionths(token) - InMillionths(Real(v, m)) = micro - m
    <3>1. InMillionths(token) = v * Million + micro
      BY <2>1 DEF InMillionths
    <3>2. PICK a \in Int : a = v * Million
      BY <1>4
    <3> QED BY <1>3, <1>4, <1>5, <3>1, <3>2
  <2> QED
    BY <1>3, <1>4, <1>6, <2>1, <2>2 DEF TokenValues, Millionths, Decimal, g, token
<1>7. CASE ~(micro < Million)
  <2>1. token = [lit |-> "real", v |-> v + 1, micro |-> 0] /\ micro = Million
    BY <1>2, <1>3, <1>4, <1>7 DEF Decimal
  <2>2. InMillionths(token) - InMillionths(Real(v, m)) = micro - m
    <3>1. InMillionths(token) = (v + 1) * Million + 0
      BY <2>1 DEF InMillionths
    <3>2. (v + 1) * Million = v * Million + Million
      BY SMTT(30) DEF Million
    <3>3. PICK a \in Int : a = v * Million
      BY <1>4
    <3> QED BY <1>3, <1>4, <1>5, <2>1, <3>1, <3>2, <3>3
  <2>3. m % g # 0
    BY <1>3, <1>4, <2>1
  <2>4. token.micro = 0 /\ token.lit = "real" /\ token.v = v + 1
    BY <2>1
  <2>5. token \in TokenValues
    BY <2>1 DEF TokenValues
  <2>6. token.micro \in Millionths
    BY <1>4, <2>4 DEF Millionths
  <2>7. /\ token.micro % g = 0
        /\ 2 * (InMillionths(token) - InMillionths(Real(v, m))) \in -g .. g
    BY <1>3, <1>4, <2>2, <2>4
  <2> QED
    BY <2>3, <2>4, <2>5, <2>6, <2>7 DEF g, token
<1> QED
  BY <1>6, <1>7

\* One value, printed and read.
LEMMA ValueReadBack ==
  ASSUME NEW field, field.type \in {"int", "float", "bool", "vec3", "quat"},
         NEW value \in FieldValues(field.type)
  PROVE  /\ FormatValue(field, value) \in TokenValues
         /\ TokenParses(field.type, FormatValue(field, value))
         /\ AsPrinted(field, value, WireValue(field, value))
         /\ OnWire(field, WireValue(field, value))
         /\ OnWire(field, value) => WireValue(field, value) = value
<1> DEFINE type == field.type
           token == FormatValue(field, value)
<1>1. CASE type \in {"int", "bool"}
  <2>1. PICK n \in Int : value = [k |-> "num", v |-> n, micro |-> 0]
    BY <1>1 DEF FieldValues, Numbers, Number, Real
  <2>2. type = "bool" => n \in {0, 1}
    BY <2>1 DEF FieldValues, Number, Real
  <2>3. token = [lit |-> "int", v |-> n, micro |-> 0]
    BY <1>1, <2>1 DEF FormatValue, IntToken
  <2>4. token \in TokenValues /\ TokenParses(type, token)
    BY <1>1, <2>3 DEF TokenValues, TokenParses
  <2>5. WireValue(field, value) = value
    BY <1>1, <2>1, <2>2, <2>3 DEF WireValue, ParseToken, IntToken, Number, Real
  <2>6. OnWire(field, value)
    BY <1>1, <2>1 DEF OnWire, NegInf
  <2> QED BY <1>1, <2>4, <2>5, <2>6 DEF AsPrinted
<1>2. CASE type \notin {"int", "bool"} /\ value \in {NanValue, PosInf, NegInf}
  <2>1. token = IF value = NanValue THEN NanToken ELSE OvfToken
    BY <1>2 DEF FormatValue, NanValue, PosInf, NegInf
  <2>2. token \in TokenValues /\ TokenParses(type, token)
    BY <1>2, <2>1 DEF TokenValues, TokenParses, NanToken, OvfToken
  <2>3. WireValue(field, value) = IF value = NanValue THEN NanValue ELSE PosInf
    BY <1>2, <2>1 DEF WireValue, ParseToken, NanToken, OvfToken
  <2>4. /\ NanValue # PosInf /\ NanValue # NegInf /\ PosInf # NegInf
        /\ NanValue \notin Reals /\ PosInf \notin Reals
    <3>1. NanValue.k = "nan" /\ PosInf.k = "inf" /\ NegInf.k = "-inf"
      BY DEF NanValue, PosInf, NegInf
    <3>2. \A x \in Reals : x.k = "num"
      BY DEF Reals, Real
    <3> QED BY <3>1, <3>2
  <2>5. NanValue \in FieldValues(type) /\ PosInf \in FieldValues(type)
    BY <1>2 DEF FieldValues
  <2>6. AsPrinted(field, value, WireValue(field, value))
    BY <1>2, <2>3, <2>4 DEF AsPrinted
  <2>7. OnWire(field, WireValue(field, value))
    BY <2>3, <2>4, <2>5 DEF OnWire
  <2>8. OnWire(field, value) => WireValue(field, value) = value
    BY <1>2, <2>3 DEF OnWire
  <2> QED BY <2>2, <2>6, <2>7, <2>8
<1>3. CASE type \notin {"int", "bool"} /\ value \in Reals
  <2>1. PICK v \in Int, m \in Millionths : value = Real(v, m)
    BY <1>3 DEF Reals
  <2>2. /\ value.k = "num" /\ value.v = v /\ value.micro = m
        /\ value \notin {NanValue, PosInf, NegInf}
    BY <2>1 DEF Real, NanValue, PosInf, NegInf
  <2>3. token = Printed(field, Real(v, m))
    BY <1>3, <2>1, <2>2 DEF FormatValue
  <2> HIDE DEF token
  <2>4. /\ token \in TokenValues /\ token.lit = "real"
        /\ token.micro \in Millionths /\ token.micro % Grain(field) = 0
        /\ 2 * (InMillionths(token) - InMillionths(value)) \in -Grain(field) .. Grain(field)
        /\ m % Grain(field) = 0 => token = Decimal(v, m)
    BY <2>1, <2>3, NumberPrinted
  <2>5. WireValue(field, value) = Real(token.v, token.micro)
    BY <1>3, <2>4 DEF WireValue, ParseToken, token
  <2>6. WireValue(field, value) \in Reals /\ token.v \in Int
    BY <2>4, <2>5 DEF Reals, TokenValues
  <2>7. /\ WireValue(field, value).micro = token.micro
        /\ InMillionths(WireValue(field, value)) = InMillionths(token)
        /\ WireValue(field, value) # NegInf
    BY <2>5 DEF InMillionths, Real, NegInf
  <2>8. TokenParses(type, token)
    BY <1>3, <2>4 DEF TokenParses
  <2>9. AsPrinted(field, value, WireValue(field, value))
    BY <1>3, <2>2, <2>4, <2>6, <2>7 DEF AsPrinted
  <2>10. OnWire(field, WireValue(field, value))
    <3>1. WireValue(field, value) \in FieldValues(type)
      BY <1>3, <2>6 DEF FieldValues
    <3> QED BY <2>4, <2>7, <3>1 DEF OnWire
  <2>11. OnWire(field, value) => WireValue(field, value) = value
    <3>1. SUFFICES ASSUME OnWire(field, value) PROVE WireValue(field, value) = value
      OBVIOUS
    <3>2. token = Decimal(v, m)
      BY <1>3, <2>2, <2>4, <3>1 DEF OnWire
    <3> QED BY <2>1, <2>5, <3>2 DEF Decimal
  <2> QED BY <2>4, <2>8, <2>9, <2>10, <2>11 DEF token
<1> QED
  BY <1>1, <1>2, <1>3 DEF FieldValues

\* FlattenSeq joins the sequences one after the other.
Flattens(f, seqs, n) == \A i \in 1 .. n : f[i] = IF i = 1 THEN seqs[i] ELSE f[i - 1] \o seqs[i]

\* The recursive function of FlattenSeq exists.
LEMMA FlattenUnfolds ==
  ASSUME NEW S, NEW seqs \in Seq(Seq(S)), Len(seqs) # 0
  PROVE  \E f \in [1 .. Len(seqs) -> Seq(S)] :
           Flattens(f, seqs, Len(seqs)) /\ FlattenSeq(seqs) = f[Len(seqs)]
<1> DEFINE n == Len(seqs)
           T == {k \in 0 .. n : \E f \in [1 .. k -> Seq(S)] : Flattens(f, seqs, k)}
           c == CHOOSE f : f = [i \in 1 .. n |-> IF i = 1 THEN seqs[i] ELSE f[i - 1] \o seqs[i]]
<1>1. n \in Nat /\ \A i \in 1 .. n : seqs[i] \in Seq(S)
  OBVIOUS
<1>2. FlattenSeq(seqs) = c[n]
  BY DEF FlattenSeq
<1> HIDE DEF n
<1>3. 0 \in T
  <2> DEFINE f0 == [i \in 1 .. 0 |-> <<>>]
  <2>1. f0 \in [1 .. 0 -> Seq(S)] /\ Flattens(f0, seqs, 0)
    BY DEF Flattens
  <2> HIDE DEF f0
  <2>2. 0 \in 0 .. n
    BY <1>1
  <2> QED BY <2>1, <2>2
<1>4. ASSUME NEW k \in 0 .. n - 1, k \in T PROVE k + 1 \in T
  <2>1. PICK f \in [1 .. k -> Seq(S)] : Flattens(f, seqs, k)
    BY <1>4
  <2> DEFINE next == IF k = 0 THEN seqs[1] ELSE f[k] \o seqs[k + 1]
             g == [i \in 1 .. k + 1 |-> IF i = k + 1 THEN next ELSE f[i]]
  <2>2. next \in Seq(S)
    <3>1. seqs[k + 1] \in Seq(S)
      BY <1>1
    <3>2. CASE k = 0
      BY <3>1, <3>2
    <3>3. CASE k # 0
      <4>1. f[k] \in Seq(S)
        BY <3>3
      <4> QED BY <3>1, <3>3, <4>1
    <3> QED BY <3>2, <3>3
  <2>3. g \in [1 .. k + 1 -> Seq(S)]
    <3> HIDE DEF next
    <3> QED BY <2>2
  <2>4. Flattens(g, seqs, k + 1)
    <3>1. ASSUME NEW i \in 1 .. k PROVE g[i] = IF i = 1 THEN seqs[i] ELSE g[i - 1] \o seqs[i]
      <4>1. /\ i \in 1 .. k + 1 /\ i # k + 1
            /\ i # 1 => i - 1 \in 1 .. k + 1 /\ i - 1 # k + 1
        OBVIOUS
      <4>2. g[i] = f[i] /\ (i # 1 => g[i - 1] = f[i - 1])
        <5> HIDE DEF next
        <5> QED BY <4>1
      <4> HIDE DEF g
      <4> QED BY <2>1, <4>2 DEF Flattens
    <3>2. g[k + 1] = IF k + 1 = 1 THEN seqs[k + 1] ELSE g[k] \o seqs[k + 1]
      <4>1. g[k + 1] = next /\ (k # 0 => g[k] = f[k])
        OBVIOUS
      <4> HIDE DEF g
      <4> QED BY <4>1
    <3> HIDE DEF g
    <3> QED BY <3>1, <3>2 DEF Flattens
  <2> HIDE DEF g
  <2>5. k + 1 \in 0 .. n
    BY <1>1
  <2> QED BY <2>3, <2>4, <2>5
<1>5. n \in T
  <2> HIDE DEF T
  <2>1. 0 .. n \subseteq T
    BY <1>1, <1>3, <1>4, CountUp
  <2> QED BY <1>1, <2>1
<1>6. PICK f \in [1 .. n -> Seq(S)] : Flattens(f, seqs, n)
  BY <1>5
<1>7. f = [i \in 1 .. n |-> IF i = 1 THEN seqs[i] ELSE f[i - 1] \o seqs[i]]
  BY <1>6 DEF Flattens
<1>8. c = [i \in 1 .. n |-> IF i = 1 THEN seqs[i] ELSE c[i - 1] \o seqs[i]]
  BY <1>7
<1> HIDE DEF c
<1>9. ASSUME NEW k \in 1 .. n PROVE c[k] = f[k]
  <2> DEFINE P == {j \in 0 .. n : j = 0 \/ c[j] = f[j]}
  <2>1. 0 \in P
    BY <1>1
  <2>2. ASSUME NEW j \in 0 .. n - 1, j \in P PROVE j + 1 \in P
    <3>1. PICK i \in 1 .. n : i = j + 1 /\ i - 1 = j
      BY <1>1
    <3>2. c[i] = IF i = 1 THEN seqs[i] ELSE c[i - 1] \o seqs[i]
      BY <1>8, <3>1
    <3>3. f[i] = IF i = 1 THEN seqs[i] ELSE f[i - 1] \o seqs[i]
      BY <1>6, <3>1 DEF Flattens
    <3>4. c[i] = f[i]
      BY <2>2, <3>1, <3>2, <3>3
    <3> QED BY <3>1, <3>4
  <2> HIDE DEF P
  <2>3. 0 .. n \subseteq P
    BY <1>1, <2>1, <2>2, CountUp
  <2> QED BY <1>1, <2>3 DEF P
<1>10. n \in 1 .. n
  BY <1>1 DEF n
<1>11. FlattenSeq(seqs) = f[n]
  BY <1>2, <1>9, <1>10
<1> QED
  BY <1>6, <1>11 DEF n

\* The tokens of the first k fields.
WidthTo(fields, k) == TotalWidth(SubSeq(fields, 1, k))

\* A field adds its own tokens.
LEMMA WidthGrows ==
  ASSUME NEW fields \in Seq(SchemaFields), NEW k \in 0 .. Len(fields) - 1
  PROVE  /\ WidthTo(fields, k) \in Nat /\ WidthTo(fields, 0) = 0
         /\ Width(fields[k + 1]) \in 1 .. 4
         /\ WidthTo(fields, k + 1) = WidthTo(fields, k) + Width(fields[k + 1])
<1> DEFINE s == SubSeq(fields, 1, k)
           t == SubSeq(fields, 1, k + 1)
           f == fields[k + 1]
<1> HIDE DEF SchemaFields
<1>1. /\ Len(s) = k /\ DOMAIN s = 1 .. k /\ \A i \in 1 .. k : s[i] = fields[i]
      /\ Len(t) = k + 1 /\ DOMAIN t = 1 .. k + 1 /\ \A i \in 1 .. k + 1 : t[i] = fields[i]
      /\ f \in SchemaFields /\ k \in Nat
  OBVIOUS
<1> HIDE DEF s, t
<1>2. f.type \in {"int", "float", "bool", "vec3", "quat"}
  BY <1>1 DEF SchemaFields
<1>3. ASSUME NEW type
      PROVE  /\ Cardinality(OfType(s, type)) \in Nat
             /\ Cardinality(OfType(t, type)) =
                  Cardinality(OfType(s, type)) + IF f.type = type THEN 1 ELSE 0
  <2>1. OfType(s, type) \subseteq 1 .. k /\ IsFiniteSet(1 .. k)
    <3>1. DOMAIN s = 1 .. k /\ k \in Nat
      BY <1>1
    <3>2. OfType(s, type) \subseteq 1 .. k
      BY Zenon, <3>1 DEF OfType
    <3> QED BY <3>1, <3>2, UpTo
  <2>2. IsFiniteSet(OfType(s, type)) /\ k + 1 \notin OfType(s, type)
    <3>1. IsFiniteSet(OfType(s, type))
      BY <2>1, FS_Subset
    <3> QED BY <1>1, <2>1, <3>1
  <2>3. OfType(t, type) = OfType(s, type) \cup IF f.type = type THEN {k + 1} ELSE {}
    BY <1>1 DEF OfType
  <2>4. Cardinality(OfType(s, type)) \in Nat
    BY <2>2, FS_CardinalityType
  <2>5. CASE f.type = type
    <3>1. OfType(t, type) = OfType(s, type) \cup {k + 1}
      BY <2>3, <2>5
    <3>2. Cardinality(OfType(t, type)) = Cardinality(OfType(s, type)) + 1
      BY <2>2, <3>1, FS_AddElement
    <3> QED BY <2>4, <2>5, <3>2
  <2>6. CASE f.type # type
    <3>1. OfType(t, type) = OfType(s, type)
      BY <2>3, <2>6
    <3> QED BY <2>4, <2>6, <3>1
  <2> QED BY <2>5, <2>6
<1>4. WidthTo(fields, 0) = 0
  <2>1. SubSeq(fields, 1, 0) = <<>>
    OBVIOUS
  <2>2. \A type : OfType(<<>>, type) = {}
    BY DEF OfType
  <2>3. Cardinality(OfType(<<>>, "vec3")) = 0 /\ Cardinality(OfType(<<>>, "quat")) = 0
    BY <2>2, FS_EmptySet
  <2>4. TotalWidth(<<>>) = 0
    BY <2>3 DEF TotalWidth
  <2> QED BY <2>1, <2>4 DEF WidthTo
<1>5. /\ Cardinality(OfType(s, "vec3")) \in Nat /\ Cardinality(OfType(s, "quat")) \in Nat
      /\ Cardinality(OfType(t, "vec3")) =
           Cardinality(OfType(s, "vec3")) + IF f.type = "vec3" THEN 1 ELSE 0
      /\ Cardinality(OfType(t, "quat")) =
           Cardinality(OfType(s, "quat")) + IF f.type = "quat" THEN 1 ELSE 0
  BY <1>3
<1>6. Width(f) = IF f.type = "vec3" THEN 3 ELSE IF f.type = "quat" THEN 4 ELSE 1
  BY <1>2 DEF Width
<1>7. WidthTo(fields, k) = TotalWidth(s) /\ WidthTo(fields, k + 1) = TotalWidth(t)
  BY DEF WidthTo, s, t
<1>8. PICK a \in Nat, b \in Nat : a = Cardinality(OfType(s, "vec3")) /\ b = Cardinality(OfType(s, "quat"))
  BY <1>5
<1>9. WidthTo(fields, k) = k + 2 * a + 3 * b
  BY <1>1, <1>7, <1>8 DEF TotalWidth
<1>10. WidthTo(fields, k + 1) = k + 1 + 2 * (a + IF f.type = "vec3" THEN 1 ELSE 0)
                                      + 3 * (b + IF f.type = "quat" THEN 1 ELSE 0)
  BY <1>1, <1>5, <1>7, <1>8 DEF TotalWidth
<1> HIDE DEF f
<1>11. /\ WidthTo(fields, k) \in Nat /\ Width(f) \in 1 .. 4
       /\ WidthTo(fields, k + 1) = WidthTo(fields, k) + Width(f)
  <2> k \in Nat /\ a \in Nat /\ b \in Nat
    BY <1>1
  <2>1. CASE f.type = "vec3"
    <3>1. Width(f) = 3 /\ WidthTo(fields, k + 1) = k + 1 + 2 * (a + 1) + 3 * (b + 0)
      BY <1>6, <1>10, <2>1
    <3> QED BY <1>9, <3>1
  <2>2. CASE f.type = "quat"
    <3>1. Width(f) = 4 /\ WidthTo(fields, k + 1) = k + 1 + 2 * (a + 0) + 3 * (b + 1)
      BY <1>6, <1>10, <2>2
    <3> QED BY <1>9, <3>1
  <2>3. CASE f.type \notin {"vec3", "quat"}
    <3>1. Width(f) = 1 /\ WidthTo(fields, k + 1) = k + 1 + 2 * (a + 0) + 3 * (b + 0)
      BY <1>6, <1>10, <2>3
    <3> QED BY <1>9, <3>1
  <2> QED BY <2>1, <2>2, <2>3
<1> QED
  BY <1>4, <1>11 DEF f

\* The tokens of each field are where parse_line looks for them.
Laid(tokens, fields, u, k) ==
  /\ Len(tokens) = WidthTo(fields, k)
  /\ \A i \in 1 .. k : \A c \in 1 .. Width(fields[i]) :
       /\ WidthTo(fields, i - 1) + c \in 1 .. Len(tokens)
       /\ tokens[WidthTo(fields, i - 1) + c] = u[i][c]

\* The tokens of one more field, after those of the first k.
LEMMA LaidOn ==
  ASSUME NEW S, NEW fields \in Seq(SchemaFields), NEW k \in 0 .. Len(fields) - 1,
         NEW u, u[k + 1] \in Seq(S), Len(u[k + 1]) = Width(fields[k + 1]),
         NEW tokens \in Seq(S), Laid(tokens, fields, u, k)
  PROVE  Laid(tokens \o u[k + 1], fields, u, k + 1)
<1> DEFINE longer == tokens \o u[k + 1]
           w == Width(fields[k + 1])
           m == WidthTo(fields, k)
<1>1. m \in Nat /\ w \in 1 .. 4 /\ WidthTo(fields, k + 1) = m + w
  BY WidthGrows
<1>2. Len(tokens) = m
  BY DEF Laid
<1>3. /\ Len(longer) = m + w
      /\ \A i \in 1 .. m : longer[i] = tokens[i]
      /\ \A c \in 1 .. w : longer[m + c] = u[k + 1][c]
  <2>1. PICK v \in Seq(S) : v = u[k + 1] /\ Len(v) = w
    OBVIOUS
  <2> HIDE DEF m, w
  <2>2. /\ Len(tokens \o v) = m + w
        /\ \A i \in 1 .. m : (tokens \o v)[i] = tokens[i]
        /\ \A c \in 1 .. w : (tokens \o v)[m + c] = v[c]
    BY <1>1, <1>2, <2>1
  <2> QED BY <2>1, <2>2
<1> HIDE DEF longer
<1>4. ASSUME NEW i \in 1 .. k, NEW c \in 1 .. Width(fields[i])
      PROVE  /\ WidthTo(fields, i - 1) + c \in 1 .. Len(longer)
             /\ longer[WidthTo(fields, i - 1) + c] = u[i][c]
  <2> DEFINE x == WidthTo(fields, i - 1) + c
  <2>1. x \in 1 .. m /\ tokens[x] = u[i][c]
    BY <1>2 DEF Laid
  <2> HIDE DEF x
  <2>2. x \in 1 .. Len(longer) /\ longer[x] = u[i][c]
    BY <1>1, <1>3, <2>1
  <2> QED BY <2>2 DEF x
<1>5. ASSUME NEW c \in 1 .. w
      PROVE  m + c \in 1 .. Len(longer) /\ longer[m + c] = u[k + 1][c]
  BY <1>1, <1>3
<1>6. ASSUME NEW i \in 1 .. k + 1, NEW c \in 1 .. Width(fields[i])
      PROVE  /\ WidthTo(fields, i - 1) + c \in 1 .. Len(longer)
             /\ longer[WidthTo(fields, i - 1) + c] = u[i][c]
  <2>1. CASE i \in 1 .. k
    BY <1>4, <2>1
  <2>2. CASE i = k + 1
    <3>1. i - 1 = k
      BY <2>2
    <3> QED BY <1>5, <1>6, <2>2, <3>1
  <2>3. i \in 1 .. k \/ i = k + 1
    OBVIOUS
  <2> QED BY <2>1, <2>2, <2>3
<1> QED
  BY <1>1, <1>3, <1>6 DEF Laid, longer

\* All the fields, joined.
LEMMA Flattened ==
  ASSUME NEW S, NEW fields \in Seq(SchemaFields), Len(fields) # 0, NEW u \in Seq(Seq(S)),
         Len(u) = Len(fields), \A i \in 1 .. Len(fields) : Len(u[i]) = Width(fields[i])
  PROVE  FlattenSeq(u) \in Seq(S) /\ Laid(FlattenSeq(u), fields, u, Len(fields))
<1> DEFINE n == Len(fields)
<1>1. n \in Nat /\ n # 0 /\ \A i \in 1 .. n : u[i] \in Seq(S)
  OBVIOUS
<1>2. PICK f \in [1 .. n -> Seq(S)] : Flattens(f, u, n) /\ FlattenSeq(u) = f[n]
  BY FlattenUnfolds
<1> DEFINE P == {k \in 0 .. n : k # 0 => Laid(f[k], fields, u, k)}
<1> HIDE DEF n
<1>3. 0 \in P
  BY <1>1
<1>4. ASSUME NEW k \in 0 .. n - 1, k \in P PROVE k + 1 \in P
  <2>1. PICK j \in 1 .. n : j = k + 1 /\ j - 1 = k
    BY <1>1
  <2>2. f[j] = IF j = 1 THEN u[j] ELSE f[j - 1] \o u[j]
    BY <1>2 DEF Flattens
  <2>5. u[k + 1] \in Seq(S) /\ Len(u[k + 1]) = Width(fields[k + 1]) /\ k \in 0 .. Len(fields) - 1
    BY <1>1, <2>1 DEF n
  <2>3. CASE k = 0
    <3>1. f[j] = <<>> \o u[j]
      <4>1. f[j] = u[j] /\ u[j] \in Seq(S)
        BY <1>1, <2>1, <2>2, <2>3
      <4> QED BY <4>1
    <3>2. Laid(<<>>, fields, u, 0)
      <4>1. WidthTo(fields, 0) = 0
        BY WidthGrows, <2>5
      <4> QED BY <4>1 DEF Laid
    <3>3. Laid(<<>> \o u[k + 1], fields, u, k + 1)
      <4>1. <<>> \in Seq(S) /\ Laid(<<>>, fields, u, k)
        BY <2>3, <3>2
      <4> QED BY <2>5, <4>1, LaidOn
    <3>4. Laid(f[k + 1], fields, u, k + 1) /\ k + 1 \in 0 .. n
      BY <1>1, <2>1, <3>1, <3>3
    <3> QED BY <3>4
  <2>4. CASE k # 0
    <3>1. f[j] = f[k] \o u[j] /\ f[k] \in Seq(S)
      <4>1. k \in 1 .. n /\ j # 1
        BY <1>1, <2>1, <2>4
      <4>2. f[k] \in Seq(S)
        BY <4>1
      <4> QED BY <2>1, <2>2, <4>1, <4>2
    <3>2. Laid(f[k], fields, u, k)
      BY <1>4, <2>4
    <3>3. Laid(f[k] \o u[k + 1], fields, u, k + 1)
      BY <2>5, <3>1, <3>2, LaidOn
    <3>4. Laid(f[k + 1], fields, u, k + 1) /\ k + 1 \in 0 .. n
      BY <1>1, <2>1, <3>1, <3>3
    <3> QED BY <3>4
  <2> QED BY <2>3, <2>4
<1>5. n \in P
  <2> HIDE DEF P
  <2>1. 0 .. n \subseteq P
    BY <1>1, <1>3, <1>4, CountUp
  <2> QED BY <1>1, <2>1
<1>6. f[n] \in Seq(S)
  BY <1>1
<1> QED
  BY <1>1, <1>2, <1>5, <1>6 DEF n

\* Each schema is a sequence of fields with names of their own.
Proper(fields) ==
  /\ fields \in Seq(SchemaFields) /\ Len(fields) # 0
  /\ \A i, j \in 1 .. Len(fields) : fields[i].name = fields[j].name => i = j

LEMMA Schemas ==
  ASSUME NEW tag \in {"F", "I", "M", "G"} PROVE tag \in DOMAIN Schema /\ Proper(Schema[tag])
<1>1. /\ DOMAIN Schema = {"F", "I", "M", "G"} /\ Schema["F"] = FusionRecord
      /\ Schema["I"] = ImuRecord /\ Schema["M"] = MemsRecord /\ Schema["G"] = GnssRecord
  <2> HIDE DEF FusionRecord, ImuRecord, MemsRecord, GnssRecord
  <2> QED BY DEF Schema
<1>2. Proper(FusionRecord)
  <2>1. FusionRecord \in Seq(SchemaFields) /\ Len(FusionRecord) = 17
    BY FusionFields
  <2>2. \A i, j \in 1 .. 17 : FusionRecord[i].name = FusionRecord[j].name => i = j
    BY FusionFields
  <2> QED BY <2>1, <2>2 DEF Proper
<1>3. Proper(ImuRecord)
  <2>1. ImuRecord \in Seq(SchemaFields) /\ Len(ImuRecord) = 4
    BY DEF ImuRecord, Field, SchemaFields, FieldNames, PrintedDecimals
  <2>2. \A i, j \in 1 .. 4 : ImuRecord[i].name = ImuRecord[j].name => i = j
    BY DEF ImuRecord, Field
  <2> QED BY <2>1, <2>2 DEF Proper
<1>4. Proper(MemsRecord)
  <2>1. MemsRecord \in Seq(SchemaFields) /\ Len(MemsRecord) = 4
    BY DEF MemsRecord, Field, SchemaFields, FieldNames, PrintedDecimals
  <2>2. \A i, j \in 1 .. 4 : MemsRecord[i].name = MemsRecord[j].name => i = j
    BY DEF MemsRecord, Field
  <2> QED BY <2>1, <2>2 DEF Proper
<1>5. Proper(GnssRecord)
  <2>1. GnssRecord \in Seq(SchemaFields) /\ Len(GnssRecord) = 6
    BY DEF GnssRecord, Field, SchemaFields, FieldNames, PrintedDecimals
  <2>2. \A i, j \in 1 .. 6 : GnssRecord[i].name = GnssRecord[j].name => i = j
    BY DEF GnssRecord, Field
  <2> QED BY <2>1, <2>2 DEF Proper
<1> QED
  BY <1>1, <1>2, <1>3, <1>4, <1>5

\* A record of one of the dataclasses that telemetry.py prints.
NamesOf(fields) == {fields[i].name : i \in DOMAIN fields}
Holds(f, fields) ==
  /\ f = [name \in NamesOf(fields) |-> f[name]]
  /\ \A i \in 1 .. Len(fields) : /\ f[fields[i].name] \in Seq(FieldValues(fields[i].type))
                                 /\ Len(f[fields[i].name]) = Width(fields[i])
IsRecord(record) ==
  /\ record.type \in {"F", "I", "M", "G"}
  /\ record = [type |-> record.type, f |-> record.f]
  /\ Holds(record.f, Schema[record.type])

\* Each field of a line that is printed, in tokens.
Unparsed(f, fields) ==
  [i \in DOMAIN fields |->
     [c \in DOMAIN f[fields[i].name] |-> FormatValue(fields[i], f[fields[i].name][c])]]

\* Every token parses, to the value it is of.
LEMMA UnparsedIs ==
  ASSUME NEW fields \in Seq(SchemaFields), NEW f, Holds(f, fields)
  PROVE  /\ Unparsed(f, fields) \in Seq(Seq(TokenValues))
         /\ Len(Unparsed(f, fields)) = Len(fields)
         /\ \A i \in 1 .. Len(fields) :
              /\ Len(Unparsed(f, fields)[i]) = Width(fields[i])
              /\ DOMAIN Unparsed(f, fields)[i] = 1 .. Width(fields[i])
              /\ \A c \in 1 .. Width(fields[i]) :
                   /\ TokenParses(fields[i].type, Unparsed(f, fields)[i][c])
                   /\ ParseToken(fields[i].type, Unparsed(f, fields)[i][c])
                        = WireValue(fields[i], f[fields[i].name][c])
<1> DEFINE u == Unparsed(f, fields)
           n == Len(fields)
<1>1. n \in Nat /\ DOMAIN fields = 1 .. n /\ \A i \in 1 .. n : fields[i] \in SchemaFields
  OBVIOUS
<1>2. ASSUME NEW i \in 1 .. n
      PROVE  /\ u[i] \in Seq(TokenValues) /\ Len(u[i]) = Width(fields[i])
             /\ DOMAIN u[i] = 1 .. Width(fields[i])
             /\ \A c \in 1 .. Width(fields[i]) :
                  /\ TokenParses(fields[i].type, u[i][c])
                  /\ ParseToken(fields[i].type, u[i][c]) = WireValue(fields[i], f[fields[i].name][c])
  <2> DEFINE field == fields[i]
             values == f[fields[i].name]
             type == fields[i].type
             w == Width(fields[i])
  <2>1. type \in {"int", "float", "bool", "vec3", "quat"}
    BY <1>1 DEF SchemaFields
  <2>2. values \in Seq(FieldValues(type)) /\ Len(values) = w
    BY DEF Holds
  <2>3. u[i] = [c \in DOMAIN values |-> FormatValue(field, values[c])]
    BY <1>1 DEF Unparsed
  <2>8. field.type = type
    OBVIOUS
  <2> HIDE DEF field, values, type, u, w
  <2>4. DOMAIN values = 1 .. w /\ w \in Nat /\ \A c \in 1 .. w : values[c] \in FieldValues(type)
    BY <2>2
  <2>5. \A c \in 1 .. w : /\ FormatValue(field, values[c]) \in TokenValues
                         /\ TokenParses(type, FormatValue(field, values[c]))
                         /\ ParseToken(type, FormatValue(field, values[c]))
                              = WireValue(field, values[c])
    BY <2>1, <2>4, <2>8, ValueReadBack DEF WireValue
  <2>6. u[i] \in Seq(TokenValues) /\ Len(u[i]) = w /\ DOMAIN u[i] = 1 .. w
    <3> HIDE DEF TokenValues
    <3> QED BY <2>3, <2>4, <2>5
  <2>7. \A c \in 1 .. w : u[i][c] = FormatValue(field, values[c])
    BY <2>3, <2>4
  <2> QED BY <2>5, <2>6, <2>7 DEF field, values, type, w
<1>3. u \in Seq(Seq(TokenValues)) /\ Len(u) = n
  <2>1. DOMAIN u = 1 .. n /\ u = [i \in 1 .. n |-> u[i]]
    BY <1>1 DEF Unparsed
  <2>2. \A i \in 1 .. n : u[i] \in Seq(TokenValues)
    BY <1>2
  <2> HIDE DEF u, n
  <2> QED BY <1>1, <2>1, <2>2
<1> HIDE DEF u, n
<1> QED
  BY <1>2, <1>3 DEF u, n

\* parse_line takes what format_record printed, and finds each field's tokens.
LEMMA TokensFound ==
  ASSUME NEW S, NEW fields \in Seq(SchemaFields), NEW u, NEW tokens \in Seq(S),
         Laid(tokens, fields, u, Len(fields))
  PROVE  /\ 1 + Len(tokens) \in Widths(fields)
         /\ \A i \in 1 .. Len(fields) :
              /\ At(fields, i) <= Len(tokens)
              /\ DOMAIN Tokens(fields, i, tokens) = 1 .. Width(fields[i])
              /\ \A c \in 1 .. Width(fields[i]) : Tokens(fields, i, tokens)[c] = u[i][c]
<1> DEFINE n == Len(fields)
<1>1. SubSeq(fields, 1, n) = fields
  BY SubSeqFull
<1>2. 1 + Len(tokens) \in Widths(fields)
  BY <1>1 DEF Laid, WidthTo, Widths
<1>3. ASSUME NEW i \in 1 .. n
      PROVE  /\ At(fields, i) <= Len(tokens)
             /\ DOMAIN Tokens(fields, i, tokens) = 1 .. Width(fields[i])
             /\ \A c \in 1 .. Width(fields[i]) : Tokens(fields, i, tokens)[c] = u[i][c]
  <2> DEFINE m == WidthTo(fields, i - 1)
             w == Width(fields[i])
  <2>1. m \in Nat /\ w \in 1 .. 4
    <3>1. PICK k \in 0 .. Len(fields) - 1 : k = i - 1 /\ i = k + 1
      OBVIOUS
    <3> QED BY <3>1, WidthGrows
  <2>2. \A c \in 1 .. w : m + c \in 1 .. Len(tokens) /\ tokens[m + c] = u[i][c]
    BY DEF Laid
  <2>3. At(fields, i) = 1 + m /\ Tokens(fields, i, tokens) = SubSeq(tokens, 1 + m, 1 + m + w - 1)
    BY DEF At, WidthTo, Tokens
  <2> HIDE DEF m, w
  <2>4. m + 1 <= Len(tokens) /\ m + w <= Len(tokens)
    BY <2>1, <2>2
  <2>5. /\ DOMAIN SubSeq(tokens, 1 + m, 1 + m + w - 1) = 1 .. w
        /\ \A c \in 1 .. w : SubSeq(tokens, 1 + m, 1 + m + w - 1)[c] = tokens[m + c]
    <3>1. PICK a \in 1 .. Len(tokens), b \in 1 .. Len(tokens) : a = 1 + m /\ b = 1 + m + w - 1
      BY <2>1, <2>4
    <3>2. /\ DOMAIN SubSeq(tokens, a, b) = 1 .. b - a + 1
          /\ \A c \in 1 .. b - a + 1 : SubSeq(tokens, a, b)[c] = tokens[a + c - 1]
      OBVIOUS
    <3>3. b - a + 1 = w /\ \A c \in 1 .. w : a + c - 1 = m + c
      BY <2>1, <3>1
    <3> QED BY <3>1, <3>2, <3>3
  <2> QED BY <2>1, <2>2, <2>3, <2>4, <2>5 DEF w
<1> QED
  BY <1>2, <1>3

\* What parse_line makes of a line, given the fields of its tag.
PresentIn(line, fields) == {i \in DOMAIN fields : At(fields, i) <= Len(line.tokens)}
ParsedAt(line, fields, i) ==
  [c \in DOMAIN Tokens(fields, i, line.tokens) |->
     ParseToken(fields[i].type, Tokens(fields, i, line.tokens)[c])]
FieldFails(line, fields) ==
  \E i \in PresentIn(line, fields) : \E c \in DOMAIN ParsedAt(line, fields, i) :
    ~TokenParses(fields[i].type, Tokens(fields, i, line.tokens)[c])
FieldRead(line, fields, i) ==
  IF i \in PresentIn(line, fields) THEN ParsedAt(line, fields, i) ELSE <<Default(fields[i])>>
FieldsRead(line, fields) ==
  [name \in NamesOf(fields) |->
     FieldRead(line, fields, CHOOSE i \in DOMAIN fields : fields[i].name = name)]

\* parse_line, its parts named.
LEMMA LineParsed ==
  ASSUME NEW line, line.tag # "#", line.tag \in DOMAIN Schema, ~FieldFails(line, Schema[line.tag])
  PROVE  ParseLineAnyWidth(line) = [type |-> line.tag, f |-> FieldsRead(line, Schema[line.tag])]
BY Zenon DEF ParseLineAnyWidth, FieldFails, FieldsRead, FieldRead, PresentIn, ParsedAt, NamesOf

\* The record that parse_line makes of a line whose every field parses.
LEMMA ParsedRecord ==
  ASSUME NEW tag \in {"F", "I", "M", "G"}, NEW f, NEW tokens, NEW fields, fields = Schema[tag],
         Holds(f, fields), 1 + Len(tokens) \in Widths(fields),
         \A i \in 1 .. Len(fields) :
           /\ At(fields, i) <= Len(tokens)
           /\ DOMAIN Tokens(fields, i, tokens) = 1 .. Width(fields[i])
           /\ \A c \in 1 .. Width(fields[i]) :
                /\ TokenParses(fields[i].type, Tokens(fields, i, tokens)[c])
                /\ ParseToken(fields[i].type, Tokens(fields, i, tokens)[c]) = f[fields[i].name][c]
  PROVE  ParseLine([tag |-> tag, tokens |-> tokens]) = [type |-> tag, f |-> f]
<1> DEFINE line == [tag |-> tag, tokens |-> tokens]
           n == Len(fields)
           named(name) == CHOOSE i \in DOMAIN fields : fields[i].name = name
<1>1. tag \in DOMAIN Schema /\ Proper(fields) /\ line.tag = tag /\ line.tokens = tokens /\ tag # "#"
  BY Schemas
<1> HIDE DEF line
<1>2. fields \in Seq(SchemaFields) /\ n \in Nat /\ DOMAIN fields = 1 .. n
  BY <1>1 DEF Proper
<1>3. PresentIn(line, fields) = 1 .. n
  BY <1>1, <1>2 DEF PresentIn
<1>4. ASSUME NEW i \in 1 .. n
      PROVE  /\ ParsedAt(line, fields, i) = f[fields[i].name]
             /\ DOMAIN ParsedAt(line, fields, i) = 1 .. Width(fields[i])
  <2>1. /\ f[fields[i].name] \in Seq(FieldValues(fields[i].type))
        /\ Len(f[fields[i].name]) = Width(fields[i])
    BY DEF Holds
  <2>2. f[fields[i].name] = [c \in 1 .. Width(fields[i]) |-> f[fields[i].name][c]]
    BY <2>1
  <2>3. ParsedAt(line, fields, i) = [c \in 1 .. Width(fields[i]) |-> f[fields[i].name][c]]
    <3>1. DOMAIN Tokens(fields, i, tokens) = 1 .. Width(fields[i])
      OBVIOUS
    <3> QED BY <1>1, <3>1 DEF ParsedAt
  <2> QED BY <2>2, <2>3
<1>5. ~FieldFails(line, fields)
  <2>1. ASSUME NEW i \in 1 .. n, NEW c \in DOMAIN ParsedAt(line, fields, i)
        PROVE  TokenParses(fields[i].type, Tokens(fields, i, line.tokens)[c])
    <3>1. c \in 1 .. Width(fields[i])
      BY <1>4
    <3> QED BY <1>1, <3>1
  <2> QED BY <1>3, <2>1 DEF FieldFails
<1>6. ASSUME NEW name \in NamesOf(fields) PROVE FieldRead(line, fields, named(name)) = f[name]
  <2>1. PICK i \in 1 .. n : name = fields[i].name
    BY <1>2 DEF NamesOf
  <2>2. named(name) \in 1 .. n /\ fields[named(name)].name = name
    BY <1>2, <2>1
  <2> HIDE DEF named
  <2> QED BY <1>3, <1>4, <2>2 DEF FieldRead
<1>7. FieldsRead(line, fields) = f
  <2>1. f = [name \in NamesOf(fields) |-> f[name]]
    BY DEF Holds
  <2>2. [name \in NamesOf(fields) |-> FieldRead(line, fields, named(name))]
          = [name \in NamesOf(fields) |-> f[name]]
    <3> HIDE DEF named
    <3> QED BY <1>6
  <2>3. FieldsRead(line, fields) = [name \in NamesOf(fields) |-> FieldRead(line, fields, named(name))]
    BY DEF FieldsRead
  <2> HIDE DEF named
  <2> QED BY <2>1, <2>2, <2>3
<1>8. ParseLineAnyWidth(line) = [type |-> tag, f |-> f]
  BY <1>1, <1>5, <1>7, LineParsed
<1>9. ParseLine(line) = ParseLineAnyWidth(line)
  BY <1>1 DEF ParseLine
<1> QED
  BY <1>8, <1>9 DEF line

\* What parse_line makes of the fields that format_record printed.
Wired(f, fields) ==
  [name \in NamesOf(fields) |->
     LET field == fields[CHOOSE i \in DOMAIN fields : fields[i].name = name]
     IN  [c \in DOMAIN f[name] |-> WireValue(field, f[name][c])]]

\* They are fields of the same record.
LEMMA WiredIs ==
  ASSUME NEW fields, Proper(fields), NEW f, Holds(f, fields)
  PROVE  /\ Holds(Wired(f, fields), fields)
         /\ \A i \in 1 .. Len(fields) : \A c \in 1 .. Width(fields[i]) :
              Wired(f, fields)[fields[i].name][c] = WireValue(fields[i], f[fields[i].name][c])
<1> DEFINE w == Wired(f, fields)
           n == Len(fields)
           named(name) == CHOOSE i \in DOMAIN fields : fields[i].name = name
<1>1. fields \in Seq(SchemaFields) /\ n \in Nat /\ DOMAIN fields = 1 .. n
  BY DEF Proper
<1>2. ASSUME NEW i \in 1 .. n PROVE named(fields[i].name) = i
  <2>1. /\ named(fields[i].name) \in DOMAIN fields
        /\ fields[named(fields[i].name)].name = fields[i].name
    BY <1>1
  <2> HIDE DEF named
  <2> QED BY <1>1, <2>1 DEF Proper
<1>3. w = [name \in NamesOf(fields) |->
             [c \in DOMAIN f[name] |-> WireValue(fields[named(name)], f[name][c])]]
  BY DEF Wired
<1> HIDE DEF w, named
<1>4. ASSUME NEW i \in 1 .. n
      PROVE  /\ w[fields[i].name] \in Seq(FieldValues(fields[i].type))
             /\ Len(w[fields[i].name]) = Width(fields[i])
             /\ \A c \in 1 .. Width(fields[i]) :
                  w[fields[i].name][c] = WireValue(fields[i], f[fields[i].name][c])
  <2> DEFINE field == fields[i]
             values == f[field.name]
             width == Width(field)
             S == FieldValues(field.type)
  <2>1. field.name \in NamesOf(fields)
    BY <1>1 DEF NamesOf
  <2>2. w[field.name] = [c \in DOMAIN values |-> WireValue(field, values[c])]
    BY <1>2, <1>3, <2>1
  <2>3. field.type \in {"int", "float", "bool", "vec3", "quat"}
    <3>1. fields[i] \in SchemaFields
      BY <1>1
    <3> QED BY <3>1 DEF SchemaFields
  <2>4. values \in Seq(S) /\ Len(values) = width
    BY DEF Holds
  <2>5. \A value \in S : WireValue(field, value) \in S
    BY <2>3, ValueReadBack DEF OnWire
  <2> HIDE DEF field, values, width, S
  <2>6. DOMAIN values = 1 .. width /\ width \in Nat /\ \A c \in 1 .. width : values[c] \in S
    BY <2>4
  <2>7. /\ w[field.name] = [c \in 1 .. width |-> WireValue(field, values[c])]
        /\ \A c \in 1 .. width : WireValue(field, values[c]) \in S
    BY <2>2, <2>5, <2>6
  <2>8. w[field.name] \in Seq(S) /\ Len(w[field.name]) = width
    BY <2>6, <2>7
  <2>9. \A c \in 1 .. width : w[field.name][c] = WireValue(field, values[c])
    BY <2>7
  <2> QED BY <2>8, <2>9 DEF field, values, width, S
<1>5. w = [name \in NamesOf(fields) |-> w[name]]
  BY <1>3
<1> QED
  BY <1>4, <1>5 DEF Holds, w, n

\* What parse_line makes of a printed line.
LEMMA PrintedLine ==
  ASSUME NEW record, IsRecord(record)
  PROVE  ParseLine(FormatRecord(record))
           = [type |-> record.type, f |-> Wired(record.f, Schema[record.type])]
<1> DEFINE tag == record.type
           f == record.f
           fields == Schema[tag]
           u == Unparsed(f, fields)
           tokens == FlattenSeq(u)
           w == Wired(f, fields)
<1>1. tag \in {"F", "I", "M", "G"} /\ Holds(f, fields)
  BY DEF IsRecord
<1>2. FormatRecord(record) = [tag |-> tag, tokens |-> tokens]
  BY DEF FormatRecord, Unparsed
<1> HIDE DEF tag, f
<1>3. Proper(fields) /\ fields \in Seq(SchemaFields) /\ Len(fields) # 0
  BY <1>1, Schemas DEF Proper
<1> HIDE DEF fields
<1>4. /\ Holds(w, fields)
      /\ \A i \in 1 .. Len(fields) : \A c \in 1 .. Width(fields[i]) :
           w[fields[i].name][c] = WireValue(fields[i], f[fields[i].name][c])
  BY <1>1, <1>3, WiredIs
<1> HIDE DEF w
<1>5. /\ u \in Seq(Seq(TokenValues)) /\ Len(u) = Len(fields)
      /\ \A i \in 1 .. Len(fields) :
           /\ Len(u[i]) = Width(fields[i])
           /\ \A c \in 1 .. Width(fields[i]) :
                /\ TokenParses(fields[i].type, u[i][c])
                /\ ParseToken(fields[i].type, u[i][c]) = w[fields[i].name][c]
  BY <1>1, <1>3, <1>4, UnparsedIs
<1> HIDE DEF u
<1>6. tokens \in Seq(TokenValues) /\ Laid(tokens, fields, u, Len(fields))
  BY <1>3, <1>5, Flattened
<1> HIDE DEF tokens
<1>7. /\ 1 + Len(tokens) \in Widths(fields)
      /\ \A i \in 1 .. Len(fields) :
           /\ At(fields, i) <= Len(tokens)
           /\ DOMAIN Tokens(fields, i, tokens) = 1 .. Width(fields[i])
           /\ \A c \in 1 .. Width(fields[i]) : Tokens(fields, i, tokens)[c] = u[i][c]
  BY <1>3, <1>6, TokensFound
<1>8. \A i \in 1 .. Len(fields) :
        /\ At(fields, i) <= Len(tokens)
        /\ DOMAIN Tokens(fields, i, tokens) = 1 .. Width(fields[i])
        /\ \A c \in 1 .. Width(fields[i]) :
             /\ TokenParses(fields[i].type, Tokens(fields, i, tokens)[c])
             /\ ParseToken(fields[i].type, Tokens(fields, i, tokens)[c]) = w[fields[i].name][c]
  <2>1. SUFFICES ASSUME NEW i \in 1 .. Len(fields), NEW c \in 1 .. Width(fields[i])
                 PROVE  /\ TokenParses(fields[i].type, Tokens(fields, i, tokens)[c])
                        /\ ParseToken(fields[i].type, Tokens(fields, i, tokens)[c]) = w[fields[i].name][c]
    BY <1>7
  <2>2. Tokens(fields, i, tokens)[c] = u[i][c]
    BY <1>7
  <2>3. /\ TokenParses(fields[i].type, u[i][c])
        /\ ParseToken(fields[i].type, u[i][c]) = w[fields[i].name][c]
    BY <1>5, Zenon
  <2> QED BY <2>2, <2>3
<1>9. ParseLine([tag |-> tag, tokens |-> tokens]) = [type |-> tag, f |-> w]
  <2>1. fields = Schema[tag]
    BY DEF fields
  <2>2. 1 + Len(tokens) \in Widths(fields)
    BY <1>7
  <2>3. Holds(w, fields) /\ tag \in {"F", "I", "M", "G"}
    BY <1>1, <1>4
  <2> QED BY <1>8, <2>1, <2>2, <2>3, ParsedRecord
<1> QED
  BY <1>2, <1>9 DEF tag, f, fields, w

\* A record whose values the wire can tell is read back as it was.
PrintedInFull(record) ==
  \A i \in 1 .. Len(Schema[record.type]) : \A c \in 1 .. Width(Schema[record.type][i]) :
    OnWire(Schema[record.type][i], record.f[Schema[record.type][i].name][c])

LEMMA FullyReadBack ==
  ASSUME NEW record, IsRecord(record), PrintedInFull(record)
  PROVE  ParseLine(FormatRecord(record)) = record
<1> DEFINE f == record.f
           fields == Schema[record.type]
           w == Wired(f, fields)
<1>1. /\ Proper(fields) /\ Holds(f, fields)
      /\ record = [type |-> record.type, f |-> f]
  BY Schemas DEF IsRecord
<1>2. \A i \in 1 .. Len(fields) : \A c \in 1 .. Width(fields[i]) :
        OnWire(fields[i], f[fields[i].name][c])
  BY DEF PrintedInFull
<1> HIDE DEF f, fields
<1>3. /\ Holds(w, fields)
      /\ \A i \in 1 .. Len(fields) : \A c \in 1 .. Width(fields[i]) :
           w[fields[i].name][c] = WireValue(fields[i], f[fields[i].name][c])
  BY <1>1, WiredIs
<1> HIDE DEF w
<1>4. fields \in Seq(SchemaFields) /\ DOMAIN fields = 1 .. Len(fields)
  BY <1>1 DEF Proper
<1>5. ASSUME NEW i \in 1 .. Len(fields) PROVE w[fields[i].name] = f[fields[i].name]
  <2> DEFINE name == fields[i].name
             S == FieldValues(fields[i].type)
             n == Width(fields[i])
  <2>1. w[name] \in Seq(S) /\ f[name] \in Seq(S) /\ Len(w[name]) = n /\ Len(f[name]) = n
    BY <1>1, <1>3 DEF Holds
  <2>2. fields[i].type \in {"int", "float", "bool", "vec3", "quat"}
    <3>1. fields[i] \in SchemaFields
      BY <1>4
    <3> QED BY <3>1 DEF SchemaFields
  <2>3. ASSUME NEW c \in 1 .. n PROVE w[name][c] = f[name][c]
    <3>1. f[name][c] \in S
      BY <2>1
    <3>2. OnWire(fields[i], f[name][c]) /\ w[name][c] = WireValue(fields[i], f[name][c])
      BY <1>2, <1>3
    <3> QED BY <2>2, <3>1, <3>2, ValueReadBack
  <2> HIDE DEF name, S, n
  <2>4. w[name] = f[name]
    BY <2>1, <2>3
  <2> QED BY <2>4 DEF name
<1>6. w = f
  <2>1. w = [name \in NamesOf(fields) |-> w[name]] /\ f = [name \in NamesOf(fields) |-> f[name]]
    BY <1>1, <1>3 DEF Holds
  <2>2. \A name \in NamesOf(fields) : w[name] = f[name]
    BY <1>4, <1>5 DEF NamesOf
  <2> QED BY <2>1, <2>2
<1> QED
  BY <1>1, <1>6, PrintedLine DEF w, f, fields

\* Whole numbers are of the wire's own.
LEMMA WholeNumbers ==
  /\ Numbers \subseteq Reals
  /\ \A field : \A value \in Numbers :
       value \in FieldValues(field.type) => OnWire(field, value)
<1>1. 0 \in Millionths
  BY DEF Millionths, Million
<1>2. Numbers \subseteq Reals
  BY <1>1 DEF Numbers, Reals, Number
<1>3. ASSUME NEW field, NEW value \in Numbers, value \in FieldValues(field.type)
      PROVE  OnWire(field, value)
  <2>1. value.k = "num" /\ value.micro = 0
    BY DEF Numbers, Number, Real
  <2>2. value # NegInf
    BY <2>1 DEF NegInf
  <2>3. Grain(field) \in {10, 100, 1000}
    BY DEF Grain
  <2>4. 0 % Grain(field) = 0
    BY <2>3
  <2> QED BY <1>3, <2>1, <2>2, <2>4 DEF OnWire
<1> QED
  BY <1>2, <1>3

LEMMA WholeReadBack ==
  ASSUME NEW record, IsRecord(record),
         \A i \in 1 .. Len(Schema[record.type]) : \A c \in 1 .. Width(Schema[record.type][i]) :
           record.f[Schema[record.type][i].name][c] \in Numbers
  PROVE  ParseLine(FormatRecord(record)) = record
<1> DEFINE f == record.f
           fields == Schema[record.type]
<1>1. Holds(f, fields)
  BY DEF IsRecord
<1>2. \A i \in 1 .. Len(fields) : \A c \in 1 .. Width(fields[i]) :
        f[fields[i].name][c] \in Numbers
  OBVIOUS
<1> HIDE DEF f, fields
<1>3. ASSUME NEW i \in 1 .. Len(fields), NEW c \in 1 .. Width(fields[i])
      PROVE  OnWire(fields[i], f[fields[i].name][c])
  <2>1. f[fields[i].name] \in Seq(FieldValues(fields[i].type)) /\ Len(f[fields[i].name]) = Width(fields[i])
    BY <1>1 DEF Holds
  <2>2. f[fields[i].name][c] \in FieldValues(fields[i].type)
    BY <2>1
  <2> QED BY <1>2, <2>2, WholeNumbers
<1>4. PrintedInFull(record)
  BY <1>3 DEF PrintedInFull, f, fields
<1> QED
  BY <1>4, FullyReadBack

\* For every record of the four types, whatever its fields hold (a number of any
\* size with any millionths, NaN, an infinity of either sign): parse_line takes the
\* line that format_record prints, and finds in every field what the wire keeps of
\* it, an integer or a flag as it was, a number rounded to the field's decimals,
\* +inf for both infinities; and printing what was read loses nothing more.
THEOREM CodecRoundTrip ==
  ASSUME NEW record, IsRecord(record)
  PROVE  LET back   == ParseLine(FormatRecord(record))
             fields == Schema[record.type]
         IN  /\ IsRecord(back) /\ back.type = record.type
             /\ \A i \in 1 .. Len(fields) : \A c \in 1 .. Width(fields[i]) :
                  AsPrinted(fields[i], record.f[fields[i].name][c], back.f[fields[i].name][c])
             /\ ParseLine(FormatRecord(back)) = back
<1> DEFINE f == record.f
           fields == Schema[record.type]
           w == Wired(f, fields)
           back == ParseLine(FormatRecord(record))
<1>1. record.type \in {"F", "I", "M", "G"} /\ Proper(fields) /\ Holds(f, fields)
  BY Schemas DEF IsRecord
<1>2. back = [type |-> record.type, f |-> w]
  BY PrintedLine
<1> HIDE DEF f, fields, w, back
<1>3. /\ Holds(w, fields)
      /\ \A i \in 1 .. Len(fields) : \A c \in 1 .. Width(fields[i]) :
           w[fields[i].name][c] = WireValue(fields[i], f[fields[i].name][c])
  BY <1>1, WiredIs DEF w
<1>4. back.type = record.type /\ back.f = w /\ back = [type |-> back.type, f |-> back.f]
  BY <1>2
<1>5. IsRecord(back)
  BY <1>1, <1>3, <1>4 DEF IsRecord, fields
<1>6. ASSUME NEW i \in 1 .. Len(fields), NEW c \in 1 .. Width(fields[i])
      PROVE  /\ AsPrinted(fields[i], f[fields[i].name][c], w[fields[i].name][c])
             /\ OnWire(fields[i], w[fields[i].name][c])
  <2>1. fields[i].type \in {"int", "float", "bool", "vec3", "quat"}
    <3>1. fields[i] \in SchemaFields
      BY <1>1 DEF Proper
    <3> QED BY <3>1 DEF SchemaFields
  <2>2. f[fields[i].name][c] \in FieldValues(fields[i].type)
    <3>1. /\ f[fields[i].name] \in Seq(FieldValues(fields[i].type))
          /\ Len(f[fields[i].name]) = Width(fields[i])
      BY <1>1 DEF Holds
    <3> QED BY <3>1
  <2> QED BY <1>3, <2>1, <2>2, ValueReadBack
<1>7. PrintedInFull(back)
  BY <1>4, <1>6 DEF PrintedInFull, fields
<1>8. ParseLine(FormatRecord(back)) = back
  BY <1>5, <1>7, FullyReadBack
<1> QED
  BY <1>4, <1>5, <1>6, <1>8 DEF f, fields, w, back

-----------------------------------------------------------------------------
(* SimSession: the corrections among a filter's calls. *)

FilterCalls ==
  [call : {"predict", "update"}, t : Int, heading : Int, variance : Int, valid : BOOLEAN]

\* The corrections among the first k calls.
UpdatesTo(calls, ups) ==
  /\ ups \in [0 .. Len(calls) -> Seq(FilterCalls)]
  /\ ups[0] = <<>>
  /\ \A k \in 0 .. Len(calls) - 1 : ups[k + 1] = AddUpdate(ups[k], calls[k + 1])

\* The fold that Updates stands for.
UpdatesFold(calls, f) ==
  f = [s \in SUBSET DOMAIN calls |->
         IF s = {} THEN <<>> ELSE AddUpdate(f[s \ {Max(s)}], calls[Max(s)])]

\* A correction more is a sequence of calls.
LEMMA AddUpdateType ==
  ASSUME NEW updates \in Seq(FilterCalls), NEW c \in FilterCalls
  PROVE  AddUpdate(updates, c) \in Seq(FilterCalls)
BY DEF AddUpdate

\* There is such a fold.
LEMMA UpdatesFoldExists ==
  ASSUME NEW calls \in Seq(FilterCalls) PROVE \E f : UpdatesFold(calls, f)
<1> DEFINE n == Len(calls)
           V == Seq(FilterCalls)
           g == [p \in V \X (1 .. n) |-> AddUpdate(p[1], calls[p[2]])]
<1>1. n \in Nat /\ DOMAIN calls = 1 .. n /\ <<>> \in V
  OBVIOUS
<1>2. g \in [V \X (1 .. n) -> V]
  <2>1. ASSUME NEW v \in V, NEW i \in 1 .. n PROVE AddUpdate(v, calls[i]) \in V
    BY AddUpdateType
  <2> HIDE DEF V, n
  <2> QED BY <2>1
<1>3. \A v \in V, i \in 1 .. n : g[v, i] = AddUpdate(v, calls[i])
  OBVIOUS
<1> HIDE DEF g, V
<1>4. PICK f : FoldFrom(V, f, g, <<>>, n)
  <2> HIDE DEF n
  <2> QED BY <1>1, <1>2, FoldsExist
<1>5. ASSUME NEW s \in SUBSET (1 .. n), s # {}
      PROVE  Max(s) \in 1 .. n /\ s \ {Max(s)} \in SUBSET (1 .. n)
  BY <1>1, <1>5, MaxIsMember
<1>6. ASSUME NEW s \in SUBSET (1 .. n)
      PROVE f[s] = IF s = {} THEN <<>> ELSE AddUpdate(f[s \ {Max(s)}], calls[Max(s)])
  BY <1>3, <1>4, <1>5 DEF FoldFrom
<1> QED
  BY <1>1, <1>4, <1>6 DEF FoldFrom, UpdatesFold

\* Updates goes through the calls one by one.
LEMMA UpdatesUnfold ==
  ASSUME NEW calls \in Seq(FilterCalls)
  PROVE  \E ups : UpdatesTo(calls, ups) /\ Updates(calls) = ups[Len(calls)]
<1> DEFINE n == Len(calls)
           c == CHOOSE f : UpdatesFold(calls, f)
           ups == [k \in 0 .. n |-> c[1 .. k]]
<1>1. n \in Nat /\ DOMAIN calls = 1 .. n /\ \A k \in 1 .. n : calls[k] \in FilterCalls
  OBVIOUS
<1>2. UpdatesFold(calls, c)
  BY UpdatesFoldExists
<1>3. Updates(calls) = c[1 .. n]
  BY <1>1 DEF Updates, FoldLeft, MapThenFoldSet, UpdatesFold
<1> HIDE DEF c
<1>4. ups[0] = <<>>
  <2>1. 1 .. 0 = {}
    OBVIOUS
  <2> QED BY <1>1, <1>2, <2>1 DEF UpdatesFold
<1>5. ASSUME NEW k \in 0 .. n - 1 PROVE ups[k + 1] = AddUpdate(ups[k], calls[k + 1])
  <2>1. Max(1 .. k + 1) = k + 1 /\ (1 .. k + 1) \ {k + 1} = 1 .. k /\ 1 .. k + 1 # {}
    <3>1. 1 .. k + 1 \in SUBSET (1 .. k + 1) /\ k + 1 \in 1 .. k + 1 /\ k \in Nat
      BY <1>1
    <3> QED BY <3>1, MaxBelow
  <2>2. 1 .. k + 1 \in SUBSET DOMAIN calls
    BY <1>1
  <2>3. c[1 .. k + 1] = AddUpdate(c[1 .. k], calls[k + 1])
    BY <1>2, <2>1, <2>2 DEF UpdatesFold
  <2> QED BY <1>1, <2>3
<1> HIDE DEF n
<1>6. 0 .. n \subseteq {k \in 0 .. n : ups[k] \in Seq(FilterCalls)}
  <2> DEFINE P == {k \in 0 .. n : ups[k] \in Seq(FilterCalls)}
  <2>1. 0 \in P
    <3>1. <<>> \in Seq(FilterCalls) /\ 0 \in 0 .. n
      BY <1>1
    <3> HIDE DEF ups
    <3> QED BY <1>4, <3>1
  <2>2. ASSUME NEW k \in 0 .. n - 1, k \in P PROVE k + 1 \in P
    <3>1. k + 1 \in 0 .. n /\ k + 1 \in 1 .. n
      BY <1>1
    <3>2. ups[k] \in Seq(FilterCalls) /\ calls[k + 1] \in FilterCalls
      BY <1>1, <2>2, <3>1
    <3>3. ups[k + 1] \in Seq(FilterCalls)
      BY <1>5, <3>2, AddUpdateType
    <3> HIDE DEF ups
    <3> QED BY <3>1, <3>3
  <2> HIDE DEF P
  <2>3. 0 .. n \subseteq P
    BY <1>1, <2>1, <2>2, CountUp
  <2> QED BY <2>3 DEF P
<1>7. ups \in [0 .. n -> Seq(FilterCalls)]
  BY <1>6
<1>8. ups[n] = c[1 .. n]
  BY <1>1
<1> HIDE DEF ups
<1>9. UpdatesTo(calls, ups)
  BY <1>4, <1>5, <1>7 DEF UpdatesTo, n
<1> QED
  BY <1>3, <1>8, <1>9 DEF n

\* There is one way through them.
LEMMA UpdatesAgree ==
  ASSUME NEW calls \in Seq(FilterCalls), NEW longer \in Seq(FilterCalls),
         Len(calls) <= Len(longer), \A i \in 1 .. Len(calls) : longer[i] = calls[i],
         NEW a, NEW b, UpdatesTo(calls, a), UpdatesTo(longer, b)
  PROVE  a[Len(calls)] = b[Len(calls)]
<1> DEFINE n == Len(calls)
           P == {k \in 0 .. n : a[k] = b[k]}
<1>1. n \in Nat /\ Len(longer) \in Nat /\ n <= Len(longer)
  OBVIOUS
<1>2. 0 \in P
  BY <1>1 DEF UpdatesTo
<1>3. ASSUME NEW k \in 0 .. n - 1, k \in P PROVE k + 1 \in P
  <2>1. k + 1 \in 1 .. n /\ k + 1 \in 0 .. n /\ k \in 0 .. Len(longer) - 1
    BY <1>1
  <2>2. a[k + 1] = AddUpdate(a[k], calls[k + 1]) /\ b[k + 1] = AddUpdate(b[k], longer[k + 1])
    BY <2>1 DEF UpdatesTo
  <2> QED BY <1>3, <2>1, <2>2
<1>4. 0 .. n \subseteq P
  <2> HIDE DEF P, n
  <2> QED BY <1>1, <1>2, <1>3, CountUp
<1>5. n \in 0 .. n
  BY <1>1
<1> QED
  BY <1>4, <1>5

\* One more call.
LEMMA UpdatesAppend ==
  ASSUME NEW calls \in Seq(FilterCalls), NEW c \in FilterCalls
  PROVE  /\ Updates(calls) \in Seq(FilterCalls)
         /\ Updates(Append(calls, c)) = AddUpdate(Updates(calls), c)
<1> DEFINE longer == Append(calls, c)
           n == Len(calls)
<1>1. longer \in Seq(FilterCalls) /\ Len(longer) = n + 1 /\ longer[n + 1] = c /\ n \in Nat
      /\ \A i \in 1 .. n : longer[i] = calls[i]
  OBVIOUS
<1>2. PICK a : UpdatesTo(calls, a) /\ Updates(calls) = a[n]
  BY UpdatesUnfold
<1> HIDE DEF longer
<1>3. PICK b : UpdatesTo(longer, b) /\ Updates(longer) = b[n + 1]
  BY <1>1, UpdatesUnfold
<1> HIDE DEF n
<1>4. a[n] = b[n]
  BY <1>1, <1>2, <1>3, UpdatesAgree DEF n
<1>5. n \in 0 .. Len(longer) - 1 /\ n \in 0 .. n
  BY <1>1
<1>6. b[n + 1] = AddUpdate(b[n], c)
  BY <1>1, <1>3, <1>5 DEF UpdatesTo
<1>7. a[n] \in Seq(FilterCalls)
  BY <1>2, <1>5 DEF UpdatesTo, n
<1> QED
  BY <1>2, <1>3, <1>4, <1>6, <1>7 DEF longer

\* The corrections are calls.
LEMMA UpdatesType ==
  ASSUME NEW calls \in Seq(FilterCalls) PROVE Updates(calls) \in Seq(FilterCalls)
<1>1. PICK ups : UpdatesTo(calls, ups) /\ Updates(calls) = ups[Len(calls)]
  BY UpdatesUnfold
<1>2. Len(calls) \in 0 .. Len(calls)
  OBVIOUS
<1> QED
  BY <1>1, <1>2 DEF UpdatesTo

\* No calls, no corrections.
LEMMA UpdatesNone == Updates(<<>>) = <<>>
<1>1. <<>> \in Seq(FilterCalls) /\ Len(<<>>) = 0
  OBVIOUS
<1> QED
  BY <1>1, UpdatesUnfold DEF UpdatesTo

\* The fixes of a tick, as calls.
Fixes == [t : Int, heading : Int, variance : {n * n : n \in Nat}, valid : BOOLEAN]
FixSeqs == {<<>>} \cup {<<fix>> : fix \in Fixes}
Corrects(gnss) == [i \in DOMAIN gnss |-> Correct(gnss[i])]

\* The corrections that a fix makes: one, and none without a fix.
LEMMA CorrectsType ==
  ASSUME NEW gnss \in FixSeqs
  PROVE  /\ Corrects(gnss) \in Seq(FilterCalls)
         /\ gnss = <<>> => Corrects(gnss) = <<>>
         /\ \A fix \in Fixes : gnss = <<fix>> => Corrects(gnss) = <<Correct(fix)>>
         /\ \A fix \in Fixes : Correct(fix) \in FilterCalls /\ Correct(fix).call = "update"
<1>1. \A fix \in Fixes : Correct(fix) \in FilterCalls /\ Correct(fix).call = "update"
  BY DEF Fixes, FilterCalls, Correct
<1>2. gnss = <<>> => Corrects(gnss) = <<>>
  BY DEF Corrects
<1>3. ASSUME NEW fix \in Fixes, gnss = <<fix>> PROVE Corrects(gnss) = <<Correct(fix)>>
  BY <1>3 DEF Corrects
<1>4. Corrects(gnss) \in Seq(FilterCalls)
  <2>1. CASE gnss = <<>>
    <3>1. <<>> \in Seq(FilterCalls) /\ Corrects(gnss) = <<>>
      BY <1>2, <2>1
    <3> QED BY <3>1
  <2>2. CASE \E fix \in Fixes : gnss = <<fix>>
    <3>1. PICK fix \in Fixes : gnss = <<fix>>
      BY <2>2
    <3>2. PICK c \in FilterCalls : c = Correct(fix)
      BY <1>1
    <3>3. Corrects(gnss) = <<c>>
      BY <1>3, <3>1, <3>2
    <3> QED BY <3>3
  <2> QED BY <2>1, <2>2 DEF FixSeqs
<1> QED
  BY <1>1, <1>2, <1>3, <1>4

\* s starts with r, and so do their corrections.
Before(r, s) == IsPrefix(r, s) /\ IsPrefix(Updates(r), Updates(s))

\* IsPrefix is reflexive and transitive, and holds of a sequence gone on with.
LEMMA PrefixOf ==
  ASSUME NEW S, NEW s \in Seq(S)
  PROVE  /\ IsPrefix(s, s)
         /\ \A t \in Seq(S) : IsPrefix(s, s \o t)
         /\ \A r \in Seq(S), t \in Seq(S) : IsPrefix(r, s) /\ IsPrefix(s, t) => IsPrefix(r, t)
<1>1. IsPrefix(s, s)
  BY DEF IsPrefix
<1>2. ASSUME NEW t \in Seq(S) PROVE IsPrefix(s, s \o t)
  <2>1. SubSeq(s \o t, 1, Len(s)) = s /\ SubSeq(s, 1, Len(s)) = s /\ Len(s) <= Len(s \o t)
    OBVIOUS
  <2> QED BY <2>1 DEF IsPrefix
<1>3. ASSUME NEW r \in Seq(S), NEW t \in Seq(S), IsPrefix(r, s), IsPrefix(s, t)
      PROVE  IsPrefix(r, t)
  <2>1. /\ Len(r) <= Len(s) /\ Len(s) <= Len(t)
        /\ \A i \in 1 .. Len(r) : r[i] = s[i]
        /\ \A i \in 1 .. Len(s) : s[i] = t[i]
    <3>1. SubSeq(r, 1, Len(r)) = SubSeq(s, 1, Len(r)) /\ SubSeq(s, 1, Len(s)) = SubSeq(t, 1, Len(s))
          /\ Len(r) <= Len(s) /\ Len(s) <= Len(t)
      BY <1>3 DEF IsPrefix
    <3>2. ASSUME NEW i \in 1 .. Len(r) PROVE r[i] = s[i]
      <4>1. SubSeq(r, 1, Len(r))[i] = r[i] /\ SubSeq(s, 1, Len(r))[i] = s[i]
        BY <3>1
      <4> QED BY <3>1, <4>1
    <3>3. ASSUME NEW i \in 1 .. Len(s) PROVE s[i] = t[i]
      <4>1. SubSeq(s, 1, Len(s))[i] = s[i] /\ SubSeq(t, 1, Len(s))[i] = t[i]
        BY <3>1
      <4> QED BY <3>1, <4>1
    <3> QED BY <3>1, <3>2, <3>3
  <2>2. SubSeq(r, 1, Len(r)) = SubSeq(t, 1, Len(r)) /\ Len(r) <= Len(t)
    BY <2>1
  <2> QED BY <2>2 DEF IsPrefix
<1> QED
  BY <1>1, <1>2, <1>3

\* What a tick does to the calls: its prediction, and the corrections.
LEMMA FeedUpdates ==
  ASSUME NEW calls \in Seq(FilterCalls), NEW tick, tick.imu.t \in Int, tick.gnss \in FixSeqs
  PROVE  /\ Feed(calls, tick) \in Seq(FilterCalls)
         /\ Updates(Feed(calls, tick)) = Updates(calls) \o Corrects(tick.gnss)
         /\ Before(calls, Feed(calls, tick))
<1> DEFINE p == Predict(tick.imu)
           longer == Append(calls, p)
           ups == Updates(calls)
           more == Corrects(tick.gnss)
<1>1. p \in FilterCalls /\ p.call = "predict"
  BY DEF Predict, FilterCalls
<1>2. longer \in Seq(FilterCalls) /\ longer = calls \o <<p>> /\ <<p>> \in Seq(FilterCalls)
  BY <1>1
<1>3. ups \in Seq(FilterCalls) /\ Updates(longer) = ups
  BY <1>1, UpdatesAppend DEF AddUpdate
<1>4. Feed(calls, tick) = longer \o more
  BY DEF Feed, Corrects
<1>5. more \in Seq(FilterCalls)
  BY CorrectsType
<1> HIDE DEF p, longer, ups, more
<1>6. Feed(calls, tick) \in Seq(FilterCalls)
  BY <1>2, <1>4, <1>5
<1>7. Updates(Feed(calls, tick)) = ups \o more
  <2>1. CASE tick.gnss = <<>>
    <3>1. more = <<>>
      BY <2>1, CorrectsType DEF more
    <3>2. longer \o more = longer /\ ups \o more = ups
      BY <1>2, <1>3, <3>1
    <3> QED BY <1>3, <1>4, <3>2
  <2>2. CASE \E fix \in Fixes : tick.gnss = <<fix>>
    <3>1. PICK fix \in Fixes : tick.gnss = <<fix>>
      BY <2>2
    <3>2. PICK c \in FilterCalls : c = Correct(fix) /\ c.call = "update"
      BY CorrectsType
    <3>3. more = <<c>>
      BY <3>1, <3>2, CorrectsType DEF more
    <3>4. longer \o more = Append(longer, c) /\ ups \o more = Append(ups, c)
      BY <1>2, <1>3, <3>3
    <3>5. Updates(Append(longer, c)) = Append(ups, c)
      BY <1>2, <1>3, <3>2, UpdatesAppend DEF AddUpdate
    <3> QED BY <1>4, <3>4, <3>5
  <2> QED BY <2>1, <2>2 DEF FixSeqs
<1>8. IsPrefix(calls, Feed(calls, tick))
  <2>1. Feed(calls, tick) = calls \o (<<p>> \o more) /\ <<p>> \o more \in Seq(FilterCalls)
    BY <1>2, <1>4, <1>5
  <2> QED BY <2>1, PrefixOf
<1>9. IsPrefix(ups, ups \o more)
  BY <1>3, <1>5, PrefixOf
<1> QED
  BY <1>6, <1>7, <1>8, <1>9 DEF Before, ups, more

-----------------------------------------------------------------------------
(* SimSession: what the readers of a capture make of its lines. *)

Vecs == [x : Int, y : Int, z : Int]
Imus == [t : Int, orientation : Quats, gyro : Vecs]
Reread(record) == ParseLine(Written(record))

\* A comment line is read back as one.
LEMMA DiagReading == Reread(DiagRecord) = DiagRecord
<1>1. Written(DiagRecord) = [tag |-> "#", tokens |-> <<>>]
  BY DEF Written, DiagRecord
<1>2. "#" \notin DOMAIN Schema
  BY DEF Schema
<1> QED
  BY <1>1, <1>2 DEF Reread, ParseLine, ParseLineAnyWidth

\* An I line of the exporter is read back as it was.
LEMMA ImuReading ==
  ASSUME NEW imu \in Imus
  PROVE  /\ Reread(ImuLine(imu)) = ImuLine(imu)
         /\ ImuLine(imu).type = "I" /\ Stamp(ImuLine(imu)) = imu.t
<1> DEFINE line == ImuLine(imu)
           f == line.f
<1>1. /\ imu.t \in Int
      /\ imu.orientation.w \in Int /\ imu.orientation.x \in Int
      /\ imu.orientation.y \in Int /\ imu.orientation.z \in Int
      /\ imu.gyro.x \in Int /\ imu.gyro.y \in Int /\ imu.gyro.z \in Int
  BY DEF Imus, Quats, Vecs
<1>2. \A n \in Int : Number(n) \in Numbers
  BY DEF Numbers
<1>3. AxisZ.x \in Int /\ AxisZ.y \in Int /\ AxisZ.z \in Int
  BY DEF AxisZ, Vec3
<1>4. /\ f["timestamp_ms"] \in Seq(Numbers) /\ Len(f["timestamp_ms"]) = 1
      /\ f["orientation"] \in Seq(Numbers) /\ Len(f["orientation"]) = 4
      /\ f["angular_velocity_rad_s"] \in Seq(Numbers) /\ Len(f["angular_velocity_rad_s"]) = 3
      /\ f["accel_ms2"] \in Seq(Numbers) /\ Len(f["accel_ms2"]) = 3
  <2>1. \A a, b, c, d \in Numbers : /\ <<a>> \in Seq(Numbers) /\ Len(<<a>>) = 1
                                   /\ <<a, b, c>> \in Seq(Numbers) /\ Len(<<a, b, c>>) = 3
                                   /\ <<a, b, c, d>> \in Seq(Numbers) /\ Len(<<a, b, c, d>>) = 4
    OBVIOUS
  <2>2. f["timestamp_ms"] = <<Number(imu.t)>> /\ f["angular_velocity_rad_s"] = VecValues(imu.gyro)
        /\ f["orientation"] = <<Number(imu.orientation.w), Number(imu.orientation.x),
                                Number(imu.orientation.y), Number(imu.orientation.z)>>
        /\ f["accel_ms2"] = VecValues(AxisZ)
    BY DEF ImuLine
  <2> QED BY <1>1, <1>2, <1>3, <2>1, <2>2 DEF VecValues
<1>5. /\ Len(ImuRecord) = 4 /\ DOMAIN ImuRecord = 1 .. 4
      /\ ImuRecord[1].name = "timestamp_ms" /\ ImuRecord[1].type = "int"
      /\ ImuRecord[2].name = "orientation" /\ ImuRecord[2].type = "quat"
      /\ ImuRecord[3].name = "angular_velocity_rad_s" /\ ImuRecord[3].type = "vec3"
      /\ ImuRecord[4].name = "accel_ms2" /\ ImuRecord[4].type = "vec3"
  BY DEF ImuRecord, Field
<1>6. NamesOf(ImuRecord) =
        {"timestamp_ms", "orientation", "angular_velocity_rad_s", "accel_ms2"}
  BY <1>5 DEF NamesOf
<1>7. f = [name \in {"timestamp_ms", "orientation", "angular_velocity_rad_s", "accel_ms2"} |-> f[name]]
  BY DEF ImuLine
<1>8. line.type = "I" /\ line = [type |-> line.type, f |-> line.f]
  BY DEF ImuLine
<1>9. f["timestamp_ms"][1] = Number(imu.t)
  BY DEF ImuLine
<1> HIDE DEF line, f
<1>10. Holds(f, ImuRecord)
  <2>1. f = [name \in NamesOf(ImuRecord) |-> f[name]]
    BY <1>6, <1>7
  <2>2. ASSUME NEW i \in 1 .. 4
        PROVE  /\ f[ImuRecord[i].name] \in Seq(FieldValues(ImuRecord[i].type))
               /\ Len(f[ImuRecord[i].name]) = Width(ImuRecord[i])
    <3>1. \A type \in {"int", "quat", "vec3"} : Numbers \subseteq FieldValues(type)
      BY WholeNumbers DEF FieldValues
    <3>2. \A S, T : S \subseteq T => Seq(S) \subseteq Seq(T)
      OBVIOUS
    <3>3. i = 1 \/ i = 2 \/ i = 3 \/ i = 4
      OBVIOUS
    <3>4. ImuRecord[i].type \in {"int", "quat", "vec3"} /\ f[ImuRecord[i].name] \in Seq(Numbers)
      BY <1>4, <1>5, <3>3
    <3>5. Len(f[ImuRecord[i].name]) = Width(ImuRecord[i])
      BY <1>4, <1>5, <3>3 DEF Width
    <3> QED BY <3>1, <3>2, <3>4, <3>5
  <2> QED BY <1>5, <2>1, <2>2 DEF Holds
<1>11. IsRecord(line)
  <2>1. Schema["I"] = ImuRecord
    BY DEF Schema
  <2> QED BY <1>8, <1>10, <2>1 DEF IsRecord, f
<1>14. ASSUME NEW i \in 1 .. Len(ImuRecord), NEW c \in 1 .. Width(ImuRecord[i])
       PROVE  f[ImuRecord[i].name][c] \in Numbers
  <2>1. i = 1 \/ i = 2 \/ i = 3 \/ i = 4
    BY <1>5
  <2>2. /\ f[ImuRecord[i].name] \in Seq(Numbers)
        /\ Len(f[ImuRecord[i].name]) = Width(ImuRecord[i])
    BY <1>4, <1>5, <2>1 DEF Width
  <2> QED BY <2>2
<1>12. Reread(line) = line
  <2>1. Schema["I"] = ImuRecord
    BY DEF Schema
  <2>2. ParseLine(FormatRecord(line)) = line
    BY <1>8, <1>11, <1>14, <2>1, WholeReadBack DEF f
  <2> QED BY <1>8, <2>2 DEF Reread, Written
<1>13. Stamp(line) = imu.t
  BY <1>9 DEF Stamp, Scalar, f, Number, Real
<1> QED
  BY <1>8, <1>12, <1>13 DEF line

\* _sigma finds the root of a square.
LEMMA SigmaOf ==
  ASSUME NEW variance \in {n * n : n \in Nat}
  PROVE  \E std \in Nat : variance = std * std /\ Sigma(variance) = std
<1>1. PICK n \in Nat : variance = n * n
  OBVIOUS
<1>2. n \in 0 .. variance /\ variance \in Nat
  <2>1. CASE n = 0
    BY <1>1, <2>1
  <2>2. CASE n > 0
    <3>1. PICK k \in Nat : n = k + 1
      <4>1. n - 1 \in Nat /\ n = (n - 1) + 1
        BY <2>2
      <4> QED BY <4>1
    <3>2. n * n = k * k + k + n /\ k * k \in Nat
      BY <3>1
    <3> QED BY <1>1, <3>1, <3>2
  <2> QED BY <2>1, <2>2
<1>3. PICK s \in 0 .. variance : s = Sigma(variance) /\ s * s = variance
  BY <1>1, <1>2 DEF Sigma
<1> QED
  BY <1>2, <1>3

\* A G line is read back, and FixOf makes the fix of it that it was printed of.
LEMMA GnssReading ==
  ASSUME NEW fix \in Fixes
  PROVE  /\ Reread(GnssLine(fix)) = GnssLine(fix)
         /\ GnssLine(fix).type = "G" /\ FixOf(GnssLine(fix)) = fix
<1> DEFINE line == GnssLine(fix)
           f == line.f
           names == {"timestamp_ms", "heading_deg", "heading_sigma_deg", "valid", "mode", "error"}
           flag == IF fix.valid THEN 1 ELSE 0
<1>1. /\ fix.t \in Int /\ fix.heading \in Int /\ fix.variance \in {n * n : n \in Nat}
      /\ fix.valid \in BOOLEAN
      /\ fix = [t |-> fix.t, heading |-> fix.heading, variance |-> fix.variance,
                valid |-> fix.valid]
  BY DEF Fixes
<1>2. \A n \in Int : Number(n) \in Numbers /\ Number(n).v = n
  BY DEF Numbers, Number, Real
<1>13. PICK std \in Nat : fix.variance = std * std /\ Sigma(fix.variance) = std
  BY <1>1, SigmaOf
<1>3. /\ f["timestamp_ms"] = <<Number(fix.t)>> /\ f["heading_deg"] = <<Number(fix.heading)>>
      /\ f["heading_sigma_deg"] = <<Number(std)>> /\ f["valid"] = <<Number(flag)>>
      /\ f["mode"] = <<Number(0)>> /\ f["error"] = <<Number(0)>>
  BY <1>13 DEF GnssLine
<1>4. f = [name \in names |-> f[name]]
  BY DEF GnssLine
<1>5. line.type = "G" /\ line = [type |-> line.type, f |-> line.f]
  BY DEF GnssLine
<1>6. /\ Len(GnssRecord) = 6 /\ DOMAIN GnssRecord = 1 .. 6
      /\ GnssRecord[1].name = "timestamp_ms" /\ GnssRecord[1].type = "int"
      /\ GnssRecord[2].name = "heading_deg" /\ GnssRecord[2].type = "float"
      /\ GnssRecord[3].name = "heading_sigma_deg" /\ GnssRecord[3].type = "float"
      /\ GnssRecord[4].name = "valid" /\ GnssRecord[4].type = "bool"
      /\ GnssRecord[5].name = "mode" /\ GnssRecord[5].type = "int"
      /\ GnssRecord[6].name = "error" /\ GnssRecord[6].type = "int"
  BY DEF GnssRecord, Field
<1>7. NamesOf(GnssRecord) = names
  BY <1>6 DEF NamesOf
<1> HIDE DEF line, f, names
<1>8. Holds(f, GnssRecord)
  <2>1. f = [name \in NamesOf(GnssRecord) |-> f[name]]
    BY <1>4, <1>7
  <2>2. ASSUME NEW i \in 1 .. 6
        PROVE  /\ f[GnssRecord[i].name] \in Seq(FieldValues(GnssRecord[i].type))
               /\ Len(f[GnssRecord[i].name]) = Width(GnssRecord[i])
    <3>1. Number(flag) \in FieldValues("bool")
      BY DEF FieldValues
    <3>2. \A n \in Int : Number(n) \in FieldValues("int") /\ Number(n) \in FieldValues("float")
      BY <1>2, WholeNumbers DEF FieldValues
    <3>3. \A S : \A a \in S : <<a>> \in Seq(S) /\ Len(<<a>>) = 1
      OBVIOUS
    <3>4. i = 1 \/ i = 2 \/ i = 3 \/ i = 4 \/ i = 5 \/ i = 6
      OBVIOUS
    <3>5. PICK a \in FieldValues(GnssRecord[i].type) : f[GnssRecord[i].name] = <<a>>
      BY <1>1, <1>3, <1>6, <1>13, <3>1, <3>2, <3>4
    <3>6. Width(GnssRecord[i]) = 1
      BY <1>6, <3>4 DEF Width
    <3> QED BY <3>3, <3>5, <3>6
  <2> QED BY <1>6, <2>1, <2>2 DEF Holds
<1>9. IsRecord(line)
  <2>1. Schema["G"] = GnssRecord
    BY DEF Schema
  <2> QED BY <1>5, <1>8, <2>1 DEF IsRecord, f
<1>14. ASSUME NEW i \in 1 .. Len(GnssRecord), NEW c \in 1 .. Width(GnssRecord[i])
       PROVE  f[GnssRecord[i].name][c] \in Numbers
  <2>1. i = 1 \/ i = 2 \/ i = 3 \/ i = 4 \/ i = 5 \/ i = 6
    BY <1>6
  <2>2. Width(GnssRecord[i]) = 1
    BY <1>6, <2>1 DEF Width
  <2>3. flag \in Int /\ std \in Int /\ 0 \in Int
    OBVIOUS
  <2>4. PICK n \in Int : f[GnssRecord[i].name] = <<Number(n)>>
    BY <1>1, <1>3, <1>6, <2>1, <2>3
  <2>5. c = 1
    BY <2>2
  <2> QED BY <1>2, <2>4, <2>5
<1>10. Reread(line) = line
  <2>1. Schema["G"] = GnssRecord
    BY DEF Schema
  <2>2. ParseLine(FormatRecord(line)) = line
    BY <1>5, <1>9, <1>14, <2>1, WholeReadBack DEF f
  <2> QED BY <1>5, <2>2 DEF Reread, Written
<1>11. /\ Stamp(line) = fix.t /\ Scalar(line, "heading_deg") = fix.heading
       /\ Scalar(line, "heading_sigma_deg") = std /\ Scalar(line, "valid") = flag
  BY <1>1, <1>2, <1>3, <1>13 DEF Stamp, Scalar, f
<1>12. FixOf(line) = [t |-> fix.t, heading |-> fix.heading, variance |-> fix.variance,
                      valid |-> fix.valid]
  <2>1. std * std = fix.variance /\ (flag = 1) = fix.valid
    BY <1>1, <1>13
  <2> QED BY <1>11, <2>1 DEF FixOf
<1> QED
  BY <1>1, <1>5, <1>10, <1>12 DEF line

\* An F line is read back as an F line.
LEMMA FusionReading ==
  ASSUME NEW calls, calls[Latest(calls)].t \in Int
  PROVE  Reread(FusionLine(calls)).type = "F"
<1> DEFINE line == FusionLine(calls)
           f == line.f
           names == {FusionRecord[i].name : i \in DOMAIN FusionRecord}
           at(name) == IF name = "timestamp_ms" THEN calls[Latest(calls)].t ELSE 0
<1>1. line = [type |-> "F", f |-> [name \in names |-> <<Number(at(name))>>]]
  BY DEF FusionLine, Latest
<1> HIDE DEF line
<1>2. line.type = "F" /\ f = [name \in names |-> f[name]]
      /\ line = [type |-> line.type, f |-> line.f]
      /\ \A name \in names : f[name] = <<Number(at(name))>>
  BY <1>1
<1> HIDE DEF f
<1>3. FusionRecord \in Seq(SchemaFields) /\ Len(FusionRecord) = 17 /\ DOMAIN FusionRecord = 1 .. 17
  <2>1. FusionRecord \in Seq(SchemaFields) /\ Len(FusionRecord) = 17
    BY FusionFields
  <2> QED BY <2>1
<1>4. \A i \in 1 .. 17 : FusionRecord[i].type \in {"int", "float"}
  BY FusionFields
<1>5. ASSUME NEW i \in 1 .. 17
      PROVE  /\ f[FusionRecord[i].name] \in Seq(FieldValues(FusionRecord[i].type))
             /\ Len(f[FusionRecord[i].name]) = Width(FusionRecord[i])
  <2>1. FusionRecord[i].name \in names
    BY <1>3
  <2>2. at(FusionRecord[i].name) \in Int
    OBVIOUS
  <2> HIDE DEF names, at
  <2>3. PICK n \in Int : f[FusionRecord[i].name] = <<Number(n)>>
    BY <1>2, <2>1, <2>2
  <2>4. Number(n) \in FieldValues(FusionRecord[i].type)
    BY <1>4, WholeNumbers DEF FieldValues, Numbers
  <2>5. PICK a \in FieldValues(FusionRecord[i].type) : a = Number(n)
    BY <2>4
  <2>6. <<a>> \in Seq(FieldValues(FusionRecord[i].type)) /\ Len(<<a>>) = 1
    OBVIOUS
  <2>7. Width(FusionRecord[i]) = 1
    BY <1>4 DEF Width
  <2> QED BY <2>3, <2>5, <2>6, <2>7
<1>6. Holds(f, FusionRecord)
  <2>1. f = [name \in NamesOf(FusionRecord) |-> f[name]]
    BY <1>2 DEF NamesOf
  <2> QED BY <1>3, <1>5, <2>1 DEF Holds
<1>7. IsRecord(line)
  <2>1. Schema["F"] = FusionRecord
    BY DEF Schema
  <2> QED BY <1>2, <1>6, <2>1 DEF IsRecord, f
<1>9. ASSUME NEW i \in 1 .. Len(FusionRecord), NEW c \in 1 .. Width(FusionRecord[i])
      PROVE  f[FusionRecord[i].name][c] \in Numbers
  <2>1. i \in 1 .. 17 /\ FusionRecord[i].name \in names
    BY <1>3
  <2>2. at(FusionRecord[i].name) \in Int
    OBVIOUS
  <2>3. Width(FusionRecord[i]) = 1
    BY <1>4, <2>1 DEF Width
  <2> HIDE DEF names, at
  <2>4. PICK n \in Int : f[FusionRecord[i].name] = <<Number(n)>>
    BY <1>2, <2>1, <2>2
  <2>5. c = 1 /\ Number(n) \in Numbers
    BY <2>3 DEF Numbers
  <2> QED BY <2>4, <2>5
<1>8. Reread(line) = line
  <2>1. Schema["F"] = FusionRecord
    BY DEF Schema
  <2>2. ParseLine(FormatRecord(line)) = line
    BY <1>2, <1>7, <1>9, <2>1, WholeReadBack DEF f
  <2> QED BY <1>2, <2>2 DEF Reread, Written
<1> QED
  BY <1>2, <1>8 DEF line

-----------------------------------------------------------------------------
(* SimSession: a replay of lines, one after the other. *)

\* What ReplaySource and its filter have after some lines.
Replays == [calls : Seq(FilterCalls), gnss : FixSeqs, t : Int]
FreshReader == [calls |-> <<>>, gnss |-> <<>>, t |-> NoTime]

\* A line more.
ReadOn(s, line) ==
  LET record == Reread(line)
  IN  CASE record.type = "I" ->
             [calls |-> Feed(s.calls, [imu |-> ImuOf(record), gnss |-> s.gnss]),
              gnss |-> <<>>, t |-> Stamp(record)]
        [] record.type = "G" -> [s EXCEPT !.gnss = <<FixOf(record)>>]
        [] OTHER -> s

\* h[i] is what they have after i lines, and s after all.
IsReplay(h, lines, s) ==
  /\ h \in [0 .. Len(lines) -> Replays]
  /\ h[0] = FreshReader /\ h[Len(lines)] = s
  /\ \A i \in 1 .. Len(lines) : h[i] = ReadOn(h[i - 1], lines[i])
  /\ \A i \in 0 .. Len(lines) : Before(h[i].calls, s.calls)
ReplaysTo(lines, s) == \E h : IsReplay(h, lines, s)

\* Of a sample the calls hold the time.
LEMMA FeedByTime ==
  ASSUME NEW calls, NEW imu, NEW other, imu.t = other.t, NEW gnss
  PROVE  Feed(calls, [imu |-> imu, gnss |-> gnss]) = Feed(calls, [imu |-> other, gnss |-> gnss])
<1>1. Predict(imu) = Predict(other)
  BY DEF Predict
<1> QED
  BY <1>1 DEF Feed

\* Before is transitive.
LEMMA BeforeOn ==
  ASSUME NEW r \in Seq(FilterCalls), NEW s \in Seq(FilterCalls), NEW t \in Seq(FilterCalls),
         Before(r, s), Before(s, t)
  PROVE  Before(r, t) /\ Before(s, s)
<1>1. Updates(r) \in Seq(FilterCalls) /\ Updates(s) \in Seq(FilterCalls)
      /\ Updates(t) \in Seq(FilterCalls)
  BY UpdatesType
<1>2. IsPrefix(r, t) /\ IsPrefix(s, s)
  BY PrefixOf DEF Before
<1>3. IsPrefix(Updates(r), Updates(t)) /\ IsPrefix(Updates(s), Updates(s))
  BY <1>1, PrefixOf DEF Before
<1> QED
  BY <1>2, <1>3 DEF Before

\* A sample's line feeds the filter, with the fix that waits.
LEMMA ReadImu ==
  ASSUME NEW s \in Replays, NEW imu \in Imus
  PROVE  LET next == [calls |-> Feed(s.calls, [imu |-> imu, gnss |-> s.gnss]),
                      gnss |-> <<>>, t |-> imu.t]
         IN  ReadOn(s, ImuLine(imu)) = next /\ next \in Replays /\ Before(s.calls, next.calls)
<1> DEFINE line == ImuLine(imu)
           next == [calls |-> Feed(s.calls, [imu |-> imu, gnss |-> s.gnss]),
                    gnss |-> <<>>, t |-> imu.t]
           tick == [imu |-> imu, gnss |-> s.gnss]
<1>1. Reread(line) = line /\ line.type = "I" /\ Stamp(line) = imu.t
  BY ImuReading
<1> HIDE DEF line
<1>2. ImuOf(line).t = imu.t
  BY <1>1 DEF ImuOf
<1>3. Feed(s.calls, [imu |-> ImuOf(line), gnss |-> s.gnss]) = Feed(s.calls, tick)
  BY <1>2, FeedByTime
<1>4. ReadOn(s, line) = next
  BY <1>1, <1>3 DEF ReadOn
<1>5. s.calls \in Seq(FilterCalls) /\ s.gnss \in FixSeqs /\ imu.t \in Int
  BY DEF Replays, Imus
<1>6. Feed(s.calls, tick) \in Seq(FilterCalls) /\ Before(s.calls, Feed(s.calls, tick))
  BY <1>5, FeedUpdates
<1>7. <<>> \in FixSeqs
  BY DEF FixSeqs
<1> QED
  BY <1>4, <1>5, <1>6, <1>7 DEF Replays, line

\* A fix's line makes the fix wait.
LEMMA ReadGnss ==
  ASSUME NEW s \in Replays, NEW fix \in Fixes
  PROVE  LET next == [s EXCEPT !.gnss = <<fix>>]
         IN  ReadOn(s, GnssLine(fix)) = next /\ next \in Replays /\ Before(s.calls, next.calls)
<1> DEFINE line == GnssLine(fix)
           next == [s EXCEPT !.gnss = <<fix>>]
<1>1. Reread(line) = line /\ line.type = "G" /\ FixOf(line) = fix
  BY GnssReading
<1> HIDE DEF line
<1>2. ReadOn(s, line) = next
  BY <1>1 DEF ReadOn
<1>3. s.calls \in Seq(FilterCalls) /\ <<fix>> \in FixSeqs /\ next.calls = s.calls
  BY DEF Replays, FixSeqs
<1>4. next \in Replays
  BY <1>3 DEF Replays
<1>5. Before(s.calls, s.calls)
  BY <1>3, UpdatesType, PrefixOf DEF Before
<1> QED
  BY <1>2, <1>3, <1>4, <1>5 DEF line

\* Nothing else does anything.
LEMMA ReadOther ==
  ASSUME NEW s \in Replays, NEW line, Reread(line).type \notin {"I", "G"}
  PROVE  ReadOn(s, line) = s /\ Before(s.calls, s.calls)
<1>1. s.calls \in Seq(FilterCalls)
  BY DEF Replays
<1>2. Before(s.calls, s.calls)
  BY <1>1, UpdatesType, PrefixOf DEF Before
<1> QED
  BY <1>2 DEF ReadOn

\* One more line to replay.
LEMMA ReplayOn ==
  ASSUME NEW S, NEW lines \in Seq(S), NEW line \in S, NEW s \in Replays, NEW next \in Replays,
         ReplaysTo(lines, s), next = ReadOn(s, line), Before(s.calls, next.calls)
  PROVE  ReplaysTo(Append(lines, line), next)
<1> DEFINE n == Len(lines)
           longer == Append(lines, line)
<1>1. PICK h : IsReplay(h, lines, s)
  BY DEF ReplaysTo
<1> DEFINE g == [i \in 0 .. n + 1 |-> IF i = n + 1 THEN next ELSE h[i]]
<1>2. /\ n \in Nat /\ Len(longer) = n + 1 /\ longer[n + 1] = line
      /\ \A i \in 1 .. n : longer[i] = lines[i]
  OBVIOUS
<1>3. /\ h \in [0 .. n -> Replays] /\ h[0] = FreshReader /\ h[n] = s
      /\ \A i \in 1 .. n : h[i] = ReadOn(h[i - 1], lines[i])
      /\ \A i \in 0 .. n : Before(h[i].calls, s.calls)
  BY <1>1 DEF IsReplay
<1> HIDE DEF n, longer
<1>4. g \in [0 .. n + 1 -> Replays] /\ g[n + 1] = next /\ \A i \in 0 .. n : g[i] = h[i]
  BY <1>2, <1>3
<1> HIDE DEF g
<1>5. g[0] = FreshReader
  BY <1>2, <1>3, <1>4
<1>6. ASSUME NEW i \in 1 .. n + 1 PROVE g[i] = ReadOn(g[i - 1], longer[i])
  <2>1. CASE i = n + 1
    <3>1. i - 1 = n /\ n \in 0 .. n
      BY <1>2, <2>1
    <3>2. g[i - 1] = s /\ longer[i] = line /\ g[i] = next
      BY <1>2, <1>3, <1>4, <2>1, <3>1
    <3> QED BY <3>2
  <2>2. CASE i \in 1 .. n
    <3>1. g[i] = h[i] /\ g[i - 1] = h[i - 1] /\ longer[i] = lines[i]
      BY <1>2, <1>4, <2>2
    <3> QED BY <1>3, <2>2, <3>1
  <2> QED BY <1>2, <2>1, <2>2
<1>7. ASSUME NEW i \in 0 .. n + 1 PROVE Before(g[i].calls, next.calls)
  <2>1. s.calls \in Seq(FilterCalls) /\ next.calls \in Seq(FilterCalls)
    BY DEF Replays
  <2>2. CASE i = n + 1
    <3>1. Before(next.calls, next.calls)
      BY <2>1, UpdatesType, PrefixOf DEF Before
    <3> QED BY <1>4, <2>2, <3>1
  <2>3. CASE i \in 0 .. n
    <3>1. g[i] = h[i] /\ h[i] \in Replays /\ Before(h[i].calls, s.calls)
      BY <1>3, <1>4, <2>3
    <3>2. h[i].calls \in Seq(FilterCalls)
      BY <3>1 DEF Replays
    <3> QED BY <2>1, <3>1, <3>2, BeforeOn
  <2> QED BY <1>2, <2>2, <2>3
<1>8. IsReplay(g, longer, next)
  BY <1>2, <1>4, <1>5, <1>6, <1>7 DEF IsReplay
<1> QED
  BY <1>8 DEF ReplaysTo, longer

\* The lines of one tick.
Exported(tick, calls, emits) ==
  TickLines([i \in DOMAIN tick.gnss |-> GnssLine(tick.gnss[i])],
            IF emits THEN <<FusionLine(calls), ImuLine(tick.imu)>> ELSE <<>>)

\* What they do to a replay.
Waiting(s, tick) == IF tick.gnss = <<>> THEN s ELSE [s EXCEPT !.gnss = tick.gnss]
Replayed(s, tick, emits) ==
  LET w == Waiting(s, tick)
  IN  IF emits THEN [calls |-> Feed(w.calls, [imu |-> tick.imu, gnss |-> w.gnss]),
                     gnss |-> <<>>, t |-> tick.imu.t]
      ELSE w

\* The lines of a tick are a sequence.
LEMMA ExportedSeq ==
  ASSUME NEW tick, tick.gnss \in FixSeqs, NEW calls, NEW emits \in BOOLEAN
  PROVE  \E U : Exported(tick, calls, emits) \in Seq(U)
<1> DEFINE fixLines == [i \in DOMAIN tick.gnss |-> GnssLine(tick.gnss[i])]
<1>1. PICK U : fixLines \in Seq(U)
  <2>1. CASE tick.gnss = <<>>
    <3>1. fixLines = <<>>
      BY <2>1
    <3>2. <<>> \in Seq({})
      OBVIOUS
    <3> QED BY <3>1, <3>2
  <2>2. CASE \E fix \in Fixes : tick.gnss = <<fix>>
    <3>1. PICK fix \in Fixes : tick.gnss = <<fix>>
      BY <2>2
    <3>2. PICK g : g = GnssLine(fix)
      OBVIOUS
    <3>3. fixLines = <<g>> /\ <<g>> \in Seq({g})
      BY <3>1, <3>2
    <3> QED BY <3>3
  <2> QED BY <2>1, <2>2 DEF FixSeqs
<1>2. PICK f, i : f = FusionLine(calls) /\ i = ImuLine(tick.imu)
  OBVIOUS
<1>3. Exported(tick, calls, emits) = fixLines \o IF emits THEN <<f, i>> ELSE <<>>
  BY <1>2 DEF Exported, TickLines
<1> HIDE DEF fixLines
<1>4. fixLines \in Seq(U \cup {f, i}) /\ <<f, i>> \in Seq(U \cup {f, i}) /\ <<>> \in Seq(U \cup {f, i})
  BY <1>1
<1>5. Exported(tick, calls, emits) \in Seq(U \cup {f, i})
  <2> DEFINE V == U \cup {f, i}
  <2> HIDE DEF V
  <2>1. fixLines \in Seq(V) /\ <<f, i>> \in Seq(V) /\ <<>> \in Seq(V)
    BY <1>4 DEF V
  <2>2. PICK rest : rest = IF emits THEN <<f, i>> ELSE <<>>
    OBVIOUS
  <2>3. rest \in Seq(V)
    BY <2>1, <2>2
  <2>4. fixLines \o rest \in Seq(V)
    BY <2>1, <2>3
  <2> QED BY <1>3, <2>2, <2>4 DEF V
<1> QED
  BY <1>5

\* The lines of a tick do to a replay what Replayed says.
LEMMA TickReplayed ==
  ASSUME NEW S, NEW lines \in Seq(S), NEW s \in Replays, ReplaysTo(lines, s),
         NEW tick, tick.imu \in Imus, tick.gnss \in FixSeqs,
         NEW calls, calls[Latest(calls)].t \in Int, NEW emits \in BOOLEAN
  PROVE  /\ Replayed(s, tick, emits) \in Replays
         /\ ReplaysTo(lines \o Exported(tick, calls, emits), Replayed(s, tick, emits))
<1> DEFINE fixLines == [i \in DOMAIN tick.gnss |-> GnssLine(tick.gnss[i])]
           F == FusionLine(calls)
           I == ImuLine(tick.imu)
           w == Waiting(s, tick)
           more == lines \o fixLines
<1>1. /\ w \in Replays /\ ReplaysTo(more, w)
      /\ \E T : more \in Seq(T) /\ lines \in Seq(T) /\ fixLines \in Seq(T)
  <2>1. CASE tick.gnss = <<>>
    <3>1. fixLines = <<>> /\ w = s
      BY <2>1 DEF Waiting
    <3>2. <<>> \in Seq(S) /\ lines \o <<>> = lines
      OBVIOUS
    <3> HIDE DEF fixLines, w
    <3> QED BY <3>1, <3>2
  <2>2. CASE \E fix \in Fixes : tick.gnss = <<fix>>
    <3>1. PICK fix \in Fixes : tick.gnss = <<fix>>
      BY <2>2
    <3>2. PICK g : g = GnssLine(fix)
      OBVIOUS
    <3>3. fixLines = <<g>>
      BY <3>1, <3>2
    <3>4. lines \in Seq(S \cup {g}) /\ g \in S \cup {g} /\ <<g>> \in Seq(S \cup {g})
          /\ lines \o <<g>> = Append(lines, g) /\ Append(lines, g) \in Seq(S \cup {g})
      OBVIOUS
    <3>5. w = [s EXCEPT !.gnss = <<fix>>]
      BY <3>1 DEF Waiting
    <3>6. ReadOn(s, g) = w /\ w \in Replays /\ Before(s.calls, w.calls)
      BY <3>2, <3>5, ReadGnss
    <3> HIDE DEF w, fixLines
    <3>7. ReplaysTo(Append(lines, g), w)
      BY <3>4, <3>6, ReplayOn
    <3> QED BY <3>3, <3>4, <3>6, <3>7
  <2> QED BY <2>1, <2>2 DEF FixSeqs
<1>2. PICK T : more \in Seq(T) /\ lines \in Seq(T) /\ fixLines \in Seq(T)
  BY <1>1
<1>3. Exported(tick, calls, emits) = fixLines \o IF emits THEN <<F, I>> ELSE <<>>
  BY DEF Exported, TickLines
<1> HIDE DEF fixLines, F, I, w
<1>4. CASE ~emits
  <2>1. Replayed(s, tick, emits) = w
    BY <1>4 DEF Replayed, w
  <2>2. Exported(tick, calls, emits) = fixLines
    BY <1>2, <1>3, <1>4
  <2> QED BY <1>1, <2>1, <2>2
<1>5. CASE emits
  <2> DEFINE next == [calls |-> Feed(w.calls, [imu |-> tick.imu, gnss |-> w.gnss]),
                      gnss |-> <<>>, t |-> tick.imu.t]
             T2 == T \cup {F, I}
  <2>1. Replayed(s, tick, emits) = next
    BY <1>5 DEF Replayed, w
  <2>2. /\ more \in Seq(T2) /\ F \in T2 /\ I \in T2 /\ Append(more, F) \in Seq(T2)
        /\ lines \in Seq(T2) /\ fixLines \in Seq(T2)
    BY <1>2
  <2> HIDE DEF T2
  <2>3. lines \o (fixLines \o <<F, I>>) = Append(Append(more, F), I)
    BY <2>2
  <2>4. ReadOn(w, F) = w /\ Before(w.calls, w.calls)
    <3>1. Reread(F).type = "F"
      BY FusionReading DEF F
    <3> QED BY <1>1, <3>1, ReadOther
  <2>5. ReplaysTo(Append(more, F), w)
    <3> HIDE DEF more
    <3> QED BY <1>1, <2>2, <2>4, ReplayOn
  <2>6. ReadOn(w, I) = next /\ next \in Replays /\ Before(w.calls, next.calls)
    BY <1>1, ReadImu DEF I
  <2> HIDE DEF next, more
  <2>7. ReplaysTo(Append(Append(more, F), I), next)
    BY <1>1, <2>2, <2>5, <2>6, ReplayOn
  <2>8. Exported(tick, calls, emits) = fixLines \o <<F, I>>
    BY <1>3, <1>5
  <2> QED BY <2>1, <2>3, <2>6, <2>7, <2>8
<1> QED
  BY <1>4, <1>5

-----------------------------------------------------------------------------
(* SimSession: what the source hands the exporter. *)

\* A vector turned is a vector.
LEMMA RotateType ==
  ASSUME NEW q \in Quats, Norm2(q) > 0, NEW v \in Vecs
  PROVE  Rotate(q, v) \in Vecs
<1>1. Norm2(q) \in Nat \ {0}
  BY DEF Quats, Norm2
<1>2. /\ q.w \in Int /\ q.x \in Int /\ q.y \in Int /\ q.z \in Int
      /\ v.x \in Int /\ v.y \in Int /\ v.z \in Int
  BY DEF Quats, Vecs
<1> DEFINE tx == 2 * (q.y * v.z - q.z * v.y)
           ty == 2 * (q.z * v.x - q.x * v.z)
           tz == 2 * (q.x * v.y - q.y * v.x)
<1>3. tx \in Int /\ ty \in Int /\ tz \in Int
  BY <1>2
<1> HIDE DEF tx, ty, tz
<1>4. PICK n \in Nat \ {0} : n = Norm2(q)
  BY <1>1
<1>5. /\ n * v.x + q.w * tx + (q.y * tz - q.z * ty) \in Int
      /\ n * v.y + q.w * ty + (q.z * tx - q.x * tz) \in Int
      /\ n * v.z + q.w * tz + (q.x * ty - q.y * tx) \in Int
  BY <1>2, <1>3
<1>6. \A a \in Int : a \div n \in Int
  OBVIOUS
<1>7. Rotate(q, v) = Vec3((n * v.x + q.w * tx + (q.y * tz - q.z * ty)) \div n,
                          (n * v.y + q.w * ty + (q.z * tx - q.x * tz)) \div n,
                          (n * v.z + q.w * tz + (q.x * ty - q.y * tx)) \div n)
  BY <1>4 DEF Rotate, tx, ty, tz
<1> QED
  BY <1>5, <1>6, <1>7 DEF Vec3, Vecs

\* The sum of two vectors is a vector.
LEMMA VecAddType == ASSUME NEW a \in Vecs, NEW b \in Vecs PROVE VecAdd(a, b) \in Vecs
BY DEF VecAdd, Vec3, Vecs

\* What a tick of a source without a mount brings.
TickTyped(tick, t, due) ==
  /\ tick.imu \in Imus /\ tick.imu.t = t
  /\ IF due THEN \E fix \in Fixes : tick.gnss = <<fix>> /\ fix.t = t ELSE tick.gnss = <<>>

\* The sample of a tick, whatever noise there is.
LEMMA SampleTyped ==
  ASSUME conf \in SimConfigs, src.t \in Nat, HasTick, cfg.imuMount = Identity, NEW draw \in Int,
         NEW walk \in Vecs
  PROVE  TickOf(draw, walk).imu \in Imus /\ TickOf(draw, walk).imu.t = src.t
<1> DEFINE boat == BoatOrientation(conf.scenario, src.t)
           rate == SampleHeading(conf.scenario.heading, src.t).rate
           imu == TickOf(draw, walk).imu
           mounted == MountImu(boat, Identity)
           disturbed == MagDisturb(conf.noise, draw, mounted)
           seen == WorldToBody(boat, Vec3(0, 0, -rate))
<1>1. boat \in Quats /\ Norm2(boat) > 0
  <2>1. src.t \in 0 .. conf.duration
    BY SimAssumption DEF HasTick
  <2> QED BY <2>1, BoatQuats
<1>2. rate \in Int /\ conf.noise.bias \in Vecs
  BY ProfileOf, HeadingType, SimAssumption DEF Vecs
<1>3. seen \in Vecs
  <2>1. Conjugate(boat) \in Quats /\ Norm2(Conjugate(boat)) = Norm2(boat)
    <3>1. PICK w \in Int, x \in Int, y \in Int, z \in Int : boat = Quaternion(w, x, y, z)
      BY <1>1 DEF Quats, Quaternion
    <3> QED BY <3>1 DEF Conjugate, Quaternion, Quats, Norm2
  <2>2. Vec3(0, 0, -rate) \in Vecs
    BY <1>2 DEF Vec3, Vecs
  <2> HIDE DEF boat, rate
  <2> QED BY <1>1, <2>1, <2>2, RotateType DEF WorldToBody
<1>4. White(conf.noise, draw) \in Vecs
  BY DEF White, Vec3, ZeroVec, Vecs
<1>5. /\ imu.t = src.t
      /\ imu.gyro = VecAdd(VecAdd(seen, conf.noise.bias), VecAdd(walk, White(conf.noise, draw)))
      /\ imu.orientation = Perturb(conf.noise, draw, disturbed)
      /\ DOMAIN imu = {"t", "orientation", "gyro"}
      /\ imu = [t |-> imu.t, orientation |-> imu.orientation, gyro |-> imu.gyro]
  BY DEF TickOf, CorruptImu, CleanImu
<1> HIDE DEF imu, seen
<1>6. imu.gyro \in Vecs
  BY <1>2, <1>3, <1>4, <1>5, VecAddType
<1>7. \A axis \in {AxisX, AxisZ} : FromAxisAngle(axis, draw) \in Quats
  BY AxisQuats
<1>8. mounted \in Quats
  <2>1. Conjugate(Identity) \in Quats
    BY DEF Conjugate, Identity, Quaternion, Quats
  <2> HIDE DEF boat
  <2> QED BY <1>1, <2>1, MultiplyType DEF MountImu
<1> HIDE DEF mounted
<1>9. disturbed \in Quats
  BY <1>7, <1>8, MultiplyType DEF MagDisturb
<1> HIDE DEF disturbed
<1>10. Perturb(conf.noise, draw, disturbed) \in Quats
  BY <1>7, <1>9, MultiplyType DEF Perturb
<1> QED
  BY <1>5, <1>6, <1>10 DEF Imus, imu

\* The fix of a tick, whatever noise there is.
LEMMA FixTyped ==
  ASSUME conf \in SimConfigs, src.t \in Nat, cfg.baseline \in Int, NEW draw \in Int
  PROVE  LET fix == Fix(conf.scenario, conf.noise, draw, cfg.baseline, src.t)
         IN  fix \in Fixes /\ fix.t = src.t
<1> DEFINE fix == Fix(conf.scenario, conf.noise, draw, cfg.baseline, src.t)
           deg == SampleHeading(conf.scenario.heading, src.t).deg
           along == deg + cfg.baseline
           dropped == Dropped(conf.noise, draw, src.t)
           noisy == conf.noise.effect = "gnss" /\ ~dropped
           a == IF noisy THEN along + draw ELSE along
<1>1. deg \in Int
  BY ProfileOf, HeadingType
<1>2. a - cfg.baseline \in Int
  BY <1>1
<1>3. \A n \in Int : Wrap180(n) \in Int
  <2>1. \A n \in Int : RoundHalfEven(n, 360) \in Int
    BY DEF RoundHalfEven
  <2> QED BY <2>1 DEF Wrap180, Turn
<1>4. dropped \in BOOLEAN
  BY DEF Dropped
<1>5. fix = [t |-> src.t, heading |-> Wrap180(a - cfg.baseline),
             variance |-> IF noisy THEN conf.noise.gnssStd * conf.noise.gnssStd ELSE 0,
             valid |-> ~dropped]
  BY DEF Fix, GnssSampleFromAttitude
<1>6. (IF noisy THEN conf.noise.gnssStd * conf.noise.gnssStd ELSE 0) \in {n * n : n \in Nat}
  <2>1. conf.noise.gnssStd \in Nat /\ 0 = 0 * 0 /\ 0 \in Nat
    BY SimAssumption
  <2> QED BY <2>1
<1> HIDE DEF a, dropped, noisy
<1> QED
  BY <1>2, <1>3, <1>4, <1>5, <1>6 DEF Fixes

\* The next tick of an unmounted source.
LEMMA TickTypes ==
  ASSUME conf \in SimConfigs, src.t \in Nat, HasTick, cfg.imuMount = Identity,
         cfg.baseline \in Int, src.walk \in Vecs, NEW draw \in Draws(conf.noise)
  PROVE  LET walk == Walk(conf.noise, draw, src.walk)
         IN  walk \in Vecs /\ TickTyped(TickOf(draw, walk), src.t, src.t >= src.nextGnss)
<1> DEFINE walk == Walk(conf.noise, draw, src.walk)
<1>1. draw \in Int
  BY DEF Draws
<1>2. walk \in Vecs
  BY <1>1, VecAddType DEF Walk, Vec3, Vecs
<1> HIDE DEF walk
<1>3. TickOf(draw, walk).imu \in Imus /\ TickOf(draw, walk).imu.t = src.t
  BY <1>1, <1>2, SampleTyped
<1>4. PICK fix \in Fixes : /\ fix = Fix(conf.scenario, conf.noise, draw, cfg.baseline, src.t)
                           /\ fix.t = src.t
  BY <1>1, FixTyped
<1>5. TickOf(draw, walk).gnss = IF src.t >= src.nextGnss THEN <<fix>> ELSE <<>>
  BY <1>4 DEF TickOf
<1> QED
  BY <1>2, <1>3, <1>4, <1>5 DEF TickTyped, walk

-----------------------------------------------------------------------------
(* SimSession: what a source without noise says of the heading. *)

\* A number that leaves no remainder is a multiple.
LEMMA Undivided ==
  ASSUME NEW a \in Int, NEW n \in Nat \ {0}, a % n = 0 PROVE \E k \in Int : a = n * k
<1>1. a \div n \in Int /\ a = n * (a \div n) + (a % n)
  OBVIOUS
<1>2. a = n * (a \div n)
  BY <1>1
<1> QED
  BY <1>1, <1>2

\* At every sample a boat heads along a quarter turn.
LEMMA HeadsAlongQuarters ==
  ASSUME NEW c \in SimConfigs, NEW t \in Nat
  PROVE  \E k \in Int : SampleHeading(c.scenario.heading, t).deg = 90 * k
<1> DEFINE profile == c.scenario.heading
           legs == profile.legs
<1>1. /\ profile.heading0 \in Int /\ profile.rate \in Int /\ legs \in LegSeqs
      /\ profile.kind \in {"turn", "steps", "static"}
  BY ProfileOf DEF Profiles
<1>2. /\ profile.heading0 % 90 = 0 /\ profile.rate % 90 = 0
      /\ \A i \in DOMAIN legs : legs[i].rate % 90 = 0
  BY QuarterAssumption
<1>3. PICK a \in Int, b \in Int : profile.heading0 = 90 * a /\ profile.rate = 90 * b
  <2>1. 90 \in Nat \ {0}
    OBVIOUS
  <2> HIDE DEF profile
  <2>2. PICK a \in Int : profile.heading0 = 90 * a
    BY <1>1, <1>2, <2>1, Undivided
  <2>3. PICK b \in Int : profile.rate = 90 * b
    BY <1>1, <1>2, <2>1, Undivided
  <2> QED BY <2>2, <2>3
<1>4. CASE profile.kind = "turn"
  <2>1. profile.heading0 + profile.rate * t = 90 * (a + b * t) /\ a + b * t \in Int
    BY <1>3
  <2> QED BY <1>4, <2>1 DEF SampleHeading
<1>5. CASE profile.kind = "steps"
  <2> DEFINE f == Sailing(legs, t)
  <2>1. Summable(f, DOMAIN legs)
    BY <1>1, SailingSums
  <2>2. ASSUME NEW i \in DOMAIN legs PROVE \E k \in Int : f[i] = 90 * k
    <3>1. i \in 1 .. Len(legs) /\ legs[i].rate \in Int
      BY <1>1, LegsAre
    <3>2. PICK s \in Int : s = Sailed(legs, i, t)
      BY <1>1, <3>1, SailedType
    <3>3. PICK r \in Int : legs[i].rate = 90 * r
      <4>1. 90 \in Nat \ {0} /\ legs[i].rate % 90 = 0
        BY <1>2
      <4> HIDE DEF legs
      <4> QED BY <3>1, <4>1, Undivided
    <3>4. f[i] = 90 * (r * s) /\ r * s \in Int
      BY <3>2, <3>3 DEF Sailing
    <3> QED BY <3>4
  <2> HIDE DEF f
  <2>3. PICK k \in Int : Total(f, DOMAIN legs) = 90 * k
    <3>1. PICK T : T = DOMAIN legs
      OBVIOUS
    <3>0. PICK m \in Int : m = 90
      OBVIOUS
    <3> HIDE DEF legs
    <3>2. Summable(f, T) /\ \A x \in T : \E k \in Int : f[x] = m * k
      BY <2>1, <2>2, <3>0, <3>1
    <3>3. \E k \in Int : Total(f, T) = m * k
      BY <3>2, TotalOfMultiples
    <3> QED BY <3>0, <3>1, <3>3
  <2>4. StepHeadingAt(legs, profile.heading0, t) = profile.heading0 + Total(f, DOMAIN legs)
    BY HeadingTotals DEF f
  <2>5. StepHeadingAt(legs, profile.heading0, t) = 90 * (a + k) /\ a + k \in Int
    BY <1>3, <2>3, <2>4
  <2> QED BY <1>5, <2>5 DEF SampleHeading
<1>6. CASE profile.kind = "static"
  BY <1>3, <1>6 DEF SampleHeading
<1> QED
  BY <1>1, <1>4, <1>5, <1>6

\* An eighth of a turn, its double as a yaw, and how many turns are between that
\* and the quarters.
IsEighth(i, a, b, y, turns) ==
  /\ a \in {-1, 0, 1} /\ b \in {-1, 0, 1} /\ y \in {-90, 0, 90, 180} /\ turns \in Int
  /\ Eighths[i + 1] = <<a, b>> /\ y = Atan2(a * b, a * a - b * b)
  /\ y - 90 * i = Turn * turns

LEMMA EighthIs == ASSUME NEW i \in 0 .. 7 PROVE \E a, b, y, turns : IsEighth(i, a, b, y, turns)
<1>1. IsEighth(0, 1, 0, 0, 0) /\ IsEighth(1, 1, 1, 90, 0) /\ IsEighth(2, 0, 1, 180, 0)
      /\ IsEighth(3, -1, 1, -90, -1)
  BY DEF IsEighth, Eighths, Atan2, Turn
<1>2. IsEighth(4, -1, 0, 0, -1) /\ IsEighth(5, -1, -1, 90, -1) /\ IsEighth(6, 0, -1, 180, -1)
      /\ IsEighth(7, 1, -1, -90, -2)
  BY DEF IsEighth, Eighths, Atan2, Turn
<1>3. i = 0 \/ i = 1 \/ i = 2 \/ i = 3 \/ i = 4 \/ i = 5 \/ i = 6 \/ i = 7
  OBVIOUS
<1> QED
  BY <1>1, <1>2, <1>3

\* The yaw of a boat that heels by any angle and heads along k quarter turns.
LEMMA YawOfQuarters ==
  ASSUME NEW k \in Int, NEW c \in {-1, 0, 1}, NEW s \in {-1, 0, 1}, c # 0 \/ s # 0
  PROVE  LET q == Multiply(FromAxisAngle(AxisZ, 90 * k), Quaternion(c, s, 0, 0))
             yaw == QuaternionToEulerZyx(q).yaw
         IN  yaw \in {-90, 0, 90, 180} /\ SameDirection(yaw, 90 * k)
<1> DEFINE q == Multiply(FromAxisAngle(AxisZ, 90 * k), Quaternion(c, s, 0, 0))
           yaw == QuaternionToEulerZyx(q).yaw
<1>1. PICK m \in Int, i \in 0 .. 7 : k = 8 * m + i /\ ((90 * k) \div 90) % 8 = i
  OBVIOUS
<1>2. PICK a \in {-1, 0, 1}, b \in {-1, 0, 1}, y \in {-90, 0, 90, 180}, turns \in Int :
        /\ Eighths[i + 1] = <<a, b>> /\ y = Atan2(a * b, a * a - b * b)
        /\ y - 90 * i = Turn * turns
  BY EighthIs DEF IsEighth
<1>3. FromAxisAngle(AxisZ, 90 * k) = Quaternion(a, 0, 0, b)
  <2>1. FromAxisAngle(AxisZ, 90 * k) =
          LET half == Eighths[i + 1]
          IN  Quaternion(half[1], 0 * half[2], 0 * half[2], 1 * half[2])
    BY <1>1 DEF FromAxisAngle, AxisZ, Vec3
  <2>2. <<a, b>>[1] = a /\ <<a, b>>[2] = b /\ 0 * b = 0 /\ 1 * b = b
    OBVIOUS
  <2> QED BY <1>2, <2>1, <2>2
<1>4. q = Quaternion(a * c, a * s, b * s, b * c)
  <2>1. Multiply(Quaternion(a, 0, 0, b), Quaternion(c, s, 0, 0)) =
          Quaternion(a * c, a * s, b * s, b * c)
    BY DEF Multiply, Quaternion
  <2> QED BY <1>3, <2>1
<1>5. yaw = Atan2(a * b, a * a - b * b)
  <2>1. yaw = Atan2(2 * (q.w * q.z + q.x * q.y), Norm2(q) - 2 * (q.y * q.y + q.z * q.z))
    BY DEF QuaternionToEulerZyx
  <2>2. PICK n \in {1, 2} : n = c * c + s * s
    OBVIOUS
  <2> HIDE DEF yaw, q
  <2>3. q.w = a * c /\ q.x = a * s /\ q.y = b * s /\ q.z = b * c
    BY <1>4 DEF Quaternion
  <2>4. PICK u \in {-1, 0, 1}, v \in {-1, 0, 1} : u = a * b /\ v = a * a - b * b
    BY <1>2
  <2>5. /\ 2 * ((a * c) * (b * c) + (a * s) * (b * s)) = 2 * n * u
        /\ (a * c) * (a * c) + (a * s) * (a * s) + (b * s) * (b * s) + (b * c) * (b * c)
           - 2 * ((b * s) * (b * s) + (b * c) * (b * c)) = n * v
    BY <2>2, <2>4
  <2>6. yaw = Atan2(2 * n * u, n * v)
    BY <2>1, <2>3, <2>5 DEF Norm2
  <2>7. Atan2(2 * n * u, n * v) = Atan2(u, v)
    BY DEF Atan2
  <2> QED BY <2>4, <2>6, <2>7
<1> HIDE DEF yaw
<1>6. y - 90 * k = Turn * (turns - 2 * m) /\ turns - 2 * m \in Int
  BY <1>1, <1>2 DEF Turn
<1> QED
  BY <1>2, <1>5, <1>6 DEF SameDirection, yaw

\* The compass that an orientation gives is a direction, and points along deg.
Points(orientation, deg) ==
  LET compass == -QuaternionToEulerZyx(orientation).yaw
  IN  compass \in Int \ {NaN} /\ SameDirection(compass, deg)

\* A boat that does not pitch points along its heading, at every sample.
LEMMA BoatPoints ==
  ASSUME NEW c \in SimConfigs, c.scenario.attitude.axis # AxisY, NEW t \in Nat
  PROVE  Points(BoatOrientation(c.scenario, t), SampleHeading(c.scenario.heading, t).deg)
<1> DEFINE attitude == c.scenario.attitude
<1>1. PICK h \in Int : SampleHeading(c.scenario.heading, t).deg = 90 * h
  BY HeadsAlongQuarters
<1>2. attitude.axis \in {AxisX, ZeroVec} /\ attitude.angle \in Int
  BY SimAssumption
<1>3. PICK half \in HalfTurns : half = Eighths[((attitude.angle \div 90) % 8) + 1]
  BY <1>2, HalfAngle
<1>4. PICK a \in {-1, 0, 1}, b \in {-1, 0, 1} : half = <<a, b>> /\ (a # 0 \/ b # 0)
  BY DEF HalfTurns
<1>5. PICK x \in {-1, 0, 1}, y \in {-1, 0, 1} :
        (x # 0 \/ y # 0) /\ SampleAttitude(attitude) = Quaternion(x, y, 0, 0)
  <2>1. CASE attitude.axis = AxisX
    <3>1. SampleAttitude(attitude) = Quaternion(a, 1 * b, 0 * b, 0 * b)
      BY <1>3, <1>4, <2>1 DEF SampleAttitude, FromAxisAngle, AxisX, Vec3
    <3>2. 1 * b = b /\ 0 * b = 0
      OBVIOUS
    <3> QED BY <1>4, <3>1, <3>2
  <2>2. CASE attitude.axis = ZeroVec
    <3>1. attitude.angle = 0 /\ ((0 \div 90) % 8) + 1 = 1
      BY <2>2, SimAssumption
    <3>2. FromAxisAngle(ZeroVec, 0) = Quaternion(1, 0, 0, 0)
      BY <3>1 DEF FromAxisAngle, Eighths, ZeroVec, Vec3
    <3>3. SampleAttitude(attitude) = Quaternion(1, 0, 0, 0)
      BY <2>2, <3>1, <3>2 DEF SampleAttitude
    <3> QED BY <3>3
  <2> QED BY <1>2, <2>1, <2>2
<1>6. PICK k \in Int : k = -h /\ 90 * k = -(90 * h)
  BY <1>1
<1>7. BoatOrientation(c.scenario, t) = Multiply(FromAxisAngle(AxisZ, 90 * k), Quaternion(x, y, 0, 0))
  <2>1. BoatOrientation(c.scenario, t) =
          Multiply(FromAxisAngle(AxisZ, -SampleHeading(c.scenario.heading, t).deg),
                   SampleAttitude(attitude))
    BY DEF BoatOrientation
  <2> HIDE DEF attitude
  <2> QED BY <1>1, <1>5, <1>6, <2>1
<1>8. PICK yaw \in {-90, 0, 90, 180} :
        /\ yaw = QuaternionToEulerZyx(BoatOrientation(c.scenario, t)).yaw
        /\ SameDirection(yaw, 90 * k)
  <2>1. LET q == Multiply(FromAxisAngle(AxisZ, 90 * k), Quaternion(x, y, 0, 0))
            yaw == QuaternionToEulerZyx(q).yaw
        IN  yaw \in {-90, 0, 90, 180} /\ SameDirection(yaw, 90 * k)
    BY <1>5, YawOfQuarters
  <2> QED BY <1>7, <2>1
<1>9. PICK turns \in Int : yaw - 90 * k = Turn * turns
  BY <1>8 DEF SameDirection
<1>10. -yaw - 90 * h = Turn * (-turns) /\ -turns \in Int /\ -yaw \in Int \ {NaN}
  BY <1>6, <1>9 DEF Turn, NaN
<1>11. SameDirection(-yaw, 90 * h)
  BY <1>10 DEF SameDirection
<1> QED
  BY <1>1, <1>8, <1>10, <1>11 DEF Points

\* A run without noise, of a boat that does not pitch.
Clean == conf.noise.effect = "none" /\ conf.scenario.attitude.axis # AxisY

\* What a sample and a fix say of the heading, when there is no noise.
TellsTruth(tick) ==
  /\ Points(tick.imu.orientation, Truth(src.t).deg)
  /\ \A i \in DOMAIN tick.gnss : SameDirection(tick.gnss[i].heading, Truth(src.t).deg)

\* An unmounted source tells the truth.
LEMMA TickTells ==
  ASSUME conf \in SimConfigs, Clean, src.t \in Nat, HasTick, cfg.imuMount = Identity,
         cfg.baseline = 0, NEW draw, NEW walk
  PROVE  TellsTruth(TickOf(draw, walk))
<1> DEFINE boat == BoatOrientation(conf.scenario, src.t)
           fix == Fix(conf.scenario, conf.noise, draw, 0, src.t)
           tick == TickOf(draw, walk)
           deg == SampleHeading(conf.scenario.heading, src.t).deg
<1>1. boat \in Quats
  <2>1. src.t \in 0 .. conf.duration
    BY SimAssumption DEF HasTick
  <2> QED BY <2>1, BoatQuats
<1>2. tick.imu.orientation = Multiply(boat, Conjugate(Identity))
  BY DEF TickOf, CorruptImu, CleanImu, MountImu, Perturb, MagDisturb, Clean
<1>3. Multiply(boat, Conjugate(Identity)) = boat
  <2> HIDE DEF boat
  <2>1. PICK w \in Int, x \in Int, y \in Int, z \in Int :
          boat = [w |-> w, x |-> x, y |-> y, z |-> z]
    BY <1>1 DEF Quats
  <2> QED BY <2>1 DEF Multiply, Conjugate, Identity, Quaternion
<1>4. Points(tick.imu.orientation, deg)
  <2>1. Points(boat, deg)
    BY BoatPoints DEF Clean
  <2> HIDE DEF boat, tick
  <2> QED BY <1>2, <1>3, <2>1
<1>5. deg \in Int
  BY ProfileOf, HeadingType
<1>6. fix.heading = Wrap180((deg + 0) - 0)
  BY DEF Fix, GnssSampleFromAttitude, Clean
<1>7. SameDirection(fix.heading, deg)
  <2>1. (deg + 0) - 0 = deg
    BY <1>5
  <2> HIDE DEF fix, deg
  <2> QED BY <1>5, <1>6, <2>1, WrapKeepsDirection
<1>8. tick.gnss = IF src.t >= src.nextGnss THEN <<fix>> ELSE <<>>
  BY DEF TickOf
<1>9. ASSUME NEW i \in DOMAIN tick.gnss PROVE tick.gnss[i] = fix
  <2> HIDE DEF fix, tick
  <2> QED BY <1>8, <1>9
<1>10. Truth(src.t).deg = deg
  BY DEF Truth
<1> HIDE DEF fix, tick, deg
<1> QED
  BY <1>4, <1>7, <1>9, <1>10 DEF TellsTruth, tick

-----------------------------------------------------------------------------
(* SimSession: the exporter's schedule, and a replay that keeps up with it. *)

\* An integer is a multiple of n and a remainder.
LEMMA Divided ==
  ASSUME NEW a \in Int, NEW n \in Nat \ {0}
  PROVE  \E k \in Int, m \in 0 .. n - 1 : a \div n = k /\ a = n * k + m
<1> DEFINE k == a \div n
           m == a % n
<1>1. k \in Int /\ m \in 0 .. n - 1 /\ a = n * k + m
  OBVIOUS
<1> QED
  BY <1>1

\* A period is a whole number of ticks, and no shorter than the interval or a tick.
LEMMA PeriodIs ==
  ASSUME conf \in SimConfigs
  PROVE  /\ conf.imuDt \in Nat \ {0} /\ conf.gnssDt \in Nat \ {0} /\ conf.interval \in Nat \ {0}
         /\ Period \in Nat /\ OnSample(conf.imuDt, Period)
         /\ conf.interval <= Period /\ conf.imuDt <= Period
<1>1. conf.imuDt \in Nat \ {0} /\ conf.gnssDt \in Nat \ {0} /\ conf.interval \in Nat \ {0}
  BY SimAssumption
<1>2. PICK d \in Nat \ {0}, v \in Nat \ {0} : d = conf.imuDt /\ v = conf.interval
  BY <1>1
<1>3. PICK a \in Int : a = v + d - 1
  BY <1>2
<1>4. PICK k \in Int, m \in 0 .. d - 1 : k = a \div d /\ a = d * k + m
  BY Divided
<1>5. Period = k * d
  BY <1>2, <1>3, <1>4 DEF Period
<1>6. k >= 1
  <2> SUFFICES ASSUME k <= 0 PROVE FALSE
    BY <1>4
  <2>1. d * k <= 0
    BY <1>2, <1>4
  <2>2. PICK e \in Int : e <= 0 /\ a = e + m
    BY <1>4, <2>1
  <2>3. a <= d - 1 /\ a >= d
    BY <1>3, <2>2
  <2> QED BY <1>2, <1>3, <2>3
<1>7. k * d = d * k /\ d * k \in Int /\ d * k >= d
  <2>1. d * (k - 1) >= 0 /\ d * (k - 1) = d * k - d
    BY <1>2, <1>4, <1>6
  <2> QED BY <1>2, <1>4, <2>1
<1>8. d * k >= v
  <2>1. PICK e \in Int : e = d * k
    BY <1>7
  <2> QED BY <1>2, <1>3, <1>4, <2>1
<1>9. OnSample(d, k * d)
  BY <1>4, <1>7 DEF OnSample
<1> QED
  BY <1>1, <1>2, <1>5, <1>7, <1>8, <1>9

\* The source's tick and its two schedules.
ScheduleInv ==
  /\ src.t \in Nat /\ src.nextGnss \in Nat /\ src.walk \in Vecs
  /\ OnSample(conf.imuDt, src.t)
  /\ src.t = 0 => exp.next = NoTime /\ src.nextGnss = 0
  /\ src.t > 0 =>
       /\ exp.next \in Nat /\ exp.next <= src.t - conf.imuDt + conf.interval
       /\ conf.interval = conf.gnssDt => exp.next = src.nextGnss
  /\ conf.imuDt <= conf.gnssDt => src.nextGnss > src.t - conf.imuDt
  /\ exp.calls \in Seq(FilterCalls) /\ DOMAIN exp = {"calls", "next", "lines"}

\* The fix waits for a line that is printed before the fix after it comes.
Waits(fix, since) ==
  /\ fix.t \in Nat /\ OnSample(conf.imuDt, fix.t)
  /\ since < fix.t /\ fix.t < src.t /\ conf.interval # conf.gnssDt
  /\ src.t - conf.imuDt < exp.next /\ exp.next <= fix.t - conf.imuDt + Period
  /\ src.nextGnss > fix.t - conf.imuDt + Period

FedWithFixes == Period <= conf.gnssDt \/ conf.interval = conf.gnssDt

\* A replay of every line so far has fed its filter as the run's is fed, but for
\* a fix that waits.
KeepsUp(s) ==
  /\ s \in Replays /\ s.t < src.t
  /\ conf.interval <= conf.imuDt => s.calls = exp.calls /\ s.gnss = <<>>
  /\ FedWithFixes =>
       /\ Updates(exp.calls) = Updates(s.calls) \o Corrects(s.gnss)
       /\ \A fix \in Fixes : s.gnss = <<fix>> => Waits(fix, s.t)

\* No fix comes while one waits.
LEMMA NoneWhilePending ==
  ASSUME conf \in SimConfigs, ScheduleInv, NEW fix, NEW since, Waits(fix, since),
         src.t >= src.nextGnss
  PROVE  FALSE
<1> DEFINE d == conf.imuDt
<1>1. d \in Nat \ {0} /\ Period \in Nat /\ OnSample(d, Period)
  BY PeriodIs
<1>2. /\ src.t \in Nat /\ fix.t \in Nat /\ src.nextGnss \in Nat /\ src.t > 0
      /\ OnSample(d, src.t) /\ OnSample(d, fix.t)
      /\ exp.next \in Nat
      /\ src.t - d < exp.next /\ exp.next <= fix.t - d + Period
      /\ src.nextGnss > fix.t - d + Period
  BY DEF ScheduleInv, Waits
<1> HIDE DEF d
<1>3. PICK p \in Nat : p = Period
  BY <1>1
<1>4. PICK t1 \in Nat, t2 \in Nat : t1 = fix.t /\ t2 = src.t
  BY <1>2
<1>5. OnSample(d, t1 + p) /\ t1 + p \in Int
  <2>1. d \in Int /\ OnSample(d, t1) /\ OnSample(d, p)
    BY <1>1, <1>2, <1>3, <1>4
  <2> QED BY <2>1, OnSampleSums
<1>6. t2 < t1 + p
  BY <1>1, <1>2, <1>3, <1>4
<1>7. t2 + d <= t1 + p
  BY <1>1, <1>2, <1>4, <1>5, <1>6, NextSample
<1>8. t2 > t1 - d + p
  BY <1>1, <1>2, <1>3, <1>4
<1> QED
  BY <1>1, <1>7, <1>8

\* What a tick's lines make of a replay s, when the run's calls become fed.
FedOn(s, calls, tick, emits, next, fed) ==
  /\ fed \in Seq(FilterCalls)
  /\ next.gnss = IF emits THEN <<>> ELSE IF tick.gnss = <<>> THEN s.gnss ELSE tick.gnss
  /\ next.t = IF emits THEN tick.imu.t ELSE s.t
  /\ s.calls = calls /\ s.gnss = <<>> /\ emits => next.calls = fed
  /\ (s.gnss = <<>> \/ tick.gnss = <<>>)
     /\ Updates(calls) = Updates(s.calls) \o Corrects(s.gnss)
     => Updates(fed) = Updates(next.calls) \o Corrects(next.gnss)

\* A tick exported and replayed: the replay has fed its filter what the run has fed,
\* but for a fix that waits.
LEMMA TickFeeds ==
  ASSUME NEW s \in Replays, NEW calls \in Seq(FilterCalls), NEW tick, tick.imu \in Imus,
         tick.gnss \in FixSeqs, NEW emits \in BOOLEAN
  PROVE  FedOn(s, calls, tick, emits, Replayed(s, tick, emits), Feed(calls, tick))
<1> DEFINE next == Replayed(s, tick, emits)
           fed == Feed(calls, tick)
           got == IF tick.gnss = <<>> THEN s.gnss ELSE tick.gnss
           again == [imu |-> tick.imu, gnss |-> got]
<1>1. s.calls \in Seq(FilterCalls) /\ s.gnss \in FixSeqs /\ tick.imu.t \in Int
      /\ DOMAIN s = {"calls", "gnss", "t"}
  BY DEF Replays, Imus
<1>2. got \in FixSeqs
  BY <1>1
<1>3. fed \in Seq(FilterCalls) /\ Updates(fed) = Updates(calls) \o Corrects(tick.gnss)
  BY <1>1, FeedUpdates
<1>4. Updates(Feed(s.calls, again)) = Updates(s.calls) \o Corrects(got)
  <2>1. again.imu.t \in Int /\ again.gnss \in FixSeqs /\ again.gnss = got
    BY <1>1, <1>2
  <2> HIDE DEF again, got
  <2> QED BY <1>1, <2>1, FeedUpdates
<1>5. Waiting(s, tick).calls = s.calls /\ Waiting(s, tick).gnss = got /\ Waiting(s, tick).t = s.t
  BY <1>1 DEF Waiting
<1>6. /\ next.gnss = IF emits THEN <<>> ELSE got
      /\ next.t = IF emits THEN tick.imu.t ELSE s.t
      /\ next.calls = IF emits THEN Feed(s.calls, again) ELSE s.calls
  BY <1>5 DEF Replayed
<1>7. ASSUME s.calls = calls, s.gnss = <<>>, emits PROVE next.calls = fed
  <2>1. got = tick.gnss
    BY <1>7
  <2>2. again.imu = tick.imu /\ again.gnss = tick.gnss
    BY <2>1
  <2>3. Feed(s.calls, again) = Feed(calls, tick)
    BY <1>7, <2>2 DEF Feed
  <2> QED BY <1>6, <1>7, <2>3
<1>8. ASSUME s.gnss = <<>> \/ tick.gnss = <<>>, Updates(calls) = Updates(s.calls) \o Corrects(s.gnss)
      PROVE  Updates(fed) = Updates(next.calls) \o Corrects(next.gnss)
  <2>1. Updates(s.calls) \in Seq(FilterCalls) /\ Corrects(s.gnss) \in Seq(FilterCalls)
        /\ Corrects(tick.gnss) \in Seq(FilterCalls) /\ Corrects(got) \in Seq(FilterCalls)
        /\ Corrects(<<>>) = <<>>
    <3>1. <<>> \in FixSeqs
      BY DEF FixSeqs
    <3> HIDE DEF got
    <3> QED BY <1>1, <1>2, <3>1, UpdatesType, CorrectsType
  <2>2. Updates(fed) = Updates(s.calls) \o Corrects(got)
    <3>1. CASE s.gnss = <<>>
      <4>1. Corrects(s.gnss) = <<>> /\ Corrects(got) = Corrects(tick.gnss)
        BY <2>1, <3>1
      <4>2. Updates(s.calls) \o Corrects(s.gnss) = Updates(s.calls)
        BY <2>1, <4>1
      <4> QED BY <1>3, <1>8, <4>1, <4>2
    <3>2. CASE tick.gnss = <<>>
      <4>1. Corrects(tick.gnss) = <<>> /\ got = s.gnss
        BY <2>1, <3>2
      <4>2. Updates(fed) = Updates(calls) \o <<>> /\ Updates(calls) \in Seq(FilterCalls)
        BY <1>3, <4>1, UpdatesType
      <4>3. \A u \in Seq(FilterCalls) : u \o <<>> = u
        OBVIOUS
      <4>4. Updates(fed) = Updates(calls)
        BY <4>2, <4>3
      <4> QED BY <1>8, <4>1, <4>4
    <3> QED BY <1>8, <3>1, <3>2
  <2> HIDE DEF got, again, next, fed
  <2>3. CASE emits
    <3>1. next.gnss = <<>> /\ Updates(next.calls) = Updates(s.calls) \o Corrects(got)
      BY <1>4, <1>6, <2>3
    <3>2. (Updates(s.calls) \o Corrects(got)) \o <<>> = Updates(s.calls) \o Corrects(got)
      BY <2>1
    <3> QED BY <2>1, <2>2, <3>1, <3>2
  <2>4. CASE ~emits
    BY <1>6, <2>2, <2>4
  <2> QED BY <2>3, <2>4
<1> HIDE DEF next, fed, got, again
<1> QED
  BY <1>3, <1>6, <1>7, <1>8 DEF FedOn, next, fed, got

\* When the next F and I lines are due, and whether they are.
NextPrint == IF exp.next = NoTime THEN src.t ELSE exp.next
Prints == src.t >= NextPrint

\* A tick taken from the source and exported.
ExportsTick(tick) ==
  /\ TickTyped(tick, src.t, src.t >= src.nextGnss)
  /\ src'.t = src.t + conf.imuDt /\ src'.walk \in Vecs
  /\ src'.nextGnss = IF src.t >= src.nextGnss THEN src.nextGnss + conf.gnssDt ELSE src.nextGnss
  /\ exp'.calls = Feed(exp.calls, tick)
  /\ exp'.next = IF Prints THEN NextPrint + conf.interval ELSE NextPrint
  /\ exp'.lines = <<>> \o Exported(tick, Feed(exp.calls, tick), Prints)
  /\ DOMAIN exp' = {"calls", "next", "lines"}
  /\ UNCHANGED <<conf, phase, cfg, run, capture, read>>

\* Export takes a tick and exports it.
LEMMA ExportIs ==
  ASSUME conf \in SimConfigs, ScheduleInv, cfg.imuMount = Identity, cfg.baseline = 0, Export
  PROVE  /\ exp.lines = <<>> /\ phase = "play"
         /\ \E tick : ExportsTick(tick) /\ (Clean => TellsTruth(tick))
<1>1. PICK draw \in Draws(conf.noise) :
        LET walk == Walk(conf.noise, draw, src.walk)
        IN  /\ src' = [t |-> src.t + conf.imuDt, walk |-> walk,
                       nextGnss |-> IF src.t >= src.nextGnss THEN src.nextGnss + conf.gnssDt
                                    ELSE src.nextGnss]
            /\ exp' = ExportTick(exp, conf.interval, TickOf(draw, walk))
  BY DEF Export, TakeTick
<1>2. /\ exp.lines = <<>> /\ phase = "play" /\ HasTick
      /\ UNCHANGED <<conf, phase, cfg, run, capture, read>>
  BY DEF Export, TakeTick
<1> DEFINE walk == Walk(conf.noise, draw, src.walk)
           tick == TickOf(draw, walk)
<1>3. walk \in Vecs /\ TickTyped(tick, src.t, src.t >= src.nextGnss)
  BY <1>2, TickTypes DEF ScheduleInv
<1>4. /\ src'.t = src.t + conf.imuDt /\ src'.walk = walk
      /\ src'.nextGnss = IF src.t >= src.nextGnss THEN src.nextGnss + conf.gnssDt
                         ELSE src.nextGnss
      /\ exp' = ExportTick(exp, conf.interval, tick)
  BY <1>1
<1>5. Clean => TellsTruth(tick)
  BY <1>2, TickTells DEF ScheduleInv
<1> HIDE DEF walk, tick
<1>6. tick.imu.t = src.t
  BY <1>3 DEF TickTyped
<1>7. /\ exp'.calls = Feed(exp.calls, tick)
      /\ exp'.next = IF Prints THEN NextPrint + conf.interval ELSE NextPrint
      /\ exp'.lines = <<>> \o Exported(tick, Feed(exp.calls, tick), Prints)
      /\ DOMAIN exp' = {"calls", "next", "lines"}
  BY <1>2, <1>4, <1>6 DEF ExportTick, Exported, Prints, NextPrint
<1> QED
  BY <1>2, <1>3, <1>4, <1>5, <1>7 DEF ExportsTick

\* The schedule holds on.
LEMMA ScheduleOn ==
  ASSUME conf \in SimConfigs, ScheduleInv, NEW tick, ExportsTick(tick)
  PROVE  ScheduleInv'
<1> DEFINE d == conf.imuDt
           v == conf.interval
           w == conf.gnssDt
<1>1. d \in Nat \ {0} /\ v \in Nat \ {0} /\ w \in Nat \ {0} /\ conf' = conf
  BY PeriodIs DEF ExportsTick
<1>2. PICK t \in Nat, g \in Nat : t = src.t /\ g = src.nextGnss
  BY DEF ScheduleInv
<1>3. OnSample(d, t) /\ OnSample(d, d)
  <2>1. d = d * 1
    BY <1>1
  <2> HIDE DEF d
  <2> QED BY <1>1, <1>2, <2>1 DEF ScheduleInv, OnSample, d
<1>4. OnSample(d, t + d)
  <2> HIDE DEF d
  <2> QED BY <1>1, <1>3, OnSampleSums
<1>5. src'.t = t + d /\ src'.nextGnss = IF t >= g THEN g + w ELSE g
  BY <1>2 DEF ExportsTick
<1>6. PICK p \in Nat : /\ p = NextPrint
                       /\ t = 0 => p = 0 /\ g = 0
                       /\ t > 0 => p <= t - d + v /\ (v = w => p = g)
  <2>1. CASE t = 0
    <3>1. NextPrint = 0 /\ g = 0
      BY <1>2, <2>1 DEF ScheduleInv, NextPrint, NoTime
    <3> QED BY <2>1, <3>1
  <2>2. CASE t > 0
    <3>1. exp.next \in Nat /\ exp.next <= t - d + v /\ (v = w => exp.next = g)
      BY <1>2, <2>2 DEF ScheduleInv
    <3>2. NextPrint = exp.next
      BY <3>1 DEF NextPrint, NoTime
    <3> QED BY <2>2, <3>1, <3>2
  <2> QED BY <1>2, <2>1, <2>2
<1>7. exp'.next = IF t >= p THEN p + v ELSE p
  BY <1>2, <1>6 DEF ExportsTick, Prints
<1>8. d <= w => g > t - d
  BY <1>2 DEF ScheduleInv
<1>9. exp'.calls \in Seq(FilterCalls) /\ DOMAIN exp' = {"calls", "next", "lines"}
      /\ src'.walk \in Vecs
  <2>1. tick.imu.t \in Int /\ tick.gnss \in FixSeqs
    BY DEF ExportsTick, TickTyped, Imus, FixSeqs
  <2>2. Feed(exp.calls, tick) \in Seq(FilterCalls)
    BY <2>1, FeedUpdates DEF ScheduleInv
  <2> QED BY <2>2 DEF ExportsTick
<1> HIDE DEF d, v, w
<1>10. /\ src'.t \in Nat /\ src'.nextGnss \in Nat /\ src'.t > 0
       /\ exp'.next \in Nat /\ exp'.next <= src'.t - d + v
       /\ v = w => exp'.next = src'.nextGnss
       /\ d <= w => src'.nextGnss > src'.t - d
  BY <1>1, <1>5, <1>6, <1>7, <1>8
<1> QED
  BY <1>1, <1>4, <1>5, <1>9, <1>10 DEF ScheduleInv, d, v, w

\* If no fix waited when one came, the one that waits now is on schedule.
LEMMA WaitsOn ==
  ASSUME conf \in SimConfigs, ScheduleInv, FedWithFixes, NEW tick, ExportsTick(tick), ~Prints,
         NEW since \in Int, since < src.t, NEW fix,
         \/ src.t < src.nextGnss /\ Waits(fix, since)
         \/ src.t >= src.nextGnss /\ fix.t = src.t
  PROVE  Waits(fix, since)'
<1> DEFINE d == conf.imuDt
           v == conf.interval
           w == conf.gnssDt
<1>1. /\ d \in Nat \ {0} /\ v \in Nat \ {0} /\ w \in Nat \ {0} /\ conf' = conf
      /\ Period \in Nat /\ v <= Period /\ d <= Period /\ Period' = Period
  BY PeriodIs DEF ExportsTick, Period
<1>2. PICK t \in Nat, g \in Nat, p \in Nat, n \in Nat :
        t = src.t /\ g = src.nextGnss /\ p = NextPrint /\ n = Period
  BY <1>1 DEF ScheduleInv, NextPrint
<1>3. t < p /\ t > 0 /\ p = exp.next /\ exp'.next = p
  BY <1>2 DEF Prints, NextPrint, ScheduleInv, ExportsTick
<1>4. p <= t - d + v /\ (v = w => p = g) /\ OnSample(d, t) /\ (d <= w => g > t - d)
  BY <1>2, <1>3 DEF ScheduleInv
<1>5. src'.t = t + d /\ src'.nextGnss = IF t >= g THEN g + w ELSE g
  BY <1>2 DEF ExportsTick
<1> HIDE DEF d, v, w
<1>6. CASE src.t < src.nextGnss /\ Waits(fix, since)
  <2>1. /\ fix.t \in Nat /\ OnSample(d, fix.t) /\ since < fix.t /\ fix.t < t /\ v # w
        /\ p <= fix.t - d + n /\ g > fix.t - d + n
    BY <1>2, <1>3, <1>6 DEF Waits, d, v, w
  <2>2. fix.t < src'.t /\ src'.t - d < exp'.next /\ src'.nextGnss = g
    BY <1>1, <1>2, <1>3, <1>5, <1>6, <2>1
  <2> QED BY <1>1, <1>2, <1>3, <2>1, <2>2 DEF Waits, d, v, w
<1>7. CASE src.t >= src.nextGnss /\ fix.t = src.t
  <2>1. v # w
    BY <1>2, <1>3, <1>4, <1>7
  <2>2. n <= w /\ d <= w
    BY <1>1, <1>2, <2>1 DEF FedWithFixes, v, w
  <2>3. fix.t = t /\ since < t /\ t >= g /\ src'.nextGnss = g + w /\ g > t - d
    BY <1>2, <1>4, <1>5, <1>7, <2>2
  <2>4. /\ fix.t < src'.t /\ src'.t - d < exp'.next /\ exp'.next <= fix.t - d + n
        /\ src'.nextGnss > fix.t - d + n
    BY <1>1, <1>2, <1>3, <1>4, <1>5, <2>2, <2>3
  <2> QED BY <1>1, <1>2, <1>4, <2>1, <2>3, <2>4 DEF Waits, d, v, w
<1> QED
  BY <1>6, <1>7

\* A replay that keeps up can be gone on with, line by line of the tick, and keeps up.
LEMMA ExportKeepsUp ==
  ASSUME conf \in SimConfigs, ScheduleInv, NEW T, capture \in Seq(T),
         NEW s, KeepsUp(s), ReplaysTo(capture, s), NEW tick, ExportsTick(tick)
  PROVE  \E next : KeepsUp(next)' /\ ReplaysTo(capture \o exp'.lines, next)
<1>1. PICK calls, emits, t : calls = exp.calls /\ emits = Prints /\ t = src.t
  OBVIOUS
<1>2. /\ tick.imu \in Imus /\ tick.imu.t = t /\ t \in Nat /\ src.nextGnss \in Nat
      /\ calls \in Seq(FilterCalls) /\ s \in Replays /\ emits \in BOOLEAN
  BY <1>1 DEF ExportsTick, TickTyped, ScheduleInv, KeepsUp, Prints
<1>3. /\ tick.gnss \in FixSeqs
      /\ src.t >= src.nextGnss => \E fix \in Fixes : tick.gnss = <<fix>> /\ fix.t = t
      /\ src.t < src.nextGnss => tick.gnss = <<>>
  <2>1. CASE src.t >= src.nextGnss
    <3>1. PICK fix \in Fixes : tick.gnss = <<fix>> /\ fix.t = src.t
      BY <2>1 DEF ExportsTick, TickTyped
    <3>2. tick.gnss \in FixSeqs
      BY <3>1 DEF FixSeqs
    <3> QED BY <1>1, <1>2, <2>1, <3>1, <3>2
  <2>2. CASE ~(src.t >= src.nextGnss)
    <3>1. tick.gnss = <<>>
      BY <2>2 DEF ExportsTick, TickTyped
    <3> QED BY <1>1, <1>2, <2>2, <3>1 DEF FixSeqs
  <2> QED BY <1>1, <1>2, <2>1, <2>2
<1>4. PICK fed : fed = Feed(calls, tick)
  OBVIOUS
<1>5. PICK next : next = Replayed(s, tick, emits)
  OBVIOUS
<1>6. PICK more : more = Exported(tick, fed, emits)
  OBVIOUS
<1>7. fed[Latest(fed)].t \in Int
  <2>1. PICK fix : Brings(tick, fix)
    <3>1. CASE src.t >= src.nextGnss
      BY <1>2, <1>3, <3>1 DEF Brings
    <3>2. CASE src.t < src.nextGnss
      <4>1. PICK fix : fix = [t |-> t]
        OBVIOUS
      <4> QED BY <1>2, <1>3, <3>2, <4>1 DEF Brings
    <3> QED BY <1>1, <1>2, <3>1, <3>2
  <2>2. fed[Latest(fed)].t = tick.imu.t
    BY <1>2, <1>4, <2>1, FeedLast
  <2> QED BY <1>2, <2>2
<1>8. /\ fed \in Seq(FilterCalls)
      /\ next.gnss = IF emits THEN <<>> ELSE IF tick.gnss = <<>> THEN s.gnss ELSE tick.gnss
      /\ next.t = IF emits THEN tick.imu.t ELSE s.t
      /\ s.calls = calls /\ s.gnss = <<>> /\ emits => next.calls = fed
      /\ (s.gnss = <<>> \/ tick.gnss = <<>>)
         /\ Updates(calls) = Updates(s.calls) \o Corrects(s.gnss)
         => Updates(fed) = Updates(next.calls) \o Corrects(next.gnss)
  <2>1. FedOn(s, calls, tick, emits, next, fed)
    BY <1>2, <1>3, <1>4, <1>5, TickFeeds
  <2> QED BY <2>1 DEF FedOn
<1>9. next \in Replays /\ ReplaysTo(capture \o more, next)
  BY <1>2, <1>3, <1>5, <1>6, <1>7, TickReplayed
<1>10. exp'.calls = fed /\ exp'.lines = <<>> \o more
  BY <1>1, <1>4, <1>6 DEF ExportsTick
<1>11. /\ conf.imuDt \in Nat \ {0} /\ conf.interval \in Nat \ {0} /\ conf' = conf
       /\ src'.t = t + conf.imuDt /\ s.t \in Int /\ s.t < t
       /\ Period' = Period
  BY <1>1, <1>2, PeriodIs DEF ExportsTick, KeepsUp, Replays, Period
<1>12. next.t < src'.t /\ next.t \in Int
  BY <1>2, <1>8, <1>11
<1>13. ASSUME conf.interval <= conf.imuDt PROVE next.calls = fed /\ next.gnss = <<>>
  <2>1. emits
    <3>1. CASE t = 0
      <4>1. exp.next = NoTime
        BY <1>1, <3>1 DEF ScheduleInv
      <4>2. NextPrint = src.t
        BY <4>1 DEF NextPrint
      <4>3. Prints
        BY <1>1, <1>2, <4>2 DEF Prints
      <4> QED BY <1>1, <4>3
    <3>2. CASE t > 0
      <4>1. exp.next \in Nat /\ exp.next <= t - conf.imuDt + conf.interval
        BY <1>1, <3>2 DEF ScheduleInv
      <4>2. exp.next <= t
        BY <1>2, <1>11, <1>13, <4>1
      <4>3. NextPrint = exp.next
        BY <4>1 DEF NextPrint, NoTime
      <4> QED BY <1>1, <4>2, <4>3 DEF Prints
    <3> QED BY <1>2, <3>1, <3>2
  <2>2. s.calls = calls /\ s.gnss = <<>>
    BY <1>1, <1>13 DEF KeepsUp
  <2> QED BY <1>8, <2>1, <2>2
<1>14. ASSUME FedWithFixes
       PROVE  /\ Updates(fed) = Updates(next.calls) \o Corrects(next.gnss)
              /\ \A fix \in Fixes : next.gnss = <<fix>> => Waits(fix, next.t)'
  <2>1. /\ Updates(calls) = Updates(s.calls) \o Corrects(s.gnss)
        /\ \A fix \in Fixes : s.gnss = <<fix>> => Waits(fix, s.t)
    BY <1>1, <1>14 DEF KeepsUp
  <2>2. s.gnss = <<>> \/ tick.gnss = <<>>
    <3> SUFFICES ASSUME s.gnss # <<>>, tick.gnss # <<>> PROVE FALSE
      OBVIOUS
    <3>1. PICK fix \in Fixes : s.gnss = <<fix>>
      <4>1. s.gnss \in FixSeqs
        BY <1>2 DEF Replays
      <4> QED BY <4>1 DEF FixSeqs
    <3>2. Waits(fix, s.t)
      BY <2>1, <3>1
    <3>3. src.t >= src.nextGnss
      BY <1>1, <1>2, <1>3
    <3> QED BY <3>2, <3>3, NoneWhilePending
  <2>3. ASSUME NEW fix \in Fixes, next.gnss = <<fix>> PROVE Waits(fix, next.t)'
    <3>1. ~emits /\ next.t = s.t
      <4>1. next.gnss # <<>>
        BY <2>3
      <4> QED BY <1>8, <4>1
    <3>2. ~Prints /\ s.t \in Int /\ s.t < src.t
      BY <1>1, <1>11, <3>1
    <3>3. \/ src.t < src.nextGnss /\ Waits(fix, s.t)
          \/ src.t >= src.nextGnss /\ fix.t = src.t
      <4>1. CASE tick.gnss = <<>>
        <5>1. s.gnss = <<fix>> /\ src.t < src.nextGnss
          BY <1>1, <1>2, <1>3, <1>8, <2>3, <3>1, <4>1
        <5> QED BY <2>1, <5>1
      <4>2. CASE tick.gnss # <<>>
        <5>1. src.t >= src.nextGnss /\ tick.gnss = <<fix>>
          BY <1>1, <1>2, <1>3, <1>8, <2>3, <3>1, <4>2
        <5> QED BY <1>1, <1>3, <5>1
      <4> QED BY <4>1, <4>2
    <3>4. Waits(fix, s.t)'
      BY <1>14, <3>2, <3>3, WaitsOn
    <3> QED BY <3>1, <3>4
  <2>4. Updates(fed) = Updates(next.calls) \o Corrects(next.gnss)
    BY <1>8, <2>1, <2>2
  <2> QED BY <2>3, <2>4
<1>15. KeepsUp(next)'
  <2>1. FedWithFixes' = FedWithFixes
    BY <1>11 DEF FedWithFixes
  <2> QED BY <1>9, <1>10, <1>11, <1>12, <1>13, <1>14, <2>1 DEF KeepsUp
<1>16. exp'.lines = more
  <2>1. PICK U : more \in Seq(U)
    BY <1>2, <1>3, <1>6, ExportedSeq
  <2> QED BY <1>10, <2>1
<1> QED
  BY <1>9, <1>15, <1>16

-----------------------------------------------------------------------------
(* SimSession: a capture replayed feeds the filter as the run did. *)

\* What the reader of the capture has is what the replay of all lines has there.
ReplayStands ==
  \E h, s :
    /\ IsReplay(h, capture \o exp.lines, s) /\ KeepsUp(s)
    /\ phase \in {"replay", "done"} =>
         /\ exp.lines = <<>> /\ read.next \in 1 .. Len(capture) + 1
         /\ run.calls = h[read.next - 1].calls
         /\ read.gnss = h[read.next - 1].gnss
         /\ run.last.t = h[read.next - 1].t

FeedState ==
  /\ phase \in {"load", "play", "replay", "done"}
  /\ phase # "load" => cfg.imuMount = Identity /\ cfg.baseline = 0
  /\ phase \in {"load", "play"} => run = FreshRun /\ read = FreshRead
  /\ DOMAIN read = {"next", "gnss", "compass", "samples"}
  /\ ScheduleInv
  /\ \E T : capture \in Seq(T) /\ exp.lines \in Seq(T)
  /\ ReplayStands

FeedInv ==
  /\ conf \in SimConfigs
  /\ conf.command = "synthetic" /\ phase # "failed" => FeedState

\* Whoever reads does not touch the schedule, nor what has been exported.
LEMMA Unmoved ==
  ASSUME conf' = conf, src' = src, exp'.calls = exp.calls, exp'.next = exp.next,
         DOMAIN exp' = DOMAIN exp
  PROVE  /\ ScheduleInv => ScheduleInv'
         /\ \A s : KeepsUp(s) => KeepsUp(s)'
<1>1. ScheduleInv => ScheduleInv'
  BY DEF ScheduleInv
<1>2. Period' = Period
  BY DEF Period
<1>3. ASSUME NEW fix, NEW since, Waits(fix, since) PROVE Waits(fix, since)'
  BY <1>2, <1>3 DEF Waits
<1>4. FedWithFixes' = FedWithFixes
  BY <1>2 DEF FedWithFixes
<1>5. ASSUME NEW s, KeepsUp(s) PROVE KeepsUp(s)'
  <2>1. s \in Replays /\ s.t < src'.t
        /\ (conf'.interval <= conf'.imuDt => s.calls = exp'.calls /\ s.gnss = <<>>)
    BY <1>5 DEF KeepsUp
  <2>2. ASSUME FedWithFixes'
        PROVE  /\ Updates(exp'.calls) = Updates(s.calls) \o Corrects(s.gnss)
               /\ \A fix \in Fixes : s.gnss = <<fix>> => Waits(fix, s.t)'
    BY <1>3, <1>4, <1>5, <2>2 DEF KeepsUp
  <2> QED BY <2>1, <2>2 DEF KeepsUp
<1> QED
  BY <1>1, <1>5

\* The two comment lines at the start feed nothing.
LEMMA FeedInit == SimInit => FeedInv
<1> SUFFICES ASSUME SimInit, conf.command = "synthetic" PROVE FeedState
  BY DEF SimInit, FeedInv
<1> DEFINE d == DiagRecord
           lines == <<d, d>>
           h == [i \in 0 .. 2 |-> FreshReader]
<1>1. /\ phase = "load" /\ capture = <<>> /\ run = FreshRun /\ read = FreshRead
      /\ src = [t |-> 0, nextGnss |-> 0, walk |-> ZeroVec]
      /\ exp = [calls |-> <<>>, next |-> NoTime, lines |-> lines] /\ conf \in SimConfigs
  BY DEF SimInit
<1>2. FreshReader \in Replays
  <2>1. <<>> \in Seq(FilterCalls) /\ <<>> \in FixSeqs /\ NoTime \in Int
    BY DEF FixSeqs, NoTime
  <2> QED BY <2>1 DEF FreshReader, Replays
<1>3. Reread(d).type \notin {"I", "G"}
  BY DiagReading DEF DiagRecord
<1>4. ReadOn(FreshReader, d) = FreshReader /\ Before(FreshReader.calls, FreshReader.calls)
  BY <1>2, <1>3, ReadOther
<1> HIDE DEF d
<1>5. Len(lines) = 2 /\ lines \in Seq({d}) /\ <<>> \in Seq({d}) /\ <<>> \o lines = lines
      /\ \A i \in 1 .. 2 : lines[i] = d
  OBVIOUS
<1> HIDE DEF lines
<1>6. IsReplay(h, lines, FreshReader)
  <2>1. /\ h \in [0 .. 2 -> Replays] /\ h[0] = FreshReader /\ h[2] = FreshReader
        /\ \A i \in 0 .. 2 : h[i] = FreshReader
    BY <1>2
  <2>2. \A i \in 1 .. 2 : h[i] = FreshReader /\ h[i - 1] = FreshReader
    OBVIOUS
  <2> HIDE DEF h
  <2>3. ASSUME NEW i \in 1 .. 2 PROVE h[i] = ReadOn(h[i - 1], lines[i])
    BY <1>4, <1>5, <2>2
  <2>4. \A i \in 0 .. 2 : Before(h[i].calls, FreshReader.calls)
    BY <1>4, <2>1
  <2> QED BY <1>5, <2>1, <2>3, <2>4 DEF IsReplay
<1>7. ScheduleInv
  <2>1. src.t = 0 /\ src.nextGnss = 0 /\ src.walk \in Vecs /\ exp.next = NoTime
        /\ exp.calls \in Seq(FilterCalls) /\ DOMAIN exp = {"calls", "next", "lines"}
    BY <1>1 DEF Vecs, ZeroVec, Vec3
  <2>2. conf.imuDt \in Nat \ {0}
    BY <1>1, PeriodIs
  <2>3. OnSample(conf.imuDt, 0)
    <3>1. 0 = conf.imuDt * 0
      BY <2>2
    <3> QED BY <3>1 DEF OnSample
  <2> QED BY <2>1, <2>2, <2>3 DEF ScheduleInv
<1>8. KeepsUp(FreshReader)
  <2>1. FreshReader.calls = <<>> /\ FreshReader.gnss = <<>> /\ FreshReader.t < src.t
        /\ exp.calls = <<>>
    BY <1>1 DEF FreshReader, NoTime
  <2>2. Corrects(<<>>) = <<>>
    <3>1. <<>> \in FixSeqs
      BY DEF FixSeqs
    <3> QED BY <3>1, CorrectsType
  <2>3. Updates(<<>>) \o Corrects(<<>>) = Updates(<<>>)
    <3>1. PICK u, c : u = Updates(<<>>) /\ c = Corrects(<<>>) /\ u = <<>> /\ c = <<>>
      BY <2>2, UpdatesNone
    <3>2. <<>> \o <<>> = <<>>
      OBVIOUS
    <3> QED BY <3>1, <3>2, Zenon
  <2>4. \A fix : <<>> # <<fix>>
    OBVIOUS
  <2> QED BY <1>2, <2>1, <2>3, <2>4 DEF KeepsUp
<1>9. IsReplay(h, capture \o exp.lines, FreshReader)
  BY <1>1, <1>5, <1>6
<1> HIDE DEF h
<1>10. ReplayStands
  BY <1>1, <1>8, <1>9 DEF ReplayStands
<1>11. capture \in Seq({d}) /\ exp.lines \in Seq({d})
  BY <1>1, <1>5
<1>12. DOMAIN read = {"next", "gnss", "compass", "samples"}
  BY <1>1 DEF FreshRead
<1> QED
  BY <1>1, <1>7, <1>10, <1>11, <1>12 DEF FeedState

\* Loading exports nothing.
LEMMA FeedLoad ==
  ASSUME conf \in SimConfigs, conf.command = "synthetic", FeedState, Load
  PROVE  phase' = "failed" \/ FeedState'
<1>1. phase = "load" /\ UNCHANGED <<conf, src, run, exp, play, capture, read>>
      /\ LoadUnmounted(LoadTuning(conf.toml), "play")
  BY DEF Load
<1> SUFFICES ASSUME phase' # "failed" PROVE FeedState'
  OBVIOUS
<1>2. phase' = "play" /\ cfg'.imuMount = Identity /\ cfg'.baseline = 0
  BY <1>1 DEF LoadUnmounted, Fails
<1>3. ScheduleInv' /\ \A s : KeepsUp(s) => KeepsUp(s)'
  BY <1>1, Unmoved DEF FeedState
<1>4. ReplayStands'
  <2>1. PICK h, s : IsReplay(h, capture \o exp.lines, s) /\ KeepsUp(s)
    BY DEF FeedState, ReplayStands
  <2>2. KeepsUp(s)' /\ capture' \o exp'.lines = capture \o exp.lines
    BY <1>1, <1>3, <2>1
  <2> QED BY <1>2, <2>1, <2>2 DEF ReplayStands
<1> QED
  BY <1>1, <1>2, <1>3, <1>4 DEF FeedState

\* A tick exported lengthens the replay.
LEMMA FeedExport ==
  ASSUME conf \in SimConfigs, conf.command = "synthetic", FeedState, Export
  PROVE  FeedState'
<1>1. phase = "play" /\ ScheduleInv /\ cfg.imuMount = Identity /\ cfg.baseline = 0
      /\ DOMAIN read = {"next", "gnss", "compass", "samples"} /\ run = FreshRun /\ read = FreshRead
  BY DEF FeedState, Export
<1>2. PICK tick : exp.lines = <<>> /\ ExportsTick(tick)
  BY <1>1, ExportIs
<1>3. UNCHANGED <<conf, phase, cfg, run, capture, read>>
  BY <1>2 DEF ExportsTick
<1>4. PICK T : capture \in Seq(T)
  BY DEF FeedState
<1>5. PICK h, s : IsReplay(h, capture \o exp.lines, s) /\ KeepsUp(s)
  BY DEF FeedState, ReplayStands
<1>6. capture \o exp.lines = capture
  <2>1. capture \o <<>> = capture
    BY <1>4
  <2> QED BY <1>2, <2>1
<1>7. ReplaysTo(capture, s)
  BY <1>5, <1>6 DEF ReplaysTo
<1>8. PICK next : KeepsUp(next)' /\ ReplaysTo(capture \o exp'.lines, next)
  BY <1>1, <1>2, <1>4, <1>5, <1>7, ExportKeepsUp
<1>9. PICK g : IsReplay(g, capture \o exp'.lines, next)
  BY <1>8 DEF ReplaysTo
<1>10. ReplayStands'
  <2>1. phase' = "play" /\ capture' = capture
    BY <1>1, <1>3
  <2> QED BY <1>8, <1>9, <2>1 DEF ReplayStands
<1>11. ScheduleInv'
  BY <1>1, <1>2, ScheduleOn
<1>12. \E U : capture' \in Seq(U) /\ exp'.lines \in Seq(U)
  <2>1. tick.gnss \in FixSeqs
    <3>1. CASE src.t >= src.nextGnss
      <4>1. PICK fix \in Fixes : tick.gnss = <<fix>>
        BY <1>2, <3>1 DEF ExportsTick, TickTyped
      <4> QED BY <4>1 DEF FixSeqs
    <3>2. CASE ~(src.t >= src.nextGnss)
      <4>1. tick.gnss = <<>>
        BY <1>2, <3>2 DEF ExportsTick, TickTyped
      <4> QED BY <4>1 DEF FixSeqs
    <3> QED BY <3>1, <3>2
  <2>2. PICK emits \in BOOLEAN : emits = Prints
    <3>1. Prints \in BOOLEAN
      BY DEF Prints
    <3> QED BY <3>1, Zenon
  <2>3. PICK fed : fed = Feed(exp.calls, tick)
    OBVIOUS
  <2>4. PICK U : Exported(tick, fed, emits) \in Seq(U)
    BY <2>1, <2>2, ExportedSeq
  <2>5. exp'.lines = <<>> \o Exported(tick, fed, emits)
    BY <1>2, <2>2, <2>3 DEF ExportsTick
  <2>6. exp'.lines \in Seq(T \cup U) /\ capture' \in Seq(T \cup U)
    BY <1>3, <1>4, <2>4, <2>5
  <2> QED BY <2>6
<1> QED
  BY <1>1, <1>3, <1>10, <1>11, <1>12 DEF FeedState

\* A line that goes from one sequence to the one before it.
LEMMA AppendHead ==
  ASSUME NEW T, NEW c \in Seq(T), NEW l \in Seq(T), l # <<>>
  PROVE  /\ Append(c, Head(l)) \in Seq(T) /\ Tail(l) \in Seq(T)
         /\ Append(c, Head(l)) \o Tail(l) = c \o l
<1>1. PICK a, z : a = Head(l) /\ z = Tail(l)
  OBVIOUS
<1>2. a \in T /\ z \in Seq(T) /\ <<a>> \in Seq(T)
  BY <1>1
<1>3. Append(c, a) = c \o <<a>>
  BY <1>2
<1>4. <<a>> \o z = l
  <2>1. l # <<>> /\ Len(l) >= 1 /\ a = l[1] /\ Len(z) = Len(l) - 1 /\ Len(l) \in Nat
        /\ \A i \in 1 .. Len(l) - 1 : z[i] = l[i + 1]
    BY <1>1
  <2>2. PICK y : y = <<a>> \o z
    OBVIOUS
  <2>3. y \in Seq(T) /\ Len(y) = Len(l) /\ y[1] = a
        /\ \A i \in 2 .. Len(l) : y[i] = z[i - 1]
    BY <1>2, <2>1, <2>2
  <2>4. ASSUME NEW i \in 1 .. Len(l) PROVE y[i] = l[i]
    <3>1. CASE i = 1
      BY <2>1, <2>3, <3>1
    <3>2. CASE i \in 2 .. Len(l)
      <4>1. i - 1 \in 1 .. Len(l) - 1 /\ i - 1 + 1 = i
        BY <2>1, <3>2
      <4> QED BY <2>1, <2>3, <3>2, <4>1
    <3> QED BY <2>1, <3>1, <3>2
  <2>5. y = l
    BY <2>3, <2>4
  <2> QED BY <2>2, <2>5
<1>5. (c \o <<a>>) \o z = c \o (<<a>> \o z)
  BY <1>2, ConcatAssociative
<1>6. Append(c, a) \in Seq(T)
  BY <1>2
<1> QED
  BY <1>1, <1>2, <1>3, <1>4, <1>5, <1>6

\* A line handed on goes from the exporter to the capture.
LEMMA FeedPlayLine ==
  ASSUME conf.command = "synthetic", FeedState, PlayLine
  PROVE  FeedState'
<1>1. /\ phase = "play" /\ exp.lines # <<>>
      /\ capture' = Append(capture, Head(exp.lines))
      /\ exp' = [exp EXCEPT !.lines = Tail(@)]
      /\ UNCHANGED <<conf, phase, cfg, src, run, read>>
  BY DEF PlayLine
<1>2. ScheduleInv /\ DOMAIN exp = {"calls", "next", "lines"}
  BY DEF FeedState, ScheduleInv
<1>3. /\ exp'.calls = exp.calls /\ exp'.next = exp.next /\ DOMAIN exp' = DOMAIN exp
      /\ exp'.lines = Tail(exp.lines)
  BY <1>1, <1>2
<1>4. ScheduleInv' /\ \A s : KeepsUp(s) => KeepsUp(s)'
  BY <1>1, <1>2, <1>3, Unmoved
<1>5. PICK T : capture \in Seq(T) /\ exp.lines \in Seq(T)
  BY DEF FeedState
<1>6. PICK c \in Seq(T), l \in Seq(T) : c = capture /\ l = exp.lines /\ l # <<>>
  BY <1>1, <1>5
<1>7. /\ Append(c, Head(l)) \in Seq(T) /\ Tail(l) \in Seq(T)
      /\ Append(c, Head(l)) \o Tail(l) = c \o l
  <2>1. l # <<>>
    BY <1>6
  <2> QED BY <2>1, AppendHead, Zenon
<1>8. capture' \in Seq(T) /\ exp'.lines \in Seq(T)
      /\ capture' \o exp'.lines = capture \o exp.lines
  BY <1>1, <1>3, <1>6, <1>7
<1>9. PICK h, s : IsReplay(h, capture \o exp.lines, s) /\ KeepsUp(s)
  BY DEF FeedState, ReplayStands
<1>10. ReplayStands'
  <2>1. KeepsUp(s)' /\ IsReplay(h, capture' \o exp'.lines, s) /\ phase' = "play"
    BY <1>1, <1>4, <1>8, <1>9
  <2> QED BY <2>1 DEF ReplayStands
<1>11. run' = run /\ read' = read /\ phase' = phase /\ cfg' = cfg
  BY <1>1
<1> QED
  BY <1>1, <1>4, <1>8, <1>10, <1>11 DEF FeedState

\* The readers begin where the replay begins.
LEMMA FeedEndPlay ==
  ASSUME conf.command = "synthetic", FeedState, EndPlay
  PROVE  FeedState'
<1>1. /\ phase = "play" /\ exp.lines = <<>> /\ phase' = "replay"
      /\ UNCHANGED <<conf, cfg, src, run, exp, capture, read>>
      /\ run = FreshRun /\ read = FreshRead
  BY DEF FeedState, EndPlay
<1>2. ScheduleInv' /\ \A s : KeepsUp(s) => KeepsUp(s)'
  BY <1>1, Unmoved DEF FeedState
<1>3. PICK h, s : IsReplay(h, capture \o exp.lines, s) /\ KeepsUp(s)
  BY DEF FeedState, ReplayStands
<1>4. PICK T : capture \in Seq(T)
  BY DEF FeedState
<1>5. h[0] = FreshReader /\ read.next = 1 /\ run.calls = <<>> /\ read.gnss = <<>>
      /\ run.last.t = NoTime
  BY <1>1, <1>3 DEF IsReplay, FreshRun, FreshRead, NoImu
<1>6. 1 \in 1 .. Len(capture) + 1 /\ 1 - 1 = 0
  BY <1>4
<1>7. ReplayStands'
  <2>1. KeepsUp(s)' /\ IsReplay(h, capture' \o exp'.lines, s) /\ exp'.lines = <<>>
    BY <1>1, <1>2, <1>3
  <2>2. read'.next = 1 /\ run'.calls = h[0].calls /\ read'.gnss = h[0].gnss
        /\ run'.last.t = h[0].t /\ Len(capture') = Len(capture)
    BY <1>1, <1>5 DEF FreshReader
  <2> QED BY <1>6, <2>1, <2>2 DEF ReplayStands
<1> QED
  BY <1>1, <1>2, <1>7 DEF FeedState

\* A line is read as the replay reads it.
LEMMA ReadIs ==
  ASSUME FeedState, ReadLine, NEW s, read.gnss = s.gnss, run.calls = s.calls, run.last.t = s.t,
         s \in Replays
  PROVE  LET next == ReadOn(s, capture[read.next])
         IN  /\ read'.next = read.next + 1 /\ read'.gnss = next.gnss
             /\ run'.calls = next.calls /\ run'.last.t = next.t
             /\ DOMAIN read' = DOMAIN read
<1> DEFINE line == capture[read.next]
           record == Reread(line)
           next == ReadOn(s, line)
<1>1. DOMAIN read = {"next", "gnss", "compass", "samples"} /\ DOMAIN s = {"calls", "gnss", "t"}
  BY DEF FeedState, Replays
<1>2. (CASE record.type = "I" -> ReplayI(record)
         [] record.type = "G" -> ReplayG(FixOf(record))
         [] OTHER -> read' = [read EXCEPT !.next = @ + 1] /\ UNCHANGED run)
  BY DEF ReadLine, Reread
<1>3. next = CASE record.type = "I" ->
                    [calls |-> Feed(s.calls, [imu |-> ImuOf(record), gnss |-> s.gnss]),
                     gnss |-> <<>>, t |-> Stamp(record)]
               [] record.type = "G" -> [s EXCEPT !.gnss = <<FixOf(record)>>]
               [] OTHER -> s
  BY DEF ReadOn
<1> HIDE DEF record, next, line
<1>4. CASE record.type = "I"
  <2>1. /\ run' = RunTick(run, [imu |-> ImuOf(record), gnss |-> read.gnss])
        /\ read' = [read EXCEPT !.next = @ + 1, !.gnss = <<>>,
             !.compass = -QuaternionToEulerZyx(Orientation(record)).yaw]
    BY <1>2, <1>4 DEF ReplayI
  <2>2. next = [calls |-> Feed(s.calls, [imu |-> ImuOf(record), gnss |-> s.gnss]),
                gnss |-> <<>>, t |-> Stamp(record)]
    BY <1>3, <1>4
  <2>3. /\ run'.calls = Feed(run.calls, [imu |-> ImuOf(record), gnss |-> read.gnss])
        /\ run'.last = ImuOf(record)
    BY <2>1 DEF RunTick
  <2>4. ImuOf(record).t = Stamp(record)
    BY DEF ImuOf
  <2>5. read'.next = read.next + 1 /\ read'.gnss = <<>> /\ DOMAIN read' = DOMAIN read
    BY <1>1, <2>1
  <2> QED BY <2>2, <2>3, <2>4, <2>5 DEF next, line
<1>5. CASE record.type = "G"
  <2>1. ReplayG(FixOf(record))
    BY <1>2, <1>5
  <2>2. /\ read'.next = read.next + 1 /\ read'.gnss = <<FixOf(record)>>
        /\ DOMAIN read' = DOMAIN read /\ run' = run
    BY <1>1, <2>1 DEF ReplayG
  <2>3. next = [s EXCEPT !.gnss = <<FixOf(record)>>]
    BY <1>3, <1>5
  <2>4. next.calls = s.calls /\ next.gnss = <<FixOf(record)>> /\ next.t = s.t
    BY <1>1, <2>3
  <2> QED BY <2>2, <2>4 DEF next, line
<1>6. CASE record.type \notin {"I", "G"}
  <2>1. read' = [read EXCEPT !.next = @ + 1] /\ run' = run /\ next = s
    BY <1>2, <1>3, <1>6
  <2>2. read'.next = read.next + 1 /\ read'.gnss = read.gnss /\ DOMAIN read' = DOMAIN read
    BY <1>1, <2>1
  <2> QED BY <2>1, <2>2 DEF next, line
<1> QED
  BY <1>4, <1>5, <1>6

\* The reader goes on as the replay does.
LEMMA FeedReadLine ==
  ASSUME conf.command = "synthetic", FeedState, ReadLine
  PROVE  FeedState'
<1>1. /\ phase = "replay" /\ read.next <= Len(capture)
      /\ UNCHANGED <<conf, phase, cfg, src, exp, capture>>
  BY DEF ReadLine
<1>2. ScheduleInv' /\ \A s : KeepsUp(s) => KeepsUp(s)'
  BY <1>1, Unmoved DEF FeedState
<1>3. PICK T : capture \in Seq(T) /\ exp.lines \in Seq(T)
  BY DEF FeedState
<1>4. PICK h, s :
        /\ IsReplay(h, capture \o exp.lines, s) /\ KeepsUp(s)
        /\ exp.lines = <<>> /\ read.next \in 1 .. Len(capture) + 1
        /\ run.calls = h[read.next - 1].calls
        /\ read.gnss = h[read.next - 1].gnss
        /\ run.last.t = h[read.next - 1].t
  BY <1>1 DEF FeedState, ReplayStands
<1>5. capture \o exp.lines = capture
  <2>1. capture \o <<>> = capture
    BY <1>3
  <2> QED BY <1>4, <2>1
<1>6. PICK n \in Nat, r \in Nat : n = Len(capture) /\ r = read.next
  BY <1>3, <1>4
<1>7. r \in 1 .. n /\ r - 1 \in 0 .. n
  BY <1>1, <1>4, <1>6
<1>8. /\ h[r - 1] \in Replays
      /\ h[r] = ReadOn(h[r - 1], capture[r])
  BY <1>4, <1>5, <1>6, <1>7 DEF IsReplay
<1>9. /\ read'.next = r + 1 /\ read'.gnss = h[r].gnss
      /\ run'.calls = h[r].calls /\ run'.last.t = h[r].t
      /\ DOMAIN read' = DOMAIN read
  <2>1. PICK q : q = h[r - 1]
    OBVIOUS
  <2>2. q \in Replays /\ read.gnss = q.gnss /\ run.calls = q.calls /\ run.last.t = q.t
    BY <1>4, <1>6, <1>8, <2>1
  <2>3. LET next == ReadOn(q, capture[read.next])
         IN  /\ read'.next = read.next + 1 /\ read'.gnss = next.gnss
             /\ run'.calls = next.calls /\ run'.last.t = next.t
             /\ DOMAIN read' = DOMAIN read
    BY <2>2, ReadIs
  <2>4. h[r] = ReadOn(q, capture[read.next])
    BY <1>6, <1>8, <2>1
  <2> QED BY <1>6, <2>3, <2>4
<1>10. ReplayStands'
  <2>1. KeepsUp(s)' /\ IsReplay(h, capture' \o exp'.lines, s) /\ exp'.lines = <<>>
        /\ Len(capture') = n
    BY <1>1, <1>2, <1>4, <1>6
  <2>2. read'.next \in 1 .. n + 1 /\ read'.next - 1 = r
    BY <1>7, <1>9
  <2> QED BY <1>9, <2>1, <2>2 DEF ReplayStands
<1> QED
  BY <1>1, <1>2, <1>3, <1>9, <1>10 DEF FeedState

\* The reader is at the end.
LEMMA FeedEndReplay ==
  ASSUME conf.command = "synthetic", FeedState, EndReplay
  PROVE  phase' = "failed" \/ FeedState'
<1>1. phase = "replay" /\ UNCHANGED <<conf, cfg, src, run, exp, play, capture, read>>
  BY DEF EndReplay
<1> SUFFICES ASSUME phase' # "failed" PROVE FeedState'
  OBVIOUS
<1>2. phase' = "done"
  BY DEF EndReplay
<1>3. ScheduleInv' /\ \A s : KeepsUp(s) => KeepsUp(s)'
  BY <1>1, Unmoved DEF FeedState
<1>4. ReplayStands'
  <2>1. PICK h, s :
          /\ IsReplay(h, capture \o exp.lines, s) /\ KeepsUp(s)
          /\ exp.lines = <<>> /\ read.next \in 1 .. Len(capture) + 1
          /\ run.calls = h[read.next - 1].calls
          /\ read.gnss = h[read.next - 1].gnss
          /\ run.last.t = h[read.next - 1].t
    BY <1>1 DEF FeedState, ReplayStands
  <2>2. KeepsUp(s)'
    BY <1>3, <2>1
  <2>3. run' = run /\ exp' = exp /\ capture' = capture /\ read' = read
    BY <1>1
  <2> QED BY <2>1, <2>2, <2>3 DEF ReplayStands
<1> QED
  BY <1>1, <1>2, <1>3, <1>4 DEF FeedState

\* And nothing happens when nothing changes.
LEMMA FeedStays ==
  ASSUME conf.command = "synthetic", FeedState, UNCHANGED simVars
  PROVE  FeedState'
<1>1. UNCHANGED <<conf, phase, cfg, src, run, exp, capture, read>>
  BY DEF simVars
<1>2. ScheduleInv' /\ \A s : KeepsUp(s) => KeepsUp(s)'
  BY <1>1, Unmoved DEF FeedState
<1>3. ReplayStands'
  <2>1. PICK h, s :
          /\ IsReplay(h, capture \o exp.lines, s) /\ KeepsUp(s)
          /\ phase \in {"replay", "done"} =>
               /\ exp.lines = <<>> /\ read.next \in 1 .. Len(capture) + 1
               /\ run.calls = h[read.next - 1].calls
               /\ read.gnss = h[read.next - 1].gnss
               /\ run.last.t = h[read.next - 1].t
    BY DEF FeedState, ReplayStands
  <2>2. KeepsUp(s)'
    BY <1>2, <2>1
  <2>3. run' = run /\ exp' = exp /\ capture' = capture /\ read' = read /\ phase' = phase
    BY <1>1
  <2> QED BY <2>1, <2>2, <2>3 DEF ReplayStands
<1> QED
  BY <1>1, <1>2, <1>3 DEF FeedState

\* Each of the actions of the command.
LEMMA FeedStep == FeedInv /\ [SimNext]_simVars => FeedInv'
<1> SUFFICES ASSUME FeedInv, [SimNext]_simVars PROVE FeedInv'
  OBVIOUS
<1>1. conf' = conf /\ conf \in SimConfigs
  BY CommandStays DEF FeedInv
<1> SUFFICES ASSUME conf.command = "synthetic", phase' # "failed" PROVE FeedState'
  BY <1>1 DEF FeedInv
<1>2. phase # "failed"
  <2>1. ~UNCHANGED simVars /\ phase = "failed" => FALSE
    BY DEF SimNext, Load, Simulate, EndRun, Export, PlayLine, EndPlay, ReadLine, EndReplay
  <2> QED BY <2>1 DEF simVars
<1>3. FeedState
  BY <1>2 DEF FeedInv
<1>4. phase # "run"
  BY <1>3 DEF FeedState
<1>5. CASE UNCHANGED simVars
  BY <1>3, <1>5, FeedStays
<1>6. CASE Load
  BY <1>1, <1>3, <1>6, FeedLoad
<1>7. CASE Export
  BY <1>1, <1>3, <1>7, FeedExport
<1>8. CASE PlayLine
  BY <1>3, <1>8, FeedPlayLine
<1>9. CASE EndPlay
  BY <1>3, <1>9, FeedEndPlay
<1>10. CASE ReadLine
  BY <1>3, <1>10, FeedReadLine
<1>11. CASE EndReplay
  BY <1>3, <1>11, FeedEndReplay
<1>12. ~Simulate /\ ~EndRun
  BY <1>4 DEF Simulate, EndRun
<1> QED
  BY <1>5, <1>6, <1>7, <1>8, <1>9, <1>10, <1>11, <1>12 DEF SimNext

\* What the invariant says of the run and its replay.
LEMMA FeedsFromInv == FeedInv => ReplayFeedsFilter
<1> SUFFICES ASSUME FeedInv, conf.command = "synthetic", phase \in {"replay", "done"}
    PROVE
      /\ FedWithFixes =>
           /\ IsPrefix(Updates(run.calls), Updates(exp.calls))
           /\ read.next > Len(capture) =>
                \A i \in Len(Updates(run.calls)) + 1 .. Len(Updates(exp.calls)) :
                  Updates(exp.calls)[i].t > run.last.t
      /\ conf.interval <= conf.imuDt =>
           /\ IsPrefix(run.calls, exp.calls)
           /\ read.next > Len(capture) => run.calls = exp.calls
  BY DEF ReplayFeedsFilter, FedWithFixes
<1>1. FeedState
  BY DEF FeedInv
<1>2. PICK T : capture \in Seq(T) /\ exp.lines \in Seq(T)
  BY <1>1 DEF FeedState
<1>3. PICK h, s :
        /\ IsReplay(h, capture \o exp.lines, s) /\ KeepsUp(s)
        /\ exp.lines = <<>> /\ read.next \in 1 .. Len(capture) + 1
        /\ run.calls = h[read.next - 1].calls
        /\ run.last.t = h[read.next - 1].t
  BY <1>1 DEF FeedState, ReplayStands
<1>4. capture \o exp.lines = capture
  <2>1. capture \o <<>> = capture
    BY <1>2
  <2> QED BY <1>3, <2>1
<1>5. PICK n \in Nat, j \in Nat : n = Len(capture) /\ j = read.next - 1 /\ j <= n
  BY <1>2, <1>3
<1>6. h[j] \in Replays /\ h[n] = s /\ Before(h[j].calls, s.calls) /\ s \in Replays
  BY <1>3, <1>4, <1>5 DEF IsReplay, KeepsUp
<1>7. run.calls = h[j].calls /\ run.last.t = h[j].t /\ (read.next > Len(capture) => h[j] = s)
  BY <1>3, <1>5, <1>6
<1>8. PICK r, l : r = run.calls /\ l = s.calls
  OBVIOUS
<1>9. r \in Seq(FilterCalls) /\ l \in Seq(FilterCalls) /\ s.gnss \in FixSeqs /\ s.t \in Int
  BY <1>6, <1>7, <1>8 DEF Replays
<1>10. IsPrefix(r, l) /\ IsPrefix(Updates(r), Updates(l))
  BY <1>6, <1>7, <1>8 DEF Before
<1>11. ASSUME FedWithFixes
       PROVE  /\ IsPrefix(Updates(run.calls), Updates(exp.calls))
              /\ read.next > Len(capture) =>
                   \A i \in Len(Updates(run.calls)) + 1 .. Len(Updates(exp.calls)) :
                     Updates(exp.calls)[i].t > run.last.t
  <2>1. PICK u, c, b : u = Updates(l) /\ c = Corrects(s.gnss) /\ b = Updates(r)
    OBVIOUS
  <2>2. /\ u \in Seq(FilterCalls) /\ b \in Seq(FilterCalls) /\ c \in Seq(FilterCalls)
        /\ s.gnss = <<>> => c = <<>>
        /\ \A fix \in Fixes : s.gnss = <<fix>> => c = <<Correct(fix)>>
    BY <1>9, <2>1, UpdatesType, CorrectsType
  <2>3. Updates(exp.calls) = u \o c /\ \A fix \in Fixes : s.gnss = <<fix>> => s.t < fix.t
    BY <1>3, <1>8, <1>11, <2>1 DEF KeepsUp, Waits
  <2>4. IsPrefix(b, u \o c)
    <3>1. u \o c \in Seq(FilterCalls)
      BY <2>2
    <3>2. IsPrefix(u, u \o c) /\ IsPrefix(b, u)
      BY <1>10, <2>1, <2>2, PrefixOf
    <3> QED BY <2>2, <3>1, <3>2, PrefixOf
  <2>5. ASSUME read.next > Len(capture), NEW i \in Len(b) + 1 .. Len(u \o c)
        PROVE  (u \o c)[i].t > run.last.t
    <3>1. b = u /\ run.last.t = s.t
      BY <1>7, <1>8, <2>1, <2>5
    <3>2. PICK fix \in Fixes : s.gnss = <<fix>>
      <4>1. c # <<>>
        BY <2>2, <2>5, <3>1
      <4> QED BY <1>9, <2>2, <4>1 DEF FixSeqs
    <3>3. c = <<Correct(fix)>> /\ s.t < fix.t
      BY <2>2, <2>3, <3>2
    <3>4. i = Len(u) + 1 /\ (u \o c)[i] = Correct(fix)
      BY <2>2, <2>5, <3>1, <3>3
    <3>5. Correct(fix).t = fix.t /\ fix.t \in Int
      BY DEF Correct, Fixes
    <3> QED BY <1>9, <3>1, <3>3, <3>4, <3>5
  <2> QED BY <1>8, <2>1, <2>3, <2>4, <2>5
<1>12. ASSUME conf.interval <= conf.imuDt
       PROVE  /\ IsPrefix(run.calls, exp.calls)
              /\ read.next > Len(capture) => run.calls = exp.calls
  <2>1. s.calls = exp.calls
    BY <1>3, <1>12 DEF KeepsUp
  <2> QED BY <1>7, <1>8, <1>10, <2>1
<1> QED
  BY <1>11, <1>12

\* A capture replayed makes the filter calls of the run it was taken of: with a
\* line for every fix each correction once, in order and with its values, except
\* one that came after the last I line; with a line for every sample all calls.
THEOREM ReplayIsTheRun == SimSpec => []ReplayFeedsFilter
BY FeedInit, FeedStep, FeedsFromInv, PTL DEF SimSpec

-----------------------------------------------------------------------------
(* SimSession: the last I line of a capture. *)

ILines(lines, i) == {k \in 1 .. i : lines[k].type = "I"}

\* The stamp of the last I line among the first i.
LastStamp(lines, i) ==
  IF ILines(lines, i) = {} THEN NoTime ELSE Stamp(lines[Max(ILines(lines, i))])

LEMMA SinceOn ==
  ASSUME NEW lines, NEW i \in Nat
  PROVE  /\ ILines(lines, i + 1) =
              IF lines[i + 1].type = "I" THEN ILines(lines, i) \cup {i + 1} ELSE ILines(lines, i)
         /\ LastStamp(lines, i + 1) =
              IF lines[i + 1].type = "I" THEN Stamp(lines[i + 1]) ELSE LastStamp(lines, i)
<1>1. CASE lines[i + 1].type = "I"
  <2>1. /\ ILines(lines, i + 1) \in SUBSET (1 .. i + 1) /\ i + 1 \in ILines(lines, i + 1)
        /\ ILines(lines, i + 1) = ILines(lines, i) \cup {i + 1}
    BY <1>1 DEF ILines
  <2>2. Max(ILines(lines, i + 1)) = i + 1 /\ ILines(lines, i + 1) # {}
    BY <2>1, MaxBelow
  <2> QED BY <1>1, <2>1, <2>2 DEF LastStamp
<1>2. CASE lines[i + 1].type # "I"
  <2>1. ILines(lines, i + 1) = ILines(lines, i)
    BY <1>2 DEF ILines
  <2> QED BY <1>2, <2>1 DEF LastStamp
<1> QED
  BY <1>1, <1>2

LEMMA SinceNone == ASSUME NEW lines PROVE ILines(lines, 0) = {} /\ LastStamp(lines, 0) = NoTime
BY DEF ILines, LastStamp

\* It is in the lines that there are.
LEMMA SinceSame ==
  ASSUME NEW lines, NEW longer, NEW i \in Nat, \A k \in 1 .. i : longer[k] = lines[k]
  PROVE  LastStamp(longer, i) = LastStamp(lines, i)
<1>1. ILines(longer, i) = ILines(lines, i)
  BY DEF ILines
<1>2. ASSUME ILines(lines, i) # {}
      PROVE  longer[Max(ILines(lines, i))] = lines[Max(ILines(lines, i))]
  <2>1. ILines(lines, i) \in SUBSET (1 .. i)
    BY DEF ILines
  <2>2. Max(ILines(lines, i)) \in ILines(lines, i)
    BY <1>2, <2>1, MaxIsMember
  <2> QED BY <2>1, <2>2
<1> QED
  BY <1>1, <1>2 DEF LastStamp

\* What a line of a clean capture is, for a boat on profile: a sample that points
\* along its heading, a fix of its heading and at most a period after the I line
\* before it, or neither.
IsSample(profile, line) ==
  \E imu \in Imus : /\ line = ImuLine(imu) /\ imu.t \in Nat
                    /\ Points(imu.orientation, SampleHeading(profile, imu.t).deg)
IsFix(profile, period, before, line) ==
  \E fix \in Fixes : /\ line = GnssLine(fix) /\ fix.t \in Nat
                     /\ SameDirection(fix.heading, SampleHeading(profile, fix.t).deg)
                     /\ before # NoTime => fix.t - before \in 1 .. period
IsNeither(line) == line.type \notin {"I", "G"} /\ Reread(line).type \notin {"I", "G"}
CleanLine(profile, period, before, line) ==
  IsSample(profile, line) \/ IsFix(profile, period, before, line) \/ IsNeither(line)

CleanLines(profile, period, lines) ==
  \A i \in 1 .. Len(lines) : CleanLine(profile, period, LastStamp(lines, i - 1), lines[i])

\* The stamp of a sample is a number.
LEMMA SinceType ==
  ASSUME NEW profile, NEW period, NEW lines, CleanLines(profile, period, lines),
         NEW i \in Nat, i <= Len(lines), Len(lines) \in Nat, ILines(lines, i) # {}
  PROVE  LastStamp(lines, i) \in Nat
<1>1. ILines(lines, i) \in SUBSET (1 .. i)
  BY DEF ILines
<1>2. PICK k \in 1 .. i : k = Max(ILines(lines, i)) /\ lines[k].type = "I"
  <2>1. Max(ILines(lines, i)) \in ILines(lines, i)
    BY <1>1, MaxIsMember
  <2> QED BY <2>1 DEF ILines
<1>3. CleanLine(profile, period, LastStamp(lines, k - 1), lines[k])
  BY <1>2 DEF CleanLines
<1>4. IsSample(profile, lines[k])
  <2>1. \A fix \in Fixes : GnssLine(fix).type = "G"
    BY GnssReading
  <2> QED BY <1>2, <1>3, <2>1 DEF CleanLine, IsFix, IsNeither
<1>5. Stamp(lines[k]) \in Nat
  BY <1>4, ImuReading DEF IsSample
<1> QED
  BY <1>2, <1>5 DEF LastStamp

\* One line more.
LEMMA CleanOn ==
  ASSUME NEW profile, NEW period, NEW T, NEW lines \in Seq(T), NEW line \in T,
         CleanLines(profile, period, lines),
         CleanLine(profile, period, LastStamp(lines, Len(lines)), line)
  PROVE  LET longer == Append(lines, line)
         IN  /\ CleanLines(profile, period, longer)
             /\ LastStamp(longer, Len(longer)) =
                  IF line.type = "I" THEN Stamp(line) ELSE LastStamp(lines, Len(lines))
<1> DEFINE longer == Append(lines, line)
           n == Len(lines)
<1>1. /\ n \in Nat /\ Len(longer) = n + 1
      /\ longer[n + 1] = line /\ \A k \in 1 .. n : longer[k] = lines[k]
  OBVIOUS
<1> HIDE DEF longer, n
<1>2. ASSUME NEW i \in 0 .. n PROVE LastStamp(longer, i) = LastStamp(lines, i)
  <2>1. i \in Nat /\ \A k \in 1 .. i : longer[k] = lines[k]
    BY <1>1
  <2> QED BY <2>1, SinceSame
<1>3. ASSUME NEW i \in 1 .. n + 1 PROVE CleanLine(profile, period, LastStamp(longer, i - 1), longer[i])
  <2>1. CASE i = n + 1
    <3>1. i - 1 = n /\ LastStamp(longer, n) = LastStamp(lines, n)
      BY <1>1, <1>2, <2>1
    <3> QED BY <1>1, <2>1, <3>1 DEF n
  <2>2. CASE i \in 1 .. n
    <3>1. LastStamp(longer, i - 1) = LastStamp(lines, i - 1) /\ longer[i] = lines[i]
      BY <1>1, <1>2, <2>2
    <3> QED BY <1>1, <2>2, <3>1 DEF CleanLines, n
  <2> QED BY <1>1, <2>1, <2>2
<1>4. LastStamp(longer, n + 1) = IF line.type = "I" THEN Stamp(line) ELSE LastStamp(lines, n)
  <2>1. LastStamp(longer, n) = LastStamp(lines, n)
    BY <1>1, <1>2
  <2> QED BY <1>1, <2>1, SinceOn
<1> QED
  BY <1>1, <1>3, <1>4 DEF CleanLines, longer, n

\* The lines of a tick more.
LEMMA TickClean ==
  ASSUME NEW profile, NEW period, NEW S, NEW lines \in Seq(S),
         CleanLines(profile, period, lines),
         NEW tick, tick.imu \in Imus, tick.imu.t \in Nat, tick.gnss \in FixSeqs,
         Points(tick.imu.orientation, SampleHeading(profile, tick.imu.t).deg),
         \A fix \in Fixes : tick.gnss = <<fix>> =>
           IsFix(profile, period, LastStamp(lines, Len(lines)), GnssLine(fix)),
         NEW calls, calls[Latest(calls)].t \in Int, NEW emits \in BOOLEAN
  PROVE  LET longer == lines \o Exported(tick, calls, emits)
         IN  /\ CleanLines(profile, period, longer)
             /\ LastStamp(longer, Len(longer)) =
                  IF emits THEN tick.imu.t ELSE LastStamp(lines, Len(lines))
<1> DEFINE fixLines == [i \in DOMAIN tick.gnss |-> GnssLine(tick.gnss[i])]
           F == FusionLine(calls)
           I == ImuLine(tick.imu)
           more == lines \o fixLines
<1>1. /\ CleanLines(profile, period, more)
      /\ LastStamp(more, Len(more)) = LastStamp(lines, Len(lines))
      /\ \E T : more \in Seq(T) /\ lines \in Seq(T) /\ fixLines \in Seq(T)
  <2>1. CASE tick.gnss = <<>>
    <3>1. fixLines = <<>>
      BY <2>1
    <3>2. <<>> \in Seq(S) /\ lines \o <<>> = lines
      OBVIOUS
    <3> HIDE DEF fixLines
    <3> QED BY <3>1, <3>2
  <2>2. CASE \E fix \in Fixes : tick.gnss = <<fix>>
    <3>1. PICK fix \in Fixes : tick.gnss = <<fix>>
      BY <2>2
    <3>2. PICK g : g = GnssLine(fix)
      OBVIOUS
    <3>3. fixLines = <<g>>
      BY <3>1, <3>2
    <3>4. lines \in Seq(S \cup {g}) /\ g \in S \cup {g} /\ <<g>> \in Seq(S \cup {g})
          /\ lines \o <<g>> = Append(lines, g) /\ Append(lines, g) \in Seq(S \cup {g})
      OBVIOUS
    <3>5. g.type = "G" /\ CleanLine(profile, period, LastStamp(lines, Len(lines)), g)
      BY <3>1, <3>2, GnssReading DEF CleanLine
    <3> HIDE DEF fixLines
    <3>6. CleanLines(profile, period, Append(lines, g))
          /\ LastStamp(Append(lines, g), Len(Append(lines, g))) = LastStamp(lines, Len(lines))
      BY <3>4, <3>5, CleanOn
    <3> QED BY <3>3, <3>4, <3>6
  <2> QED BY <2>1, <2>2 DEF FixSeqs
<1>2. PICK T : more \in Seq(T) /\ lines \in Seq(T) /\ fixLines \in Seq(T)
  BY <1>1
<1>3. Exported(tick, calls, emits) = fixLines \o IF emits THEN <<F, I>> ELSE <<>>
  BY DEF Exported, TickLines
<1>4. CleanLine(profile, period, LastStamp(more, Len(more)), F) /\ F.type = "F"
  <2>1. Reread(F).type = "F"
    BY FusionReading
  <2>2. F.type = "F"
    BY DEF FusionLine
  <2> HIDE DEF F, more
  <2> QED BY <2>1, <2>2 DEF CleanLine, IsNeither
<1>5. /\ I.type = "I" /\ Stamp(I) = tick.imu.t
      /\ \A before : CleanLine(profile, period, before, I)
  <2>1. I.type = "I" /\ Stamp(I) = tick.imu.t
    BY ImuReading
  <2>2. IsSample(profile, I)
    BY DEF IsSample
  <2> HIDE DEF I
  <2> QED BY <2>1, <2>2 DEF CleanLine
<1> HIDE DEF fixLines, F, I
<1>6. CASE ~emits
  <2>1. lines \o Exported(tick, calls, emits) = more
    BY <1>2, <1>3, <1>6
  <2> HIDE DEF more
  <2> QED BY <1>1, <1>6, <2>1
<1>7. CASE emits
  <2> DEFINE T2 == T \cup {F, I}
  <2>1. /\ more \in Seq(T2) /\ F \in T2 /\ I \in T2 /\ Append(more, F) \in Seq(T2)
        /\ lines \in Seq(T2) /\ fixLines \in Seq(T2)
    BY <1>2
  <2> HIDE DEF T2
  <2>2. lines \o (fixLines \o <<F, I>>) = Append(Append(more, F), I)
    BY <2>1
  <2> HIDE DEF more
  <2>3. CleanLines(profile, period, Append(more, F))
    BY <1>1, <1>4, <2>1, CleanOn
  <2>4. PICK m : m = Append(more, F)
    OBVIOUS
  <2>5. CleanLines(profile, period, Append(m, I))
        /\ LastStamp(Append(m, I), Len(Append(m, I))) = tick.imu.t
    <3>1. /\ m \in Seq(T2) /\ I \in T2 /\ I.type = "I" /\ CleanLines(profile, period, m)
          /\ CleanLine(profile, period, LastStamp(m, Len(m)), I) /\ Stamp(I) = tick.imu.t
      BY <1>5, <2>1, <2>3, <2>4
    <3>2. LET longer == Append(m, I)
          IN  /\ CleanLines(profile, period, longer)
              /\ LastStamp(longer, Len(longer)) =
                   IF I.type = "I" THEN Stamp(I) ELSE LastStamp(m, Len(m))
      BY <3>1, CleanOn
    <3> QED BY <3>1, <3>2
  <2> QED BY <1>3, <1>7, <2>2, <2>4, <2>5
<1> QED
  BY <1>6, <1>7

\* The exporter's schedule since the last I line, or before the first.
SincePrint(since) ==
  /\ src.t = 0 => since = NoTime
  /\ src.t > 0 => /\ since \in Nat /\ OnSample(conf.imuDt, since) /\ since < src.t
                  /\ exp.next <= since + conf.interval
                  /\ since = src.t - conf.imuDt \/ exp.next > src.t - conf.imuDt

\* A fix comes at most a period after the last I line.
LEMMA FixLag ==
  ASSUME conf \in SimConfigs, ScheduleInv, NEW since, SincePrint(since), since # NoTime
  PROVE  src.t - since \in 1 .. Period
<1>1. PICK d \in Nat \ {0}, v \in Nat \ {0}, p \in Nat :
        d = conf.imuDt /\ v = conf.interval /\ p = Period /\ v <= p /\ d <= p /\ OnSample(d, p)
  BY PeriodIs
<1>2. PICK t \in Nat : t = src.t /\ t > 0 /\ OnSample(d, t)
  BY <1>1 DEF ScheduleInv, SincePrint
<1>3. PICK s \in Nat, n \in Nat :
        /\ s = since /\ OnSample(d, s) /\ s < t /\ n = exp.next
        /\ n <= s + v /\ (s = t - d \/ n > t - d)
  BY <1>1, <1>2 DEF SincePrint, ScheduleInv
<1>4. OnSample(d, t - s - d)
  <2>1. d \in Int /\ t \in Int /\ s \in Int /\ t - s \in Int
    BY <1>1, <1>2, <1>3
  <2>2. OnSample(d, t - s)
    BY <1>2, <1>3, <2>1, OnSampleSums
  <2>3. d = d * 1
    BY <1>1
  <2>4. OnSample(d, d)
    BY <2>3 DEF OnSample
  <2> QED BY <2>1, <2>2, <2>4, OnSampleSums
<1>5. CASE s = t - d
  BY <1>1, <1>2, <1>3, <1>5
<1>6. CASE n > t - d
  <2>1. t - s - d < p /\ t - s - d \in Int
    BY <1>1, <1>2, <1>3, <1>6
  <2>2. (t - s - d) + d <= p
    BY <1>1, <1>4, <2>1, NextSample
  <2> QED BY <1>1, <1>2, <1>3, <2>2
<1> QED
  BY <1>3, <1>5, <1>6

\* The tick exported goes on with it.
LEMMA SincePrintOn ==
  ASSUME conf \in SimConfigs, ScheduleInv, NEW tick, ExportsTick(tick),
         NEW since, SincePrint(since), NEW next, next = IF Prints THEN src.t ELSE since
  PROVE  SincePrint(next)'
<1>1. PICK d \in Nat \ {0}, v \in Nat \ {0} : d = conf.imuDt /\ v = conf.interval
  BY PeriodIs
<1>2. PICK t \in Nat : t = src.t /\ OnSample(d, t)
  BY <1>1 DEF ScheduleInv
<1>3. /\ conf' = conf /\ src'.t = t + d
      /\ exp'.next = IF Prints THEN NextPrint + v ELSE NextPrint
  BY <1>1, <1>2 DEF ExportsTick
<1>4. CASE Prints
  <2>1. PICK n \in Nat : n = NextPrint /\ n <= t
    BY <1>2, <1>4 DEF Prints, NextPrint, ScheduleInv
  <2>2. next = t /\ exp'.next = n + v
    BY <1>2, <1>3, <1>4, <2>1
  <2>3. src'.t > 0 /\ next < src'.t /\ exp'.next <= next + v /\ next = src'.t - d
    BY <1>1, <1>2, <1>3, <2>1, <2>2
  <2> QED BY <1>1, <1>2, <1>3, <2>2, <2>3 DEF SincePrint
<1>5. CASE ~Prints
  <2>1. t > 0
    <3> SUFFICES ASSUME t = 0 PROVE FALSE
      BY <1>2
    <3>1. exp.next = NoTime
      BY <1>2 DEF ScheduleInv
    <3> QED BY <1>2, <1>5, <3>1 DEF Prints, NextPrint
  <2>2. PICK n \in Nat : n = exp.next /\ n = NextPrint /\ t < n
    BY <1>2, <1>5, <2>1 DEF Prints, NextPrint, ScheduleInv, NoTime
  <2>3. PICK s \in Nat : s = since /\ OnSample(d, s) /\ s < t /\ n <= s + v
    BY <1>1, <1>2, <2>1, <2>2 DEF SincePrint
  <2>4. next = s /\ exp'.next = n
    BY <1>3, <1>5, <2>2, <2>3
  <2>5. src'.t > 0 /\ next < src'.t /\ exp'.next <= next + v /\ exp'.next > src'.t - d
    BY <1>1, <1>2, <1>3, <2>2, <2>3, <2>4
  <2> QED BY <1>1, <1>3, <2>3, <2>4, <2>5 DEF SincePrint
<1> QED
  BY <1>4, <1>5

-----------------------------------------------------------------------------
(* SimSession: what the analysis of a capture has found. *)

\* The fixes it compares among the first j lines.
IsCompared(lines, g) ==
  lines[g].type = "G" /\ Scalar(lines[g], "valid") = 1 /\ ILines(lines, g) # {}
Compared(lines, j) == {g \in 1 .. j : IsCompared(lines, g)}

LEMMA ComparedOn ==
  ASSUME NEW lines, NEW i \in Nat
  PROVE  /\ IsFiniteSet(Compared(lines, i)) /\ Cardinality(Compared(lines, i)) \in Nat
         /\ IsCompared(lines, i + 1) =>
              /\ Compared(lines, i + 1) = Compared(lines, i) \cup {i + 1}
              /\ Cardinality(Compared(lines, i + 1)) = Cardinality(Compared(lines, i)) + 1
         /\ ~IsCompared(lines, i + 1) => Compared(lines, i + 1) = Compared(lines, i)
         /\ \A g \in Compared(lines, i) :
              Cardinality(Compared(lines, g)) \in 1 .. Cardinality(Compared(lines, i))
<1>1. ASSUME NEW j \in Nat
      PROVE  IsFiniteSet(Compared(lines, j)) /\ Cardinality(Compared(lines, j)) \in Nat
  <2>1. Compared(lines, j) \subseteq 1 .. j
    BY DEF Compared
  <2> QED BY <2>1, UpTo, FS_Subset, FS_CardinalityType
<1>2. IsCompared(lines, i + 1) => Compared(lines, i + 1) = Compared(lines, i) \cup {i + 1}
  BY DEF Compared
<1>3. i + 1 \notin Compared(lines, i)
  BY DEF Compared
<1>4. ~IsCompared(lines, i + 1) => Compared(lines, i + 1) = Compared(lines, i)
  BY DEF Compared
<1>5. Cardinality(Compared(lines, i) \cup {i + 1}) = Cardinality(Compared(lines, i)) + 1
  BY <1>1, <1>3, FS_AddElement
<1>6. ASSUME NEW g \in Compared(lines, i)
      PROVE  Cardinality(Compared(lines, g)) \in 1 .. Cardinality(Compared(lines, i))
  <2>1. g \in Nat /\ g <= i /\ g \in Compared(lines, g) /\ Compared(lines, g) \subseteq Compared(lines, i)
    BY DEF Compared
  <2>2. Cardinality(Compared(lines, g)) <= Cardinality(Compared(lines, i))
    BY <1>1, <2>1, FS_Subset
  <2>3. Cardinality(Compared(lines, g)) # 0
    BY <1>1, <2>1, FS_EmptySet
  <2> QED BY <1>1, <2>1, <2>2, <2>3
<1> QED
  BY <1>1, <1>2, <1>4, <1>5, <1>6

Errors == Seq([heading : Int, error : Int])

\* The analysis after the lines before r.next: the compass of the last I line, and
\* for each fix compared how far the boat has turned since.
Analyzed(profile, lines, r) ==
  LET j == r.next - 1
  IN  /\ IF ILines(lines, j) = {} THEN r.compass = NaN
         ELSE /\ r.compass \in Int \ {NaN}
              /\ SameDirection(r.compass, SampleHeading(profile, LastStamp(lines, j)).deg)
      /\ r.samples \in Errors /\ Len(r.samples) = Cardinality(Compared(lines, j))
      /\ \A g \in Compared(lines, j) :
           SameDirection(r.samples[Cardinality(Compared(lines, g))].error,
                         SampleHeading(profile, LastStamp(lines, g)).deg
                           - SampleHeading(profile, Stamp(lines[g])).deg)

\* A line that is not compared leaves the samples.
LEMMA AnalyzedOther ==
  ASSUME NEW profile, NEW lines, NEW r, NEW next, NEW j \in Nat, r.next = j + 1, next.next = j + 2,
         Analyzed(profile, lines, r), ~IsCompared(lines, j + 1), next.samples = r.samples,
         \/ /\ lines[j + 1].type # "I" /\ next.compass = r.compass
         \/ /\ lines[j + 1].type = "I" /\ next.compass \in Int \ {NaN}
            /\ SameDirection(next.compass, SampleHeading(profile, Stamp(lines[j + 1])).deg)
  PROVE  Analyzed(profile, lines, next)
<1>1. r.next - 1 = j /\ next.next - 1 = j + 1
  OBVIOUS
<1>2. Compared(lines, j + 1) = Compared(lines, j)
  BY ComparedOn
<1>3. IF ILines(lines, j + 1) = {} THEN next.compass = NaN
      ELSE /\ next.compass \in Int \ {NaN}
           /\ SameDirection(next.compass, SampleHeading(profile, LastStamp(lines, j + 1)).deg)
  <2>1. CASE lines[j + 1].type # "I"
    <3>1. ILines(lines, j + 1) = ILines(lines, j) /\ LastStamp(lines, j + 1) = LastStamp(lines, j)
      BY <2>1, SinceOn
    <3> QED BY <1>1, <2>1, <3>1 DEF Analyzed
  <2>2. CASE lines[j + 1].type = "I"
    <3>1. j + 1 \in ILines(lines, j + 1) /\ LastStamp(lines, j + 1) = Stamp(lines[j + 1])
      BY <2>2, SinceOn
    <3> QED BY <2>2, <3>1
  <2> QED BY <2>1, <2>2
<1> QED
  BY <1>1, <1>2, <1>3 DEF Analyzed

\* A fix compared gives a sample.
LEMMA AnalyzedFix ==
  ASSUME NEW profile, NEW lines, NEW r, NEW next, NEW j \in Nat, r.next = j + 1, next.next = j + 2,
         Analyzed(profile, lines, r), lines[j + 1].type = "G", IsCompared(lines, j + 1),
         next.compass = r.compass, next.samples \in Errors,
         Len(next.samples) = Len(r.samples) + 1,
         \A i \in 1 .. Len(r.samples) : next.samples[i] = r.samples[i],
         NEW x, next.samples[Len(r.samples) + 1] = x,
         SameDirection(x.error, SampleHeading(profile, LastStamp(lines, j)).deg
                                  - SampleHeading(profile, Stamp(lines[j + 1])).deg)
  PROVE  Analyzed(profile, lines, next)
<1>1. r.next - 1 = j /\ next.next - 1 = j + 1
  OBVIOUS
<1>2. /\ Compared(lines, j + 1) = Compared(lines, j) \cup {j + 1}
      /\ Cardinality(Compared(lines, j + 1)) = Cardinality(Compared(lines, j)) + 1
  BY ComparedOn
<1>3. ILines(lines, j + 1) = ILines(lines, j) /\ LastStamp(lines, j + 1) = LastStamp(lines, j)
  BY SinceOn
<1>4. PICK n \in Nat, s \in Errors :
        n = Cardinality(Compared(lines, j)) /\ s = r.samples /\ Len(s) = n
  BY <1>1, ComparedOn DEF Analyzed
<1>5. /\ Len(next.samples) = n + 1 /\ next.samples[n + 1] = x
      /\ \A i \in 1 .. n : next.samples[i] = s[i]
  BY <1>4
<1>6. ASSUME NEW g \in Compared(lines, j + 1)
      PROVE  SameDirection(next.samples[Cardinality(Compared(lines, g))].error,
                           SampleHeading(profile, LastStamp(lines, g)).deg
                             - SampleHeading(profile, Stamp(lines[g])).deg)
  <2>1. CASE g = j + 1
    <3>1. Cardinality(Compared(lines, g)) = n + 1 /\ LastStamp(lines, g) = LastStamp(lines, j)
      BY <1>2, <1>3, <1>4, <2>1
    <3> QED BY <1>4, <1>5, <2>1, <3>1
  <2>2. CASE g \in Compared(lines, j)
    <3>1. Cardinality(Compared(lines, g)) \in 1 .. n
      BY <1>4, <2>2, ComparedOn
    <3>2. next.samples[Cardinality(Compared(lines, g))] = s[Cardinality(Compared(lines, g))]
      BY <1>4, <1>5, <3>1
    <3> QED BY <1>1, <1>4, <2>2, <3>2 DEF Analyzed
  <2> QED BY <1>2, <2>1, <2>2
<1>7. next.samples \in Errors /\ Len(next.samples) = Cardinality(Compared(lines, j + 1))
  BY <1>2, <1>4, <1>5
<1>8. IF ILines(lines, j + 1) = {} THEN next.compass = NaN
      ELSE /\ next.compass \in Int \ {NaN}
           /\ SameDirection(next.compass, SampleHeading(profile, LastStamp(lines, j + 1)).deg)
  BY <1>1, <1>3 DEF Analyzed
<1> QED
  BY <1>1, <1>6, <1>7, <1>8 DEF Analyzed

\* The difference of two directions.
LEMMA DirectionsApart ==
  ASSUME NEW a \in Int, NEW b \in Int, NEW x \in Int, NEW y \in Int,
         SameDirection(a, x), SameDirection(b, y)
  PROVE  Wrap180(a - b) \in Int /\ SameDirection(Wrap180(a - b), x - y)
<1>1. PICK c \in Int : c = Wrap180(a - b) /\ SameDirection(c, a - b)
  BY WrapKeepsDirection
<1>2. PICK k \in Int, l \in Int, m \in Int :
        a - x = Turn * k /\ b - y = Turn * l /\ c - (a - b) = Turn * m
  BY <1>1 DEF SameDirection
<1>3. c - (x - y) = Turn * (k - l + m) /\ k - l + m \in Int
  BY <1>2 DEF Turn
<1> QED
  BY <1>1, <1>3 DEF SameDirection

\* The analysis reads a line.
LEMMA ReadAnalyzed ==
  ASSUME conf \in SimConfigs, NEW T, capture \in Seq(T), read.next \in Nat \ {0},
         DOMAIN read = {"next", "gnss", "compass", "samples"}, ReadLine, NEW period,
         CleanLines(conf.scenario.heading, period, capture),
         Analyzed(conf.scenario.heading, capture, read)
  PROVE  Analyzed(conf.scenario.heading, capture, read')
<1> DEFINE profile == conf.scenario.heading
           line == capture[read.next]
           record == Reread(line)
<1>1. PICK j \in Nat : read.next = j + 1 /\ j + 1 \in 1 .. Len(capture)
  <2>1. PICK n \in Nat, r \in Nat \ {0} : n = Len(capture) /\ r = read.next /\ r <= n
    BY DEF ReadLine
  <2>2. r - 1 \in Nat /\ r = (r - 1) + 1 /\ r \in 1 .. n
    BY <2>1
  <2> QED BY <2>1, <2>2
<1>2. CleanLine(profile, period, LastStamp(capture, j), line) /\ profile \in Profiles
  BY <1>1, ProfileOf DEF CleanLines
<1>3. (CASE record.type = "I" -> ReplayI(record)
         [] record.type = "G" -> ReplayG(FixOf(record))
         [] OTHER -> read' = [read EXCEPT !.next = @ + 1] /\ UNCHANGED run)
  BY DEF ReadLine, Reread
<1>4. line = capture[j + 1]
  BY <1>1
<1> HIDE DEF record, line, profile
<1>5. CASE IsNeither(line)
  <2>1. read' = [read EXCEPT !.next = @ + 1]
    BY <1>3, <1>5 DEF IsNeither, record
  <2>2. read'.next = j + 2 /\ read'.compass = read.compass /\ read'.samples = read.samples
    BY <1>1, <2>1
  <2>3. ~IsCompared(capture, j + 1) /\ capture[j + 1].type # "I"
    BY <1>4, <1>5 DEF IsNeither, IsCompared
  <2> QED BY <1>1, <2>2, <2>3, AnalyzedOther DEF profile
<1>6. CASE IsSample(profile, line)
  <2>1. PICK imu \in Imus : /\ line = ImuLine(imu) /\ imu.t \in Nat
                            /\ Points(imu.orientation, SampleHeading(profile, imu.t).deg)
    BY <1>6 DEF IsSample
  <2>2. record = line /\ line.type = "I" /\ Stamp(line) = imu.t
    BY <2>1, ImuReading DEF record
  <2>3. ReplayI(line)
    BY <1>3, <2>2
  <2>4. Orientation(line) = imu.orientation
    <3>1. PICK w \in Int, x \in Int, y \in Int, z \in Int :
            imu.orientation = [w |-> w, x |-> x, y |-> y, z |-> z]
      BY DEF Imus, Quats
    <3>2. Orientation(line) = Quaternion(w, x, y, z)
      BY <2>1, <3>1 DEF Orientation, ImuLine, Number, Real
    <3> QED BY <3>1, <3>2 DEF Quaternion
  <2>5. read' = [read EXCEPT !.next = @ + 1, !.gnss = <<>>,
                   !.compass = -QuaternionToEulerZyx(imu.orientation).yaw]
    BY <2>3, <2>4 DEF ReplayI
  <2>6. PICK compass : compass = -QuaternionToEulerZyx(imu.orientation).yaw
    OBVIOUS
  <2>7. read'.next = j + 2 /\ read'.compass = compass /\ read'.samples = read.samples
    BY <1>1, <2>5, <2>6
  <2>8. compass \in Int \ {NaN} /\ SameDirection(compass, SampleHeading(profile, imu.t).deg)
    BY <2>1, <2>6 DEF Points
  <2>9. ~IsCompared(capture, j + 1) /\ capture[j + 1].type = "I" /\ Stamp(capture[j + 1]) = imu.t
    BY <1>4, <2>2 DEF IsCompared
  <2> QED BY <1>1, <2>7, <2>8, <2>9, AnalyzedOther DEF profile
<1>7. CASE IsFix(profile, period, LastStamp(capture, j), line)
  <2>1. PICK fix \in Fixes : /\ line = GnssLine(fix) /\ fix.t \in Nat
                             /\ SameDirection(fix.heading, SampleHeading(profile, fix.t).deg)
    BY <1>7 DEF IsFix
  <2>2. record = line /\ line.type = "G" /\ FixOf(record) = fix
    BY <2>1, GnssReading DEF record
  <2>3. ReplayG(fix)
    BY <1>3, <2>2
  <2>4. /\ Stamp(line) = fix.t /\ (Scalar(line, "valid") = 1 <=> fix.valid)
        /\ fix.valid \in BOOLEAN /\ fix.heading \in Int
    <3>1. FixOf(line).t = fix.t /\ FixOf(line).valid = fix.valid
      BY <2>2
    <3>2. Stamp(line) = fix.t /\ (Scalar(line, "valid") = 1) = fix.valid
      BY <3>1 DEF FixOf
    <3> QED BY <3>2 DEF Fixes
  <2>5. PICK error : error = Wrap180(read.compass - fix.heading)
    OBVIOUS
  <2>6. /\ read'.next = j + 2 /\ read'.compass = read.compass
        /\ read'.samples = IF fix.valid /\ read.compass # NaN
                             THEN Append(read.samples, [heading |-> fix.heading, error |-> error])
                             ELSE read.samples
    BY <1>1, <2>3, <2>5 DEF ReplayG
  <2>7. ILines(capture, j + 1) = ILines(capture, j) /\ capture[j + 1].type = "G"
    BY <1>4, <2>2, SinceOn
  <2>8. IF ILines(capture, j) = {} THEN read.compass = NaN
        ELSE /\ read.compass \in Int \ {NaN}
             /\ SameDirection(read.compass, SampleHeading(profile, LastStamp(capture, j)).deg)
    <3>1. read.next - 1 = j
      BY <1>1
    <3> QED BY <3>1 DEF Analyzed, profile
  <2>9. IsCompared(capture, j + 1) <=> fix.valid /\ read.compass # NaN
    BY <1>4, <2>4, <2>7, <2>8 DEF IsCompared
  <2>10. CASE ~IsCompared(capture, j + 1)
    <3>1. read'.samples = read.samples /\ capture[j + 1].type # "I"
      BY <2>6, <2>7, <2>9, <2>10
    <3> QED BY <1>1, <2>6, <2>10, <3>1, AnalyzedOther DEF profile
  <2>11. CASE IsCompared(capture, j + 1)
    <3>1. /\ read.compass \in Int
          /\ SameDirection(read.compass, SampleHeading(profile, LastStamp(capture, j)).deg)
      BY <2>8, <2>9, <2>11
    <3>2. LastStamp(capture, j) \in Nat
      <4>1. ILines(capture, j) # {} /\ j <= Len(capture) /\ Len(capture) \in Nat
        BY <1>1, <2>7, <2>11 DEF IsCompared
      <4> QED BY <4>1, SinceType
    <3>3. error \in Int
          /\ SameDirection(error, SampleHeading(profile, LastStamp(capture, j)).deg
                                    - SampleHeading(profile, fix.t).deg)
      <4>1. PICK a \in Int, b \in Int : a = SampleHeading(profile, LastStamp(capture, j)).deg
                                       /\ b = SampleHeading(profile, fix.t).deg
        BY <1>2, <2>1, <3>2, HeadingType
      <4> QED BY <2>1, <2>4, <2>5, <3>1, <4>1, DirectionsApart
    <3>4. PICK x \in [heading : Int, error : Int] :
            x = [heading |-> fix.heading, error |-> error] /\ x.error = error
      <4>1. PICK h \in Int, e \in Int : h = fix.heading /\ e = error
        BY <2>4, <3>3
      <4>2. [heading |-> h, error |-> e] \in [heading : Int, error : Int]
        OBVIOUS
      <4> QED BY <4>1, <4>2
    <3>5. PICK s \in Errors : s = read.samples
      BY DEF Analyzed
    <3>6. read'.samples = Append(s, x)
      BY <2>6, <2>9, <2>11, <3>4, <3>5
    <3>7. /\ Append(s, x) \in Errors /\ Len(Append(s, x)) = Len(s) + 1
          /\ Append(s, x)[Len(s) + 1] = x /\ \A i \in 1 .. Len(s) : Append(s, x)[i] = s[i]
      BY <3>5 DEF Errors
    <3>8. /\ read'.samples \in Errors /\ Len(read'.samples) = Len(read.samples) + 1
          /\ read'.samples[Len(read.samples) + 1] = x
          /\ \A i \in 1 .. Len(read.samples) : read'.samples[i] = read.samples[i]
      <4> HIDE DEF Errors
      <4> QED BY <3>5, <3>6, <3>7, Zenon
    <3>9. SameDirection(x.error, SampleHeading(profile, LastStamp(capture, j)).deg
                                   - SampleHeading(profile, Stamp(capture[j + 1])).deg)
      BY <1>4, <2>4, <3>3, <3>4
    <3>10. Analyzed(profile, capture, read)
      BY DEF profile
    <3> HIDE <3>7
    <3> QED BY <1>1, <2>6, <2>7, <2>11, <3>8, <3>9, <3>10, AnalyzedFix DEF profile
  <2> QED BY <2>10, <2>11
<1> QED
  BY <1>2, <1>5, <1>6, <1>7 DEF CleanLine

\* The lines so far are those of a clean run, and the analysis has read its share.
MagState ==
  LET lines == capture \o exp.lines
  IN  /\ CleanLines(conf.scenario.heading, Period, lines)
      /\ SincePrint(LastStamp(lines, Len(lines)))
      /\ phase \in {"replay", "done"} => Analyzed(conf.scenario.heading, capture, read)

MagInv ==
  FeedInv /\ (conf.command = "synthetic" /\ Clean /\ phase # "failed" => MagState)

\* The comment lines at the start are neither samples nor fixes.
LEMMA MagInit == SimInit => MagInv
<1> SUFFICES ASSUME SimInit PROVE MagState
  BY FeedInit DEF MagInv
<1>1. /\ phase = "load" /\ capture = <<>> /\ src.t = 0
      /\ exp.lines = <<DiagRecord, DiagRecord>>
  BY DEF SimInit
<1>2. PICK d : d = DiagRecord
  OBVIOUS
<1>3. IsNeither(d)
  BY <1>2, DiagReading DEF IsNeither, DiagRecord
<1>4. PICK lines : lines = <<d, d>>
  OBVIOUS
<1>5. Len(lines) = 2 /\ \A i \in 1 .. 2 : lines[i] = d
  BY <1>4
<1>6. capture \o exp.lines = lines
  <2>1. <<>> \o <<d, d>> = <<d, d>>
    OBVIOUS
  <2> QED BY <1>1, <1>2, <1>4, <2>1
<1>7. CleanLines(conf.scenario.heading, Period, lines)
  BY <1>3, <1>5 DEF CleanLines, CleanLine
<1>8. LastStamp(lines, 2) = NoTime
  <2>1. ILines(lines, 2) = {}
    BY <1>3, <1>5 DEF ILines, IsNeither
  <2> QED BY <2>1 DEF LastStamp
<1>9. SincePrint(LastStamp(lines, Len(lines)))
  BY <1>1, <1>5, <1>8 DEF SincePrint
<1> QED
  BY <1>1, <1>6, <1>7, <1>9 DEF MagState

\* A tick exported prints clean lines.
LEMMA MagExport ==
  ASSUME conf \in SimConfigs, Clean, FeedState, MagState, Export
  PROVE  MagState'
<1> DEFINE profile == conf.scenario.heading
<1>1. phase = "play" /\ ScheduleInv /\ cfg.imuMount = Identity /\ cfg.baseline = 0
  BY DEF FeedState, Export
<1>2. PICK tick : exp.lines = <<>> /\ ExportsTick(tick) /\ TellsTruth(tick)
  BY <1>1, ExportIs
<1>3. /\ UNCHANGED <<conf, phase, capture>>
      /\ tick.imu \in Imus /\ tick.imu.t = src.t /\ src.t \in Nat
      /\ exp.calls \in Seq(FilterCalls)
  BY <1>1, <1>2 DEF ExportsTick, TickTyped, ScheduleInv
<1>4. PICK T : capture \in Seq(T)
  BY DEF FeedState
<1>5. capture \o exp.lines = capture
  <2>1. capture \o <<>> = capture
    BY <1>4
  <2> QED BY <1>2, <2>1
<1>6. PICK since : since = LastStamp(capture, Len(capture))
  OBVIOUS
<1>7. CleanLines(profile, Period, capture) /\ SincePrint(since)
  BY <1>5, <1>6 DEF MagState
<1>8. PICK emits \in BOOLEAN : emits = Prints
  <2>1. Prints \in BOOLEAN
    BY DEF Prints
  <2> QED BY <2>1, Zenon
<1>9. PICK calls : calls = Feed(exp.calls, tick)
  OBVIOUS
<1>10. /\ tick.gnss \in FixSeqs
       /\ \A fix \in Fixes : tick.gnss = <<fix>> => fix.t = src.t
       /\ \E fix : Brings(tick, fix)
  <2>1. CASE src.t >= src.nextGnss
    <3>1. PICK fix \in Fixes : tick.gnss = <<fix>> /\ fix.t = src.t
      BY <1>2, <2>1 DEF ExportsTick, TickTyped
    <3>2. tick.gnss \in FixSeqs
      BY <3>1 DEF FixSeqs
    <3>3. \A a, b : <<a>> = <<b>> => a = b
      OBVIOUS
    <3>4. Brings(tick, fix)
      BY <1>3, <3>1 DEF Brings
    <3> QED BY <3>1, <3>2, <3>3, <3>4
  <2>2. CASE ~(src.t >= src.nextGnss)
    <3>1. tick.gnss = <<>> /\ \A a : <<a>> # <<>>
      BY <1>2, <2>2 DEF ExportsTick, TickTyped
    <3>2. PICK fix : fix = [t |-> src.t]
      OBVIOUS
    <3>3. Brings(tick, fix)
      BY <1>3, <3>1, <3>2 DEF Brings
    <3> QED BY <3>1, <3>3 DEF FixSeqs
  <2> QED BY <2>1, <2>2
<1>11. calls[Latest(calls)].t \in Int
  <2>1. calls[Latest(calls)].t = tick.imu.t
    BY <1>3, <1>9, <1>10, FeedLast
  <2> QED BY <1>3, <2>1
<1>12. ASSUME NEW fix \in Fixes, tick.gnss = <<fix>> PROVE IsFix(profile, Period, since, GnssLine(fix))
  <2>1. fix.t = src.t
    BY <1>10, <1>12
  <2>2. SameDirection(fix.heading, SampleHeading(profile, fix.t).deg)
    <3>1. 1 \in DOMAIN tick.gnss /\ tick.gnss[1] = fix
      BY <1>12
    <3>2. SameDirection(fix.heading, Truth(src.t).deg)
      BY <1>2, <3>1 DEF TellsTruth
    <3> QED BY <2>1, <3>2 DEF Truth
  <2>3. since # NoTime => fix.t - since \in 1 .. Period
    BY <1>1, <1>7, <2>1, FixLag
  <2> QED BY <1>3, <2>1, <2>2, <2>3 DEF IsFix
<1>13. PICK lines : lines = capture \o Exported(tick, calls, emits)
  OBVIOUS
<1>14. PICK period : period = Period
  OBVIOUS
<1>15. /\ CleanLines(profile, Period, lines)
       /\ LastStamp(lines, Len(lines)) = IF emits THEN tick.imu.t ELSE since
  <2>1. Points(tick.imu.orientation, SampleHeading(profile, tick.imu.t).deg)
    BY <1>2, <1>3 DEF TellsTruth, Truth
  <2>2. PICK p : p = profile
    OBVIOUS
  <2> HIDE DEF profile
  <2> QED BY <1>3, <1>4, <1>6, <1>7, <1>8, <1>10, <1>11, <1>12, <1>13, <1>14, <2>1, <2>2, TickClean
<1>16. capture' \o exp'.lines = lines
  <2>1. exp'.lines = <<>> \o Exported(tick, calls, emits) /\ capture' = capture
    BY <1>2, <1>3, <1>8, <1>9 DEF ExportsTick
  <2>2. PICK U : Exported(tick, calls, emits) \in Seq(U)
    BY <1>8, <1>10, ExportedSeq
  <2>3. <<>> \o Exported(tick, calls, emits) = Exported(tick, calls, emits)
    BY <2>2
  <2> QED BY <1>13, <2>1, <2>3
<1>17. Period' = Period /\ conf' = conf
  BY <1>3 DEF Period
<1>18. PICK next : next = IF Prints THEN src.t ELSE since
  OBVIOUS
<1>19. SincePrint(next)' /\ LastStamp(lines, Len(lines)) = next
  BY <1>1, <1>2, <1>3, <1>7, <1>8, <1>15, <1>18, SincePrintOn
<1> QED
  BY <1>1, <1>3, <1>15, <1>16, <1>17, <1>19 DEF MagState

\* No other step prints a line.
LEMMA MagMoves ==
  ASSUME UNCHANGED <<conf, src>>, exp'.next = exp.next, MagState,
         capture' \o exp'.lines = capture \o exp.lines,
         phase' \in {"replay", "done"} => Analyzed(conf.scenario.heading, capture', read')
  PROVE  MagState'
<1>1. Period' = Period
  BY DEF Period
<1>2. PICK lines : lines = capture \o exp.lines
  OBVIOUS
<1>3. CleanLines(conf.scenario.heading, Period, lines) /\ SincePrint(LastStamp(lines, Len(lines)))
  BY <1>2 DEF MagState
<1>4. \A since : SincePrint(since) => SincePrint(since)'
  BY DEF SincePrint
<1> QED
  BY <1>1, <1>2, <1>3, <1>4 DEF MagState

\* A line handed on stays clean.
LEMMA MagPlayLine ==
  ASSUME FeedState, MagState, PlayLine
  PROVE  MagState'
<1>1. /\ phase = "play" /\ exp.lines # <<>> /\ phase' = phase
      /\ capture' = Append(capture, Head(exp.lines))
      /\ exp' = [exp EXCEPT !.lines = Tail(@)] /\ UNCHANGED <<conf, src>>
  BY DEF PlayLine
<1>2. exp'.next = exp.next /\ exp'.lines = Tail(exp.lines)
  BY <1>1 DEF FeedState, ScheduleInv
<1>3. PICK T : capture \in Seq(T) /\ exp.lines \in Seq(T)
  BY DEF FeedState
<1>4. PICK c \in Seq(T), l \in Seq(T) : c = capture /\ l = exp.lines /\ l # <<>>
  BY <1>1, <1>3
<1>5. Append(c, Head(l)) \o Tail(l) = c \o l
  <2>1. l # <<>>
    BY <1>4
  <2> QED BY <2>1, AppendHead, Zenon
<1>6. capture' \o exp'.lines = capture \o exp.lines
  BY <1>1, <1>2, <1>4, <1>5
<1> QED
  BY <1>1, <1>2, <1>6, MagMoves

\* The analysis begins with nothing.
LEMMA MagEndPlay ==
  ASSUME FeedState, MagState, EndPlay
  PROVE  MagState'
<1>1. /\ phase = "play" /\ UNCHANGED <<conf, src, exp, capture, read>> /\ read = FreshRead
  BY DEF FeedState, EndPlay
<1>2. /\ read.next - 1 = 0 /\ read.compass = NaN /\ read.samples = <<>>
  BY <1>1 DEF FreshRead
<1>3. Compared(capture, 0) = {} /\ Cardinality({}) = 0
  BY FS_EmptySet DEF Compared
<1>4. <<>> \in Errors /\ Len(<<>>) = 0
  BY DEF Errors
<1>5. Analyzed(conf.scenario.heading, capture, read)
  BY <1>2, <1>3, <1>4, SinceNone DEF Analyzed
<1> QED
  BY <1>1, <1>5, MagMoves

\* The analysis goes on.
LEMMA MagReadLine ==
  ASSUME conf \in SimConfigs, FeedState, MagState, ReadLine
  PROVE  MagState'
<1>1. phase = "replay" /\ phase' = phase /\ UNCHANGED <<conf, src, exp, capture>>
  BY DEF ReadLine
<1>2. PICK T : capture \in Seq(T)
  BY DEF FeedState
<1>3. exp.lines = <<>> /\ read.next \in 1 .. Len(capture) + 1
  BY <1>1 DEF FeedState, ReplayStands
<1>4. capture \o exp.lines = capture
  <2>1. capture \o <<>> = capture
    BY <1>2
  <2> QED BY <1>3, <2>1
<1>5. /\ CleanLines(conf.scenario.heading, Period, capture)
      /\ Analyzed(conf.scenario.heading, capture, read)
  BY <1>1, <1>4 DEF MagState
<1>6. read.next \in Nat \ {0} /\ DOMAIN read = {"next", "gnss", "compass", "samples"}
  BY <1>2, <1>3 DEF FeedState
<1>7. Analyzed(conf.scenario.heading, capture, read')
  BY <1>2, <1>5, <1>6, ReadAnalyzed
<1> QED
  BY <1>1, <1>7, MagMoves

\* Each of the actions of the command.
LEMMA MagStep == MagInv /\ [SimNext]_simVars => MagInv'
<1> SUFFICES ASSUME MagInv, [SimNext]_simVars PROVE MagInv'
  OBVIOUS
<1>1. conf' = conf /\ conf \in SimConfigs /\ FeedInv'
  BY CommandStays, FeedStep DEF MagInv, FeedInv
<1> SUFFICES ASSUME conf.command = "synthetic", Clean, phase' # "failed" PROVE MagState'
  BY <1>1 DEF MagInv, Clean
<1>2. phase # "failed"
  <2>1. ~UNCHANGED simVars /\ phase = "failed" => FALSE
    BY DEF SimNext, Load, Simulate, EndRun, Export, PlayLine, EndPlay, ReadLine, EndReplay
  <2> QED BY <2>1 DEF simVars
<1>3. FeedState /\ MagState
  BY <1>2 DEF MagInv, FeedInv
<1>4. phase # "run"
  BY <1>3 DEF FeedState
<1>5. CASE UNCHANGED simVars
  <2>1. UNCHANGED <<conf, src, exp, capture, read, phase>>
    BY <1>5 DEF simVars
  <2> QED BY <1>3, <2>1, MagMoves DEF MagState
<1>6. CASE Load
  <2>1. UNCHANGED <<conf, src, exp, capture, read>> /\ LoadUnmounted(LoadTuning(conf.toml), "play")
    BY <1>6 DEF Load
  <2>2. phase' = "play"
    BY <2>1 DEF LoadUnmounted, Fails
  <2> QED BY <1>3, <2>1, <2>2, MagMoves
<1>7. CASE Export
  BY <1>1, <1>3, <1>7, MagExport
<1>8. CASE PlayLine
  BY <1>3, <1>8, MagPlayLine
<1>9. CASE EndPlay
  BY <1>3, <1>9, MagEndPlay
<1>10. CASE ReadLine
  BY <1>1, <1>3, <1>10, MagReadLine
<1>11. CASE EndReplay
  <2>1. UNCHANGED <<conf, src, exp, capture, read>> /\ phase = "replay"
    BY <1>11 DEF EndReplay
  <2> QED BY <1>3, <2>1, MagMoves DEF MagState
<1>12. ~Simulate /\ ~EndRun
  BY <1>4 DEF Simulate, EndRun
<1> QED
  BY <1>5, <1>6, <1>7, <1>8, <1>9, <1>10, <1>11, <1>12 DEF SimNext

\* What the invariant says of the samples.
LEMMA MagFromInv == MagInv => MagErrorIsOnlyLag
<1> DEFINE Typed(type) == {i \in 1 .. read.next - 1 : capture[i].type = type}
           compared == {g \in Typed("G") : Scalar(capture[g], "valid") = 1
                                            /\ \E i \in Typed("I") : i < g}
           sample(g) == read.samples[Cardinality({f \in compared : f <= g})]
           lastI(g) == Stamp(capture[Max({i \in Typed("I") : i < g})])
<1> SUFFICES ASSUME MagInv, conf.command = "synthetic", phase \in {"replay", "done"}, Clean
    PROVE  /\ Len(read.samples) = Cardinality(compared)
           /\ \A g \in compared :
                LET at == Stamp(capture[g])
                IN  /\ (sample(g).error - (Truth(lastI(g)).deg - Truth(at).deg)) % Turn = 0
                    /\ at - lastI(g) \in 1 .. Period
  BY DEF MagErrorIsOnlyLag, Clean
<1> DEFINE profile == conf.scenario.heading
<1>1. FeedState /\ MagState /\ conf \in SimConfigs
  BY DEF MagInv, FeedInv
<1>2. PICK T : capture \in Seq(T)
  BY <1>1 DEF FeedState
<1>3. exp.lines = <<>> /\ read.next \in 1 .. Len(capture) + 1
  BY <1>1 DEF FeedState, ReplayStands
<1>4. capture \o exp.lines = capture
  <2>1. capture \o <<>> = capture
    BY <1>2
  <2> QED BY <1>3, <2>1
<1>5. CleanLines(profile, Period, capture) /\ Analyzed(profile, capture, read)
  BY <1>1, <1>4 DEF MagState
<1>6. PICK n \in Nat, j \in Nat : n = Len(capture) /\ j = read.next - 1 /\ j <= n
  BY <1>2, <1>3
<1>7. ASSUME NEW g \in 1 .. j, capture[g].type = "G"
      PROVE  {i \in Typed("I") : i < g} = ILines(capture, g)
  BY <1>6, <1>7 DEF ILines
<1>8. compared = Compared(capture, j)
  <2>1. ASSUME NEW g \in 1 .. j, capture[g].type = "G"
        PROVE  (\E i \in Typed("I") : i < g) <=> ILines(capture, g) # {}
    BY <1>7, <2>1
  <2> QED BY <1>6, <2>1 DEF Compared, IsCompared
<1> HIDE DEF compared
<1>9. Len(read.samples) = Cardinality(compared)
  BY <1>5, <1>6, <1>8 DEF Analyzed
<1>10. ASSUME NEW g \in compared
       PROVE  /\ (sample(g).error - (Truth(lastI(g)).deg - Truth(Stamp(capture[g])).deg)) % Turn = 0
              /\ Stamp(capture[g]) - lastI(g) \in 1 .. Period
  <2>1. g \in 1 .. j /\ IsCompared(capture, g) /\ capture[g].type = "G" /\ g \in Compared(capture, j)
    BY <1>8 DEF Compared, IsCompared
  <2>2. {f \in compared : f <= g} = Compared(capture, g)
    BY <1>6, <1>8, <2>1 DEF Compared
  <2>3. lastI(g) = LastStamp(capture, g) /\ ILines(capture, g) # {}
    BY <1>7, <2>1 DEF LastStamp, IsCompared
  <2>4. PICK e : e = sample(g).error
    OBVIOUS
  <2>5. e \in Int
    <3>1. Cardinality(Compared(capture, g)) \in 1 .. Len(read.samples) /\ read.samples \in Errors
      BY <1>5, <1>6, <2>1, ComparedOn DEF Analyzed
    <3>2. sample(g) = read.samples[Cardinality(Compared(capture, g))]
      BY <2>2
    <3>3. sample(g) \in [heading : Int, error : Int]
      <4>1. PICK s \in Errors, k \in Nat :
              s = read.samples /\ k = Cardinality(Compared(capture, g)) /\ k \in 1 .. Len(s)
        BY <3>1
      <4>2. s[k] \in [heading : Int, error : Int]
        <5>1. \A S : \A u \in Seq(S) : \A m \in 1 .. Len(u) : u[m] \in S
          OBVIOUS
        <5> QED BY <4>1, <5>1 DEF Errors
      <4> HIDE DEF sample
      <4> QED BY <3>2, <4>1, <4>2
    <3> HIDE DEF sample
    <3> QED BY <2>4, <3>3
  <2>6. SameDirection(e, SampleHeading(profile, LastStamp(capture, g)).deg
                           - SampleHeading(profile, Stamp(capture[g])).deg)
    BY <1>5, <1>6, <2>1, <2>2, <2>4 DEF Analyzed
  <2>7. PICK i \in Nat : i = g - 1 /\ g = i + 1 /\ i < n
    BY <1>6, <2>1
  <2>8. ILines(capture, i) # {} /\ LastStamp(capture, i) = LastStamp(capture, g)
    BY <2>1, <2>3, <2>7, SinceOn
  <2>9. LastStamp(capture, i) \in Nat
    BY <1>5, <1>6, <2>7, <2>8, SinceType
  <2>10. IsFix(profile, Period, LastStamp(capture, i), capture[g])
    <3>1. CleanLine(profile, Period, LastStamp(capture, i), capture[g])
      BY <1>5, <1>6, <2>1, <2>7 DEF CleanLines
    <3>2. \A imu \in Imus : ImuLine(imu).type = "I"
      BY ImuReading
    <3> QED BY <2>1, <3>1, <3>2 DEF CleanLine, IsSample, IsNeither
  <2>11. PICK fix \in Fixes :
           /\ capture[g] = GnssLine(fix) /\ fix.t \in Nat
           /\ LastStamp(capture, i) # NoTime => fix.t - LastStamp(capture, i) \in 1 .. Period
    BY <2>10 DEF IsFix
  <2>12. Stamp(capture[g]) = fix.t
    <3>1. FixOf(capture[g]) = fix
      BY <2>11, GnssReading
    <3> QED BY <3>1 DEF FixOf
  <2>13. Stamp(capture[g]) - lastI(g) \in 1 .. Period
    <3>1. LastStamp(capture, i) # NoTime
      BY <2>9 DEF NoTime
    <3> QED BY <2>3, <2>8, <2>11, <2>12, <3>1
  <2>14. PICK a \in Int, b \in Int :
           a = SampleHeading(profile, LastStamp(capture, g)).deg
           /\ b = SampleHeading(profile, Stamp(capture[g])).deg
    <3>1. profile \in Profiles
      BY <1>1, ProfileOf
    <3> HIDE DEF profile
    <3> QED BY <2>8, <2>9, <2>11, <2>12, <3>1, HeadingType
  <2>15. (e - (a - b)) % Turn = 0
    <3>1. a - b \in Int /\ SameDirection(e, a - b)
      BY <2>6, <2>14
    <3> QED BY <2>5, <3>1, DirectionsMeet
  <2>16. Truth(lastI(g)).deg = a /\ Truth(Stamp(capture[g])).deg = b
    BY <2>3, <2>14 DEF Truth
  <2> HIDE DEF sample, lastI
  <2> QED BY <2>4, <2>13, <2>15, <2>16
<1> QED
  BY <1>9, <1>10

\* All the magnetometer error found on a clean capture is the turn of the boat
\* since the last I line, at most a printing interval before the fix.
THEOREM MagErrorIsLag == SimSpec => []MagErrorIsOnlyLag
BY MagInit, MagStep, MagFromInv, PTL DEF SimSpec
=============================================================================
