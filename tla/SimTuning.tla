----------------------------- MODULE SimTuning ------------------------------
(***************************************************************************)
(* tuning.toml and its two readers: the simulator (tuning.py, ekf.py) and  *)
(* the generator of the firmware's header (gen_tuning.py).  A toml file    *)
(* maps its sections to maps of their keys, any of which may be missing.   *)
(***************************************************************************)
EXTENDS Attitude, FiniteSets

None == 1000        \* Python's None, an absent std::optional
NoYaw == [present |-> FALSE]

Has(toml, section, keys) == section \in DOMAIN toml /\ keys \subseteq DOMAIN toml[section]

\* t.get(section, {}).get(key, default)
Get(toml, section, key, default) ==
  IF Has(toml, section, {key}) THEN toml[section][key] ELSE default

Raised == [raised |-> TRUE]      \* KeyError

-----------------------------------------------------------------------------
(* The simulator. *)

\* load_tuning.  The section mti_yaw is optional, and two of its keys.
LoadTuning(toml) ==
  IF \/ ~Has(toml, "process_noise",
             {"heading_deg2", "roll_deg2", "pitch_deg2", "gyro_bias_deg2_s2"})
     \/ ~Has(toml, "initial_covariance",
             {"heading_deg2", "roll_deg2", "pitch_deg2", "gyro_bias_deg2_s2"})
     \/ ~Has(toml, "mti_noise", {"roll_deg2", "pitch_deg2"})
     \/ /\ "mti_yaw" \in DOMAIN toml
        /\ ~Has(toml, "mti_yaw", {"variance_deg2", "q_offset_deg2", "p0_offset_deg2"})
    THEN Raised
    ELSE [raised |-> FALSE,
          q |-> toml["process_noise"], p0 |-> toml["initial_covariance"],
          mti |-> toml["mti_noise"],
          yaw |-> IF "mti_yaw" \notin DOMAIN toml THEN NoYaw
                  ELSE [present |-> TRUE,
                        variance |-> toml["mti_yaw"]["variance_deg2"],
                        qOffset |-> toml["mti_yaw"]["q_offset_deg2"],
                        p0Offset |-> toml["mti_yaw"]["p0_offset_deg2"],
                        qOutage |-> Get(toml, "mti_yaw", "q_offset_outage_deg2", None),
                        seed |-> Get(toml, "mti_yaw", "offset_seed_deg", None)],
          roll  |-> Get(toml, "imu_mount", "mount_roll_deg", 0),
          pitch |-> Get(toml, "imu_mount", "mount_pitch_deg", 0),
          yawDeg |-> Get(toml, "imu_mount", "mount_yaw_deg", 0)]

\* load_mount
LoadMount(toml) ==
  IF ~Has(toml, "gnss", {"baseline_offset_deg", "fallback_heading_variance_deg2"})
    THEN Raised
    ELSE [raised |-> FALSE, baseline |-> toml["gnss"]["baseline_offset_deg"],
          fallback |-> toml["gnss"]["fallback_heading_variance_deg2"]]

\* _to_native_config: the filter takes the mount as a rotation.
ToNativeConfig(c) ==
  [q |-> c.q, p0 |-> c.p0, mti |-> c.mti, yaw |-> c.yaw,
   boatToImu |-> EulerToQuaternion(c.roll, c.pitch, c.yawDeg)]

\* drift_sweep.py, _baseline_tuning: the knobs that fixed the field drift.
BaselineTuning(c) ==
  LET loose == [c EXCEPT !.p0 = [@ EXCEPT !["gyro_bias_deg2_s2"] = 1]]
  IN  IF c.yaw.present THEN [loose EXCEPT !.yaw.qOffset = 0] ELSE loose

-----------------------------------------------------------------------------
(* gen_tuning.py, which may not import the simulator: a port of attitude.py *)
(* on tuples <<w, x, y, z>>.                                               *)

Product(a, b) ==
  <<a[1] * b[1] - a[2] * b[2] - a[3] * b[3] - a[4] * b[4],
    a[1] * b[2] + a[2] * b[1] + a[3] * b[4] - a[4] * b[3],
    a[1] * b[3] - a[2] * b[4] + a[3] * b[1] + a[4] * b[2],
    a[1] * b[4] + a[2] * b[3] - a[3] * b[2] + a[4] * b[1]>>

AxisAngle(axis, deg) ==
  LET half == Eighths[((deg \div 90) % 8) + 1]
  IN  <<half[1], axis[1] * half[2], axis[2] * half[2], axis[3] * half[2]>>

\* Mutated form: the rotations multiplied from the left, Rx * Ry * Rz.
EulerPortXyz(roll, pitch, yaw) ==
  Product(Product(AxisAngle(<<1, 0, 0>>, roll), AxisAngle(<<0, 1, 0>>, pitch)),
          AxisAngle(<<0, 0, 1>>, yaw))

EulerPort(roll, pitch, yaw) ==
  Product(Product(AxisAngle(<<0, 0, 1>>, yaw), AxisAngle(<<0, 1, 0>>, pitch)),
          AxisAngle(<<1, 0, 0>>, roll))

\* render: the filter configuration and GNSS mount compiled into the firmware.
\* Every key is looked up while the text is put together.
Render(toml) ==
  LET required == {<<"process_noise", {"heading_deg2", "roll_deg2", "pitch_deg2",
                                       "gyro_bias_deg2_s2"}>>,
                   <<"initial_covariance", {"heading_deg2", "roll_deg2", "pitch_deg2",
                                            "gyro_bias_deg2_s2"}>>,
                   <<"mti_noise", {"roll_deg2", "pitch_deg2"}>>,
                   <<"gnss", {"baseline_offset_deg", "fallback_heading_variance_deg2"}>>}
                  \cup IF "mti_yaw" \in DOMAIN toml
                         THEN {<<"mti_yaw", {"variance_deg2", "q_offset_deg2",
                                             "p0_offset_deg2"}>>}
                         ELSE {}
      emitted(key) == IF key \in DOMAIN toml["mti_yaw"] THEN toml["mti_yaw"][key] ELSE None
      angle(key)   == Get(toml, "imu_mount", key, 0)
      mount == EulerPort(angle("mount_roll_deg"), angle("mount_pitch_deg"),
                         angle("mount_yaw_deg"))
  IN  IF \E r \in required : ~Has(toml, r[1], r[2]) THEN Raised
      ELSE [raised |-> FALSE,
            config |->
              [q |-> toml["process_noise"], p0 |-> toml["initial_covariance"],
               mti |-> toml["mti_noise"],
               yaw |-> IF "mti_yaw" \notin DOMAIN toml THEN NoYaw
                       ELSE [present |-> TRUE,
                             variance |-> toml["mti_yaw"]["variance_deg2"],
                             qOffset |-> toml["mti_yaw"]["q_offset_deg2"],
                             p0Offset |-> toml["mti_yaw"]["p0_offset_deg2"],
                             qOutage |-> emitted("q_offset_outage_deg2"),
                             seed |-> emitted("offset_seed_deg")],
               boatToImu |-> Quaternion(mount[1], mount[2], mount[3], mount[4])],
            baseline |-> toml["gnss"]["baseline_offset_deg"],
            fallback |-> toml["gnss"]["fallback_heading_variance_deg2"]]
=============================================================================
