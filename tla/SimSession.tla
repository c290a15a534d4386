----------------------------- MODULE SimSession -----------------------------
(***************************************************************************)
(* The commands of the host tools that run the filter on a simulated or    *)
(* recorded boat (__main__.py, drift_sweep.py): "sim" and "sweep" feed a    *)
(* SimulatedSource to run(); "synthetic" is the monitor on an exported      *)
(* run, paced, without a window and recording its capture, which is then   *)
(* replayed through run() and analyzed for magnetometer errors.            *)
(*                                                                         *)
(* The filter is the firmware's own C++ code: here, the calls made to it.  *)
(***************************************************************************)
EXTENDS SimSource, SimTuning, MonitorState

CONSTANTS
  SimConfigs,    \* what the commands may be given, see MCSimSession
  MaxSlow,       \* bound: lines of a paced run that hold up its consumer
  Stall          \* for how long, in half ticks of the wall clock

ASSUME SimAssumption ==
  /\ MaxSlow \in Nat /\ Stall \in Nat
  /\ \A c \in SimConfigs :
       /\ {c.imuDt, c.gnssDt, c.interval} \subseteq Nat \ {0} /\ c.speed \in {1, 2}
       /\ c.duration \in Nat
       /\ c.command \in {"sim", "sweep", "synthetic"}
       /\ \A section \in DOMAIN c.toml : c.toml[section] \in [DOMAIN c.toml[section] -> Int]
       /\ \A flag \in DOMAIN c.flags : c.flags[flag] \in Int
       /\ c.scenario.heading \in
            [kind : {"turn", "steps", "static"}, rate : Int, heading0 : Int,
             legs : Seq([duration : Nat, rate : Int])]
       /\ c.noise.bias \in [x : Int, y : Int, z : Int] /\ c.noise.gnssStd \in Nat
       /\ c.scenario.attitude.axis \in {AxisX, AxisY, ZeroVec}
       /\ c.scenario.attitude.angle \in Int
       /\ c.scenario.attitude.axis = ZeroVec => c.scenario.attitude.angle = 0

ASSUME QuarterAssumption ==    \* the angles that SimSource has exactly
  \A c \in SimConfigs :
    LET heading == c.scenario.heading
    IN  /\ heading.heading0 % 90 = 0 /\ heading.rate % 90 = 0
        /\ \A i \in DOMAIN heading.legs : heading.legs[i].rate % 90 = 0

VARIABLES
  conf,      \* the command and its arguments
  phase,     \* "load", "run", "play", "replay", "done" or "failed"
  cfg,       \* the loaded configuration and the GNSS mount
  src,       \* the source: its next tick, GNSS schedule and bias walk
  run,       \* run(): its filter, dead reckoner and last row
  exp,       \* export_telemetry(): its filter, schedule and lines not yet taken
  play,      \* pace(), and the monitor that consumes it
  capture,   \* the lines recorded
  read       \* the capture's readers: ReplaySource and heading_error_samples

simVars == <<conf, phase, cfg, src, run, exp, play, capture, read>>

-----------------------------------------------------------------------------
(* The filter and the runner. *)

Predict(imu) == [call |-> "predict", t |-> imu.t, heading |-> 0, variance |-> 0,
                 valid |-> FALSE]
Correct(fix) == [call |-> "update", t |-> fix.t, heading |-> fix.heading,
                 variance |-> fix.variance, valid |-> fix.valid]

\* A tick carries at most one fix.
Feed(calls, tick) ==
  Append(calls, Predict(tick.imu)) \o [i \in DOMAIN tick.gnss |-> Correct(tick.gnss[i])]

NoImu == [t |-> NoTime, orientation |-> Identity, gyro |-> ZeroVec]
FreshRun == [calls |-> <<>>, dr |-> FreshReckoner, last |-> NoImu, open |-> NaN, fixes |-> 0]

Valid(fixes) == {i \in DOMAIN fixes : fixes[i].valid}

\* Mutated form: every fix anchors the open-loop heading.
AnchorByEach(dr, fixes) ==
  IF Valid(fixes) = {} THEN dr ELSE Anchor(dr, fixes[Min(Valid(fixes))].heading)

\* The first valid fix anchors the open-loop heading.
AnchorByFirst(dr, fixes) ==
  IF Valid(fixes) = {} \/ dr.anchored THEN dr
  ELSE Anchor(dr, fixes[Min(Valid(fixes))].heading)

\* The body of run()'s loop; a heading just anchored is stepped in the same tick.
RunTick(r, tick) ==
  LET dr == Step(AnchorByFirst(r.dr, tick.gnss), tick.imu.t, tick.imu.gyro.z)
  IN  [calls |-> Feed(r.calls, tick), dr |-> dr, last |-> tick.imu,
       open |-> IF dr.anchored THEN dr.heading ELSE NaN,
       fixes |-> r.fixes + Cardinality(Valid(tick.gnss))]

-----------------------------------------------------------------------------
(* The exporter. *)

\* What the filter estimates is out of the model; its output is stamped with
\* the sample last predicted.
FusionLine(calls) ==
  LET predicted == Max({i \in DOMAIN calls : calls[i].call = "predict"})
  IN  [type |-> "F", f |-> [name \in {FusionRecord[i].name : i \in DOMAIN FusionRecord} |->
         <<Number(IF name = "timestamp_ms" THEN calls[predicted].t ELSE 0)>>]]

VecValues(v) == <<Number(v.x), Number(v.y), Number(v.z)>>

ImuLine(imu) ==
  [type |-> "I",
   f |-> [timestamp_ms |-> <<Number(imu.t)>>,
          orientation |-> <<Number(imu.orientation.w), Number(imu.orientation.x),
                            Number(imu.orientation.y), Number(imu.orientation.z)>>,
          angular_velocity_rad_s |-> VecValues(imu.gyro),
          accel_ms2 |-> VecValues(AxisZ)]]

\* _sigma: the standard deviation that a variance is the square of.
Sigma(variance) == CHOOSE s \in 0 .. variance : s * s = variance

GnssLine(fix) ==
  [type |-> "G",
   f |-> [timestamp_ms |-> <<Number(fix.t)>>, heading_deg |-> <<Number(fix.heading)>>,
          heading_sigma_deg |-> <<Number(Sigma(fix.variance))>>,
          valid |-> <<Number(IF fix.valid THEN 1 ELSE 0)>>,
          mode |-> <<Number(0)>>, error |-> <<Number(0)>>]]

\* Mutated form: F and I first, the fix after them.
TickLinesFixLast(fixLines, sampleLines) == sampleLines \o fixLines

\* A fix is printed before the sample it came with.
TickLines(fixLines, sampleLines) == fixLines \o sampleLines

\* The body of export_telemetry's loop: a fix is printed when it comes, F and I
\* together at the interval.
ExportTick(e, interval, tick) ==
  LET calls == Feed(e.calls, tick)
      next  == IF e.next = NoTime THEN tick.imu.t ELSE e.next
      emits == tick.imu.t >= next
  IN  [calls |-> calls, next |-> IF emits THEN next + interval ELSE next,
       lines |-> e.lines \o TickLines(
         [i \in DOMAIN tick.gnss |-> GnssLine(tick.gnss[i])],
         IF emits THEN <<FusionLine(calls), ImuLine(tick.imu)>> ELSE <<>>)]

\* A line on the wire or in a file.
Written(record) ==
  IF record.type = "Diag" THEN [tag |-> "#", tokens |-> <<>>] ELSE FormatRecord(record)

-----------------------------------------------------------------------------

FreshPlay == [clock |-> 0, start |-> NoTime, first |-> NoTime, slow |-> 0, held |-> 0,
              log |-> <<>>, monitor |-> FreshMonitor]
FreshRead == [next |-> 1, gnss |-> <<>>, compass |-> NaN, samples |-> <<>>]

NotLoaded == [native |-> Raised, baseline |-> 0, imuMount |-> Identity]

SimInit ==
  /\ conf \in SimConfigs
  /\ phase = "load" /\ cfg = NotLoaded
  /\ src = [t |-> 0, nextGnss |-> 0, walk |-> ZeroVec]
  /\ run = FreshRun
  /\ exp = [calls |-> <<>>, next |-> NoTime, lines |-> <<DiagRecord, DiagRecord>>]
  /\ play = FreshPlay /\ capture = <<>> /\ read = FreshRead

\* An argument left out keeps the value of tuning.toml.
Override(name, default) == IF name \in DOMAIN conf.flags THEN conf.flags[name] ELSE default

\* The configuration _run_view passes on, its flags applied.
Overridden(c) ==
  LET WithFlags(section, heading, bias) ==
        [section EXCEPT !["heading_deg2"] = Override(heading, @),
                        !["gyro_bias_deg2_s2"] = Override(bias, @)]
  IN  [c EXCEPT !.q = WithFlags(c.q, "q_heading", "q_bias"),
                !.p0 = WithFlags(c.p0, "p0_heading", "p0_bias"),
                !.roll = Override("mount_roll", @), !.pitch = Override("mount_pitch", @),
                !.yawDeg = Override("mount_yaw", @)]

Fails == phase' = "failed" /\ UNCHANGED cfg

\* _run_view: the source's IMU is mounted as the filter believes it is.
LoadSim ==
  LET mount == LoadMount(conf.toml)
      ekf   == LoadTuning(conf.toml)
  IN  IF mount.raised \/ ekf.raised THEN Fails
      ELSE LET c == Overridden(ekf)
           IN  /\ phase' = "run"
               /\ cfg' = [native |-> ToNativeConfig(c),
                          baseline |-> Override("baseline_offset", mount.baseline),
                          imuMount |-> EulerToQuaternion(c.roll, c.pitch, c.yawDeg)]

\* The sweep's configuration: the older knobs if they are asked for, then --q-bias.
Swept(c) ==
  LET tuned == IF conf.baselineTuning THEN BaselineTuning(c) ELSE c
  IN  [tuned EXCEPT !.q = [@ EXCEPT !["gyro_bias_deg2_s2"] = Override("q_bias", @)]]

\* _cmd_monitor --synthetic and the sweep: the source has no mount of its own.
LoadUnmounted(ekf, next) ==
  IF ekf.raised THEN Fails
  ELSE /\ phase' = next
       /\ cfg' = [native |-> ToNativeConfig(IF conf.command = "sweep" THEN Swept(ekf) ELSE ekf),
                  baseline |-> 0, imuMount |-> Identity]

Load ==
  /\ phase = "load"
  /\ CASE conf.command = "sim"   -> LoadSim
       [] conf.command = "sweep" -> LoadUnmounted(LoadTuning(conf.toml), "run")
       [] OTHER                  -> LoadUnmounted(LoadTuning(conf.toml), "play")
  /\ UNCHANGED <<conf, src, run, exp, play, capture, read>>

-----------------------------------------------------------------------------
(* The source. *)

HasTick == src.t <= conf.duration

\* The tick at src.t; fixes have a schedule of their own.
TickOf(draw, walk) ==
  [imu |-> CorruptImu(conf.noise, draw, walk, CleanImu(conf.scenario, cfg.imuMount, src.t)),
   gnss |-> IF src.t >= src.nextGnss
              THEN <<Fix(conf.scenario, conf.noise, draw, cfg.baseline, src.t)>> ELSE <<>>]

\* The generator is asked for its next tick.
TakeTick(Consume(_)) ==
  /\ HasTick
  /\ \E draw \in Draws(conf.noise) :
       LET walk == Walk(conf.noise, draw, src.walk)
       IN  /\ src' = [t |-> src.t + conf.imuDt, walk |-> walk,
                      nextGnss |-> IF src.t >= src.nextGnss THEN src.nextGnss + conf.gnssDt
                                   ELSE src.nextGnss]
           /\ Consume(TickOf(draw, walk))

\* run() in its loop.
Simulate ==
  /\ phase = "run"
  /\ TakeTick(LAMBDA tick : run' = RunTick(run, tick))
  /\ UNCHANGED <<conf, phase, cfg, exp, play, capture, read>>

\* The plot is drawn, or the next case of the sweep begins.
EndRun ==
  /\ phase = "run" /\ ~HasTick
  /\ phase' = "done"
  /\ UNCHANGED <<conf, cfg, src, run, exp, play, capture, read>>

-----------------------------------------------------------------------------
(* The paced chain of generators: the monitor asks the tee, that asks pace *)
(* and the exporter for a line, and the exporter the source for a tick.    *)

Export ==
  /\ phase = "play" /\ exp.lines = <<>>
  /\ TakeTick(LAMBDA tick : exp' = ExportTick(exp, conf.interval, tick))
  /\ UNCHANGED <<conf, phase, cfg, run, play, capture, read>>

\* Mutated form: sleeps for the time from the last line, not from the first.
PaceFromLast(p, ts) ==
  IF ts = NoTime THEN p
  ELSE [p EXCEPT !.start = p.clock, !.first = ts,
                 !.clock = IF p.first = NoTime THEN p.clock
                           ELSE p.clock + ((ts - p.first) * 2) \div conf.speed]

\* pace(): sleeps until the line's own time; a line without one, or late, passes.
Pace(p, ts) ==
  IF ts = NoTime THEN p
  ELSE IF p.first = NoTime THEN [p EXCEPT !.first = ts, !.start = p.clock]
  ELSE [p EXCEPT !.clock = Max({p.clock, p.start + ((ts - p.first) * 2) \div conf.speed})]

\* A line comes out of pace() and tee() and is handled, in its time or slowly;
\* due is when the stream's own clock wanted it, after its first timed line, and
\* held how long the consumer has held the stream up so far.
PlayLine ==
  /\ phase = "play" /\ exp.lines # <<>>
  /\ LET record == Head(exp.lines)
         ts     == IF HasStamp(record) THEN Stamp(record) ELSE NoTime
         paced  == Pace(play, ts)
         all    == Append(capture, record)
         first  == Min({i \in DOMAIN all : HasStamp(all[i])})
         due    == IF ts = NoTime THEN NoTime
                   ELSE ((ts - Stamp(all[first])) * 2) \div conf.speed
     IN  \E took \in {0, Stall} :
           /\ took > 0 => play.slow < MaxSlow
           /\ capture' = Append(capture, record)
           /\ play' = [paced EXCEPT
                 !.clock = @ + took, !.slow = IF took > 0 THEN @ + 1 ELSE @, !.held = @ + took,
                 !.log = Append(@, [due |-> due, at |-> paced.clock, held |-> play.held]),
                 !.monitor = Drain(@, Written(record))]
  /\ exp' = [exp EXCEPT !.lines = Tail(@)]
  /\ UNCHANGED <<conf, phase, cfg, src, run, read>>

\* The run is over; its capture is what the next process opens.
EndPlay ==
  /\ phase = "play" /\ exp.lines = <<>> /\ ~HasTick
  /\ phase' = "replay" /\ play' = FreshPlay
  /\ UNCHANGED <<conf, cfg, src, run, exp, capture, read>>

-----------------------------------------------------------------------------
(* The capture's readers, each in a process of its own: a line at a time   *)
(* here stands for a line in each.                                         *)

FixOf(record) ==
  [t |-> Stamp(record), heading |-> Scalar(record, "heading_deg"),
   variance |-> Scalar(record, "heading_sigma_deg") * Scalar(record, "heading_sigma_deg"),
   valid |-> Scalar(record, "valid") = 1]

ImuOf(record) ==
  LET w == record.f["angular_velocity_rad_s"]
  IN  [t |-> Stamp(record), orientation |-> Orientation(record),
       gyro |-> Vec3(w[1].v, w[2].v, w[3].v)]

\* Mutated form: a fix stays with the source after its tick.
ReplayIKeepingFix(record) ==
  /\ run' = RunTick(run, [imu |-> ImuOf(record), gnss |-> read.gnss])
  /\ read' = [read EXCEPT !.next = @ + 1,
       !.compass = -QuaternionToEulerZyx(Orientation(record)).yaw]

\* ReplaySource: an I line drives a tick, with the last G line since the one
\* before; then the loop of run().
ReplayI(record) ==
  /\ run' = RunTick(run, [imu |-> ImuOf(record), gnss |-> read.gnss])
  /\ read' = [read EXCEPT !.next = @ + 1, !.gnss = <<>>,
       !.compass = -QuaternionToEulerZyx(Orientation(record)).yaw]

\* heading_error_samples: a valid G line is compared with the last I line.
ReplayG(fix) ==
  /\ read' = [read EXCEPT !.next = @ + 1, !.gnss = <<fix>>,
       !.samples = IF fix.valid /\ read.compass # NaN
                     THEN Append(@, [heading |-> fix.heading,
                                     error |-> Wrap180(read.compass - fix.heading)])
                     ELSE @]
  /\ UNCHANGED run

ReadLine ==
  /\ phase = "replay" /\ read.next <= Len(capture)
  /\ LET record == ParseLine(Written(capture[read.next]))
     IN  CASE record.type = "I" -> ReplayI(record)
           [] record.type = "G" -> ReplayG(FixOf(record))
           [] OTHER -> read' = [read EXCEPT !.next = @ + 1] /\ UNCHANGED run
  /\ UNCHANGED <<conf, phase, cfg, src, exp, play, capture>>

\* analyze_capture raises when it found no pair; else it prints its verdict.
EndReplay ==
  /\ phase = "replay" /\ read.next > Len(capture)
  /\ phase' = IF read.samples = <<>> THEN "failed" ELSE "done"
  /\ UNCHANGED <<conf, cfg, src, run, exp, play, capture, read>>

-----------------------------------------------------------------------------

SimNext ==
  \/ Load \/ Simulate \/ EndRun
  \/ Export \/ PlayLine \/ EndPlay \/ ReadLine \/ EndReplay

SimSpec == SimInit /\ [][SimNext]_simVars
-----------------------------------------------------------------------------
(* Properties. *)

\* The corrections among the calls to a filter, in their order.
AddUpdate(updates, c) == IF c.call = "update" THEN Append(updates, c) ELSE updates
Updates(calls) == FoldLeft(AddUpdate, <<>>, calls)

\* The time between two I lines is at most the printing interval, in whole ticks.
Period == ((conf.interval + conf.imuDt - 1) \div conf.imuDt) * conf.imuDt

\* Replaying a capture makes the filter calls the run made: with an I line for
\* every fix the filter gets each fix once, in order and with its values, except
\* those after the last I line; with an I line for every tick all calls are the
\* same (replay.py, "the firmware would update on each").
ReplayFeedsFilter ==
  conf.command = "synthetic" /\ phase \in {"replay", "done"} =>
    /\ Period <= conf.gnssDt \/ conf.interval = conf.gnssDt =>
         /\ IsPrefix(Updates(run.calls), Updates(exp.calls))
         /\ read.next > Len(capture) =>
              \A i \in Len(Updates(run.calls)) + 1 .. Len(Updates(exp.calls)) :
                Updates(exp.calls)[i].t > run.last.t
    /\ conf.interval <= conf.imuDt =>
         /\ IsPrefix(run.calls, exp.calls)
         /\ read.next > Len(capture) => run.calls = exp.calls

\* A paced replay is never early, and it is late only by what its consumer held
\* it up since it was last on time: being late does not accumulate.
PaceNeverDrifts ==
  LET log  == play.log
      last == Len(log)
      timed == {j \in DOMAIN log : log[j].due # NoTime}
      heldUp(j) == log[last].held - log[j].held
      start == log[Min(timed)].at
  IN  last \in timed =>
        log[last].at = Max({start + log[j].due + heldUp(j) : j \in timed})

Truth(t) == SampleHeading(conf.scenario.heading, t)

\* Every leg of a profile ends at a sample.
LegsEndAtSamples ==
  \A i \in DOMAIN conf.scenario.heading.legs :
    conf.scenario.heading.legs[i].duration % conf.imuDt = 0

\* The open-loop track of a run is the truth, turned from the first valid fix on
\* by what the gyro's z axis sees of it: what it is ahead is one tick's turn, and
\* the turn of the tick before the fix, which the anchor is stepped by too; a
\* constant bias takes it away from the truth steadily.
OpenLoopTracksTruth ==
  LET fixes == {i \in DOMAIN run.calls : run.calls[i].call = "update" /\ run.calls[i].valid}
      from  == run.calls[Min(fixes)].t
      now   == run.last.t
      up    == WorldToBody(SampleAttitude(conf.scenario.attitude), AxisZ).z
      early == IF from > 0 THEN conf.imuDt ELSE 0
      turned == Truth(now).deg - Truth(from).deg
                + (Truth(now).rate - Truth(from).rate) * conf.imuDt
                + Truth(from).rate * early
      drift == conf.noise.bias.z * (now - from + early)
  IN  /\ conf.command # "synthetic" /\ conf.noise.effect \in {"none", "dropout", "mag"}
      /\ LegsEndAtSamples
      => IF fixes = {} THEN run.open = NaN
         ELSE (run.open - (Truth(from).deg + up * turned - drift)) % Turn = 0

SameRotation(a, b) == \A v \in {AxisX, AxisY, AxisZ} : Rotate(a, v) = Rotate(b, v)

\* Tune what ships: without flags the simulated filter and GNSS mount are the
\* ones compiled into the firmware, and a tuning.toml that one reader refuses
\* the other refuses too.
SimTunesWhatShips ==
  LET shipped == Render(conf.toml)
  IN  conf.command = "sim" /\ conf.flags = <<>> /\ phase # "load" =>
        IF shipped.raised THEN phase = "failed"
        ELSE /\ phase # "failed"
             /\ [cfg.native EXCEPT !.boatToImu = Identity] =
                [shipped.config EXCEPT !.boatToImu = Identity]
             /\ SameRotation(cfg.native.boatToImu, shipped.config.boatToImu)
             /\ cfg.baseline = shipped.baseline

\* The mount the source tilts the IMU by is the one the filter takes off again:
\* it recovers the boat's attitude (source.py: "so the filter (configured with
\* the same mount) recovers boat attitude").
MountCancels ==
  conf.command = "sim" /\ run.last.t # NoTime
  /\ conf.noise.effect \notin {"mag", "attitude"} =>
    SameRotation(Multiply(run.last.orientation, cfg.native.boatToImu),
                 BoatOrientation(conf.scenario, run.last.t))

\* On a clean capture all the magnetometer error that the analysis finds is the
\* turn of the boat since the last I line, which is at most one printing interval
\* old: there is one sample for every valid fix after the first I line.
MagErrorIsOnlyLag ==
  LET Lines(type) == {i \in 1 .. read.next - 1 : capture[i].type = type}
      compared == {g \in Lines("G") : Scalar(capture[g], "valid") = 1
                                       /\ \E i \in Lines("I") : i < g}
      sample(g) == read.samples[Cardinality({f \in compared : f <= g})]
      lastI(g) == Stamp(capture[Max({i \in Lines("I") : i < g})])
  IN  /\ conf.command = "synthetic" /\ phase \in {"replay", "done"}
      /\ conf.noise.effect = "none" /\ conf.scenario.attitude.axis # AxisY
      => /\ Len(read.samples) = Cardinality(compared)
         /\ \A g \in compared :
              LET at == Stamp(capture[g])
              IN  /\ (sample(g).error - (Truth(lastI(g)).deg - Truth(at).deg)) % Turn = 0
                  /\ at - lastI(g) \in 1 .. Period
=============================================================================
