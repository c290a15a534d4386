# PLRS-IMU: a TLA+ model of the heading firmware and its host tools

The repository is the firmware of a boat's heading sensor (an RP2040 with a
BNO085 IMU, a Septentrio dual-antenna GNSS receiver and a serial link to the
rudder controller), and a Python package, `sim/plrs_sim`, that simulates it,
monitors its telemetry and replays captures of it. This directory holds TLA+
modules of both, TLC configurations that check them on small instances, and
TLAPS proofs for every value of the constants. `PROJECT.json` lists the runs,
which lines each definition stands for, the hazards of the code and the theorems.

Run a check with `tlc -config pipeline.cfg FusionPipeline.tla`, a proof with
`tlapm FusionPipelineProofs.tla`.

## The system

    imu task --imu_queue(8)--\             /--heading_mailbox--> rudder task --> UART --> rudder
      | I2C                   fusion task                          (two frames per tick)
    BNO085                   /             \--offset_mailbox---> persist task --> flash sector
    gnss task --gnss_queue(4)                                        | setup() reads it back
      | UART
    Septentrio          all tasks --> telemetry sink --> USB CDC, RTT ring, UART --> sim monitor

| Component | State it keeps | Operations | What makes it correct | Module |
|---|---|---|---|---|
| fusion task (`src/fusion_task.cpp`) | filter, `next_print` | receive, predict, drain fixes, publish, print | samples in order and once; published heading covers queued fixes; throttled lines | `FusionPipeline` |
| rudder task (`src/rudder_task.cpp`) | peeked copy, `Sender::_seq` | tick, two frames | frames of a tick agree, heading never goes back, seq counts frames | `FusionPipeline` |
| persist task and offset store (`src/persist_task.cpp`, `lib/fusion/offset_store.h`, `src/offset_store_eeprom.h`) | policy, flash sector | receive, decide, erase, program, mark; load at boot | boots from a whole record, erases spaced, settled offset stored | `OffsetPersist` |
| EKF control (`lib/fusion/ekf_filter.h`) | anchoring, two reject streaks, last fix time | predict, update | gates reopen, lone bad fix kept out, offset pinned in an outage | `EkfGate` |
| GNSS task (`src/gnss_task.cpp`) | command it is at, unpaired AttEuler | bring-up, read, pair | configured when ready; pairs of one epoch; bring-up ends | `GnssTask` |
| IMU task (`src/imu_task.cpp`) | held triads, DCD flag | bring-up, read, sample | recent triads, one flash write, ready yields samples | `ImuTask` |
| telemetry sink (`src/telemetry.h`) | mutex | line, write, end of line | whole lines on every stream | `TelemetrySink` |
| RTT ring (`src/rtt.cpp`) | ring in RAM, two offsets | write; the host's poll | dump shows the latest bytes, a poll is intact | `RttRing` |
| rudder link (`lib/rudder_link/rudder_protocol.h`) | `Sender::_seq`, the parser's block | encode, feed, parse | delivers only what was sent, resynchronises | `RudderFrame`, `SerialLinks` |
| wire parser (`lib/septentrio_gnss/wire_parser.h`) | its state, the message it holds | feed | delivers only what was sent, finds the next message after damage | `WireParser`, `SerialLinks` |
| telemetry codec (`sim/plrs_sim/telemetry.py`) | none | parse a line, print a record | reads what the firmware prints | `TelemetryCodec` |
| monitor (`monitor.py`, `live.py`, `views.py`) | histories, latest fix, dead reckoner, error; a lock; the window's lines, axes and title | open, read, tee, update; snapshot, paint; close, join | panels show whole samples of one moment, a failure is told of, the capture is the stream | `MonitorState`, `LiveView`, `StreamView` |
| dead reckoner (`deadreckon.py`, `angles.py`) | heading, last time | anchor, step | heading is the anchor turned by the gyro since | `Angles` |
| truth, source, noise (`truth.py`, `source.py`, `noise.py`, `attitude.py`) | next tick, fix schedule, bias walk | next tick | the filter gets the boat's attitude back | `SimSource`, `Attitude` |
| tuning (`tuning.py`, `ekf.py`, `scripts/gen_tuning.py`) | none | load, render, convert | both readers of `tuning.toml` configure one filter | `SimTuning` |
| runner, export, pace, replay (`runner.py`, `export.py`, `monitor.py`, `replay.py`, `magcal.py`) | filter calls, print schedule, wall clock, pending fix | a tick, a line | a replay makes the calls of its run; pacing does not drift | `SimSession` |
| commands and menu (`__main__.py`), drift sweep (`examples/drift_sweep.py`) | the session | put a source, a tuning and a sink together | | `SimSession`, `LiveView` |

The host's parts meet in chains of generators: a source of lines (serial port,
file, or exporter over a simulated source), `pace`, `_tee` into the capture, and
a consumer, which is the reader thread of a window or a headless loop. The two
sides of the repository meet in three places: the telemetry line format, the
filter's C++ code, which the simulator calls, and `tuning.toml`.

What is hard in this code: six tasks on two cores that share only queues,
mailboxes and one mutex; producers that drop without a trace; a lock-free ring
read over a debug probe; unacknowledged or loosely acknowledged bring-up over
lossy lines; a flash commit that power can interrupt; and two clocks, time since
boot and GNSS time of week. On the host: a reader thread that outlives its
window and shares the port with the next one; histories copied while they grow;
redraws of two kinds; and streams that are paired by their order alone.
`PROJECT.json` lists the hazards at their lines.

## Modules and how they correspond to the code

**FusionPipeline.** One variable per queue, mailbox and task-local that
survives a call, one action per FreeRTOS call. `fusionPc` and `rudderPc` are the
places where a task can be preempted between two calls. The filter is reduced to
how far it has come: the newest IMU sample and the newest fix it has consumed.
Variance and validity are left out, since no property depends on them. `Send` is
`xQueueSend(.., 0)`, which drops on a full queue. `lines`, `due` and `printed`
are history.

**OffsetPersist.** `FilterPredict`, `FilterFirstFix` and `FusionPrint` feed the
mailbox; `Due` is `OffsetPersistPolicy::due`; a commit is `CommitErase`,
`CommitProgram` (a torn sector), `CommitDone`, then `MarkWritten`. `PowerLoss`
may come between any two steps, `Boot` loads the sector through `Validate`.
Variance is one bit, at most `VALIDATED_MAX_DEG2` or not, that any predict may
change; at boot it is the prior's. Time is relative
(`since`, `rest`), which makes the state space finite without a clock bound.

**EkfGate.** Whether an innovation passes its gate is an input of the step; the
counters, `_initialized`, `_last_gnss_time` and the pin are the code's. IMU
samples carry time since boot and fixes carry `Tow`, which starts anywhere and
wraps at `Week`.

**GnssTask.** `send_verified` is `SendCommand` and the `Wait` actions;
`wait_for_reply` drops the blocks it reads; a failure restarts the whole
sequence. The receiver, its restart and the line are external actions, each kind
of fault with its own bound. Messages are whole: the wire parser turns damage
into loss.

**ImuTask.** `bring_up` is reset, drain, four features, and a wait for any
input report. `send` ignores its result, so each write may fail. The sensor
splits a period over one or two cargos, and its quaternion may have a norm that
`from_raw` rejects, which costs the sample. Periods are counted modulo
`PeriodModulus`, so that the sensor can run forever under the liveness
properties.

**TelemetrySink.** A `Line` is `LineConstruct`, its chunks through `EmitCdc`,
`EmitRtt` and `EmitUart`, and `LineDestruct`. The host may open or close the CDC
port between any two steps. `HasMutex = FALSE` is the fallback to unlocked
writes, for which the code promises nothing.

**RttRing.** Every access to shared memory is one step: copying the offsets,
each byte, `PublishRead`, `PublishWrite`, and on the host's side the poll, each
byte and the acknowledgement.

**Crc, RudderFrame, WireParser, SerialLinks.** `RudderFrame` holds COBS, the
frames and the parser of the rudder link, `WireParser` the byte machine that takes
SBF blocks, NMEA sentences and command replies off the receiver's UART; both
compute the CRC of `Crc`, as the code does, and `MCSerialLinks` asserts the
check values of the unit tests. The two parsers are functions from a state, a
byte and "later than the timeout" to a state and what was delivered; of the wire
parser the states of the SBF header are told apart by the bytes held.
`SerialLinks` puts a sender and either parser at the ends of a line that loses,
changes and adds bytes and pauses; `port` is chosen at the start and the ports
share nothing. The receiver is not part of the repository, so `SbfEncode`,
`NmeaEncode` and `ReplyEncode` are external, and so are `IsBlock`, `IsSentence` and
`IsReply`, which say what it sends: blocks that fit the buffer and have a length that is
a multiple of four, sentences that do not begin like a block or a reply, and replies
that end in a line feed and hold no prompt of their own.

`UnhurtFramesArrive` says what damage may cost. On the rudder's line the delimiter
resynchronises at once. The receiver's messages have none: a damaged length, or a
reply whose prompt is gone, swallows bytes until a buffer's end, and at its rate
of ten epochs per second the 250 ms timeout never fires. With the bounds of the
run that costs at most one message more (`Reach`). It is not so for a block whose
body holds the two bytes that start a block: after damage such bodies may be taken
for blocks one after the other, and the property leaves them out (`Deceptive`).
`DeliveredWereSent` is about what a CRC covers, since a reply has no checksum and
two errors may cancel in the XOR of a sentence.

**TelemetryCodec.** Schemas and `parse_line` on tokens: an integer, a decimal,
`nan`, `ovf` or text that neither parser takes. A number is a whole part and
millionths; printing rounds it to the decimals of its field, halves to even, and
drops the sign of an infinity, as `_format_float` does.

**MonitorState, Angles, Attitude.** The monitor's state as a record and
`update()` as operators on it, in the steps of its appends; the dead reckoner;
quaternions. Angles are multiples of 90 degrees where a rotation is involved: on
those the quaternion algebra is exact in the integers, and a mistake in an order,
a sign or an axis shows as well as at any angle. A quaternion stands for its
direction.

**LiveView.** The main thread (menu, window, close, join), one reader thread per
session and the window's timer callbacks. A step ends where the other thread
could see or change something: the appends of a sample are steps, and so are the
copies of `snapshot()`, under `_lock`. A reader that is still blocked when
`join(timeout)` returns goes on running and takes lines from the next session; that
two readers may also share the bytes of one line is left out. An exception of
`alignment_summary()` leaves the old title or, raised in a slot of Qt, ends the
process (`AlignAborts`).
A line is its kind and its time; `Wire` gives the tokens the firmware prints for
it.

**StreamView** is what the live view promises, without threads or locks: samples
arrive in a log, and a panel at some moment shows the recent ones of both tracks.
`ViewsShowTheLog` is the statement that `LiveView` implements it, under the
mapping that takes a sample as arrived when its time is appended and fills in
the columns still missing from the record the reader holds.

**SimSource, SimTuning, SimSession.** An iteration of the simulated source with
each random draw as an input, a fix carrying the variance of the noise model's
standard deviation; both readers of `tuning.toml`, where any section or
key may be missing; and the commands: `sim` and `sweep` (load, for `sweep` with
`--baseline` and `--q-bias`, then a tick at a time through `run()`), and `synthetic` (source, exporter, `pace`, monitor and
tee a line at a time, then the capture through `ReplaySource` and
`heading_error_samples`). The filter is the list of calls made to it. The wall
clock counts half ticks; a consumer may stall. `MCSimSession` lists the arguments
the commands are checked with.

Operators whose comment begins with "Mutated form" are not part of a
specification. Each is a plausible mistake in the definition that follows it;
replacing that definition makes a property fail, which shows that the property
depends on the code being right there.

## Runs

| Run | Shows | Bounds, and why they are enough |
|---|---|---|
| `pipeline` | order, coverage, tick consistency, throttle, and that a queued fix is applied | queues of 2 and 3 samples of each kind: both queues overflow, and a drain sees 0, 1 and 2 fixes; seq modulo 3 wraps; 3 clock ticks, so that a stall is followed by a burst |
| `telemetry` | whole lines on RTT and UART, no splice on CDC | 3 tasks (symmetric) with 2 lines of up to 2 chunks: a third contender, and a line that starts and ends mid-chunk; the port opens and closes |
| `rtt` | dump, poll and acknowledgement | ring of 4, 10 bytes in chunks of up to 3: wraps twice, overflows within a chunk |
| `offset` | seed, policy memory, erase spacing, settled offset stored | 5 offsets with 2 out of range, interval 2, sample age 1; power fails without bound |
| `ekf` | both gates | limits 3 and 4 (they differ), 8 samples, wrap of the week |
| `ekf_outage` (violated) | the outage is a difference of two clocks | as above |
| `gnss` | pairing, complete bring-up, what a late reply can cost it | 3 epochs, 2 losses, 1 late reply, 1 rejection, 1 restart |
| `imu` | triads, bring-up, ready yields samples unless a sensor they need is disabled | 2 waiting cargos, one fault of each kind, a rejected quaternion included |
| `link` | delivery, resynchronisation, drop count, on both serial lines | 3 frames and 2 faults per line. Rudder: payloads of 0 and 1 byte, COBS blocks of at most 3 data bytes so that a frame spans several, seq across 255 to 0. GNSS: all three kinds of message, an SBF body that begins like a block, a reply of two lines, and buffers small enough that a damaged message overflows them |
| `live` | complete captures, open-loop heading, told failures, settling, and the refinement of `StreamView` | histories of 2 and 3 lines, so that a deque drops its oldest; window of 1 tick, so that a sample leaves it; two sessions, the second of which meets the reader the first left; two of the three panels, the third being alike; kinds that widen the heading axis |
| `sim` | replay against run, pacing, open loop against truth, tuning of both sides, mount, magnetometer pairing | 1512 arguments: every profile, outage, noise effect and mount at right angles; fixes with a sigma of 2 among others; IMU, fix and print rates that divide, equal and miss each other; two speeds and a stall longer than the run's remaining time; `tuning.toml` with each section, key and pair of keys missing; up to 7 ticks |
| `fline` (violated) | the board's F line has a field more than the codec takes | 1 session, 1 line |

The violated runs are disagreements between code and comments; each finding in
`PROJECT.json` quotes the comment and names the line.

The bounds cut behaviour only through guards on the environment (samples, fixes,
faults, lines, bytes, sessions) and on clocks; the tasks and threads themselves
are never bounded. No run checks deadlock, because a run may end at those bounds,
and a task that waits for a queue that stays empty is not an error.

### Further disagreements

Met while modelling, stated in the modules or seen in a run's premise, and not
runs of their own:

* **Stale headings stay valid** (`rudder_task.cpp:39`). When the IMU goes silent
  the task goes on sending the last output with `heading_valid` set, whatever its
  age. The comment at `rudder_task.cpp:13-15` relies on a variance that "grows
  without bound", which only a predict does.
* **The prior counts as validated** (`offset_store.h:158`). The offset's prior
  variance equals `VALIDATED_MAX_DEG2` (`tuning.toml:76`), and the first sample is
  printed before the filter changes it, so the seed is written to flash on a board that
  never saw a fix: `OffsetPersist!ErasedOnlyAfterFix` is false, against
  `offset_store.h:136`.
* **A late reply acknowledges the wrong command** (`gnss_task.cpp:150`). Replies
  are not matched with commands, so the task may report ready although
  `setSBFOutput` was rejected or lost, against "verify each step" at
  `gnss_task.cpp:165`. `ReadyMeansConfigured` says how far the claim holds.
* **A synthetic boat is not mounted** (`__main__.py:404-416`,
  `drift_sweep.py:88-102`). These sources keep an identity mount while their
  filter is given the mount of `tuning.toml`, so it takes off a tilt that was
  never put on. `MountCancels` is therefore about `sim` only.
* **Headings below zero** (`views.py:40-41`). "Heading spans the full circle and
  never grows", but headings are in -180 to 180, so the first western one widens
  the axis; `live` has such lines.
* **Fixes that were not accepted are printed** (`export.py:9`, "G on each accepted
  GNSS sample"): the loop prints every fix, valid or not, as `ExportTick` does.

## Fairness

* Tasks: weak fairness on each task's step. FreeRTOS schedules every ready task
  and no task of this firmware spins without a delay or a blocking call.
* Waits with a timeout end: weak fairness on the timeout actions of `ImuTask`
  and on `TaskStep` of `GnssTask`.
* Time: weak fairness on `Tick` in `FusionPipeline`. In `OffsetPersist` `Tick`
  waits for the mailbox to be taken, since a sample waits less than a tick; it is
  disabled and enabled again and again, so it is strongly fair: time does pass.
* Window: in `LiveView` the timer goes on firing (weak fairness on the GUI's
  step), the operating system runs a reader that holds a line (on its draining
  steps), and closing and joining end. Sources, the user and the arrival of lines
  are free: `ViewSettles` and `BannerTellsFailure` speak of a window that stays
  open.
* External: a booting sensor finishes and reports, and the receiver answers what
  it can read. No fault, sensor sample, fix or power failure ever has to happen.

## Proofs

All are proved by `tlapm` with no bound on the constants, under the ASSUMEs the
modules state. TLC evaluates each on the run of its module:

* Queue lengths and limits are naturals, at least one where the code's constant is;
  the panels of a window are a sequence of tracks and lines (`LiveAssumption`).
* `FrameAssumption`, `LinkAssumption`, `WireAssumption`: sizes, timeouts and bounds
  of the links are naturals, a COBS block takes at least one byte.
* `MessageAssumption`: what the receiver sends are such blocks, sentences and replies
  as `IsBlock`, `IsSentence` and `IsReply` describe.
* `SimAssumption`: steps and intervals are positive; profiles, biases, `tuning.toml`
  and the flags hold numbers; attitudes turn about a horizontal axis.
* `QuarterAssumption`: headings start and turn by multiples of 90 degrees, the angles
  at which the model's yaw is exact. Only `MagErrorIsLag` uses it.

The argument is always an inductive invariant, and none of the properties is
inductive alone.

* **FusionPipelineProofs.** `TypeInv` adds to `TypeOK` that the rudder task has
  written exactly one frame between its two. `OrderInv` says queues are sorted
  and between what the filter has seen and what was produced; with it `DrainInv`
  keeps the last fix queued at receive time within reach of the drain loop, until
  the publish. `HeadingPathInv` orders filter, mailbox, copy and wire, which the
  step property needs. `RudderInv` relates the counter to the last frame,
  `OffsetPathInv` the offset mailbox to the last line, and `BudgetInv` makes
  `next_print` count lines. None of the properties is inductive alone: each speaks
  of the end of a path and holds because of the stages before it.
* **FirmwareProofs**, the smaller firmware modules, each with its own
  specification and section.
  * *TelemetrySink.* `StreamInv` says what the streams look like at each point of
    the holder's line: which chunk is due, and by how much the UART lags. `CdcInv`
    does so for the port: what it has of the line being printed is the end of its
    stream.
  * *RttRing.* Offsets go round, so they are compared by how many bytes they lie
    behind `wr`, which a write changes for all of them alike. `BufferInv` gives
    each slot's byte from its distance; `OrderInv` keeps the offsets of target and
    host in order until the ring fills up, past a read offset that the target
    takes back; `ReadInv`, `ExactInv` and `AloneInv` relate it to what was
    acknowledged, without and with the premise that no acknowledgement came during
    a write, and when there was none at all.
  * *EkfGate.* `CountInv` ties the code's two counters to the numbers of fixes and
    samples the properties speak of.
  * *OffsetPersist.* `RecordInv` (what is valid is the last whole record) gives
    the seed; `MemoryInv` the policy's memory; `RestInv` relates the policy's
    clock, which starts at the sample, with the sector's rest, which starts at the
    erase, and gives the spacing.
* **ImuTaskProofs.** `SavedInv` orders what is written, marked as written and
  sampled with high accuracy. `TriadsAreRecent` compares periods that the code
  numbers with a modulus, so its invariant recovers the real ones: `Chain` says
  that there are real periods, in order, for the triad held and the cargos behind
  it, one cargo with the triad for each but for those lost on the bus. A difference
  taken with the modulus is at most the real one, which gives the bound.
* **GnssTaskProofs.** Five invariants. `BringUpInv`: while no reply is late and
  the receiver stays up, one command or its only reply is underway, which is why
  an unmatched reply can only answer the command the task waits for. With late
  replies, `AttitudeInv`: the first good reply there is answers a first command, since
  no other was sent before it; and `OutputInv`: a second command that was sent is
  executed or underway, if none was lost or rejected. `OrderInv`:
  what was read comes before what is on the line, and both are in the order of
  emission, whatever is lost (a loss is a map from the positions of the new line
  to those of the old, increasing). `PairInv`, on top of it: the pending AttEuler
  is the latest block read, and every earlier epoch of which both blocks were
  read has its sample.
* **Induction.** The provers cannot instantiate an induction theorem that takes an
  operator, so an induction over data is done with sets: the numbers up to n of
  which something holds form a set, and if it is not all of `0 .. n` then its
  complement has a least element (`LeastNat`, `CountUp`). The community modules
  define folds and sums by recursive functions under CHOOSE; the same lemmas show
  that such functions exist, so that a fold or a sum is what its equations say.
* **SerialLinksProofs.** What the encoder makes of a message decodes to it, by
  induction from the end of the message (`DecodesFrom`: every state of the encoder
  is one from which the rest of its output decodes to the rest of its input); with
  the CRC over header and payload this makes every frame of `encode()` parse
  (`EncodedFrame`). `RudderInv` follows the frame on the line: what is on it is
  the rest of the frame sent last, and if no fault hurt that frame and the parser
  was in step, the parser holds what has gone. This gives `UnhurtFramesArrive`
  whatever the number of faults. `Numbered` says that seq advances by one per
  frame modulo 256, which gives `DropsAreCounted` as long as what is delivered was
  sent, and `Faultless` that without faults the deliveries are the frames sent, in
  order.
  The receiver's messages have no such codec: what is shown of each of them is a
  `Course`, the states it takes the parser through byte by byte, from idle to idle, and
  the byte at which it is delivered (`MessageCourse`). A block's is given by what is
  held of its header and body; a sentence's needs that the XOR is a byte, so that two
  hexadecimal digits carry it; a reply's needs where its prompt begins after each byte
  (`PromptAfter`), and that none begins before the last. `WireInv` then follows the
  message on the line along its course: if no fault hurt that message, nor any since the
  first or since one that came after a pause (`SinceRest`), the parser is in the state
  of the course for the bytes gone. Between messages it is idle, and a byte that comes
  late finds it idle in any case. `WireParserState` is what the parser's buffers may
  hold in each state; with it `BuffersHold` is type correctness of both ports.
* **LiveViewProofs.** What the reader holds between two steps is a record,
  so the section begins with what `parse_line` makes of each line that a source
  hands over, and what a record does to each column of a `MonitorState`. On these
  rests `LiveInv`: types; the window; a session not yet begun is fresh; the lock
  is held exactly while a reader is within an update or the GUI within a
  snapshot; and a series' columns are as long as its times, but that within an update
  those still to be appended to lack the one sample. None of its parts is
  inductive alone: the columns need the lock, the lock the program counters.
  `CaptureInv` adds what the tee wrote against what the source handed over, and
  what the monitor has seen against both, which gives `CaptureHoldsTheStream`.
  `CopyInv` says that what a panel has copied so far, holding the lock, is what the
  columns still hold. With it each step of the threads maps to a step of
  `StreamView` or a stutter: the log grows when a sample's time is appended, its
  missing columns being filled in from the record the reader holds, and a panel
  shows when it is drawn from its copies.
  For the open-loop heading, `OpenInv` says of each session that the dead
  reckoner's heading is, up to whole turns, the first valid fix less the turns of
  the records read since, summed over the lines handed over; the record in the
  reader's hands counts or not by its place in the loop.
* **SimSessionProofs.** `LoadedInv` says that what `sim` runs with stays
  what was loaded. That the three readers of one `tuning.toml` agree (`BothRaise`,
  `TomlReadAlike`) then gives `SimTunesWhatShips`, whichever keys are missing; the
  rotation that `gen_tuning.py` computes is shown equal to `attitude.py`'s for all
  angles. `TickInv` says how the last sample was made; `MountCancels` follows with
  three facts of quaternions: norms multiply, q(q*)p is p lengthened, and a
  quaternion's length does not change what it rotates, whatever the division
  rounds. `PlayInv` is about pacing: the lines not yet taken have the stamp of the
  latest tick, recorded ones no later, and the clock less what the consumer held
  up is the greatest that any line asked for, which makes `PaceNeverDrifts`
  independent of how long the run is.
  `TruthInv` makes `run()`'s heading what it is to be at every tick (`RunTracks`):
  between two samples the truth turns by its rate, as legs end at samples, and the
  gyro sees of a turn about the vertical its rate times the upward part of the z
  axis, which is the same in every heel about a horizontal axis; the rest is the
  drift of the bias.
  `CodecRoundTrip` lays out the tokens of a line by position: each field's tokens
  begin where the widths before it end, so that what `parse_line` cuts out for a
  field is what `format_record` put there: integers and flags as they were, a float
  as rounded to its decimals, +inf for either infinity. Rounding again changes
  nothing: printed once more, what was read comes back as it is.
  `FeedInv` compares the run with its replay line by line. `ScheduleInv` is about
  the exporter's schedules; `IsReplay` gives what the reader has after each line
  of the capture; `KeepsUp` says that a replay of every line so far has made the
  run's calls, but for a fix that waits for its I line (`Waits`), and that line is printed before the next fix comes, so that none is overwritten. The
  reader in `ReadLine` is then at its place in that history.
  `MagInv` adds to it that every line so far is a sample whose magnetometer points
  along the heading at its stamp, or a fix of the heading at a stamp at most a
  printing interval after the last I line, or neither. The analysis thus finds for
  each fix after the first I line one sample, whose error is the boat's turn since
  that line.

Thirty-three of the 40 properties that runs check on small instances are thereby
shown for every value of the constants. Three of them are shown in part:
`DropsAreCounted` as long as `DeliveredWereSent`; `UnhurtFramesArrive` on the rudder's
port of `SerialLinks`, and on the receiver's for a line that has recovered
(`WireMessagesArrive`); `DeliveredWereSent` on both ports without faults. Some proved
facts have no run of their own because a run would show less: `TypeCorrect`,
`RingTypeCorrect` and `BuffersHold`, `SeqCounts`, `PersistSeesLatest`,
`MutualExclusion`, `StreamsStayTogether`, `CalibrationSavedOnce`, `CobsRoundTrip`,
`EncodedFrame`, `MessageCourse` and `CodecRoundTrip` hold for every bound.

Three statements had to be corrected before they could be proved, because they were
true of the small instances only:

* seq is a byte, so `DropsAreCounted` counts the missing frames modulo 256;
* `OpenLoopTracksTruth` needs legs that end at samples (`LegsEndAtSamples`): the
  command line takes any `--imu-rate-hz`, and the truth between two samples of a
  rate that does not divide a leg is not what the gyro sees at either;
* `ReplayFeedsFilter` needs a printing period no longer than the time between two
  fixes (`Period <= conf.gnssDt`). With a sample every 4 ticks, a fix every 7 and a
  line every 6, the fix sampled at 52 is overwritten in the replay by the one sampled
  at 56, before the first line after both.

Only model-checked: liveness (`QueuedFixApplied`, `SettledOffsetIsStored`, the
`BringUpCompletes` of `GnssTask` and of `ImuTask`, `ReadyYieldsSamples`,
`BannerTellsFailure`, `ViewSettles`), which needs fairness and ENABLED; that damage on
the receiver's line which no pause ended swallows at most `Reach` messages, which is
about the sizes of the run and not of every receiver; and `DeliveredWereSent` on a line
with faults, which rests on what a CRC catches of the damage at hand and does not hold
of every damage. No module declares a RECURSIVE
operator, so that each stays open to proof.

## Not modelled

* The fields of SBF blocks, NMEA sentences and command text, and the SHTP and
  SH-2 layouts: `GnssTask` and `ImuTask` take whole messages and let any be
  lost. The Xbus parser has no user in the firmware.
* Floating point: the filter's state and covariance, least squares in
  `magcal.py`, the sweep's metrics, trigonometry off the right angles, `Sinusoidal`
  and `WaveMotion`, whose rates are irrational.
* Output: plots, the 3D hull, the wording of banners, summaries and reports, the
  throttle of the headless summary, and with them the `mounting` view.
* Validity of the heading: which output passes `heading_trustworthy` depends on
  variances. A line's bytes shared by two readers of one port.
* Argument parsing, `pinMode`, LEDs, build scripts.

## Plan

Done, in this order: `FusionPipeline`, `TelemetrySink`, `RttRing`, `OffsetPersist`,
`EkfGate`, `GnssTask` and `ImuTask`, each with its proofs; `Crc`, `RudderFrame`,
`WireParser` and `SerialLinks`; `TelemetryCodec`; `MonitorState`, `LiveView`, and the
proof that it implements `StreamView`; `SimSource`, `SimTuning`, `SimSession` and
its proofs; `Induction`, and on it the proofs of what is computed over a sequence:
the codecs and lines of the rudder link and of the receiver, the telemetry codec, the
open-loop headings, the replay and the magnetometer analysis.

Left:

1. A composition that shows the GNSS port of `SerialLinks` to implement the line
   that loses messages which `GnssTask` assumes.
2. `SystemPath`: `FusionPipeline` composed with the rudder port of `SerialLinks`,
   from IMU sample to the rudder's frame.
