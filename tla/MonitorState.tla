---------------------------- MODULE MonitorState ----------------------------
(***************************************************************************)
(* MonitorState of monitor.py as a record, and what one parsed record does *)
(* to it.  _update() is given in the steps of its appends, so that a       *)
(* module with threads can interleave them; Update is their sequence.      *)
(***************************************************************************)
EXTENDS TelemetryCodec, Angles, Attitude

CONSTANT MaxLen    \* _DEFAULT_HISTORY, the deques' maxlen
ASSUME MaxLenAssumption == MaxLen \in Nat \ {0}

NoStamp == -1      \* latest_t_ms is None

\* deque(maxlen=MaxLen).append
Push(deque, value) ==
  IF Len(deque) = MaxLen THEN Append(Tail(deque), value) ELSE Append(deque, value)

EmptySeries == [t |-> <<>>, heading |-> <<>>, roll |-> <<>>, pitch |-> <<>>]

\* dr is _dead_reckoner, drGnss _dr_anchored_to_gnss, seen and parsed the line
\* counters, gnss last_gnss.
FreshMonitor ==
  [fused |-> EmptySeries, open |-> EmptySeries,
   gnss |-> [seen |-> FALSE, heading |-> 0, valid |-> FALSE],
   diag |-> FALSE, latest |-> NoStamp, seen |-> 0, parsed |-> 0, error |-> FALSE,
   dr |-> FreshReckoner, drGnss |-> FALSE]

-----------------------------------------------------------------------------

Orientation(record) ==
  LET q == record.f["orientation"]
  IN  Quaternion(q[1].v, q[2].v, q[3].v, q[4].v)

GyroZ(record) == record.f["angular_velocity_rad_s"][3].v

\* Mutated form: every I line anchors again.
ReckonReanchoring(m, record) ==
  Step(Anchor(m.dr, IF m.fused.t # <<>> THEN Last(m.fused.heading)
                    ELSE QuaternionToEulerZyx(Orientation(record)).yaw),
       Stamp(record), GyroZ(record))

\* An I line: the first one seeds the heading, from the last fused one or the
\* boot yaw, unless a valid fix already did.
Reckon(m, record) ==
  IF ~m.dr.anchored /\ ~m.drGnss
    THEN ReckonReanchoring(m, record)
    ELSE Step(m.dr, Stamp(record), GyroZ(record))

\* What an F or I line appends to its series, once dr has stepped.
SeriesOf(record) == IF record.type = "F" THEN "fused" ELSE "open"

SampleOf(dr, record) ==
  IF record.type = "F"
    THEN [t |-> Stamp(record), heading |-> Scalar(record, "heading_deg"),
          roll |-> Scalar(record, "roll_deg"), pitch |-> Scalar(record, "pitch_deg")]
    ELSE LET euler == QuaternionToEulerZyx(Orientation(record))
         IN  [t |-> Stamp(record), heading |-> dr.heading,
              roll |-> euler.roll, pitch |-> euler.pitch]

PushColumn(m, series, column, value) == [m EXCEPT ![series][column] = Push(@, value)]

\* A G line: a valid fix anchors the dead reckoner, once.
UpdateGnss(m, record) ==
  LET valid   == Scalar(record, "valid") = 1
      heading == Scalar(record, "heading_deg")
      anchors == valid /\ ~m.drGnss
  IN  [m EXCEPT !.gnss = [seen |-> TRUE, heading |-> heading, valid |-> valid],
                !.dr = IF anchors THEN Anchor(@, heading) ELSE @,
                !.drGnss = @ \/ anchors]

UpdateSeries(m, record) ==
  LET reckoned == IF record.type = "I" THEN [m EXCEPT !.dr = Reckon(m, record)] ELSE m
      sample   == SampleOf(reckoned.dr, record)
      pushed   == FoldLeft(LAMBDA acc, column :
                             PushColumn(acc, SeriesOf(record), column, sample[column]),
                           reckoned, <<"t", "heading", "roll", "pitch">>)
  IN  [pushed EXCEPT !.latest = Stamp(record)]

Update(m, record) ==
  CASE record.type \in {"F", "I"} -> UpdateSeries(m, record)
    [] record.type = "G"          -> UpdateGnss(m, record)
    [] record.type = "Diag"       -> [m EXCEPT !.diag = TRUE]
    [] OTHER                      -> m

\* The loop body of _drain and _run_headless, for one line.
Drain(m, line) ==
  LET record == ParseLine(line)
      seen   == [m EXCEPT !.seen = @ + 1]
  IN  IF record.type = "None" THEN seen
      ELSE Update([seen EXCEPT !.parsed = @ + 1], record)
=============================================================================
