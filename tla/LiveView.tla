------------------------------ MODULE LiveView ------------------------------
(***************************************************************************)
(* The interactive telemetry monitor (__main__.py, live.py, monitor.py,    *)
(* views.py): the main thread with its menu and Qt window, and one reader  *)
(* thread per session, which drains the line stream into a MonitorState    *)
(* while the window's timer draws it.                                      *)
(*                                                                         *)
(* A thread step ends where the other thread could see or change something.*)
(* The reader is inside its generator chain exactly while pc = "pull".  A  *)
(* session's window closes at any moment; a reader that does not end within*)
(* the join timeout is left running, a daemon thread of the process.       *)
(***************************************************************************)
EXTENDS MonitorState, TLC

CONSTANTS
  MaxSessions,   \* bound: monitor sessions of one process
  MaxLines,      \* bound: lines a source hands over
  MenuLines,     \* bound: lines all sources of a process with a menu hand over
  MenuKinds,     \* bound: their kinds, for there it matters who gets a line
  Panels,        \* the scroll panels, in drawing order (pitch is like roll)
  Window,        \* window_s
  SerialKinds,   \* kinds of line the board sends
  ReplayKinds    \* kinds of line in a capture or a synthetic run

ASSUME LiveAssumption ==
  /\ MaxSessions \in Nat \ {0} /\ MaxLines \in Nat /\ MenuLines \in 0 .. MaxLines
  /\ Window \in Nat
  /\ Panels \in Seq({"heading", "roll", "pitch"}) /\ Panels # <<>>

VARIABLES
  ui,        \* main thread: "menu", "live", "closing", "joining" or "gone"
  session,   \* the current session, 0 before the first
  menu,      \* the process was started without arguments
  config,    \* config[s]: the session's source, view and whether it records
  reader,    \* reader[s]: its pc and the record it is applying
  state,     \* state[s]: its MonitorState
  lock,      \* who holds state[s]._lock: "free", "reader" or "gui"
  ended,     \* sources the main thread closed
  sink,      \* sink[s]: the capture file, open or not
  handed,    \* history: handed[s], the lines the source gave the reader
  gui,       \* the drawing in progress
  view       \* the window: line data, y-limits, what is on screen, its title

mainVars   == <<ui, session, menu, config>>
sourceVars == <<ended, sink, handed>>
liveVars   == <<mainVars, reader, state, lock, sourceVars, gui, view>>

Sessions == 1 .. MaxSessions
Tracks == {"fused", "open"}

-----------------------------------------------------------------------------
(* Lines.  Time is in ticks of the source's clock. *)

Sigma3 == [i \in 1 .. 3 |-> RealToken(1)]
FusionTokens(time, heading, roll, extra) ==
  <<IntToken(time), RealToken(heading), RealToken(roll), RealToken(0)>> \o Sigma3
    \o [i \in 1 .. 8 |-> RealToken(0)] \o [i \in 1 .. extra |-> IntToken(0)]

ImuTokens(time, x, gyroZ) ==
  <<IntToken(time), RealToken(1), RealToken(x), RealToken(0), RealToken(0),
    RealToken(0), RealToken(0), RealToken(gyroZ)>> \o Sigma3

Line(tag, tokens) == [tag |-> tag, tokens |-> tokens]

\* The board's F line ends in mag_accuracy; a synthetic or older one does not.
Wire(kind, time) ==
  CASE kind = "F"       -> Line("F", FusionTokens(time, 90, 0, 2))
    [] kind = "F west"  -> Line("F", FusionTokens(time, -90, 0, 2))
    [] kind = "F board" -> Line("F", FusionTokens(time, 90, 0, 3))
    [] kind = "I"       -> Line("I", ImuTokens(time, 0, 0))
    [] kind = "I turn"  -> Line("I", ImuTokens(time, 1, 90))
    [] kind = "M"       -> Line("M", <<IntToken(time)>> \o Sigma3 \o Sigma3 \o Sigma3)
    [] kind = "G"       -> Line("G", <<IntToken(time), RealToken(90), RealToken(1),
                                       IntToken(1), IntToken(2), IntToken(0)>>)
    [] kind = "G float" -> Line("G", <<IntToken(time), RealToken(0), RealToken(1),
                                       IntToken(0), IntToken(0), IntToken(0)>>)
    [] kind = "diag"    -> Line("#", <<>>)
    [] OTHER            -> Line(kind, <<Junk>>)

\* A line of the model is its kind and time; what parse_line makes of it.
Lines == [kind : SerialKinds \cup ReplayKinds \cup MenuKinds, time : 1 .. MaxLines]
Parsed == [line \in Lines |-> ParseLine(Wire(line.kind, line.time))]

Handed == FoldLeft(LAMBDA sum, s : sum + Len(handed[s]), 0, [s \in Sessions |-> s])

KindsOf(s) == IF menu THEN MenuKinds
              ELSE IF config[s].source = "serial" THEN SerialKinds ELSE ReplayKinds

-----------------------------------------------------------------------------

NoRecordHeld == [pc |-> "none", record |-> NoRecord]
Snapshot == [now |-> 0, t |-> [track \in Tracks |-> <<>>],
             values |-> [track \in Tracks |-> <<>>]]
IdleGui == [pc |-> "idle", panel |-> 1, copy |-> Snapshot, grown |-> FALSE]

InitialYlim == [panel \in Range(Panels) |->
                  IF panel = "heading" THEN <<0, 360>> ELSE <<-15, 15>>]
NoTriad == [roll |-> NaN, pitch |-> NaN, heading |-> NaN]
NoArrow == [seen |-> FALSE, heading |-> 0, valid |-> FALSE]

\* lines: the data of each panel's two lines; lit: they are on screen.
FreshView ==
  [painted |-> FALSE, lit |-> FALSE, ylim |-> InitialYlim,
   lines |-> [panel \in Range(Panels) |-> [track \in Tracks |-> <<>>]],
   triad |-> NoTriad, arrow |-> NoArrow, titleError |-> FALSE]

LiveInit ==
  /\ ui = "menu" /\ session = 0 /\ menu \in BOOLEAN
  /\ config = [s \in Sessions |-> [source |-> "none", align |-> FALSE, record |-> FALSE]]
  /\ reader = [s \in Sessions |-> NoRecordHeld]
  /\ state = [s \in Sessions |-> FreshMonitor]
  /\ lock = [s \in Sessions |-> "free"]
  /\ ended = {} /\ sink = [s \in Sessions |-> [open |-> FALSE, lines |-> <<>>]]
  /\ handed = [s \in Sessions |-> <<>>]
  /\ gui = IdleGui /\ view = FreshView

-----------------------------------------------------------------------------
(* The main thread. *)

\* The process is gone, and with it what its memory held.
Exit ==
  /\ ui' = "gone"
  /\ reader' = [s \in Sessions |-> NoRecordHeld]
  /\ state' = [s \in Sessions |-> FreshMonitor]
  /\ lock' = [s \in Sessions |-> "free"]
  /\ ended' = {} /\ gui' = IdleGui /\ view' = FreshView
  /\ sink' = [s \in Sessions |-> [sink[s] EXCEPT !.open = FALSE]]
  /\ UNCHANGED <<session, menu, config, handed>>

RpUsbVid == 11914         \* 0x2E8A
DebugProbePid == 12       \* 0x000C
UsbPorts == {[vid |-> RpUsbVid, pid |-> 10], [vid |-> RpUsbVid, pid |-> 15],
             [vid |-> RpUsbVid, pid |-> DebugProbePid], [vid |-> 1027, pid |-> 24577]}

\* find_device_port(): the sole Raspberry Pi port that is not the debug probe.
Candidates(ports) == {port \in ports : port.vid = RpUsbVid /\ port.pid # DebugProbePid}

\* _cmd_monitor and monitor().  Serial always records; a replay only with
\* --record, which is then no different and left out.  Bound: the sessions after
\* the first are serial with the scrolling view, as what a reader left behind
\* competes with.
OpenSession ==
  /\ ui = "menu" /\ session < MaxSessions
  /\ \E choice \in [source : {"serial", "replay"}, align : BOOLEAN, record : BOOLEAN] :
       /\ choice.record = (choice.source = "serial")
       /\ session > 0 => choice.source = "serial" /\ ~choice.align
       /\ choice.source = "serial" =>
            \E ports \in SUBSET UsbPorts : Cardinality(Candidates(ports)) = 1
       /\ config' = [config EXCEPT ![session + 1] = choice]
       /\ sink' = [sink EXCEPT ![session + 1].open = choice.record]
  /\ ui' = "live" /\ session' = session + 1
  /\ reader' = [reader EXCEPT ![session + 1].pc = "pull"]
  /\ view' = FreshView
  /\ UNCHANGED <<menu, state, lock, ended, handed, gui>>

\* find_device_port() raises, and the process ends with the traceback.
NoBoardFound ==
  /\ ui = "menu" /\ session < MaxSessions
  /\ \E ports \in SUBSET UsbPorts : Cardinality(Candidates(ports)) # 1
  /\ Exit

Quit == ui = "menu" /\ menu /\ Exit

\* plt.show() returns, between two events of the window.
CloseWindow ==
  /\ ui = "live" /\ gui.pc = "idle"
  /\ ui' = "closing"
  /\ UNCHANGED <<session, menu, config, reader, state, lock, sourceVars, gui, view>>

\* lines.close(): ValueError, suppressed, while the reader executes the
\* generator; else the chain ends where it is suspended.
CloseSource ==
  /\ ui = "closing"
  /\ ui' = "joining"
  /\ ended' = IF reader[session].pc = "pull" THEN ended ELSE ended \cup {session}
  /\ UNCHANGED <<session, menu, config, reader, state, lock, sink, handed, gui, view>>

\* reader.join(timeout=1.0) returns, the reader ended or not; then the capture
\* is closed and monitor() returns its state, which nobody keeps.
Join ==
  /\ ui = "joining"
  /\ IF menu
       THEN /\ ui' = "menu"
            /\ sink' = [sink EXCEPT ![session].open = FALSE]
            /\ view' = FreshView
            /\ config' = [config EXCEPT ![session].align = FALSE]
            /\ state' = IF reader[session].pc \in {"done", "failed"}
                          THEN [state EXCEPT ![session] = FreshMonitor] ELSE state
            /\ UNCHANGED <<session, menu, reader, lock, ended, handed, gui>>
       ELSE Exit

-----------------------------------------------------------------------------
(* The reader thread of session s: _drain over _tee over the source. *)

Raise(s) ==
  /\ reader' = [reader EXCEPT ![s] = [NoRecordHeld EXCEPT !.pc = "failed"]]
  /\ state' = [state EXCEPT ![s].error = TRUE]

\* Mutated form: a closed capture is passed by.
TeeWhileOpen(s, line) ==
  /\ sink' = IF sink[s].open THEN [sink EXCEPT ![s].lines = Append(@, line)] ELSE sink
  /\ reader' = [reader EXCEPT ![s] = [pc |-> "parse", record |-> Parsed[line]]]
  /\ UNCHANGED state

\* _tee: written and flushed before it is passed on; a closed file raises.
Tee(s, line) ==
  IF config[s].record /\ ~sink[s].open
    THEN Raise(s) /\ UNCHANGED sink
    ELSE /\ sink' = IF config[s].record THEN [sink EXCEPT ![s].lines = Append(@, line)]
                    ELSE sink
         /\ reader' = [reader EXCEPT ![s] = [pc |-> "parse", record |-> Parsed[line]]]
         /\ UNCHANGED state

\* The source hands over a line: serial readline(), or a paced replay.  A reader
\* left behind and the next session's take lines from one port; that they may also
\* share the bytes of a line, most often to parse as no record, is left out.
Receive(s) ==
  /\ reader[s].pc = "pull" /\ s \notin ended
  /\ Handed + 1 \in 1 .. IF menu THEN MenuLines ELSE MaxLines
  /\ \E kind \in KindsOf(s) :
       LET line == [kind |-> kind, time |-> Handed + 1]
       IN  handed' = [handed EXCEPT ![s] = Append(@, line)] /\ Tee(s, line)
  /\ UNCHANGED <<mainVars, lock, ended, gui, view>>

\* The board is unplugged: readline() raises.
Unplug(s) ==
  /\ reader[s].pc = "pull" /\ s \notin ended /\ config[s].source = "serial"
  /\ Raise(s)
  /\ UNCHANGED <<mainVars, lock, sourceVars, gui, view>>

\* The capture ends, or the chain was closed.
Exhaust(s) ==
  /\ reader[s].pc = "pull"
  /\ s \in ended \/ config[s].source = "replay"
  /\ reader' = [reader EXCEPT ![s].pc = "done"]
  /\ UNCHANGED <<mainVars, state, lock, sourceVars, gui, view>>

\* The loop body begins: the counters, and parse_line's result, a pure function
\* of the line, which the reader already holds.
Parse(s) ==
  /\ reader[s].pc = "parse"
  /\ IF reader[s].record.type = "None"
       THEN /\ reader' = [reader EXCEPT ![s].pc = "pull"]
            /\ state' = [state EXCEPT ![s].seen = @ + 1]
       ELSE /\ reader' = [reader EXCEPT ![s].pc = "lock"]
            /\ state' = [state EXCEPT ![s].seen = @ + 1, ![s].parsed = @ + 1]
  /\ UNCHANGED <<mainVars, lock, sourceVars, gui, view>>

\* MonitorState.update of a record without a sample.
Apply(s) ==
  /\ reader[s].pc = "lock" /\ lock[s] = "free"
  /\ reader[s].record.type \notin {"F", "I"}
  /\ state' = [state EXCEPT ![s] = Update(@, reader[s].record)]
  /\ reader' = [reader EXCEPT ![s] = [NoRecordHeld EXCEPT !.pc = "pull"]]
  /\ UNCHANGED <<mainVars, lock, sourceVars, gui, view>>

\* Series.append appends to one deque after the other.
AppendTime(s) ==
  /\ reader[s].pc = "lock" /\ lock[s] = "free"
  /\ LET record == reader[s].record
         dr == IF record.type = "I" THEN Reckon(state[s], record) ELSE state[s].dr
     IN  /\ record.type \in {"F", "I"}
         /\ state' = [state EXCEPT ![s] =
              PushColumn([@ EXCEPT !.dr = dr], SeriesOf(record), "t", Stamp(record))]
  /\ lock' = [lock EXCEPT ![s] = "reader"]
  /\ reader' = [reader EXCEPT ![s].pc = "heading"]
  /\ UNCHANGED <<mainVars, sourceVars, gui, view>>

Pending(s) == SampleOf(state[s].dr, reader[s].record)

AppendHeading(s) ==
  /\ reader[s].pc = "heading"
  /\ state' = [state EXCEPT ![s] =
       PushColumn(@, SeriesOf(reader[s].record), "heading", Pending(s).heading)]
  /\ reader' = [reader EXCEPT ![s].pc = "rest"]
  /\ UNCHANGED <<mainVars, lock, sourceVars, gui, view>>

AppendRest(s) ==
  /\ reader[s].pc = "rest"
  /\ LET series == SeriesOf(reader[s].record)
     IN  state' = [state EXCEPT ![s] =
           [PushColumn(PushColumn(@, series, "roll", Pending(s).roll),
                       series, "pitch", Pending(s).pitch)
              EXCEPT !.latest = Pending(s).t]]
  /\ lock' = [lock EXCEPT ![s] = "free"]
  /\ reader' = [reader EXCEPT ![s] = [NoRecordHeld EXCEPT !.pc = "pull"]]
  /\ UNCHANGED <<mainVars, sourceVars, gui, view>>

Drains(s) == Parse(s) \/ Apply(s) \/ AppendTime(s) \/ AppendHeading(s) \/ AppendRest(s)
ReaderStep(s) == Receive(s) \/ Unplug(s) \/ Exhaust(s) \/ Drains(s)

-----------------------------------------------------------------------------
(* The scrolling view: _LiveBlitView.tick every 33 ms, a panel at a time.  *)

Shown == state[session]
Painting(pc) == ui = "live" /\ ~config[session].align /\ gui.pc = pc
Panel == Panels[gui.panel]

FirstPaint ==
  /\ Painting("idle") /\ ~view.painted
  /\ view' = [view EXCEPT !.painted = TRUE]
  /\ UNCHANGED <<mainVars, reader, state, lock, sourceVars, gui>>

\* Mutated form: the copies are made without the lock.
SnapshotBeginUnlocked ==
  /\ Painting("idle") \/ Painting("panel")
  /\ view.painted
  /\ gui' = [gui EXCEPT !.pc = "fused",
       !.copy = [Snapshot EXCEPT !.now = IF Shown.latest = NoStamp THEN 0 ELSE Shown.latest,
                                 !.t["fused"] = Shown.fused.t]]
  /\ UNCHANGED <<mainVars, reader, state, lock, sourceVars, view>>

\* snapshot(): under the lock, the clock, then each track's times and values.
SnapshotBegin ==
  /\ Painting("idle") \/ Painting("panel")
  /\ view.painted /\ lock[session] = "free"
  /\ lock' = [lock EXCEPT ![session] = "gui"]
  /\ gui' = [gui EXCEPT !.pc = "fused",
       !.copy = [Snapshot EXCEPT !.now = IF Shown.latest = NoStamp THEN 0 ELSE Shown.latest,
                                 !.t["fused"] = Shown.fused.t]]
  /\ UNCHANGED <<mainVars, reader, state, sourceVars, view>>

SnapshotFused ==
  /\ Painting("fused")
  /\ gui' = [gui EXCEPT !.pc = "open", !.copy.values["fused"] = Shown.fused[Panel],
                        !.copy.t["open"] = Shown.open.t]
  /\ UNCHANGED <<mainVars, reader, state, lock, sourceVars, view>>

\* The samples of a copied track that fall into the window.
Visible(copy, track) ==
  LET count == Min({Len(copy.t[track]), Len(copy.values[track])})
      pairs == [i \in 1 .. count |-> <<copy.t[track][i] - copy.now, copy.values[track][i]>>]
  IN  SelectSeq(pairs, LAMBDA pair : pair[1] >= -Window)

\* The y-limits after a panel update: widened with a margin, never narrowed.
Widened(ylim, values) ==
  LET low == Min(values)  high == Max(values)
      pad == Max({5, (high - low) \div 10})
  IN  IF values # {} /\ (low < ylim[1] \/ high > ylim[2])
        THEN <<Min({ylim[1], low - pad}), Max({ylim[2], high + pad})>>
        ELSE ylim

\* The lock is released; _ScrollPanel.update goes on with the copies alone.
SnapshotOpen ==
  /\ Painting("open")
  /\ lock' = [lock EXCEPT ![session] = "free"]
  /\ LET copy  == [gui.copy EXCEPT !.values["open"] = Shown.open[Panel]]
         drawn == {track \in Tracks : copy.t[track] # <<>>}
         data  == [track \in Tracks |-> IF track \in drawn THEN Visible(copy, track)
                                        ELSE view.lines[Panel][track]]
         ylim  == Widened(view.ylim[Panel],
                    UNION {{pair[2] : pair \in Range(data[track])} : track \in drawn})
         last  == gui.panel = Len(Panels)
     IN  /\ view' = [view EXCEPT !.lines[Panel] = data, !.ylim[Panel] = ylim]
         /\ gui' = [pc |-> IF last THEN "paint" ELSE "panel",
                    panel |-> IF last THEN 1 ELSE gui.panel + 1, copy |-> Snapshot,
                    grown |-> gui.grown \/ ylim # view.ylim[Panel]]
  /\ UNCHANGED <<mainVars, reader, state, sourceVars>>

\* Mutated form: the title is set while the lines are not yet on screen.
PaintTitleOnce ==
  /\ Painting("paint")
  /\ view' = [view EXCEPT !.lit = ~gui.grown,
                          !.titleError = IF view.lit THEN @ ELSE Shown.error]
  /\ gui' = IdleGui
  /\ UNCHANGED <<mainVars, reader, state, lock, sourceVars>>

\* Mutated form: once an axis has grown, every tick redraws in full.
PaintGrownForGood ==
  /\ Painting("paint")
  /\ view' = [view EXCEPT !.lit = ~gui.grown, !.titleError = Shown.error]
  /\ gui' = [IdleGui EXCEPT !.grown = gui.grown]
  /\ UNCHANGED <<mainVars, reader, state, lock, sourceVars>>

\* A full redraw leaves the animated lines out; a blit draws them.  The title
\* takes the status line.
Paint ==
  /\ Painting("paint")
  /\ view' = [view EXCEPT !.lit = ~gui.grown, !.titleError = Shown.error]
  /\ gui' = IdleGui
  /\ UNCHANGED <<mainVars, reader, state, lock, sourceVars>>

-----------------------------------------------------------------------------
(* The alignment view: FuncAnimation's update, every 80 ms.  It reads the  *)
(* state without the lock.                                                 *)

Aligning(pc) == ui = "live" /\ config[session].align /\ gui.pc = pc

\* A time without its roll is an IndexError, shown by the next title.
HalfAppended == Len(Shown.open.t) > 0 /\ Shown.open.roll = <<>>

DrawTriad ==
  /\ Aligning("idle")
  /\ state' = [state EXCEPT ![session].error = @ \/ HalfAppended]
  /\ gui' = [gui EXCEPT !.pc = IF HalfAppended THEN "title"
                               ELSE IF Shown.open.t = <<>> THEN "fix" ELSE "heading"]
  /\ view' = [view EXCEPT !.arrow = NoArrow,
       !.triad = IF Shown.open.roll = <<>> THEN NoTriad
                 ELSE [roll |-> Last(Shown.open.roll), pitch |-> Last(Shown.open.pitch),
                       heading |-> NaN]]
  /\ UNCHANGED <<mainVars, reader, lock, sourceVars>>

DrawHeading ==
  /\ Aligning("heading")
  /\ view' = [view EXCEPT !.triad.heading = Last(Shown.open.heading)]
  /\ gui' = [gui EXCEPT !.pc = "fix"]
  /\ UNCHANGED <<mainVars, reader, state, lock, sourceVars>>

\* The validity of last_gnss, then its heading: two reads of the attribute.
ReadFix ==
  /\ Aligning("fix")
  /\ view' = [view EXCEPT !.arrow = [seen |-> Shown.gnss.seen, heading |-> 0,
                                     valid |-> Shown.gnss.valid]]
  /\ gui' = [gui EXCEPT !.pc = IF Shown.gnss.seen THEN "arrow" ELSE "title"]
  /\ UNCHANGED <<mainVars, reader, state, lock, sourceVars>>

DrawArrow ==
  /\ Aligning("arrow")
  /\ view' = [view EXCEPT !.arrow.heading = Shown.gnss.heading]
  /\ gui' = [gui EXCEPT !.pc = "title"]
  /\ UNCHANGED <<mainVars, reader, state, lock, sourceVars>>

\* alignment_summary() runs outside the try.  When it raises within a callback of
\* matplotlib, which prints the exception, this frame keeps the old title ...
AlignTitle ==
  /\ Aligning("title")
  /\ view' = [view EXCEPT !.titleError = IF HalfAppended THEN @ ELSE Shown.error]
  /\ gui' = IdleGui
  /\ UNCHANGED <<mainVars, reader, state, lock, sourceVars>>

\* ... and when it raises in the timer's slot, PyQt6 aborts the process.
AlignAborts == Aligning("title") /\ HalfAppended /\ Exit

GuiStep ==
  \/ FirstPaint \/ SnapshotBegin \/ SnapshotFused \/ SnapshotOpen \/ Paint
  \/ DrawTriad \/ DrawHeading \/ ReadFix \/ DrawArrow \/ AlignTitle

-----------------------------------------------------------------------------

MainStep ==
  \/ OpenSession \/ NoBoardFound \/ Quit \/ CloseWindow \/ CloseSource \/ Join
  \/ AlignAborts

LiveNext == MainStep \/ GuiStep \/ \E s \in Sessions : ReaderStep(s)

\* The window's timer goes on firing, the operating system runs the reader, and
\* what the main thread does after the window closed ends.  Sources, the user
\* and the lines that arrive are free.
LiveFairness ==
  /\ WF_liveVars(GuiStep) /\ WF_liveVars(CloseSource \/ Join)
  /\ \A s \in Sessions : WF_liveVars(Drains(s))

LiveSpec == LiveInit /\ [][LiveNext]_liveVars /\ LiveFairness

-----------------------------------------------------------------------------
(* Properties. *)

\* The board's lines are in a format the monitor reads: fusion_task.cpp says of
\* the F line's debug fields "the parser treats them as one optional
\* format-version tail".
BoardLinesParse ==
  \A s \in Sessions :
    reader[s].pc = "parse" /\ config[s].source = "serial" => reader[s].record.type # "None"

\* A captured stream is complete: as long as the window is open every line the
\* source handed over is in the file before anything else sees it, and a reader
\* left behind by its session takes at most one line from the next one's, and
\* writes none of it.
CaptureHoldsTheStream ==
  \A s \in Sessions : config[s].record =>
    /\ IsPrefix(sink[s].lines, handed[s])
    /\ Len(handed[s]) - Len(sink[s].lines) <= IF sink[s].open THEN 0 ELSE 1
    /\ state[s].seen <= Len(sink[s].lines)

\* The open-loop heading is the anchor turned by every interval since: the
\* anchor is the first valid fix once it came, else the fused heading or the
\* boot yaw at the first I line; later fixes never move it.
OpenLoopIsAnchorPlusTurn ==
  \A s \in Sessions :
    LET records == [i \in DOMAIN handed[s] |-> Parsed[handed[s][i]]]
        All(type) == {i \in DOMAIN records : records[i].type = type}
        fixes  == {i \in All("G") : Scalar(records[i], "valid") = 1}
        first  == Min(All("I"))
        anchor == IF fixes = {} THEN first ELSE Min(fixes \cup {Max(All("I"))})
        fused  == {i \in All("F") : i < first}
        base   == IF anchor \in fixes THEN Scalar(records[anchor], "heading_deg")
                  ELSE IF fused # {} THEN Scalar(records[Max(fused)], "heading_deg")
                  ELSE QuaternionToEulerZyx(Orientation(records[first])).yaw
        since  == IF anchor \in fixes THEN anchor ELSE first
        turn(k) == GyroZ(records[k]) *
                   (Stamp(records[k]) - Stamp(records[Max({i \in All("I") : i < k})]))
        turned == MapThenSumSet(turn, {k \in All("I") : k > since /\ k > first})
    IN  reader[s].pc = "pull" /\ state[s].open.t # <<>> =>
          (Last(state[s].open.heading) - (base - turned)) % Turn = 0

\* A reader that failed is told of: while the window stays open, an error of the
\* session reaches its title.
BannerTellsFailure ==
  (ui = "live" /\ Shown.error) ~> (ui # "live" \/ view.titleError)

\* What the alignment view draws, between two frames.
TriadOfLast ==
  IF Shown.open.t = <<>> THEN view.triad = NoTriad
  ELSE view.triad = [roll |-> Last(Shown.open.roll), pitch |-> Last(Shown.open.pitch),
                     heading |-> Last(Shown.open.heading)]

Settled ==
  ui = "live" /\ reader[session].pc \notin {"heading", "rest"} =>
    IF config[session].align
      THEN gui.pc = "idle" => TriadOfLast /\ view.arrow = Shown.gnss
      ELSE /\ view.lit
           /\ \A panel \in Range(Panels), track \in Tracks :
                Shown[track].t # <<>> =>
                  view.lines[panel][track] =
                    Visible([now |-> Shown.latest,
                             t |-> [tr \in Tracks |-> Shown[tr].t],
                             values |-> [tr \in Tracks |-> Shown[tr][panel]]], track)

\* When no more lines come and the window stays open, it ends up showing the last
\* state, in the alignment view too, and with the lines on screen: the redraw
\* that widens an axis hides them only for a while.
ViewSettles == <>[](ui = "live") => <>[]Settled

-----------------------------------------------------------------------------
(* The scroll panels implement StreamView.  A sample arrives with the      *)
(* append of its time: the log is the series with the columns still        *)
(* missing filled in from the record the reader holds.                     *)

InSession == ui \in {"live", "closing", "joining"}
Appending(track) ==
  reader[session].pc \in {"heading", "rest"} /\ SeriesOf(reader[session].record) = track

Column(track, name) ==
  IF Appending(track) /\ (name # "heading" \/ reader[session].pc = "heading")
    THEN Push(Shown[track][name], Pending(session)[name])
    ELSE Shown[track][name]

LogOf(track) ==
  IF ~InSession THEN <<>>
  ELSE [i \in DOMAIN Shown[track].t |->
          [t |-> Shown[track].t[i], heading |-> Column(track, "heading")[i],
           roll |-> Column(track, "roll")[i], pitch |-> Column(track, "pitch")[i]]]

Now ==
  IF ~InSession THEN 0
  ELSE IF Appending("fused") \/ Appending("open") THEN Pending(session).t
  ELSE IF Shown.latest = NoStamp THEN 0 ELSE Shown.latest

Quarters == {-180, -90, 0, 90, 180}

Stream == INSTANCE StreamView WITH
  Panels <- Range(Panels), Depth <- MaxLen,
  Samples <- [t : 1 .. MaxLines, heading : Quarters, roll : {0, 90}, pitch : {0}],
  log <- [track \in Tracks |-> LogOf(track)], now <- Now, shown <- view.lines

\* Every panel always shows whole samples of both tracks from one moment: the
\* threads, the lock and the two-column copies implement the abstract view.
ViewsShowTheLog == Stream!Spec
=============================================================================
