----------------------------- MODULE StreamView -----------------------------
(***************************************************************************)
(* What the live view promises: it shows, panel by panel, samples of the   *)
(* stream as they were at one moment - whole samples, both tracks and the  *)
(* clock from the same moment, none older than the window.                 *)
(*                                                                         *)
(* monitor.py: "Taken under the lock so a series can never be read         *)
(* mid-append"; deque(maxlen=...) keeps the most recent samples.           *)
(***************************************************************************)
EXTENDS Integers, Sequences, SequencesExt

CONSTANTS
  Panels,      \* the angles shown: "heading", "roll", "pitch"
  Tracks,      \* the series shown: "fused", "open"
  Samples,     \* the samples a stream can carry; each has a time t
  Depth,       \* samples kept of a track
  Window       \* how far back a panel looks

VARIABLES
  log,         \* log[track]: the samples kept, oldest first
  now,         \* time of the latest sample, 0 before the first
  shown        \* shown[panel][track]: <<seconds ago, value>> pairs

Blank == [panel \in Panels |-> [track \in Tracks |-> <<>>]]

\* A track empties only with the session, and then the panel keeps what it has.
Visible(panel, track) ==
  LET pairs == [i \in DOMAIN log[track] |->
                  <<log[track][i].t - now, log[track][i][panel]>>]
  IN  SelectSeq(pairs, LAMBDA pair : pair[1] >= -Window)

Init ==
  /\ log = [track \in Tracks |-> <<>>] /\ now = 0
  /\ shown = Blank

\* A sample arrives: the last of the track's new log.
Arrive(track) ==
  /\ UNCHANGED shown
  /\ log'[track] # <<>>
  /\ LET sample == Last(log'[track])
         grown  == Append(log[track], sample)
     IN  /\ sample \in Samples /\ now' = sample.t
         /\ log' = [log EXCEPT ![track] = IF Len(grown) > Depth THEN Tail(grown) ELSE grown]

Look(panel) ==
  /\ UNCHANGED <<log, now>>
  /\ shown' = [shown EXCEPT ![panel] =
                 [track \in Tracks |-> IF log[track] = <<>> THEN @[track]
                                       ELSE Visible(panel, track)]]

\* The window closes and a new session starts.
Reset == log' = [track \in Tracks |-> <<>>] /\ now' = 0 /\ shown' = Blank

Next ==
  \/ \E track \in Tracks : Arrive(track)
  \/ \E panel \in Panels : Look(panel)
  \/ Reset

Spec == Init /\ [][Next]_<<log, now, shown>>
=============================================================================
