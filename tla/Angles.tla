------------------------------- MODULE Angles -------------------------------
(***************************************************************************)
(* angles.py and deadreckon.py of the host tools, in whole degrees and     *)
(* degrees per time unit.                                                  *)
(***************************************************************************)
EXTENDS Integers

Turn == 360
NoTime == -1     \* HeadingDeadReckoner._prev_ms before the first step
NaN == 1000      \* an angle no wrap returns: math.nan

\* np.round: the nearest integer of num/den, halves to the even one.
RoundHalfEven(num, den) ==
  LET below == num \div den
      twice == 2 * (num % den)
  IN  IF twice > den \/ (twice = den /\ below % 2 = 1) THEN below + 1 ELSE below

Wrap180(deg) == deg - Turn * RoundHalfEven(deg, Turn)

-----------------------------------------------------------------------------
(* HeadingDeadReckoner: a record of its two fields. *)

FreshReckoner == [anchored |-> FALSE, heading |-> 0, prev |-> NoTime]

Anchor(reckoner, heading) ==
  [reckoner EXCEPT !.anchored = TRUE, !.heading = Wrap180(heading)]

\* The compass heading integrates the negated yaw rate over the interval since
\* the last step, anchored or not; a board restart makes it negative.
Step(reckoner, time, gyroZ) ==
  [reckoner EXCEPT
     !.prev = time,
     !.heading = IF reckoner.anchored /\ reckoner.prev # NoTime
                   THEN Wrap180(@ - gyroZ * (time - reckoner.prev))
                   ELSE @]
=============================================================================
