---------------------------- MODULE CanaryLadder ----------------------------
(***************************************************************************)
(* What the staged return of a membership promises, without stages,        *)
(* commands, crashes or retries: the share of traffic asked for climbs one *)
(* rung at a time, may fall to any lower rung, and the membership counts   *)
(* as restored only from the top rung.  A lab reset or a review ends the   *)
(* climb at any point.                                                     *)
(***************************************************************************)
EXTENDS Integers

CONSTANT Rungs

VARIABLES rung, phase

ladder == <<rung, phase>>

Init == rung = 0 /\ phase = "returning"

Climb ==
  /\ phase = "returning" /\ rung < Rungs
  /\ rung' = rung + 1
  /\ UNCHANGED phase

Fall ==
  /\ phase = "returning"
  /\ rung' \in 0 .. rung - 1
  /\ UNCHANGED phase

Restore ==
  /\ phase = "returning" /\ rung = Rungs
  /\ phase' = "restored"
  /\ UNCHANGED rung

Review ==
  /\ phase = "returning"
  /\ phase' = "review"
  /\ UNCHANGED rung

\* The lab reset decides from here on.
TakeOver ==
  /\ phase # "taken_over"
  /\ phase' = "taken_over"
  /\ rung' = 0

Next == Climb \/ Fall \/ Restore \/ Review \/ TakeOver

Spec == Init /\ [][Next]_ladder
=============================================================================
