--------------------------- MODULE SerialActions ---------------------------
(***************************************************************************)
(* What the remediation sagas promise about actions: they are opened one   *)
(* at a time, and an action that was closed is never opened again.         *)
(***************************************************************************)


VARIABLES
  open,    \* actions between their preparation and their verdict
  closed   \* actions with a verdict

Init == open = {} /\ closed = {}

Open(i) ==
  /\ open = {} /\ i \notin closed
  /\ open' = {i}
  /\ UNCHANGED closed

Close(i) ==
  /\ open = {i}
  /\ open' = {} /\ closed' = closed \cup {i}

Next == \E i \in open \cup open' : Open(i) \/ Close(i)

Spec == Init /\ [][Next]_<<open, closed>>
=============================================================================
