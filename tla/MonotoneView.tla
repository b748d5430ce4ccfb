---------------------------- MODULE MonotoneView ----------------------------
(***************************************************************************)
(* What polling and invalidation together promise of a cached view of the  *)
(* control plane: the view is always a state the server was in, never one  *)
(* older than a view already shown, and it is replaced for as long as the  *)
(* server is ahead of it.                                                  *)
(***************************************************************************)
EXTENDS Naturals

VARIABLES
    now,    \* revisions the server has been through
    shown   \* the revision the view shows, 0 before the first

Init == now = 1 /\ shown = 0

Advance == now' = now + 1 /\ UNCHANGED shown
Show == shown < now /\ shown' \in (shown + 1)..now /\ UNCHANGED now

Next == Advance \/ Show

Safety == Init /\ [][Next]_<<now, shown>>
=============================================================================
