--------------------------- MODULE MCControlParts ---------------------------
(* Two backends, both of them faulted at once, and two overlapping requests; *)
(* a cell and its instance.                                                  *)
EXTENDS ControlParts
CONSTANTS a, b, c1, c2, k1, k2
TwoInstances == {a, b}
BothBackends == {{a, b}}
TwoClients == {c1, c2}
TwoKeys == {k1, k2}
\* BOUND: once the lab was reset no worker dies, nothing is injected and the
\* worker ticks in every unit of time.
ResetAlone == spent.resets > 0 => spent.deaths = 0 /\ fault = "none" /\ since <= Reach
=============================================================================
