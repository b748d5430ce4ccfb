--------------------------- MODULE MCRemediation ---------------------------
(* Remediation on two instances with two routes, or three with one, for TLC. *)
EXTENDS Remediation, TLC

CONSTANTS r1, r2, a, b, c

TwoRoutes == {r1, r2}
OneRoute == {r1}
TwoInstances == {a, b}
ThreeInstances == {a, b, c}
\* BOUND of the safety run: a second incident only without a restart or a reset.
Bounded == Len(incidents) = 2 => used["restart"] = 0 /\ used["reset"] = 0
\* BOUND of the liveness run: of the routes only r1 fails alone; an instance is
\* drained first, by symmetry a, and then the other one or r1 on one of them.
InstanceFirst ==
  /\ failing = {} \/ \E x \in Instances : failing \in {{<<r1, x>>}, OfInstance(x)}
  /\ \A k \in DOMAIN incidents :
       /\ incidents[k].class # "DEGRADED"
       /\ k = 1 => incidents[k].scope = OfInstance(a)
Symmetry == Permutations({r1, r2}) \cup Permutations({a, b})
=============================================================================
