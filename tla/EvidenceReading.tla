--------------------------- MODULE EvidenceReading ---------------------------
(***************************************************************************)
(* One evidence window read twice: by the rules of the control worker      *)
(* (worker_policy.classify), which may isolate a membership, and by the    *)
(* console's matrix (features/traffic/live-matrix.tsx), which explains to  *)
(* the operator whether the evidence for isolating it is complete.  The    *)
(* two are written in two languages, each with its own thresholds.         *)
(*                                                                         *)
(* Rates are in ten-thousandths, to which the worker rounds them.          *)
(***************************************************************************)
EXTENDS Integers

CONSTANTS
    Routes, Instances,
    Evidence,   \* what a window may hold of a membership
    Probes      \* the outcomes of a direct probe, "none" if it is missing

\* The lab has four routes on three instances.
ASSUME ReadingAssumption ==
    /\ \A r \in Routes : \E s \in Routes : s # r
    /\ \A i \in Instances : \E j \in Instances : j # i
    /\ Evidence \subseteq [samples : Nat, errors : Nat, rate : Nat \cup {-1}]
    /\ Probes \subseteq {"none", "pass", "fail", "unreachable"}

VARIABLES
    evidence,  \* evidence[m], m = <<route, instance>>
    probes,    \* probes[m]
    conflicts  \* the lab's ground truth contradicts the telemetry

readingVars == <<evidence, probes, conflicts>>

Memberships == Routes \X Instances
NoRate == -1
OfOneWindow == [samples |-> 0, errors |-> 0, rate |-> NoRate]

\* The other memberships of the route, and of the instance.
Peers(m) == {n \in Memberships : n[1] = m[1] /\ n[2] # m[2]}
Siblings(m) == {n \in Memberships : n[2] = m[2] /\ n[1] # m[1]}

\* application_ok is False, and True; a missing probe is neither.
ProbeFails(m) == probes[m] \in {"fail", "unreachable"}
ProbePasses(m) == probes[m] = "pass"
Reachable(m) == probes[m] \in {"pass", "fail"}

-----------------------------------------------------------------------------
(* The worker. *)

FailureRate == 5000
HealthyRate == 1000
TargetMinimum == 6
ControlMinimum == 3
DegradedMinimum == 6
DegradedErrors == 2

Healthy(m, minimum) ==
    evidence[m].samples >= minimum /\ evidence[m].rate # NoRate /\ evidence[m].rate <= HealthyRate
Failing(m, minimum) ==
    evidence[m].samples >= minimum /\ evidence[m].rate # NoRate /\ evidence[m].rate >= FailureRate

SharedRoutes ==
    {r \in Routes : \A i \in Instances : Failing(<<r, i>>, ControlMinimum) /\ ProbeFails(<<r, i>>)}
InstancesDown == {i \in Instances : \A r \in Routes : ProbeFails(<<r, i>>)}
\* Mutant: the other routes of the instance are not asked for.
RouteInstancesAlone ==
    {m \in Memberships :
        /\ Failing(m, TargetMinimum)
        /\ \A n \in Peers(m) : Healthy(n, ControlMinimum) /\ ProbePasses(n)
        /\ Reachable(m) /\ ProbeFails(m)}
RouteInstances ==
    {m \in Memberships :
        /\ Failing(m, TargetMinimum)
        /\ \A n \in Peers(m) \cup Siblings(m) : Healthy(n, ControlMinimum) /\ ProbePasses(n)
        /\ Reachable(m) /\ ProbeFails(m)}
Elevated(m) ==
    /\ evidence[m].samples >= DegradedMinimum /\ evidence[m].errors >= DegradedErrors
    /\ evidence[m].rate # NoRate /\ evidence[m].rate > HealthyRate
DegradedMembers ==
    {m \in Memberships : Elevated(m) \/ (evidence[m].samples >= DegradedMinimum /\ ProbeFails(m))}
AllHealthy == \A m \in Memberships : Healthy(m, 1) /\ ProbePasses(m)

\* The first rule that applies, and the scopes it applies to: the worker takes
\* the first of them in the order of its registry.
Classify ==
    IF conflicts THEN [class |-> "UNKNOWN", scopes |-> {}]
    ELSE IF SharedRoutes # {} THEN [class |-> "SHARED_ROUTE_FAILURE", scopes |-> SharedRoutes]
    ELSE IF InstancesDown # {} THEN [class |-> "INSTANCE_DOWN", scopes |-> InstancesDown]
    ELSE IF RouteInstances # {} THEN [class |-> "ROUTE_INSTANCE_FAILURE", scopes |-> RouteInstances]
    ELSE IF DegradedMembers # {} THEN [class |-> "ROUTE_INSTANCE_DEGRADED", scopes |-> DegradedMembers]
    ELSE [class |-> IF AllHealthy THEN "HEALTHY" ELSE "UNKNOWN", scopes |-> {}]

\* Only these two lead to an action of the worker.
Actionable == Classify.class \in {"INSTANCE_DOWN", "ROUTE_INSTANCE_FAILURE"}

-----------------------------------------------------------------------------
(* The console. *)

RateOr(m, default) == IF evidence[m].rate = NoRate THEN default ELSE evidence[m].rate

ComparisonHealthy(m) ==
    evidence[m].samples >= 3 /\ RateOr(m, 10000) <= 1000 /\ ProbePasses(m)

RateReached(m) == RateOr(m, 0) >= 5000
SamplesSuffice(m) == evidence[m].samples >= 6

\* The five conditions of MembershipExplanation, each with a mark.
Conditions(m) ==
    [threshold |-> RateReached(m),
     samples |-> SamplesSuffice(m),
     probe |-> ProbeFails(m),
     peers |-> \A n \in Peers(m) : ComparisonHealthy(n),
     siblings |-> \A n \in Siblings(m) : ComparisonHealthy(n)]
EligibleToConsider(m) ==
    LET c == Conditions(m) IN c.threshold /\ c.samples /\ c.probe /\ c.peers /\ c.siblings

-----------------------------------------------------------------------------
ReadingInit ==
    /\ evidence = [m \in Memberships |-> OfOneWindow]
    /\ probes = [m \in Memberships |-> "none"]
    /\ conflicts \in BOOLEAN

\* The next window: it overlaps the one before, and one membership differs.
ObserveWindow ==
    /\ \E m \in Memberships, e \in Evidence, p \in Probes :
         evidence' = [evidence EXCEPT ![m] = e] /\ probes' = [probes EXCEPT ![m] = p]
    /\ UNCHANGED conflicts
Conflict == conflicts' = ~conflicts /\ UNCHANGED <<evidence, probes>>

ReadingNext == ObserveWindow \/ Conflict
ReadingSpec == ReadingInit /\ [][ReadingNext]_readingVars

-----------------------------------------------------------------------------
(* Properties. *)

\* The operator and the worker agree on isolation: unless the lab contradicts
\* the telemetry, the worker's rule applies to exactly those memberships that
\* the page marks on all five counts and that answer at all.  (Reachability is a sixth
\* condition of the worker, which the page does not show.)
ReadingAgrees ==
    ~conflicts =>
        \A m \in Memberships :
            (Classify.class = "ROUTE_INSTANCE_FAILURE" /\ m \in Classify.scopes)
                <=> (EligibleToConsider(m) /\ Reachable(m))
=============================================================================
