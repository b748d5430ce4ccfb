----------------------------- MODULE LabPayloads -----------------------------
(***************************************************************************)
(* The ten payloads of the live fault lab (features/lab/live-fault-lab.tsx) *)
(* followed from the radio button to the decision they are to provoke: the *)
(* request, its target as the worker resolves it, what a demo backend does *)
(* while it holds the fault, the evidence window that results, and the     *)
(* class the worker gives it (EvidenceReading, for the lab's four routes   *)
(* on its three instances).  The page tells the operator beforehand which  *)
(* class to expect and what the controller will do.                        *)
(*                                                                         *)
(* The traffic generator runs, so that a window holds enough requests of   *)
(* every membership that serves.  The worker has not acted yet.            *)
(***************************************************************************)
EXTENDS Integers

VARIABLES
    chosen,   \* the selected payload
    applied,  \* the payload whose fault is ACTIVE, or "none"
    held,     \* held[i]: the fault the demo backend i holds
    covered,  \* how much of the window the last change of the fault covers
    window    \* evidence and probes of the window

labVars == <<chosen, applied, held, covered, window>>

LabRoutes == {"public", "auth", "catalog", "checkout"}
LabInstances == {"inst-a", "inst-b", "inst-c"}

\* `*` stands for null.  `told` is the class the page prints.
Payload(kind, route, instance, told) ==
    [kind |-> kind, route |-> route, instance |-> instance, told |-> told]
payloads ==
    [P01_CHECKOUT_B |-> Payload("route_failure", "checkout", "inst-b", "ROUTE_INSTANCE_FAILURE"),
     P02_AUTH_A |-> Payload("route_failure", "auth", "inst-a", "ROUTE_INSTANCE_FAILURE"),
     P03_CATALOG_C |-> Payload("route_failure", "catalog", "inst-c", "ROUTE_INSTANCE_FAILURE"),
     P04_PUBLIC_B |-> Payload("route_failure", "public", "inst-b", "ROUTE_INSTANCE_FAILURE"),
     P05_SHARED_CHECKOUT |-> Payload("route_failure", "checkout", "all", "SHARED_ROUTE_FAILURE"),
     P06_INSTANCE_DOWN_A |-> Payload("instance_down", "*", "inst-a", "INSTANCE_DOWN"),
     P07_INSTANCE_DOWN_B |-> Payload("instance_down", "*", "inst-b", "INSTANCE_DOWN"),
     P08_GRAY_FAILURE_A |-> Payload("gray_failure", "*", "inst-a", "HEALTHY"),
     P09_GRAY_FAILURE_C |-> Payload("gray_failure", "*", "inst-c", "HEALTHY"),
     UNKNOWN_CONFLICT |-> Payload("unknown_conflict", "checkout", "inst-b", "UNKNOWN")]
Payloads == DOMAIN payloads

-----------------------------------------------------------------------------
(* The page. *)

requestBody ==
    [scenario |-> chosen, scenario_kind |-> payloads[chosen].kind,
     target_route |-> payloads[chosen].route, target_instance |-> payloads[chosen].instance]

\* The memberships the page names as the target.
ToldTarget(p) ==
    {m \in LabRoutes \X LabInstances :
        /\ payloads[p].route \in {m[1], "*"}
        /\ payloads[p].instance \in {m[2], "all"}}

-----------------------------------------------------------------------------
(* The backends. *)

\* Mutant: "all" is taken for the name of the first instance.
FirstTarget(instance) == IF instance = "all" THEN {"inst-a"} ELSE {instance}

\* _fault_targets
Targets(instance) == IF instance = "all" THEN LabInstances ELSE {instance}

NoFault == [kind |-> "none", route |-> "*"]

\* What a request of the route finds on a backend that holds the fault: a
\* gray failure fails some of the traffic, and no probe.
fault_affects(route, fault) ==
    fault.kind = "instance_down" \/ (fault.kind = "route_failure" /\ fault.route = route)
Gray(fault) == fault.kind = "gray_failure"

\* The health check of HAProxy fails with an instance, which then serves no
\* traffic at all.
NoTraffic == [samples |-> 0, errors |-> 0, rate |-> -1]
Served(samples, errors) ==
    [samples |-> samples, errors |-> errors, rate |-> (10000 * errors) \div samples]
AllServed == Served(8, 0)

\* What the window may hold of the membership m, before the faults on the
\* backends cover it, once they do, and after they have been taken away.
MayHold(m, fault, part) ==
    CASE Gray(fault) -> {Served(8, e) : e \in {0, 1, 8}}
      [] ~(Gray(fault) \/ fault_affects(m[1], fault)) -> {AllServed}
      [] fault_affects(m[1], fault) /\ part # "whole" -> {Served(8, e) : e \in {0, 4, 8}}
      [] fault_affects(m[1], fault) /\ part = "whole" ->
            {Served(8, 8)} \cup (IF fault.kind = "instance_down" THEN {NoTraffic} ELSE {})

ProbeOf(m) == IF fault_affects(m[1], held[m[2]]) THEN "fail" ELSE "pass"

Reading(c) ==
    INSTANCE EvidenceReading WITH
        Routes <- LabRoutes, Instances <- LabInstances, Evidence <- {}, Probes <- {},
        evidence <- window, probes <- [m \in LabRoutes \X LabInstances |-> ProbeOf(m)],
        conflicts <- c

\* tick(): the lab contradicts the telemetry while this scenario is ACTIVE.
Decision == Reading(applied = "UNKNOWN_CONFLICT")!Classify
Isolates == Reading(applied = "UNKNOWN_CONFLICT")!Actionable

-----------------------------------------------------------------------------
LabInit ==
    /\ chosen = "P01_CHECKOUT_B" /\ applied = "none"
    /\ held = [i \in LabInstances |-> NoFault]
    /\ covered = "whole"
    /\ window = [m \in LabRoutes \X LabInstances |-> AllServed]

\* BOUND: the next payload is chosen while no fault is injected (only Inject
\* reads what is chosen).
Choose(p) == applied = "none" /\ chosen' = p /\ UNCHANGED <<applied, held, covered, window>>

\* The window is read again: the memberships that `faults` touches hold
\* whatever they may, the others what they always do.
Fill(faults, part) ==
    LET touched == {m \in LabRoutes \X LabInstances : MayHold(m, faults[m[2]], part) # {AllServed}}
        Free(m) == MayHold(m, faults[m[2]], part)
    IN  \E f \in [touched -> UNION {Free(m) : m \in touched}] :
            /\ \A m \in touched : f[m] \in Free(m)
            /\ window' = [m \in LabRoutes \X LabInstances |-> IF m \in touched THEN f[m] ELSE AllServed]

\* Inject: create_fault stores requestBody, the worker hands the fault to its
\* targets; the window at hand reaches back before.
Inject ==
    /\ applied = "none"
    /\ applied' = chosen
    /\ held' = [i \in LabInstances |->
                   IF i \in Targets(requestBody.target_instance)
                   THEN [kind |-> requestBody.scenario_kind, route |-> requestBody.target_route] ELSE NoFault]
    /\ covered' = "part"
    /\ Fill(held', "part")
    /\ UNCHANGED chosen

Observe ==
    /\ applied # "none" /\ covered = "part"
    /\ covered' = "whole"
    /\ Fill(held, "whole")
    /\ UNCHANGED <<chosen, applied, held>>

\* Clear, or expiry: the windows that follow still reach back into the fault.
ClearFault ==
    /\ applied # "none"
    /\ applied' = "none"
    /\ held' = [i \in LabInstances |-> NoFault]
    /\ covered' = "part"
    /\ Fill(held, "part")
    /\ UNCHANGED chosen

ObserveAfter ==
    /\ applied = "none" /\ covered = "part"
    /\ covered' = "whole"
    /\ window' = [m \in LabRoutes \X LabInstances |-> AllServed]
    /\ UNCHANGED <<chosen, applied, held>>

LabNext == (\E p \in Payloads : Choose(p)) \/ Inject \/ Observe \/ ClearFault \/ ObserveAfter

-----------------------------------------------------------------------------
(* Properties. *)

\* The memberships the decision would take out of service.
Isolated ==
    CASE Decision.class = "INSTANCE_DOWN" -> LabRoutes \X Decision.scopes
      [] Decision.class = "ROUTE_INSTANCE_FAILURE" -> Decision.scopes
      [] OTHER -> {}

\* A payload does what the page says of it.  Once a window lies within the
\* fault, the worker gives it the class the page told, except that a gray
\* failure, whose errors are random, may be more than a shadow signal.  In any
\* window, also one that reaches back before the fault or was left behind by
\* one, the worker isolates nothing but the memberships the page named, as a
\* whole and by the class it named, and so nothing for a shared, a gray or a
\* conflicting payload; and where it isolates a single membership, the matrix
\* marks it on every count.
PayloadsBehaveAsTold ==
    /\ applied # "none" /\ covered = "whole" /\ payloads[applied].kind # "gray_failure" =>
           Decision.class = payloads[applied].told
    /\ Isolates =>
           /\ applied # "none"
           /\ Decision.class = payloads[applied].told
           /\ Isolated = ToldTarget(applied)
    /\ Decision.class = "ROUTE_INSTANCE_FAILURE" =>
           \A m \in Isolated : Reading(FALSE)!EligibleToConsider(m)
=============================================================================
