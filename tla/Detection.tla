------------------------------ MODULE Detection ------------------------------
(***************************************************************************)
(* From windows of evidence to an incident and to the decision to act: the *)
(* part of tick (worker.py) that Remediation takes for granted.            *)
(*                                                                         *)
(* Every tick records a window that ends now and reaches Window back.  A   *)
(* class counts when the newest window that does not overlap this one is   *)
(* of the same class and ended no more than Reach before this one began.   *)
(* Ticks follow each other as fast as probes and Prometheus answer, so     *)
(* that time passes between them by itself.                                *)
(*                                                                         *)
(* One route on one instance is looked at, with steady traffic and healthy *)
(* peers; what becomes of an action is Remediation's and is four steps     *)
(* here.  A unit of time is the Reach of the code, 1 s; Window is 12 s     *)
(* there.                                                                  *)
(***************************************************************************)
EXTENDS Naturals, FiniteSets

CONSTANTS
    Window,     \* length of a window
    Reach,      \* how far apart two windows in a row may be
    MaxPace,    \* the longest time between two ticks
    MaxChanges, \* changes of the cell's condition
    MaxResets,  \* resets of the lab
    MaxDeaths   \* deaths of the worker between decision and action

ASSUME DetectionAssumption ==
    {Window, Reach, MaxPace} \subseteq Nat \ {0} /\ {MaxChanges, MaxResets, MaxDeaths} \subseteq Nat

VARIABLES
    cell,      \* what is true of the cell now
    fault,     \* the active row of lab_faults
    past,      \* whether its answers were errors, per unit of time, latest first
    windows,   \* the class of the window that ended so long ago
    incidents, \* the active incident, per kind
    saga,      \* its action, per kind
    stopped,   \* the latest lab reset is NEEDS_REVIEW
    since,     \* time since the last tick
    spent      \* changes and deaths so far

detectionVars == <<cell, fault, past, windows, incidents, saga, stopped, since, spent>>

\* bad: errors and a failing probe.  flaky: errors, the probe passes.
\* down: no route of the instance answers anybody.
CellConditions == {"ok", "bad", "flaky", "down"}
CellKinds == {"cell", "down", "unknown"}
Kind(class) == CASE class \in {"degraded", "failure"} -> "cell"
                 [] class = "down" -> "down"
                 [] OTHER -> "unknown"

History == 1..(2 * Window + Reach)
Ages == 0..(Window + Reach)

NoProof == [class |-> "healthy", age |-> 0, allowed |-> FALSE]
NoIncident == [status |-> "none", class |-> "healthy", proof |-> NoProof]

DetectionInit ==
    /\ cell = "ok" /\ fault = "none"
    /\ past = [u \in History |-> FALSE]
    /\ windows = [a \in Ages |-> "none"]
    /\ incidents = [k \in CellKinds |-> NoIncident]
    /\ saga = [k \in CellKinds |-> "none"]
    /\ stopped = FALSE /\ since = 0
    /\ spent = [changes |-> 0, resets |-> 0, deaths |-> 0]

Is(k) == incidents[k].status # "none"
\* An unknown result counts as a drain: nothing is decided on its windows.
Drained == \E k \in CellKinds : saga[k] \in {"running", "held", "unknown"}

\* failure_rate and healthy_rate, of answers that come evenly.
Errors(a) == Cardinality({u \in (a + 1)..(a + Window) : past[u]})
Failing(a) == 2 * Errors(a) >= Window
WithinBound(a) == 10 * Errors(a) <= Window

-----------------------------------------------------------------------------
(* The cell. *)

Change == spent.changes < MaxChanges /\ spent' = [spent EXCEPT !.changes = @ + 1]

\* The cell fails or recovers, with a fault of the lab or without one.
CellTurns ==
    /\ Change
    /\ cell' \in CellConditions \ {cell}
    /\ fault' \in IF cell' = "ok" THEN {"none", fault} ELSE {"active", fault}
    /\ UNCHANGED <<past, windows, incidents, saga, stopped, since>>

\* UNKNOWN_CONFLICT says the truth is not what telemetry shows.
ConflictTurns ==
    /\ Change
    /\ fault' = CASE fault = "none" -> "conflict" [] fault = "conflict" -> "none" [] OTHER -> fault
    /\ fault' # fault
    /\ UNCHANGED <<cell, past, windows, incidents, saga, stopped, since>>

Reset == spent.resets < MaxResets /\ spent' = [spent EXCEPT !.resets = @ + 1]

\* Once every probe passes and every server is read back, the reset resolves
\* each incident and ends what is under way.  The windows stay, and so does an
\* action whose result is unknown.
LabReset ==
    /\ Reset
    /\ cell' \in {"ok"} \cup ({cell} \cap {"flaky"}) /\ fault' = "none"
    /\ stopped' = FALSE
    /\ incidents' = [k \in CellKinds |-> NoIncident]
    /\ saga' = [k \in CellKinds |-> IF saga[k] = "unknown" THEN "unknown" ELSE "none"]
    /\ UNCHANGED <<past, windows, since>>

\* It is left to an operator: a backend keeps its fault, a probe fails, or a
\* server does not read as it should, which ends what is under way as well.
LabResetFails ==
    /\ Reset
    /\ cell' \in {cell, "ok"} /\ fault' \in {fault, "none"}
    /\ stopped' = TRUE
    /\ \/ UNCHANGED saga
       \/ /\ fault' = "none"
          /\ saga' = [k \in CellKinds |-> IF saga[k] \in {"running", "returning"} THEN "over" ELSE saga[k]]
    /\ UNCHANGED <<past, windows, incidents, since>>

\* A cell that is drained or down answers nobody, hence with no error.
TimePasses ==
    /\ since < MaxPace
    /\ since' = since + 1
    /\ past' = [u \in History |-> IF u = 1 THEN cell \in {"bad", "flaky"} /\ ~Drained ELSE past[u - 1]]
    /\ windows' = [a \in Ages |-> IF a = 0 THEN "none" ELSE windows[a - 1]]
    /\ incidents' = [k \in CellKinds |->
                       IF Is(k) /\ incidents[k].proof.age < Window
                       THEN [incidents[k] EXCEPT !.proof.age = @ + 1] ELSE incidents[k]]
    /\ UNCHANGED <<cell, fault, saga, stopped, spent>>

-----------------------------------------------------------------------------
(* A window and its class. *)

\* A few errors among few answers are too few for a class.
ClassesNow ==
    CASE cell = "down" -> {"down"}
      [] cell # "down" /\ Drained -> {"unknown"} \cup (IF WithinBound(0) THEN {} ELSE {"degraded"})
      [] cell = "bad" /\ ~Drained -> IF Failing(0) THEN {"failure"} ELSE {"degraded"}
      [] OTHER -> IF WithinBound(0) THEN {"healthy"}
                  ELSE IF Errors(0) = 1 THEN {"degraded", "unknown"} ELSE {"degraded"}

\* Mutant: any earlier window of the class will do, overlapping or not.
ConfirmedByAny(class) == \E a \in 1..(Window + Reach) : windows[a] = class

\* Mutant: no gap between the windows at all.
ConfirmedOnTime(class) == windows[Window] = class

\* _incident_signal_confirmed: the newest window that ended before this one
\* began, if it is not too far away.
Confirmed(class) ==
    LET prior == {a \in Window..(Window + Reach) : windows[a] # "none"}
    IN \E a \in prior : windows[a] = class /\ \A b \in prior : a <= b

-----------------------------------------------------------------------------
(* What a tick makes of it. *)

\* Mutant: a certificate is reused for as long as its incident is active.
PersistedOnce(class, allowed) ==
    LET k == Kind(class) IN
    IF Is(k) THEN incidents[k]
    ELSE [status |-> IF k = "unknown" THEN "NEEDS_REVIEW" ELSE "OPEN", class |-> class,
          proof |-> [class |-> class, age |-> 0, allowed |-> allowed]]

\* _persist_decision: the certificate of an active incident is kept while the
\* window it was made of overlaps this one, whatever its class.
Persisted(class, allowed) ==
    LET k == Kind(class)
        proof == [class |-> class, age |-> 0, allowed |-> allowed]
    IN CASE ~Is(k) -> [status |-> IF k = "unknown" THEN "NEEDS_REVIEW" ELSE "OPEN",
                       class |-> class, proof |-> proof]
         [] Is(k) /\ incidents[k].proof.age < Window -> incidents[k]
         [] OTHER -> [incidents[k] EXCEPT !.class = class, !.proof = proof]

\* The decision is committed; the action follows unless the worker dies, the
\* certificate does not allow it or the incident has had one.
Act(class, persisted) ==
    LET k == Kind(class) IN
    \/ /\ spent.deaths < MaxDeaths /\ class \in {"failure", "down"}
       /\ spent' = [spent EXCEPT !.deaths = @ + 1]
       /\ incidents' = [incidents EXCEPT ![k] = persisted]
       /\ UNCHANGED saga
    \/ /\ UNCHANGED spent
       /\ CASE class \notin {"failure", "down"} ->
                   incidents' = [incidents EXCEPT ![k] = persisted] /\ UNCHANGED saga
            [] class \in {"failure", "down"} /\ ~persisted.proof.allowed ->
                   /\ incidents' = [incidents EXCEPT ![k] = [persisted EXCEPT !.status = "NEEDS_REVIEW"]]
                   /\ UNCHANGED saga
            [] class \in {"failure", "down"} /\ persisted.proof.allowed /\ saga[k] # "none" ->
                   incidents' = [incidents EXCEPT ![k] = persisted] /\ UNCHANGED saga
            [] OTHER ->
                   /\ incidents' = [incidents EXCEPT ![k] = [persisted EXCEPT !.status = "VERIFYING"]]
                   /\ saga' = [saga EXCEPT ![k] = "running"]

\* _resolve_non_action_incidents.
Resolve ==
    /\ incidents' = [k \in CellKinds |-> IF saga[k] = "none" THEN NoIncident ELSE incidents[k]]
    /\ UNCHANGED <<saga, spent>>

\* A lab reset that failed, an action or a return under way, an instance action
\* with an unknown result, a committed action that may be undone, or an incident
\* of class ROUTE_INSTANCE_FAILURE: no classification.
Busy ==
    \/ stopped
    \/ \E k \in CellKinds : \/ saga[k] \in {"running", "unknown", "returning"}
                            \/ saga[k] = "held" /\ fault = "none"
    \/ incidents["cell"].class = "failure"

\* UNKNOWN counts only while a fault is active.
Incidental(class) == class # "healthy" /\ (class \in {"unknown", "conflict"} => fault # "none")

Conclude(class) ==
    \/ /\ class = "healthy" /\ fault = "none" /\ Confirmed(class)
       /\ Resolve
    \/ /\ Incidental(class) /\ (class = "conflict" \/ Confirmed(class))
       /\ \E allowed \in IF class \in {"failure", "down"} THEN BOOLEAN ELSE {FALSE} :
             Act(class, Persisted(class, allowed))
    \/ /\ \/ class # "conflict" /\ ~Confirmed(class)
          \/ class = "healthy" /\ fault # "none"
          \/ class = "unknown"  \* no fault, or too few answers of its target
       /\ UNCHANGED <<incidents, saga, spent>>

\* A conflict outweighs the evidence.  It is written to the window only after
\* its session was closed, so that later ticks read a window without it.
Tick ==
    /\ since > 0 /\ since' = 0
    /\ \E class \in ClassesNow :
          /\ windows' = [windows EXCEPT ![0] = class]
          /\ IF Busy THEN UNCHANGED <<incidents, saga, spent>>
             ELSE Conclude(IF fault = "conflict" THEN "conflict" ELSE class)
    /\ UNCHANGED <<cell, fault, past, stopped>>

-----------------------------------------------------------------------------
(* What becomes of an action, see Remediation and Reintegration. *)

\* No duty that tick() serves first is left.
Served(k) == ~stopped /\ \A j \in CellKinds \ {k} : saga[j] \notin {"running", "unknown", "returning"}

\* The action or return ends in a status of its own.
Left(k, status) ==
    saga' = [saga EXCEPT ![k] = status] /\ incidents' = [incidents EXCEPT ![k].status = "NEEDS_REVIEW"]
Ended(k) == saga' = [saga EXCEPT ![k] = "none"] /\ incidents' = [incidents EXCEPT ![k] = NoIncident]

\* It is committed, rolled back and left to an operator, or its result is
\* unknown, which only an instance action recovers from.
Verified(k) ==
    /\ ~stopped /\ saga[k] = "running"
    /\ \/ saga' = [saga EXCEPT ![k] = "held"] /\ UNCHANGED incidents
       \/ Left(k, "over")
       \/ k = "down" /\ Left(k, "unknown")
    /\ UNCHANGED <<cell, fault, past, windows, stopped, since, spent>>

\* Once every fault has ended an instance is restored at once when its probes
\* pass, which may have to be repeated; a route returns in stages.  An action
\* that has lost its desired rows to a lab reset raises instead.
Return(k) ==
    /\ saga[k] \in {"held", "unknown"} /\ Is(k) /\ fault = "none" /\ Served(k)
    /\ IF k = "down" THEN cell \in {"ok", "flaky"} /\ (Ended(k) \/ Left(k, "unknown"))
       ELSE saga' = [saga EXCEPT ![k] = "returning"] /\ UNCHANGED incidents
    /\ UNCHANGED <<cell, fault, past, windows, stopped, since, spent>>

\* It is complete, or has fallen back for good.
Returned(k) ==
    /\ ~stopped /\ saga[k] = "returning"
    /\ (cell = "ok" /\ Ended(k)) \/ Left(k, "over")
    /\ UNCHANGED <<cell, fault, past, windows, stopped, since, spent>>

DetectionNext ==
    \/ CellTurns \/ ConflictTurns \/ LabReset \/ LabResetFails
    \/ TimePasses \/ Tick
    \/ \E k \in CellKinds : Verified(k) \/ Return(k) \/ Returned(k)

\* The loop goes on, and time with it.
DetectionSpec ==
    /\ DetectionInit /\ [][DetectionNext]_detectionVars
    /\ WF_detectionVars(Tick) /\ WF_detectionVars(TimePasses)

-----------------------------------------------------------------------------
(* Properties. *)

\* Two windows that do not overlap bear a decision out: half of each was
\* erroneous before a cell is said to fail, and neither was erroneous beyond
\* bounds before a tick resolves an incident.
Both(P(_)) == P(0) /\ \E a \in Window..(Window + Reach) : P(a)
ConfirmedTwice ==
    [][/\ incidents'["cell"].class = "failure" /\ incidents["cell"].class # "failure" => Both(Failing)
       /\ since > since' /\ (\E k \in CellKinds : Is(k) /\ ~Is(k)') => fault = "none" /\ Both(WithinBound)
      ]_detectionVars

\* Nothing is drained but on a certificate of that very class that allows it
\* and whose window still overlaps the present one, also when a decision made
\* before the worker died is taken up again.
ActsOnFreshProof ==
    [][\A k \in CellKinds : saga[k] = "none" /\ saga'[k] = "running" =>
         LET proof == incidents'[k].proof
         IN proof.allowed /\ proof.class = incidents'[k].class /\ Kind(proof.class) = k /\ proof.age < Window
       ]_detectionVars

\* No tick decides anything: the latest lab reset has failed, or a completed one
\* has left an instance action behind whose result is unknown, see
\* ResetFreesAutomation (Remediation).
Blocked == stopped \/ \E k \in CellKinds : saga[k] = "unknown" /\ ~Is(k)

\* A cell that goes on failing is found out, or its instance is acted on for an
\* incident that is active, once ticks leave no gap between windows that is
\* wider than Reach, unless a lab reset has blocked the loop.
FaultIsFound ==
    <>[](cell = "bad" /\ fault # "conflict" /\ since <= Reach + 1)
      => \/ <>[]Blocked
         \/ []<>(incidents["cell"].class = "failure" \/ \E k \in CellKinds : Is(k) /\ saga[k] # "none")
=============================================================================
