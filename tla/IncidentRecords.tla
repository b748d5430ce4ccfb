--------------------------- MODULE IncidentRecords ---------------------------
(***************************************************************************)
(* The rows that the control worker leaves of one incident: the incident,  *)
(* its action with the attempts, the latest verification and the recovery  *)
(* run (worker.py).  They are what the console tells the story from, see   *)
(* IncidentViews.  Whether a judgement turns out well is left open here;   *)
(* Remediation and Reintegration say what it depends on.                   *)
(*                                                                         *)
(* Attempts are a set of operation and status: a repeated restore leaves   *)
(* rows that look alike.                                                   *)
(***************************************************************************)
EXTENDS Naturals

VARIABLES
    rows,  \* the rows of the incident
    at,    \* where the handler of the worker stands, "idle" between ticks
    drift  \* the last lab reset could not restore the Runtime: it differs from
           \* the desired rows, and tick only observes

recordVars == <<rows, at, drift>>

PairClasses == {"ROUTE_INSTANCE_DEGRADED", "ROUTE_INSTANCE_FAILURE"}
IncidentClasses == PairClasses \cup {"INSTANCE_DOWN", "SHARED_ROUTE_FAILURE", "UNKNOWN"}
ActionClasses == {"ROUTE_INSTANCE_FAILURE", "INSTANCE_DOWN"}
ActiveIncidents == {"OPEN", "MITIGATING", "VERIFYING", "RECOVERING", "NEEDS_REVIEW"}

NoIncident ==
    [incident |-> "none", class |-> "none", allowed |-> FALSE,
     kind |-> "none", lifecycle |-> "none", attempts |-> {},
     verification |-> "none", run |-> "none",
     owned |-> FALSE]   \* the desired rows name the action; a lab reset ends that

Attempt(op, status) == [op |-> op, status |-> status]
Drains == {"set_absolute_route_membership", "set_absolute_instance_memberships"}
Restore == "restore_instance_after_probe_gate"
DrainOf(kind) == IF kind = "INSTANCE_QUARANTINE" THEN "set_absolute_instance_memberships"
                 ELSE "set_absolute_route_membership"

\* The attempts, the drain among them with another status.
DrainBecomes(status) ==
    {IF a.op \in Drains THEN Attempt(a.op, status) ELSE a : a \in rows.attempts}

RecordsInit ==
    rows = NoIncident /\ at = "idle" /\ drift = FALSE

Active == rows.incident \in ActiveIncidents
OfInstance == rows.kind = "INSTANCE_QUARANTINE"
Write(new) == rows' = new /\ UNCHANGED drift
Tick == at = "idle" /\ ~drift

\* What a tick serves before it classifies (tick, worker.py 247-282).
MustRecover == rows.lifecycle = "PREPARED"
MustVerify == rows.lifecycle = "VERIFYING"
MustRestore == OfInstance /\ (rows.lifecycle = "RESULT_UNKNOWN" \/ (rows.lifecycle = "COMMITTED" /\ Active))
MustAdvance == rows.run = "ACTIVE"
Classifies ==
    /\ Tick /\ ~MustRecover /\ ~MustVerify /\ ~MustAdvance
    /\ ~(OfInstance /\ rows.lifecycle = "RESULT_UNKNOWN")
    /\ ~(Active /\ rows.class = "ROUTE_INSTANCE_FAILURE")

-----------------------------------------------------------------------------
(* The decision and its action. *)

\* _persist_decision: a new incident, another revision of it with another
\* certificate, or nothing when the windows overlap.
PersistDecision(class, allowed) ==
    /\ Classifies
    /\ rows.incident = "none" \/ (Active /\ (class = rows.class \/ {class, rows.class} \subseteq PairClasses))
    /\ Write([rows EXCEPT !.class = class, !.allowed = allowed,
                          !.incident = IF rows.incident # "none" THEN @
                                       ELSE IF class = "UNKNOWN" THEN "NEEDS_REVIEW" ELSE "OPEN"])
    /\ at' = IF class \in ActionClasses THEN "decided" ELSE "idle"
OverlappingWindow ==
    /\ Classifies /\ Active /\ rows.class = "INSTANCE_DOWN"
    /\ at' = "decided" /\ UNCHANGED <<rows, drift>>

\* The two gates in front of an action, in the order of the code.
Deny ==
    /\ at = "decided" /\ ~rows.allowed
    /\ Write([rows EXCEPT !.incident = "NEEDS_REVIEW"]) /\ at' = "idle"
HasAction ==
    /\ at = "decided" /\ rows.allowed /\ rows.lifecycle # "none"
    /\ at' = "idle" /\ UNCHANGED <<rows, drift>>
PrepareAction ==
    /\ at = "decided" /\ rows.allowed /\ rows.lifecycle = "none"
    /\ Write([rows EXCEPT !.lifecycle = "PREPARED", !.owned = TRUE,
                          !.kind = IF rows.class = "INSTANCE_DOWN" THEN "INSTANCE_QUARANTINE"
                                   ELSE "ROUTE_MEMBERSHIP_QUARANTINE"])
    /\ at' = "prepared"
IssueAttempt ==
    /\ at = "prepared"
    /\ Write([rows EXCEPT !.attempts = {Attempt(DrainOf(rows.kind), "ISSUED")}])
    /\ at' = "issued"

\* After the commands: confirmed by readback, with or without an answer;
\* unknown; or, of a route, drained while its siblings moved.
DrainConfirmed ==
    \E status \in {"CONFIRMED", "ACKNOWLEDGEMENT_LOST_CONFIRMED"} :
        Write([rows EXCEPT !.attempts = DrainBecomes(status), !.lifecycle = "VERIFYING",
                           !.incident = "VERIFYING"])
DrainUnknown ==
    Write([rows EXCEPT !.attempts = DrainBecomes("RESULT_UNKNOWN"), !.lifecycle = "RESULT_UNKNOWN",
                       !.incident = "NEEDS_REVIEW"])
DrainUnpreserved ==
    /\ ~OfInstance
    /\ \E status \in {"ACKNOWLEDGED", "ACKNOWLEDGEMENT_LOST_CONFIRMED"} :
         Write([rows EXCEPT !.attempts = DrainBecomes(status), !.lifecycle = "NEEDS_REVIEW",
                            !.incident = "NEEDS_REVIEW"])
DrainEnds ==
    /\ at = "issued" /\ at' = "idle"
    /\ DrainConfirmed \/ DrainUnknown \/ DrainUnpreserved

\* A crash or an exception: the tick ends where it stands.
WorkerStops == at # "idle" /\ at' = "idle" /\ UNCHANGED <<rows, drift>>

\* _recover_unfinished_action: by readback, also when no attempt was recorded.
RecoverAction ==
    /\ Tick /\ MustRecover
    /\ \/ Write([rows EXCEPT !.lifecycle = "VERIFYING", !.incident = "VERIFYING",
                             !.attempts = DrainBecomes("ACKNOWLEDGEMENT_LOST_CONFIRMED")])
       \/ DrainUnknown
    /\ UNCHANGED at

-----------------------------------------------------------------------------
(* Verification, restore and recovery. *)

\* HARMFUL goes the way of INEFFECTIVE.
VerifyAction(result) ==
    /\ Tick /\ ~MustRecover /\ MustVerify
    /\ \E failed \in IF OfInstance THEN {"ROLLED_BACK", "ROLLBACK_FAILED"} ELSE {"ROLLED_BACK"} :
         LET ended == CASE result = "EFFECTIVE" -> <<"COMMITTED", "MITIGATING">>
                        [] result = "INEFFECTIVE" -> <<failed, "NEEDS_REVIEW">>
                        [] OTHER -> <<"VERIFYING", rows.incident>>
         IN  Write([rows EXCEPT !.verification = result,
                                !.lifecycle = ended[1], !.incident = ended[2]])
    /\ UNCHANGED at

\* _restore_instance_action: a probe that passes or fails is a revision of the
\* verification; the last of a row of passes restores the memberships, unless
\* the desired rows are no longer the action's.
RestoreServed == Tick /\ ~MustRecover /\ ~MustVerify /\ ~MustAdvance /\ MustRestore
CountProbe ==
    /\ RestoreServed
    /\ Write([rows EXCEPT !.verification = "INSUFFICIENT_EVIDENCE"])
    /\ UNCHANGED at
BeginRestore ==
    /\ RestoreServed /\ rows.verification = "INSUFFICIENT_EVIDENCE" /\ rows.owned
    /\ Write([rows EXCEPT !.attempts = @ \cup {Attempt(Restore, "ISSUED")}])
    /\ at' = "restoring"

RestoreEnds ==
    /\ at = "restoring" /\ at' = "idle"
    /\ \E confirmed \in BOOLEAN :
         LET others == rows.attempts \ {Attempt(Restore, "ISSUED")} IN
         Write(IF confirmed
               THEN [rows EXCEPT !.attempts = others \cup {Attempt(Restore, "CONFIRMED")},
                                 !.lifecycle = "COMMITTED", !.incident = "RESOLVED",
                                 !.verification = "EFFECTIVE"]
               ELSE [rows EXCEPT !.attempts = others \cup {Attempt(Restore, "RESULT_UNKNOWN")},
                                 !.lifecycle = "RESULT_UNKNOWN", !.incident = "NEEDS_REVIEW"])

StartRecovery ==
    /\ Tick /\ ~MustRecover /\ ~MustVerify /\ ~MustAdvance
    /\ rows.lifecycle = "COMMITTED" /\ ~OfInstance /\ Active /\ rows.run = "none"
    /\ Write([rows EXCEPT !.run = "ACTIVE", !.incident = "RECOVERING"])
    /\ UNCHANGED at

\* The stages are the subject of Reintegration; what they come to is left.
AdvanceRecovery ==
    /\ Tick /\ ~MustRecover /\ ~MustVerify /\ MustAdvance
    /\ \/ Write([rows EXCEPT !.run = "COMPLETED", !.incident = "RESOLVED"])
       \/ Write([rows EXCEPT !.run = "NEEDS_REVIEW", !.incident = "NEEDS_REVIEW"])
    /\ UNCHANGED at

ResolveNonAction ==
    /\ Classifies /\ Active /\ rows.lifecycle = "none"
    /\ Write([rows EXCEPT !.incident = "RESOLVED"]) /\ UNCHANGED at

-----------------------------------------------------------------------------
(* The lab reset, in whose last transaction everything is ended. *)

ResetEnds ==
    /\ at = "idle" /\ rows.incident # "none"
    /\ rows' = [rows EXCEPT
           !.lifecycle = IF @ \in {"PREPARED", "VERIFYING"} THEN "ROLLED_BACK" ELSE @,
           !.run = IF @ \in {"ACTIVE", "NEEDS_REVIEW"} THEN "CANCELLED" ELSE @,
           !.incident = IF Active THEN "RESOLVED" ELSE @,
           !.owned = FALSE]
    /\ drift' = FALSE
    /\ UNCHANGED at
\* The Runtime could not be read back as restored.  (A reset that a gate stops
\* leaves the rows alone, and from then on tick only observes.)
ResetFails ==
    /\ at = "idle" /\ rows.incident # "none"
    /\ rows' = [rows EXCEPT
           !.lifecycle = IF @ \in {"PREPARED", "VERIFYING"} THEN "NEEDS_REVIEW" ELSE @,
           !.run = IF @ = "ACTIVE" THEN "NEEDS_REVIEW" ELSE @,
           !.owned = FALSE]
    /\ drift' = TRUE
    /\ UNCHANGED at

\* Safety is evaluated for the two classes that may lead to an action.
Decides ==
    \/ \E c \in ActionClasses, allowed \in BOOLEAN : PersistDecision(c, allowed)
    \/ \E c \in IncidentClasses \ ActionClasses : PersistDecision(c, FALSE)
Acts == PrepareAction \/ IssueAttempt \/ DrainEnds \/ RecoverAction
Verifies == \E r \in {"EFFECTIVE", "INEFFECTIVE", "INSUFFICIENT_EVIDENCE"} : VerifyAction(r)
Returns == CountProbe \/ BeginRestore \/ RestoreEnds \/ StartRecovery \/ AdvanceRecovery
RecordsNext ==
    \/ Decides \/ OverlappingWindow \/ Deny \/ HasAction \/ Acts \/ WorkerStops
    \/ Verifies \/ Returns \/ ResolveNonAction \/ ResetEnds \/ ResetFails
=============================================================================
