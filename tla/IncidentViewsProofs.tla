------------------------- MODULE IncidentViewsProofs -------------------------
(***************************************************************************)
(* That the pages which tell the story of an incident claim nothing too    *)
(* early and take nothing back, for every set of pages and however many    *)
(* commits fall between the SELECTs of an answer.                          *)
(*                                                                         *)
(* An answer is of no one moment: its fields are read while the worker     *)
(* goes on, and are shown long after.  What they still tell of the rows    *)
(* (Told) survives every commit, because the worker never takes back what  *)
(* it has done (StepsGoForward): that is an invariant of the rows alone    *)
(* (RecordsInv).  A claim of a page then is a claim about the rows.        *)
(***************************************************************************)
EXTENDS IncidentViews, TLAPS

-----------------------------------------------------------------------------
(* The rows: types, and what goes together. *)

Lifecycles == {"none", "PREPARED", "VERIFYING", "COMMITTED", "ROLLED_BACK", "ROLLBACK_FAILED", "RESULT_UNKNOWN",
               "NEEDS_REVIEW"}
Attempts == [op : Drains \cup {Restore},
             status : {"ISSUED", "CONFIRMED", "ACKNOWLEDGEMENT_LOST_CONFIRMED", "RESULT_UNKNOWN", "ACKNOWLEDGED"}]
Verdicts == {"none", "EFFECTIVE", "INEFFECTIVE", "INSUFFICIENT_EVIDENCE"}
Runs == {"none", "ACTIVE", "COMPLETED", "NEEDS_REVIEW", "CANCELLED"}
IncidentRows ==
    [incident : {"none", "RESOLVED"} \cup ActiveIncidents, class : {"none"} \cup IncidentClasses, allowed : BOOLEAN,
     kind : {"none", "ROUTE_MEMBERSHIP_QUARANTINE", "INSTANCE_QUARANTINE"}, lifecycle : Lifecycles,
     attempts : SUBSET Attempts,
     verification : Verdicts, run : Runs, owned : BOOLEAN]

RecordsTypeOK ==
    /\ rows \in IncidentRows
    /\ at \in {"idle", "decided", "prepared", "issued", "restoring"}
    /\ drift \in BOOLEAN

Restored == Attempt(Restore, "CONFIRMED")
Carried == {"COMMITTED", "RESULT_UNKNOWN"}

\* Where the handler of the worker stands goes with the rows.
HandlerFits ==
    /\ at # "idle" => Active
    /\ at \in {"prepared", "issued"} => rows.lifecycle = "PREPARED"
    /\ at = "restoring" => /\ OfInstance /\ rows.lifecycle \in Carried /\ rows.owned
                           /\ rows.verification = "INSUFFICIENT_EVIDENCE"

\* An incident has a class, an action an incident, and the rest an action.
RowsFit ==
    /\ rows.incident # "none" => rows.class # "none"
    /\ rows.lifecycle = "none" => /\ rows.kind = "none" /\ rows.attempts = {} /\ rows.verification = "none"
                                  /\ rows.run = "none" /\ ~rows.owned
    /\ rows.lifecycle # "none" => rows.incident # "none"
    /\ rows.run # "none" => rows.lifecycle = "COMMITTED" /\ ~OfInstance

\* What is unfinished belongs to an active incident, and what an incident was
\* resolved by has been recovered or is no longer the action's.
UnfinishedIsActive ==
    /\ rows.lifecycle \in {"PREPARED", "VERIFYING"} => Active
    /\ rows.lifecycle = "RESULT_UNKNOWN" /\ rows.owned => Active
    /\ rows.run \in {"ACTIVE", "NEEDS_REVIEW"} => Active
    /\ rows.incident = "RESOLVED" /\ rows.lifecycle # "none" => Recovered \/ ~rows.owned

\* Nothing is committed, or found effective, that was not applied.
AppliedBeforeEnded ==
    /\ rows.lifecycle = "PREPARED" => \A a \in rows.attempts : a.op \in Drains /\ a.status = "ISSUED"
    /\ rows.lifecycle = "VERIFYING" =>
          \A a \in rows.attempts : a.op \in Drains /\ a.status \in {"CONFIRMED", "ACKNOWLEDGEMENT_LOST_CONFIRMED"}
    /\ rows.lifecycle = "COMMITTED" => Applied
    /\ rows.verification = "EFFECTIVE" => rows.lifecycle = "COMMITTED"
    /\ Restored \in rows.attempts =>
          /\ rows.incident = "RESOLVED" /\ rows.lifecycle = "COMMITTED"
          /\ rows.verification = "EFFECTIVE" /\ OfInstance

RecordsInv == RecordsTypeOK /\ HandlerFits /\ RowsFit /\ UnfinishedIsActive /\ AppliedBeforeEnded

-----------------------------------------------------------------------------
(* The answers: what was read goes on to be borne out by the rows. *)

\* These do not change any more once the incident is resolved.
Frozen == {"incident", "kind", "lifecycle", "attempts", "run"}

\* The fields of an answer are of rows.
Typed(d) ==
    /\ "current" \in DOMAIN d => d.current \in {"none", "own", "other"}
    /\ "incident" \in DOMAIN d => d.incident \in {"none", "RESOLVED"} \cup ActiveIncidents
    /\ "lifecycle" \in DOMAIN d => d.lifecycle \in Lifecycles
    /\ "attempts" \in DOMAIN d => d.attempts \subseteq Attempts
    /\ "verification" \in DOMAIN d => d.verification \in Verdicts
    /\ "run" \in DOMAIN d => d.run \in Runs

\* The fields of d, whenever they were read, still tell something of the rows.
Told(d) ==
    /\ Typed(d)
    /\ "active" \in DOMAIN d => (d.active => rows.incident # "none")
    /\ "current" \in DOMAIN d => (d.current = "own" => rows.lifecycle # "none")
    /\ "decision" \in DOMAIN d => rows.incident # "none"
    /\ "incident" \in DOMAIN d =>
          (d.incident = "RESOLVED" =>
              /\ rows.incident = "RESOLVED"
              /\ \A f \in Frozen \cap DOMAIN d : d[f] = rows[f]
              /\ "verification" \in DOMAIN d /\ rows.lifecycle # "RESULT_UNKNOWN" =>
                    d.verification = rows.verification)
    /\ "kind" \in DOMAIN d => (d.kind # "none" => d.kind = rows.kind)
    /\ "lifecycle" \in DOMAIN d =>
          /\ d.lifecycle # "none" => rows.lifecycle # "none"
          /\ d.lifecycle = "COMMITTED" => rows.lifecycle \in Carried /\ Applied
    /\ "attempts" \in DOMAIN d =>
          /\ ConfirmedBy(d) => ConfirmedBy(rows)
          /\ Restored \in d.attempts => Restored \in rows.attempts
    /\ "verification" \in DOMAIN d =>
          /\ d.verification # "none" => rows.verification # "none"
          /\ d.verification = "EFFECTIVE" => rows.lifecycle \in Carried /\ Applied
    /\ "run" \in DOMAIN d => (d.run = "COMPLETED" => rows.run = "COMPLETED")

\* The fields of the first n groups of SELECTs of q.
FieldsRead(q, n) == UNION {Statements(q)[i] : i \in 1..n}
AllFields(q) == FieldsRead(q, Len(Statements(q)))

Kinds == {"first", "subject"}

ReadsTypeOK ==
    /\ page \in AllPages
    /\ DOMAIN reads = Kinds
    /\ \A q \in Kinds :
          /\ reads[q] = [data |-> Data(q), known |-> reads[q].known, failed |-> reads[q].failed,
                         answer |-> reads[q].answer, done |-> reads[q].done]
          /\ reads[q].known \in BOOLEAN /\ reads[q].failed \in BOOLEAN
          /\ reads[q].done \in 0..(Len(Statements(q)) - 1)
          /\ DOMAIN reads[q].answer = FieldsRead(q, reads[q].done)
          /\ Answered(q) /\ (q = "subject" \/ ~HasSubject) => DOMAIN Data(q) = AllFields(q)
          /\ ~Answered(q) => Data(q) = NoAnswer

AnswersAreTold == \A q \in Kinds : Told(Data(q)) /\ Told(reads[q].answer)

\* What of e was read after d goes on from d.
GoesOn(d, e) ==
    /\ "lifecycle" \in DOMAIN e => (d.lifecycle # "none" => e.lifecycle # "none")
    /\ "attempts" \in DOMAIN e => /\ ConfirmedBy(d) => ConfirmedBy(e)
                                  /\ Restored \in d.attempts => Restored \in e.attempts
    /\ "kind" \in DOMAIN e => (Restored \in d.attempts => e.kind = "INSTANCE_QUARANTINE")
    /\ "verification" \in DOMAIN e =>
          /\ d.verification # "none" => e.verification # "none"
          /\ Restored \in d.attempts => e.verification = "EFFECTIVE"
    /\ "run" \in DOMAIN e => (d.run = "COMPLETED" => e.run = "COMPLETED")
    /\ d.incident = "RESOLVED" =>
          /\ \A f \in Frozen \cap DOMAIN e : e[f] = d[f]
          /\ "verification" \in DOMAIN e /\ d.lifecycle # "RESULT_UNKNOWN" => e.verification = d.verification

TraceGoesOn == page = "trace" /\ Answered("subject") => GoesOn(Data("subject"), reads["subject"].answer)

ViewsInv == RecordsInv /\ ReadsTypeOK /\ AnswersAreTold /\ TraceGoesOn

-----------------------------------------------------------------------------
(* What a step of the worker does to the rows. *)

\* The drain among the attempts gets its status.
LEMMA DrainStatus ==
    ASSUME RecordsTypeOK,
           NEW status \in {"ISSUED", "CONFIRMED", "ACKNOWLEDGEMENT_LOST_CONFIRMED", "RESULT_UNKNOWN", "ACKNOWLEDGED"}
    PROVE  /\ DrainBecomes(status) \in SUBSET Attempts
           /\ (\A a \in rows.attempts : a.op \in Drains) =>
                  \A a \in DrainBecomes(status) : a.op \in Drains /\ a.status = status
<1>1. \A a \in rows.attempts : a \in Attempts
    BY DEF RecordsTypeOK, IncidentRows, Verdicts, Runs
<1>2. \A a \in rows.attempts : Attempt(a.op, status) \in Attempts /\ Attempt(a.op, status).op = a.op
                               /\ Attempt(a.op, status).status = status
    BY <1>1 DEF Attempts, Attempt
<1> QED BY <1>1, <1>2 DEF DrainBecomes

\* Types are kept.
LEMMA RecordsTypes ==
    ASSUME RecordsInv, RecordsNext
    PROVE  RecordsTypeOK'
<1> USE DEF RecordsInv, RecordsTypeOK, Write
<1>1. CASE Decides
    <2>1. PICK class \in IncidentClasses, allowed \in BOOLEAN : PersistDecision(class, allowed)
        BY <1>1 DEF Decides, ActionClasses, IncidentClasses, PairClasses
    <2> DEFINE incident == IF rows.incident # "none" THEN rows.incident
                           ELSE IF class = "UNKNOWN" THEN "NEEDS_REVIEW" ELSE "OPEN"
    <2>2. incident \in {"none", "RESOLVED"} \cup ActiveIncidents
        BY DEF IncidentRows, Verdicts, Runs, ActiveIncidents
    <2>3. rows' = [rows EXCEPT !.class = class, !.allowed = allowed, !.incident = incident]
        BY <2>1 DEF PersistDecision
    <2> HIDE DEF incident
    <2>4. rows' \in IncidentRows
        BY <2>2, <2>3 DEF IncidentRows, Verdicts, Runs
    <2> QED BY <2>1, <2>4 DEF PersistDecision
<1>2. CASE PrepareAction \/ IssueAttempt
    <2>1. CASE PrepareAction
        BY <2>1 DEF PrepareAction, IncidentRows, Verdicts, Runs, Lifecycles
    <2>2. CASE IssueAttempt
        BY <2>2 DEF IssueAttempt, IncidentRows, Verdicts, Runs, Attempts, Attempt, DrainOf, Drains
    <2> QED BY <1>2, <2>1, <2>2
<1>3. CASE DrainEnds \/ RecoverAction
    <2>1. PICK status \in {"CONFIRMED", "ACKNOWLEDGEMENT_LOST_CONFIRMED", "RESULT_UNKNOWN", "ACKNOWLEDGED"},
               ended \in {"VERIFYING", "RESULT_UNKNOWN", "NEEDS_REVIEW"}, incident \in ActiveIncidents :
             rows' = [rows EXCEPT !.attempts = DrainBecomes(status), !.lifecycle = ended, !.incident = incident]
        <3>1. CASE DrainEnds
            BY <3>1 DEF DrainEnds, DrainConfirmed, DrainUnknown, DrainUnpreserved, ActiveIncidents,
                IncidentRows, Verdicts, Runs
        <3>2. CASE RecoverAction
            <4>1. CASE DrainUnknown
                BY <4>1 DEF DrainUnknown, ActiveIncidents, IncidentRows, Verdicts, Runs
            <4>2. CASE Write([rows EXCEPT !.lifecycle = "VERIFYING", !.incident = "VERIFYING",
                                          !.attempts = DrainBecomes("ACKNOWLEDGEMENT_LOST_CONFIRMED")])
                <5>1. rows' = [rows EXCEPT !.attempts = DrainBecomes("ACKNOWLEDGEMENT_LOST_CONFIRMED"),
                                           !.lifecycle = "VERIFYING", !.incident = "VERIFYING"]
                    BY <4>2 DEF IncidentRows, Verdicts, Runs
                <5> QED BY <5>1 DEF ActiveIncidents
            <4> QED BY <3>2, <4>1, <4>2 DEF RecoverAction
        <3> QED BY <1>3, <3>1, <3>2
    <2>2. DrainBecomes(status) \in SUBSET Attempts
        BY DrainStatus
    <2>3. rows' \in IncidentRows
        BY <2>1, <2>2 DEF IncidentRows, Verdicts, Runs, Lifecycles
    <2> QED BY <1>3, <2>3 DEF DrainEnds, RecoverAction, DrainConfirmed, DrainUnknown, DrainUnpreserved
<1>4. CASE Verifies
    <2>1. PICK result \in {"EFFECTIVE", "INEFFECTIVE", "INSUFFICIENT_EVIDENCE"} : VerifyAction(result)
        BY <1>4 DEF Verifies
    <2>2. PICK ended \in {"COMMITTED", "ROLLED_BACK", "ROLLBACK_FAILED", "VERIFYING"},
               incident \in {"MITIGATING", "NEEDS_REVIEW", rows.incident} :
             rows' = [rows EXCEPT !.verification = result, !.lifecycle = ended, !.incident = incident]
        BY <2>1 DEF VerifyAction
    <2>3. incident \in {"none", "RESOLVED"} \cup ActiveIncidents
        BY <2>2 DEF IncidentRows, Verdicts, Runs, ActiveIncidents
    <2>4. rows' \in IncidentRows
        BY <2>2, <2>3 DEF IncidentRows, Verdicts, Runs, Lifecycles
    <2> QED BY <2>1, <2>4 DEF VerifyAction
<1>5. CASE CountProbe \/ StartRecovery \/ AdvanceRecovery
    <2>1. CASE CountProbe
        BY <2>1 DEF CountProbe, IncidentRows, Verdicts, Runs
    <2>2. CASE StartRecovery
        BY <2>2 DEF StartRecovery, IncidentRows, Verdicts, Runs, ActiveIncidents
    <2>3. CASE AdvanceRecovery
        BY <2>3 DEF AdvanceRecovery, IncidentRows, Verdicts, Runs, ActiveIncidents
    <2> QED BY <1>5, <2>1, <2>2, <2>3
<1>6. CASE BeginRestore
    BY <1>6 DEF BeginRestore, IncidentRows, Verdicts, Runs, Attempts, Attempt
<1>7. CASE RestoreEnds
    <2>1. PICK status \in {"CONFIRMED", "RESULT_UNKNOWN"}, ended \in Carried,
               incident \in {"RESOLVED", "NEEDS_REVIEW"}, verification \in {"EFFECTIVE", rows.verification} :
             rows' = [rows EXCEPT !.attempts = (@ \ {Attempt(Restore, "ISSUED")}) \cup {Attempt(Restore, status)},
                                  !.lifecycle = ended, !.incident = incident, !.verification = verification]
        <3> DEFINE others == rows.attempts \ {Attempt(Restore, "ISSUED")}
        <3>1. CASE Write([rows EXCEPT !.attempts = others \cup {Attempt(Restore, "CONFIRMED")},
                    !.lifecycle = "COMMITTED",
                                      !.incident = "RESOLVED", !.verification = "EFFECTIVE"])
            BY <3>1 DEF Carried
        <3>2. CASE Write([rows EXCEPT !.attempts = others \cup {Attempt(Restore, "RESULT_UNKNOWN")},
                                      !.lifecycle = "RESULT_UNKNOWN", !.incident = "NEEDS_REVIEW"])
            <4>1. rows' = [rows EXCEPT !.attempts = others \cup {Attempt(Restore, "RESULT_UNKNOWN")},
                                       !.lifecycle = "RESULT_UNKNOWN", !.incident = "NEEDS_REVIEW",
                                       !.verification = rows.verification]
                BY <3>2 DEF IncidentRows, Verdicts, Runs
            <4> QED BY <4>1 DEF Carried
        <3> QED BY <1>7, <3>1, <3>2 DEF RestoreEnds
    <2>2. (rows.attempts \ {Attempt(Restore, "ISSUED")}) \cup {Attempt(Restore, status)} \in SUBSET Attempts
        BY DEF IncidentRows, Verdicts, Runs, Attempts, Attempt
    <2>3. verification \in {"none", "EFFECTIVE", "INEFFECTIVE", "INSUFFICIENT_EVIDENCE"}
        BY DEF IncidentRows, Verdicts, Runs
    <2>4. rows' \in IncidentRows
        BY <2>1, <2>2, <2>3 DEF IncidentRows, Verdicts, Runs, Lifecycles, Carried, ActiveIncidents
    <2> QED BY <1>7, <2>4 DEF RestoreEnds
<1>8. CASE ResetEnds \/ ResetFails
    <2>1. PICK ended \in {"ROLLED_BACK", "NEEDS_REVIEW", rows.lifecycle}, run \in {"CANCELLED", "NEEDS_REVIEW",
                rows.run},
               incident \in {"RESOLVED", rows.incident} :
             rows' = [rows EXCEPT !.lifecycle = ended, !.run = run, !.incident = incident, !.owned = FALSE]
        <3>1. CASE ResetEnds
            <4> DEFINE ended == IF rows.lifecycle \in {"PREPARED", "VERIFYING"} THEN "ROLLED_BACK" ELSE rows.lifecycle
                       run == IF rows.run \in {"ACTIVE", "NEEDS_REVIEW"} THEN "CANCELLED" ELSE rows.run
                       incident == IF Active THEN "RESOLVED" ELSE rows.incident
            <4>1. rows' = [rows EXCEPT !.lifecycle = ended, !.run = run, !.incident = incident, !.owned = FALSE]
                BY <3>1 DEF ResetEnds
            <4> HIDE DEF ended, run, incident
            <4>2. /\ ended \in {"ROLLED_BACK", "NEEDS_REVIEW", rows.lifecycle}
                  /\ run \in {"CANCELLED", "NEEDS_REVIEW", rows.run} /\ incident \in {"RESOLVED", rows.incident}
                BY DEF ended, run, incident
            <4> QED BY <4>1, <4>2
        <3>2. CASE ResetFails
            <4> DEFINE ended == IF rows.lifecycle \in {"PREPARED",
                        "VERIFYING"} THEN "NEEDS_REVIEW" ELSE rows.lifecycle
                       run == IF rows.run = "ACTIVE" THEN "NEEDS_REVIEW" ELSE rows.run
            <4>1. rows' = [rows EXCEPT !.lifecycle = ended, !.run = run, !.incident = rows.incident, !.owned = FALSE]
                BY <3>2 DEF ResetFails, IncidentRows, Verdicts, Runs
            <4> HIDE DEF ended, run
            <4>2. /\ ended \in {"ROLLED_BACK", "NEEDS_REVIEW", rows.lifecycle}
                  /\ run \in {"CANCELLED", "NEEDS_REVIEW", rows.run}
                BY DEF ended, run
            <4> QED BY <4>1, <4>2
        <3> QED BY <1>8, <3>1, <3>2
    <2>2. /\ ended \in Lifecycles /\ run \in {"none", "ACTIVE", "COMPLETED", "NEEDS_REVIEW", "CANCELLED"}
          /\ incident \in {"none", "RESOLVED"} \cup ActiveIncidents
        BY <2>1 DEF IncidentRows, Verdicts, Runs, Lifecycles
    <2>3. rows' \in IncidentRows
        BY <2>1, <2>2 DEF IncidentRows, Verdicts, Runs
    <2> QED BY <1>8, <2>3 DEF ResetEnds, ResetFails
<1>9. CASE OverlappingWindow \/ HasAction \/ WorkerStops
    BY <1>9 DEF OverlappingWindow, HasAction, WorkerStops
<1>10. CASE Deny \/ ResolveNonAction
    BY <1>10 DEF Deny, ResolveNonAction, IncidentRows, Verdicts, Runs, ActiveIncidents
<1> QED BY <1>1, <1>2, <1>3, <1>4, <1>5, <1>6, <1>7, <1>8, <1>9, <1>10 DEF RecordsNext, Acts, Returns

\* What goes together goes on doing so.
LEMMA RecordsStep ==
    ASSUME RecordsInv, RecordsNext
    PROVE  RecordsInv'
<1> USE DEF RecordsInv, RecordsTypeOK, IncidentRows, Verdicts, Runs, Write, Tick, MustRecover, MustVerify,
            MustAdvance, MustRestore,
            RestoreServed, Classifies, OfInstance, Active, ActiveIncidents, ActionClasses, IncidentClasses,
                        PairClasses
<1>1. HandlerFits'
    <2> USE DEF HandlerFits, Carried, UnfinishedIsActive
    <2>1. CASE Decides \/ OverlappingWindow \/ Deny \/ HasAction \/ WorkerStops
        <3>1. CASE Decides
            <4>1. PICK class \in IncidentClasses, allowed \in BOOLEAN : PersistDecision(class, allowed)
                BY <3>1 DEF Decides
            <4> QED BY <4>1 DEF PersistDecision
        <3>2. CASE OverlappingWindow
            BY <3>2 DEF OverlappingWindow
        <3>3. CASE Deny
            BY <3>3 DEF Deny
        <3>4. CASE HasAction
            BY <3>4 DEF HasAction
        <3>5. CASE WorkerStops
            BY <3>5 DEF WorkerStops
        <3> QED BY <2>1, <3>1, <3>2, <3>3, <3>4, <3>5
    <2>2. CASE Acts
        BY <2>2 DEF Acts, PrepareAction, IssueAttempt, DrainEnds, RecoverAction, DrainConfirmed, DrainUnknown,
            DrainUnpreserved
    <2>3. CASE Verifies \/ Returns
        <3>1. CASE Verifies
            BY <3>1 DEF Verifies, VerifyAction
        <3>2. CASE CountProbe
            BY <3>2 DEF CountProbe
        <3>3. CASE BeginRestore
            BY <3>3 DEF BeginRestore
        <3>4. CASE RestoreEnds
            BY <3>4 DEF RestoreEnds
        <3>5. CASE StartRecovery
            BY <3>5 DEF StartRecovery
        <3>6. CASE AdvanceRecovery
            BY <3>6 DEF AdvanceRecovery
        <3> QED BY <2>3, <3>1, <3>2, <3>3, <3>4, <3>5, <3>6 DEF Returns
    <2>4. CASE ResolveNonAction \/ ResetEnds \/ ResetFails
        BY <2>4 DEF ResolveNonAction, ResetEnds, ResetFails
    <2> QED BY <2>1, <2>2, <2>3, <2>4 DEF RecordsNext
<1>2. RowsFit'
    <2> USE DEF HandlerFits, Carried, RowsFit
    <2>1. CASE Decides \/ OverlappingWindow \/ Deny \/ HasAction \/ WorkerStops
        <3>1. CASE Decides
            <4>1. PICK class \in IncidentClasses, allowed \in BOOLEAN : PersistDecision(class, allowed)
                BY <3>1 DEF Decides
            <4> QED BY <4>1 DEF PersistDecision
        <3>2. CASE OverlappingWindow
            BY <3>2 DEF OverlappingWindow
        <3>3. CASE Deny
            BY <3>3 DEF Deny
        <3>4. CASE HasAction
            BY <3>4 DEF HasAction
        <3>5. CASE WorkerStops
            BY <3>5 DEF WorkerStops
        <3> QED BY <2>1, <3>1, <3>2, <3>3, <3>4, <3>5
    <2>2. CASE Acts
        BY <2>2 DEF Acts, PrepareAction, IssueAttempt, DrainEnds, RecoverAction, DrainConfirmed, DrainUnknown,
            DrainUnpreserved
    <2>3. CASE Verifies \/ Returns
        <3>1. CASE Verifies
            BY <3>1 DEF Verifies, VerifyAction
        <3>2. CASE CountProbe
            BY <3>2 DEF CountProbe
        <3>3. CASE BeginRestore
            BY <3>3 DEF BeginRestore
        <3>4. CASE RestoreEnds
            BY <3>4 DEF RestoreEnds
        <3>5. CASE StartRecovery
            BY <3>5 DEF StartRecovery
        <3>6. CASE AdvanceRecovery
            BY <3>6 DEF AdvanceRecovery
        <3> QED BY <2>3, <3>1, <3>2, <3>3, <3>4, <3>5, <3>6 DEF Returns
    <2>4. CASE ResolveNonAction
        BY <2>4 DEF ResolveNonAction
    <2>5. CASE ResetEnds
        BY <2>5 DEF ResetEnds
    <2>6. CASE ResetFails
        BY <2>6 DEF ResetFails
    <2> QED BY <2>1, <2>2, <2>3, <2>4, <2>5, <2>6 DEF RecordsNext
<1>3. UnfinishedIsActive'
    <2> USE DEF HandlerFits, Carried, RowsFit, UnfinishedIsActive, Recovered, Restored
    <2>1. CASE Decides \/ OverlappingWindow \/ Deny \/ HasAction \/ WorkerStops
        <3>1. CASE Decides
            <4>1. PICK class \in IncidentClasses, allowed \in BOOLEAN : PersistDecision(class, allowed)
                BY <3>1 DEF Decides
            <4> QED BY <4>1 DEF PersistDecision
        <3>2. CASE OverlappingWindow
            BY <3>2 DEF OverlappingWindow
        <3>3. CASE Deny
            BY <3>3 DEF Deny
        <3>4. CASE HasAction
            BY <3>4 DEF HasAction
        <3>5. CASE WorkerStops
            BY <3>5 DEF WorkerStops
        <3> QED BY <2>1, <3>1, <3>2, <3>3, <3>4, <3>5
    <2>2. CASE Acts
        BY <2>2 DEF Acts, PrepareAction, IssueAttempt, DrainEnds, RecoverAction, DrainConfirmed, DrainUnknown,
            DrainUnpreserved
    <2>3. CASE Verifies \/ Returns
        <3>1. CASE Verifies
            BY <3>1 DEF Verifies, VerifyAction
        <3>2. CASE CountProbe
            BY <3>2 DEF CountProbe
        <3>3. CASE BeginRestore
            BY <3>3 DEF BeginRestore
        <3>4. CASE RestoreEnds
            BY <3>4 DEF RestoreEnds
        <3>5. CASE StartRecovery
            BY <3>5 DEF StartRecovery
        <3>6. CASE AdvanceRecovery
            BY <3>6 DEF AdvanceRecovery
        <3> QED BY <2>3, <3>1, <3>2, <3>3, <3>4, <3>5, <3>6 DEF Returns
    <2>4. CASE ResolveNonAction \/ ResetEnds \/ ResetFails
        BY <2>4 DEF ResolveNonAction, ResetEnds, ResetFails
    <2> QED BY <2>1, <2>2, <2>3, <2>4 DEF RecordsNext
<1>4. AppliedBeforeEnded'
    <2> USE DEF HandlerFits, RowsFit, AppliedBeforeEnded, Carried, Applied, ConfirmedBy, Restored, Attempt,
                Restore, Drains
    <2>1. CASE Decides \/ OverlappingWindow \/ Deny \/ HasAction \/ WorkerStops
        <3>1. CASE Decides
            <4>1. PICK class \in IncidentClasses, allowed \in BOOLEAN : PersistDecision(class, allowed)
                BY <3>1 DEF Decides
            <4> QED BY <4>1 DEF PersistDecision
        <3>2. CASE OverlappingWindow
            BY <3>2 DEF OverlappingWindow
        <3>3. CASE Deny
            BY <3>3 DEF Deny
        <3>4. CASE HasAction
            BY <3>4 DEF HasAction
        <3>5. CASE WorkerStops
            BY <3>5 DEF WorkerStops
        <3> QED BY <2>1, <3>1, <3>2, <3>3, <3>4, <3>5
    <2>2. CASE PrepareAction \/ IssueAttempt
        <3>1. CASE PrepareAction
            BY <3>1 DEF PrepareAction
        <3>2. CASE IssueAttempt
            BY <3>2 DEF IssueAttempt, DrainOf
        <3> QED BY <2>2, <3>1, <3>2
    <2>3. CASE DrainEnds \/ RecoverAction
        <3>1. PICK status \in {"CONFIRMED", "ACKNOWLEDGEMENT_LOST_CONFIRMED", "RESULT_UNKNOWN", "ACKNOWLEDGED"} :
                 /\ rows.lifecycle = "PREPARED"
                 /\ rows'.attempts = DrainBecomes(status) /\ rows'.verification = rows.verification
                 /\ rows'.lifecycle \in {"VERIFYING", "RESULT_UNKNOWN", "NEEDS_REVIEW"}
                 /\ rows'.lifecycle = "VERIFYING" => status \in {"CONFIRMED", "ACKNOWLEDGEMENT_LOST_CONFIRMED"}
            <4>1. CASE DrainEnds
                <5>1. CASE DrainConfirmed
                    BY <4>1, <5>1 DEF DrainEnds, DrainConfirmed
                <5>2. CASE DrainUnknown
                    BY <4>1, <5>2 DEF DrainEnds, DrainUnknown
                <5>3. CASE DrainUnpreserved
                    BY <4>1, <5>3 DEF DrainEnds, DrainUnpreserved
                <5> QED BY <4>1, <5>1, <5>2, <5>3 DEF DrainEnds
            <4>2. CASE RecoverAction
                BY <4>2 DEF RecoverAction, DrainUnknown
            <4> QED BY <2>3, <4>1, <4>2
        <3>2. \A a \in DrainBecomes(status) : a.op \in Drains /\ a.status = status
            BY <3>1, DrainStatus
        <3> QED BY <3>1, <3>2
    <2>4. CASE Verifies
        BY <2>4 DEF Verifies, VerifyAction
    <2>5. CASE Returns
        <3>1. CASE CountProbe
            BY <3>1 DEF CountProbe
        <3>2. CASE BeginRestore
            BY <3>2 DEF BeginRestore
        <3>3. CASE RestoreEnds
            BY <3>3 DEF RestoreEnds
        <3>4. CASE StartRecovery
            BY <3>4 DEF StartRecovery
        <3>5. CASE AdvanceRecovery
            BY <3>5 DEF AdvanceRecovery
        <3> QED BY <2>5, <3>1, <3>2, <3>3, <3>4, <3>5 DEF Returns
    <2>6. CASE ResolveNonAction \/ ResetEnds \/ ResetFails
        <3>1. CASE ResolveNonAction
            BY <3>1 DEF ResolveNonAction
        <3>2. CASE ResetEnds
            BY <3>2 DEF ResetEnds
        <3>3. CASE ResetFails
            BY <3>3 DEF ResetFails
        <3> QED BY <2>6, <3>1, <3>2, <3>3
    <2> QED BY <2>1, <2>2, <2>3, <2>4, <2>5, <2>6 DEF RecordsNext, Acts
<1> HIDE DEF RecordsTypeOK
<1> QED BY <1>1, <1>2, <1>3, <1>4, RecordsTypes

\* What happened to the rows is not undone.
RowsGoForward ==
    /\ rows.incident # "none" => rows'.incident # "none"
    /\ rows.lifecycle # "none" => rows'.lifecycle # "none" /\ rows'.kind = rows.kind
    /\ rows.lifecycle \in Carried /\ Applied => rows'.lifecycle \in Carried /\ Applied'
    /\ ConfirmedBy(rows) => ConfirmedBy(rows')
    /\ Restored \in rows.attempts => Restored \in rows'.attempts
    /\ rows.verification # "none" => rows'.verification # "none"
    /\ rows.run = "COMPLETED" => rows'.run = "COMPLETED"

ResolvedIsFrozen ==
    rows.incident = "RESOLVED" =>
        /\ rows'.incident = "RESOLVED" /\ rows'.kind = rows.kind /\ rows'.lifecycle = rows.lifecycle
        /\ rows'.attempts = rows.attempts /\ rows'.run = rows.run
        /\ rows.lifecycle # "RESULT_UNKNOWN" => rows'.verification = rows.verification

\* Every step of the worker goes forward.
LEMMA StepsGoForward ==
    ASSUME RecordsInv, RecordsNext
    PROVE  RowsGoForward /\ ResolvedIsFrozen
<1> USE DEF RecordsInv, RecordsTypeOK, IncidentRows, Verdicts, Runs, Write, Tick, MustRecover, MustVerify,
            MustAdvance, MustRestore,
            RestoreServed, Classifies, OfInstance, Active, ActiveIncidents, HandlerFits, RowsFit, Carried
<1>1. ResolvedIsFrozen
    <2> USE DEF UnfinishedIsActive, ResolvedIsFrozen
    <2>1. CASE Decides
        BY <2>1 DEF Decides, PersistDecision
    <2>2. CASE OverlappingWindow
        BY <2>2 DEF OverlappingWindow
    <2>3. CASE Deny
        BY <2>3 DEF Deny
    <2>4. CASE HasAction
        BY <2>4 DEF HasAction
    <2>5. CASE WorkerStops
        BY <2>5 DEF WorkerStops
    <2>6. CASE PrepareAction
        BY <2>6 DEF PrepareAction
    <2>7. CASE IssueAttempt
        BY <2>7 DEF IssueAttempt
    <2>8. CASE DrainEnds
        BY <2>8 DEF DrainEnds, DrainConfirmed, DrainUnknown, DrainUnpreserved
    <2>9. CASE RecoverAction
        BY <2>9 DEF RecoverAction, DrainUnknown
    <2>10. CASE Verifies
        BY <2>10 DEF Verifies, VerifyAction
    <2>11. CASE CountProbe
        BY <2>11 DEF CountProbe
    <2>12. CASE BeginRestore
        BY <2>12 DEF BeginRestore
    <2>13. CASE RestoreEnds
        BY <2>13 DEF RestoreEnds
    <2>14. CASE StartRecovery
        BY <2>14 DEF StartRecovery
    <2>15. CASE AdvanceRecovery
        BY <2>15 DEF AdvanceRecovery
    <2>16. CASE ResolveNonAction
        BY <2>16 DEF ResolveNonAction
    <2>17. CASE ResetEnds
        BY <2>17 DEF ResetEnds
    <2>18. CASE ResetFails
        BY <2>18 DEF ResetFails
    <2> QED BY <2>1, <2>2, <2>3, <2>4, <2>5, <2>6, <2>7, <2>8, <2>9, <2>10, <2>11, <2>12, <2>13, <2>14, <2>15,
        <2>16, <2>17, <2>18 DEF RecordsNext, Acts, Returns
<1>2. RowsGoForward
    <2> USE DEF AppliedBeforeEnded, RowsGoForward, Applied, ConfirmedBy, Restored, Attempt, Restore, Drains
    <2>1. CASE Decides
        <3>1. PICK class \in IncidentClasses, allowed \in BOOLEAN : PersistDecision(class, allowed)
            BY <2>1 DEF Decides, ActionClasses, IncidentClasses, PairClasses
        <3> QED BY <3>1 DEF PersistDecision
    <2>2. CASE OverlappingWindow
        BY <2>2 DEF OverlappingWindow
    <2>3. CASE Deny
        BY <2>3 DEF Deny
    <2>4. CASE HasAction
        BY <2>4 DEF HasAction
    <2>5. CASE WorkerStops
        BY <2>5 DEF WorkerStops
    <2>6. CASE PrepareAction
        BY <2>6 DEF PrepareAction
    <2>7. CASE IssueAttempt
        BY <2>7 DEF IssueAttempt, DrainOf
    <2>8. CASE DrainEnds
        <3>1. rows.lifecycle = "PREPARED"
            BY <2>8 DEF DrainEnds
        <3>2. CASE DrainConfirmed
            BY <3>1, <3>2 DEF DrainConfirmed
        <3>3. CASE DrainUnknown
            BY <3>1, <3>3 DEF DrainUnknown
        <3>4. CASE DrainUnpreserved
            BY <3>1, <3>4 DEF DrainUnpreserved
        <3> QED BY <2>8, <3>2, <3>3, <3>4 DEF DrainEnds
    <2>9. CASE RecoverAction
        <3>1. rows.lifecycle = "PREPARED"
            BY <2>9 DEF RecoverAction
        <3>2. CASE DrainUnknown
            BY <3>1, <3>2 DEF DrainUnknown
        <3>3. CASE ~DrainUnknown
            BY <2>9, <3>1, <3>3 DEF RecoverAction
        <3> QED BY <3>2, <3>3
    <2>10. CASE Verifies
        BY <2>10 DEF Verifies, VerifyAction
    <2>11. CASE CountProbe
        BY <2>11 DEF CountProbe
    <2>12. CASE BeginRestore
        BY <2>12 DEF BeginRestore
    <2>13. CASE RestoreEnds
        BY <2>13 DEF RestoreEnds
    <2>14. CASE StartRecovery
        BY <2>14 DEF StartRecovery
    <2>15. CASE AdvanceRecovery
        BY <2>15 DEF AdvanceRecovery
    <2>16. CASE ResolveNonAction
        BY <2>16 DEF ResolveNonAction
    <2>17. CASE ResetEnds
        BY <2>17 DEF ResetEnds
    <2>18. CASE ResetFails
        BY <2>18 DEF ResetFails
    <2> QED BY <2>1, <2>2, <2>3, <2>4, <2>5, <2>6, <2>7, <2>8, <2>9, <2>10, <2>11, <2>12, <2>13, <2>14, <2>15,
        <2>16, <2>17, <2>18 DEF RecordsNext, Acts, Returns
<1> QED BY <1>1, <1>2

-----------------------------------------------------------------------------
(* What a step does to the answers. *)

\* What was told stays told, whatever the worker commits.
LEMMA ToldStays ==
    ASSUME NEW d, RecordsInv, RecordsNext, Told(d)
    PROVE  Told(d)'
<1>1. RowsGoForward /\ ResolvedIsFrozen
    BY StepsGoForward
<1>2. rows.kind # "none" => rows.lifecycle # "none"
    BY DEF RecordsInv, RowsFit
<1>3. \A f \in Frozen : rows.incident = "RESOLVED" => rows'[f] = rows[f]
    BY <1>1 DEF Frozen, ResolvedIsFrozen
<1> QED BY <1>1, <1>2, <1>3 DEF Told, Typed, RowsGoForward, ResolvedIsFrozen

\* The groups of SELECTs of a query that is enabled.
LEMMA GroupsAre ==
    ASSUME NEW q \in Kinds, page \in AllPages
    PROVE  /\ Len(Statements(q)) \in Nat \ {0}
           /\ \A i \in 1..Len(Statements(q)) :
                 /\ "incident" \in Statements(q)[i] => i = 1
                 /\ "decision" \in Statements(q)[i] => page \in {"overview", "trace"} /\ q = "subject"
           /\ page = "overview" => Statements("first") = OperationalSummary
           /\ page \in {"overview", "trace"} => Statements("subject") = DecisionTrace
<1> USE DEF OperationalSummary, IncidentList, DecisionTrace, ActionList, ActionDetail, RunList, RunDetail
<1> DEFINE Groups == {OperationalSummary, IncidentList, DecisionTrace, ActionList, ActionDetail, RunList, RunDetail}
<1>1. \A s \in Groups : Len(s) \in Nat \ {0}
    OBVIOUS
<1>2. \A s \in Groups : \A i \in 1..Len(s) : "incident" \in s[i] => i = 1
    OBVIOUS
<1>3. \A s \in Groups : \A i \in 1..Len(s) : "decision" \in s[i] => s = DecisionTrace
    OBVIOUS
<1>4. /\ Statements(q) \in Groups
      /\ Statements(q) = DecisionTrace <=> page \in {"overview", "trace"} /\ q = "subject"
      /\ page = "overview" => Statements("first") = OperationalSummary
      /\ page \in {"overview", "trace"} => Statements("subject") = DecisionTrace
    BY DEF Statements, AllPages, Kinds
<1> QED BY <1>1, <1>2, <1>3, <1>4

\* The groups of SELECTs add up to the answer.
LEMMA FieldsAddUp ==
    ASSUME NEW q, NEW n \in Nat
    PROVE  /\ FieldsRead(q, 0) = {}
           /\ FieldsRead(q, n + 1) = FieldsRead(q, n) \cup Statements(q)[n + 1]
<1>1. 1..(n + 1) = (1..n) \cup {n + 1} /\ 1..0 = {}
    OBVIOUS
<1> QED BY <1>1 DEF FieldsRead

\* An answer tells what is true also after another group.
LEMMA ToldGrows ==
    ASSUME RecordsInv, NEW d, NEW S, Told(d),
           "incident" \in S => DOMAIN d = {},
           "decision" \in S => rows.incident # "none"
    PROVE  Told(WithFacts(d, S))
<1> DEFINE e == WithFacts(d, S)
<1>1. /\ DOMAIN e = DOMAIN d \cup S
      /\ \A f \in S : e[f] = Fact(f)
      /\ \A f \in DOMAIN d \ S : e[f] = d[f]
    BY DEF WithFacts
<1>2. /\ Fact("active") = Active /\ Fact("incident") = rows.incident /\ Fact("kind") = rows.kind
      /\ Fact("lifecycle") = rows.lifecycle /\ Fact("attempts") = rows.attempts
      /\ Fact("verification") = rows.verification /\ Fact("run") = rows.run
    BY DEF Fact
<1> HIDE DEF e
<1>3. "active" \in DOMAIN e => (e.active => rows.incident # "none")
    BY <1>1, <1>2 DEF Told, Active, ActiveIncidents
<1>a. "current" \in DOMAIN e => (e.current = "own" => rows.lifecycle # "none")
    <2>1. Fact("current") = "own" => rows.lifecycle # "none"
        BY DEF Fact, SummaryAction, InProgress
    <2> QED BY <1>1, <2>1 DEF Told
<1>4. "decision" \in DOMAIN e => rows.incident # "none"
    BY <1>1 DEF Told
<1>5. "incident" \in DOMAIN e =>
          (e.incident = "RESOLVED" =>
              /\ rows.incident = "RESOLVED"
              /\ \A f \in Frozen \cap DOMAIN e : e[f] = rows[f]
              /\ "verification" \in DOMAIN e /\ rows.lifecycle # "RESULT_UNKNOWN" => e.verification = rows.verification)
    <2>1. \A f \in Frozen : Fact(f) = rows[f]
        BY DEF Fact, Frozen
    <2> QED BY <1>1, <1>2, <2>1 DEF Told
<1>6. "kind" \in DOMAIN e => (e.kind # "none" => e.kind = rows.kind)
    BY <1>1, <1>2 DEF Told
<1>7. "lifecycle" \in DOMAIN e =>
          /\ e.lifecycle # "none" => rows.lifecycle # "none"
          /\ e.lifecycle = "COMMITTED" => rows.lifecycle \in Carried /\ Applied
    BY <1>1, <1>2 DEF Told, RecordsInv, AppliedBeforeEnded, Carried
<1>8. "attempts" \in DOMAIN e =>
          /\ ConfirmedBy(e) => ConfirmedBy(rows)
          /\ Restored \in e.attempts => Restored \in rows.attempts
    BY <1>1, <1>2 DEF Told, RecordsInv, RecordsTypeOK, IncidentRows, Verdicts, Runs, ConfirmedBy
<1>9. "verification" \in DOMAIN e =>
          /\ e.verification # "none" => rows.verification # "none"
          /\ e.verification = "EFFECTIVE" => rows.lifecycle \in Carried /\ Applied
    BY <1>1, <1>2 DEF Told, RecordsInv, AppliedBeforeEnded, Carried
<1>10. "run" \in DOMAIN e => (e.run = "COMPLETED" => rows.run = "COMPLETED")
    BY <1>1, <1>2 DEF Told
<1>11. Typed(e)
    <2>1. /\ rows.incident \in {"none", "RESOLVED"} \cup ActiveIncidents /\ rows.lifecycle \in Lifecycles
          /\ rows.attempts \subseteq Attempts /\ rows.verification \in Verdicts /\ rows.run \in Runs
        BY DEF RecordsInv, RecordsTypeOK, IncidentRows
    <2>2. Fact("current") \in {"none", "own", "other"}
        BY DEF Fact, SummaryAction
    <2> QED BY <1>1, <1>2, <2>1, <2>2 DEF Told, Typed
<1> QED BY <1>3, <1>a, <1>4, <1>5, <1>6, <1>7, <1>8, <1>9, <1>10, <1>11 DEF Told, e

\* What is read later goes on from what was told.
LEMMA GoesOnGrows ==
    ASSUME RecordsInv, NEW d, NEW e, NEW S, Told(d), GoesOn(d, e),
           {"incident", "kind", "lifecycle", "attempts", "verification", "run"} \subseteq DOMAIN d
    PROVE  GoesOn(d, WithFacts(e, S))
<1> DEFINE g == WithFacts(e, S)
<1>1. /\ DOMAIN g = DOMAIN e \cup S
      /\ \A f \in S : g[f] = Fact(f)
      /\ \A f \in DOMAIN e \ S : g[f] = e[f]
    BY DEF WithFacts
<1>2. /\ Fact("incident") = rows.incident /\ Fact("kind") = rows.kind
      /\ Fact("lifecycle") = rows.lifecycle /\ Fact("attempts") = rows.attempts
      /\ Fact("verification") = rows.verification /\ Fact("run") = rows.run
    BY DEF Fact
<1>3. Restored \in d.attempts => rows.kind = "INSTANCE_QUARANTINE" /\ rows.verification = "EFFECTIVE"
                                 /\ Restored \in rows.attempts
    BY DEF Told, RecordsInv, AppliedBeforeEnded, OfInstance
<1> HIDE DEF g
<1>4. "lifecycle" \in DOMAIN g => (d.lifecycle # "none" => g.lifecycle # "none")
    BY <1>1, <1>2 DEF Told, GoesOn
<1>5. "attempts" \in DOMAIN g => /\ ConfirmedBy(d) => ConfirmedBy(g)
                                 /\ Restored \in d.attempts => Restored \in g.attempts
    BY <1>1, <1>2, <1>3 DEF Told, GoesOn, ConfirmedBy
<1>6. "kind" \in DOMAIN g => (Restored \in d.attempts => g.kind = "INSTANCE_QUARANTINE")
    BY <1>1, <1>2, <1>3 DEF GoesOn
<1>7. "verification" \in DOMAIN g =>
          /\ d.verification # "none" => g.verification # "none"
          /\ Restored \in d.attempts => g.verification = "EFFECTIVE"
    BY <1>1, <1>2, <1>3 DEF Told, GoesOn
<1>8. "run" \in DOMAIN g => (d.run = "COMPLETED" => g.run = "COMPLETED")
    BY <1>1, <1>2 DEF Told, GoesOn
<1>9. d.incident = "RESOLVED" =>
          /\ \A f \in Frozen \cap DOMAIN g : g[f] = d[f]
          /\ "verification" \in DOMAIN g /\ d.lifecycle # "RESULT_UNKNOWN" => g.verification = d.verification
    <2> SUFFICES ASSUME d.incident = "RESOLVED"
                 PROVE  /\ \A f \in Frozen \cap DOMAIN g : g[f] = d[f]
                        /\ "verification" \in DOMAIN g /\ d.lifecycle # "RESULT_UNKNOWN" => g.verification = d.verification
        OBVIOUS
    <2>1. Frozen \subseteq DOMAIN d /\ \A f \in Frozen : Fact(f) = rows[f]
        BY DEF Fact, Frozen
    <2>2. \A f \in Frozen : d[f] = rows[f]
        BY <2>1 DEF Told
    <2>3. d.lifecycle = rows.lifecycle
        BY <2>2 DEF Frozen
    <2>4. d.lifecycle # "RESULT_UNKNOWN" => d.verification = rows.verification
        BY <2>3 DEF Told
    <2> QED BY <1>1, <1>2, <2>1, <2>2, <2>4 DEF GoesOn
<1> QED BY <1>4, <1>5, <1>6, <1>7, <1>8, <1>9 DEF GoesOn, g

\* An answer of which nothing is read tells nothing.
LEMMA NothingIsTold ==
    Told(NoAnswer) /\ \A d : GoesOn(d, NoAnswer)
<1>1. DOMAIN NoAnswer = {}
    BY DEF NoAnswer
<1> QED BY <1>1 DEF Told, Typed, GoesOn

-----------------------------------------------------------------------------
(* The invariant. *)

\* Nothing is read yet of an incident that is not there yet.
LEMMA ViewsInvInit ==
    ASSUME RecordsInit, ViewsInit
    PROVE  ViewsInv
<1>1. RecordsInv
    BY DEF RecordsInit, NoIncident, RecordsInv, RecordsTypeOK, IncidentRows, Verdicts, Runs, HandlerFits,
           RowsFit, UnfinishedIsActive,
           AppliedBeforeEnded, Lifecycles, Active, ActiveIncidents, OfInstance, Carried, Recovered, Restored, Attempts
<1>2. page \in AllPages
    BY PagesAssumption DEF ViewsInit
<1>3. DOMAIN NoAnswer = {}
    BY DEF NoAnswer
<1>4. \A q \in Kinds : /\ Len(Statements(q)) \in Nat \ {0}
                       /\ FieldsRead(q, 0) = {}
    BY <1>2, GroupsAre, FieldsAddUp
<1>5. \A q \in Kinds : reads[q] = [Unread EXCEPT !.known = (q = "first" /\ HasSubject)]
    BY DEF ViewsInit, Kinds
<1>6. \A q \in Kinds : /\ reads[q].data = NoAnswer /\ reads[q].answer = NoAnswer /\ reads[q].failed = FALSE
                       /\ reads[q].known = (q = "first" /\ HasSubject) /\ reads[q].done = 0
                       /\ reads[q] = [data |-> Data(q), known |-> reads[q].known, failed |-> reads[q].failed,
                                      answer |-> reads[q].answer, done |-> reads[q].done]
    BY <1>5 DEF Unread, Data
<1>7. ReadsTypeOK
    <2>1. DOMAIN reads = Kinds
        BY DEF ViewsInit, Kinds
    <2>2. ASSUME NEW q \in Kinds
          PROVE  /\ reads[q].known \in BOOLEAN /\ reads[q].failed \in BOOLEAN
                 /\ reads[q].done \in 0..(Len(Statements(q)) - 1)
                 /\ DOMAIN reads[q].answer = FieldsRead(q, reads[q].done)
                 /\ ~(Answered(q) /\ (q = "subject" \/ ~HasSubject))
                 /\ Data(q) = NoAnswer
        <3>1. reads[q].known \in BOOLEAN /\ reads[q].failed \in BOOLEAN
            BY <1>6
        <3>2. reads[q].done \in 0..(Len(Statements(q)) - 1) /\ DOMAIN reads[q].answer = FieldsRead(q, reads[q].done)
            <4>1. reads[q].done = 0 /\ reads[q].answer = NoAnswer
                BY <1>6
            <4>2. 0 \in 0..(Len(Statements(q)) - 1)
                BY <1>4
            <4>3. DOMAIN NoAnswer = FieldsRead(q, 0)
                BY <1>3, <1>4
            <4> QED BY <4>1, <4>2, <4>3
        <3>3. ~(Answered(q) /\ (q = "subject" \/ ~HasSubject)) /\ Data(q) = NoAnswer
            BY <1>6 DEF Answered, Data
        <3> QED BY <3>1, <3>2, <3>3
    <2> QED BY <1>2, <1>6, <2>1, <2>2 DEF ReadsTypeOK
<1>8. AnswersAreTold
    BY <1>6, NothingIsTold DEF AnswersAreTold, Data
<1>9. TraceGoesOn
    BY <1>6, NothingIsTold DEF TraceGoesOn, Kinds
<1> QED BY <1>1, <1>7, <1>8, <1>9 DEF ViewsInv

\* A commit of the worker leaves what the page has read.
LEMMA CommitsAreTold ==
    ASSUME ViewsInv, RecordsNext, UNCHANGED viewVars
    PROVE  ViewsInv'
<1> USE DEF ViewsInv
<1>1. RecordsInv'
    BY RecordsStep
<1>2. page' = page /\ reads' = reads
    BY DEF viewVars
<1>3. ReadsTypeOK'
    BY <1>2 DEF ReadsTypeOK, Data, Answered, HasSubject, AllFields, FieldsRead, Statements
<1>4. AnswersAreTold'
    <2>1. SUFFICES ASSUME NEW q \in Kinds
                   PROVE  (Told(Data(q)) /\ Told(reads[q].answer))'
        BY DEF AnswersAreTold
    <2>2. PICK d, e : d = reads[q].data /\ e = reads[q].answer
        OBVIOUS
    <2>3. Told(d) /\ Told(e)
        BY <2>2 DEF AnswersAreTold, Data
    <2>4. Told(d)' /\ Told(e)'
        BY <2>3, ToldStays
    <2>5. Data(q)' = d /\ (reads[q].answer)' = e
        BY <1>2, <2>2 DEF Data
    <2> QED BY <2>4, <2>5 DEF Told, Typed, ConfirmedBy, Restored, Attempt, Restore
<1>5. TraceGoesOn'
    BY <1>2 DEF TraceGoesOn, Answered, Data, GoesOn, ConfirmedBy, Restored, Attempt, Restore
<1> QED BY <1>1, <1>3, <1>4, <1>5

\* The fields of a trace that was read.
LEMMA TraceFields ==
    ASSUME page \in {"overview", "trace"}
    PROVE  AllFields("subject") = {"incident", "decision", "kind", "lifecycle", "attempts", "verification", "run"}
<1>1. Statements("subject") = DecisionTrace
    BY GroupsAre DEF Kinds, AllPages
<1>2. /\ Len(DecisionTrace) = 3 /\ DecisionTrace[1] = {"incident", "decision"}
      /\ DecisionTrace[2] = {"kind", "lifecycle", "attempts"} /\ DecisionTrace[3] = {"verification", "run"}
    BY DEF DecisionTrace
<1>3. 1..3 = {1, 2, 3}
    OBVIOUS
<1> QED BY <1>1, <1>2, <1>3 DEF AllFields, FieldsRead

\* What the SELECTs of a page put into an answer is as of now.
LEMMA StatementsAreTold ==
    ASSUME ViewsInv, NEW q \in Kinds, Enabled(q)
    PROVE  LET answer == WithFacts(reads[q].answer, Statements(q)[reads[q].done + 1])
           IN  /\ DOMAIN answer = FieldsRead(q, reads[q].done + 1)
               /\ Told(answer)
               /\ page = "trace" /\ q = "subject" /\ Answered(q) => GoesOn(Data(q), answer)
<1> DEFINE n == reads[q].done
           S == Statements(q)[n + 1]
           a == reads[q].answer
<1> USE DEF ViewsInv
<1>1. /\ n \in Nat /\ n + 1 \in 1..Len(Statements(q)) /\ page \in AllPages
      /\ DOMAIN a = FieldsRead(q, n)
    BY GroupsAre DEF ReadsTypeOK
<1>2. DOMAIN WithFacts(a, S) = FieldsRead(q, n + 1)
    BY <1>1, FieldsAddUp DEF WithFacts
<1>3. "incident" \in S => DOMAIN a = {}
    BY <1>1, GroupsAre, FieldsAddUp
<1>4. "decision" \in S => rows.incident # "none"
    <2>1. SUFFICES ASSUME "decision" \in S PROVE rows.incident # "none"
        OBVIOUS
    <2>2. page \in {"overview", "trace"} /\ q = "subject"
        BY <1>1, <2>1, GroupsAre
    <2>3. CASE page = "trace"
        BY <2>2, <2>3 DEF Enabled
    <2>4. CASE page = "overview"
        <3>1. Answered("first") /\ Data("first").active
            BY <2>2, <2>4 DEF Enabled
        <3>2. DOMAIN Data("first") = AllFields("first")
            BY <2>4, <3>1 DEF ReadsTypeOK, HasSubject, Kinds
        <3>3. AllFields("first") = {"active", "current"}
            <4>1. Statements("first") = OperationalSummary
                BY <1>1, <2>4, GroupsAre DEF Kinds
            <4>2. Len(OperationalSummary) = 1 /\ OperationalSummary[1] = {"active", "current"}
                BY DEF OperationalSummary
            <4>3. 1..1 = {1}
                OBVIOUS
            <4> QED BY <4>1, <4>2, <4>3 DEF AllFields, FieldsRead
        <3>4. Told(Data("first"))
            BY DEF AnswersAreTold, Kinds
        <3> QED BY <3>1, <3>2, <3>3, <3>4 DEF Told
    <2> QED BY <2>2, <2>3, <2>4
<1>5. Told(WithFacts(a, S))
    BY <1>3, <1>4, ToldGrows DEF AnswersAreTold
<1>6. ASSUME page = "trace", q = "subject", Answered(q)
      PROVE  GoesOn(Data(q), WithFacts(a, S))
    <2>1. GoesOn(Data(q), a) /\ Told(Data(q))
        BY <1>6 DEF TraceGoesOn, AnswersAreTold
    <2>2. DOMAIN Data(q) = AllFields(q)
        BY <1>6 DEF ReadsTypeOK
    <2>3. {"incident", "kind", "lifecycle", "attempts", "verification", "run"} \subseteq DOMAIN Data(q)
        BY <1>6, <2>2, TraceFields
    <2> QED BY <2>1, <2>3, GoesOnGrows
<1> QED BY <1>2, <1>5, <1>6

\* A step of a read, of which the rows know nothing.
LEMMA ReadsKeepRows ==
    ASSUME ViewsInv, UNCHANGED <<recordVars, page>>,
           DOMAIN reads' = Kinds,
           \A q \in Kinds :
              /\ reads'[q] = [data |-> reads'[q].data, known |-> reads'[q].known, failed |-> reads'[q].failed,
                              answer |-> reads'[q].answer, done |-> reads'[q].done]
              /\ reads'[q].known \in BOOLEAN /\ reads'[q].failed \in BOOLEAN
              /\ reads'[q].done \in 0..(Len(Statements(q)) - 1)
              /\ DOMAIN reads'[q].answer = FieldsRead(q, reads'[q].done)
              /\ reads'[q].known /\ (q = "subject" \/ ~HasSubject) => DOMAIN reads'[q].data = AllFields(q)
              /\ ~reads'[q].known => reads'[q].data = NoAnswer
              /\ Told(reads'[q].data) /\ Told(reads'[q].answer),
           page = "trace" /\ reads'["subject"].known => GoesOn(reads'["subject"].data, reads'["subject"].answer)
    PROVE  ViewsInv'
<1>1. page' = page /\ rows' = rows /\ at' = at /\ drift' = drift
    BY DEF recordVars
<1>2. RecordsInv'
    BY <1>1 DEF ViewsInv, RecordsInv, RecordsTypeOK, HandlerFits, RowsFit, UnfinishedIsActive, AppliedBeforeEnded,
                Active, OfInstance, Recovered, Applied, ConfirmedBy
<1>3. ReadsTypeOK'
    BY <1>1 DEF ViewsInv, ReadsTypeOK, Data, Answered, HasSubject, AllFields, FieldsRead, Statements
<1>4. AnswersAreTold'
    <2>1. SUFFICES ASSUME NEW q \in Kinds
                   PROVE  (Told(Data(q)) /\ Told(reads[q].answer))'
        BY DEF AnswersAreTold
    <2>2. PICK d, e : d = reads'[q].data /\ e = reads'[q].answer
        OBVIOUS
    <2>3. Told(d) /\ Told(e)
        BY <2>2
    <2>4. Told(d)' /\ Told(e)'
        BY <1>1, <2>3 DEF Told, ConfirmedBy, Applied
    <2>5. Data(q)' = d /\ (reads[q].answer)' = e
        BY <2>2 DEF Data
    <2> QED BY <2>4, <2>5 DEF Told, Typed, ConfirmedBy, Restored, Attempt, Restore
<1>5. TraceGoesOn'
    BY <1>1 DEF TraceGoesOn, Answered, Data, GoesOn, ConfirmedBy, Restored, Attempt, Restore
<1> QED BY <1>2, <1>3, <1>4, <1>5 DEF ViewsInv

\* Another group of SELECTs is read.
LEMMA ViewsInvReadStatement ==
    ASSUME ViewsInv, NEW q \in Kinds, ReadStatement(q)
    PROVE  ViewsInv'
<1> DEFINE n == reads[q].done
           answer == WithFacts(reads[q].answer, Statements(q)[n + 1])
           more == [reads[q] EXCEPT !.answer = answer, !.done = n + 1]
           whole == [Unread EXCEPT !.data = answer, !.known = TRUE]
<1>1. /\ DOMAIN answer = FieldsRead(q, n + 1) /\ Told(answer)
      /\ page = "trace" /\ q = "subject" /\ Answered(q) => GoesOn(Data(q), answer)
    BY StatementsAreTold DEF ReadStatement
<1>2. /\ DOMAIN reads' = Kinds
      /\ \A p \in Kinds \ {q} : (reads'[p] = Unread /\ page = "overview") \/ reads'[p] = reads[p]
      /\ n + 1 = Len(Statements(q)) => reads'[q] = whole
      /\ n + 1 # Len(Statements(q)) => reads'[q] = more
      /\ UNCHANGED <<recordVars, page>>
    BY DEF ReadStatement, ViewsInv, ReadsTypeOK, Kinds
<1>3. /\ n \in Nat /\ n < Len(Statements(q)) /\ page \in AllPages
      /\ \A p \in Kinds : Len(Statements(p)) \in Nat \ {0}
    BY GroupsAre DEF ViewsInv, ReadsTypeOK
<1>4. /\ whole.data = answer /\ whole.known = TRUE /\ whole.failed = FALSE /\ whole.answer = NoAnswer /\ whole.done = 0
      /\ whole = [data |-> whole.data, known |-> whole.known, failed |-> whole.failed,
                  answer |-> whole.answer, done |-> whole.done]
    <2>1. PICK r, s, b, t, f : r = Unread /\ b = answer /\ t = TRUE /\ f = FALSE /\ s = [r EXCEPT !.data = b]
        OBVIOUS
    <2>2. s = [data |-> b, known |-> f, failed |-> f, answer |-> NoAnswer, done |-> 0]
        BY <2>1 DEF Unread
    <2>3. [s EXCEPT !.known = t] = [data |-> b, known |-> t, failed |-> f, answer |-> NoAnswer, done |-> 0]
        BY <2>2
    <2>4. [r EXCEPT !.data = b, !.known = t] = [s EXCEPT !.known = t]
        BY <2>1
    <2>5. whole = [r EXCEPT !.data = b, !.known = t]
        BY <2>1
    <2>6. whole = [data |-> b, known |-> t, failed |-> f, answer |-> NoAnswer, done |-> 0]
        BY <2>3, <2>4, <2>5
    <2> QED BY <2>1, <2>6
<1>5. /\ more.data = Data(q) /\ more.known = reads[q].known /\ more.failed = reads[q].failed
      /\ more.answer = answer /\ more.done = n + 1
      /\ more = [data |-> more.data, known |-> more.known, failed |-> more.failed,
                  answer |-> more.answer, done |-> more.done]
    <2>1. PICK r, s, m, b : r = reads[q] /\ m = n + 1 /\ b = answer /\ s = [r EXCEPT !.answer = b]
        OBVIOUS
    <2>2. r = [data |-> Data(q), known |-> r.known, failed |-> r.failed, answer |-> r.answer, done |-> r.done]
        BY <2>1 DEF ViewsInv, ReadsTypeOK
    <2>3. s = [data |-> Data(q), known |-> r.known, failed |-> r.failed, answer |-> b, done |-> r.done]
        BY <2>1, <2>2
    <2>4. [s EXCEPT !.done = m]
            = [data |-> Data(q), known |-> r.known, failed |-> r.failed, answer |-> b, done |-> m]
        BY <2>3
    <2>5. [r EXCEPT !.answer = b, !.done = m] = [s EXCEPT !.done = m]
        BY <2>1
    <2>6. more = [r EXCEPT !.answer = b, !.done = m]
        BY <2>1
    <2>7. more = [data |-> Data(q), known |-> r.known, failed |-> r.failed, answer |-> b, done |-> m]
        BY <2>4, <2>5, <2>6
    <2> QED BY <2>1, <2>7
<1>6. /\ Unread.data = NoAnswer /\ Unread.known = FALSE /\ Unread.failed = FALSE /\ Unread.answer = NoAnswer
      /\ Unread.done = 0
      /\ Unread = [data |-> Unread.data, known |-> Unread.known, failed |-> Unread.failed,
                   answer |-> Unread.answer, done |-> Unread.done]
    BY DEF Unread
<1>7. DOMAIN NoAnswer = {} /\ \A p : FieldsRead(p, 0) = {}
    BY FieldsAddUp DEF NoAnswer
<1>8. n + 1 = Len(Statements(q)) => DOMAIN answer = AllFields(q)
    BY <1>1 DEF AllFields
<1> DEFINE ReadOK(p) ==
              /\ reads'[p] = [data |-> reads'[p].data, known |-> reads'[p].known, failed |-> reads'[p].failed,
                              answer |-> reads'[p].answer, done |-> reads'[p].done]
              /\ reads'[p].known \in BOOLEAN /\ reads'[p].failed \in BOOLEAN
              /\ reads'[p].done \in 0..(Len(Statements(p)) - 1)
              /\ DOMAIN reads'[p].answer = FieldsRead(p, reads'[p].done)
              /\ reads'[p].known /\ (p = "subject" \/ ~HasSubject) => DOMAIN reads'[p].data = AllFields(p)
              /\ ~reads'[p].known => reads'[p].data = NoAnswer
              /\ Told(reads'[p].data) /\ Told(reads'[p].answer)
<1> HIDE DEF answer, more, whole
<1>9. ASSUME NEW p \in Kinds PROVE ReadOK(p)
    <2>1. CASE p # q /\ reads'[p] = reads[p]
        BY <2>1 DEF ViewsInv, ReadsTypeOK, AnswersAreTold, Data, Answered
    <2>2. CASE reads'[p] = Unread
        <3>1. 0 \in 0..(Len(Statements(p)) - 1)
            BY <1>3
        <3> QED BY <1>6, <1>7, <2>2, <3>1, NothingIsTold
    <2>3. CASE p = q /\ n + 1 = Len(Statements(q))
        <3>1. reads'[p] = whole
            BY <1>2, <2>3
        <3>2. 0 \in 0..(Len(Statements(p)) - 1)
            BY <1>3
        <3> QED BY <1>1, <1>4, <1>7, <1>8, <2>3, <3>1, <3>2, NothingIsTold
    <2>4. CASE p = q /\ n + 1 # Len(Statements(q))
        <3>1. reads'[p] = more
            BY <1>2, <2>4
        <3>2. n + 1 \in 0..(Len(Statements(p)) - 1)
            BY <1>3, <2>4
        <3>3. /\ reads[q].known \in BOOLEAN /\ reads[q].failed \in BOOLEAN
              /\ reads[q].known /\ (q = "subject" \/ ~HasSubject) => DOMAIN Data(q) = AllFields(q)
              /\ ~reads[q].known => Data(q) = NoAnswer
              /\ Told(Data(q))
            BY DEF ViewsInv, ReadsTypeOK, AnswersAreTold, Answered
        <3> QED BY <1>1, <1>5, <2>4, <3>1, <3>2, <3>3
    <2> QED BY <1>2, <2>1, <2>2, <2>3, <2>4
<1>10. ASSUME page = "trace", reads'["subject"].known
       PROVE  GoesOn(reads'["subject"].data, reads'["subject"].answer)
    <2>1. CASE q = "first"
        <3>1. reads'["subject"] = reads["subject"]
            BY <1>2, <1>10, <2>1 DEF Kinds
        <3> QED BY <1>10, <3>1 DEF ViewsInv, TraceGoesOn, Answered, Data
    <2>2. CASE q = "subject" /\ n + 1 = Len(Statements(q))
        BY <1>2, <1>4, <2>2, NothingIsTold
    <2>3. CASE q = "subject" /\ n + 1 # Len(Statements(q))
        BY <1>1, <1>2, <1>5, <1>10, <2>3 DEF Answered
    <2> QED BY <2>1, <2>2, <2>3 DEF Kinds
<1> QED BY <1>2, <1>9, <1>10, ReadsKeepRows

\* A query fails and keeps what it had.
LEMMA ViewsInvReadFails ==
    ASSUME ViewsInv, NEW q \in Kinds, ReadFails(q)
    PROVE  ViewsInv'
<1> DEFINE failed == [Unread EXCEPT !.data = Data(q), !.known = Answered(q), !.failed = TRUE]
<1>1. /\ reads' = [reads EXCEPT ![q] = failed]
      /\ UNCHANGED <<recordVars, page>>
    BY DEF ReadFails
<1>2. /\ DOMAIN reads' = Kinds /\ reads'[q] = failed
      /\ \A p \in Kinds \ {q} : reads'[p] = reads[p]
    BY <1>1 DEF ViewsInv, ReadsTypeOK
<1>3. /\ failed.data = Data(q) /\ failed.known = Answered(q) /\ failed.failed = TRUE /\ failed.answer = NoAnswer
      /\ failed.done = 0
      /\ failed = [data |-> failed.data, known |-> failed.known, failed |-> failed.failed,
                   answer |-> failed.answer, done |-> failed.done]
    <2>1. PICK r, s, t, b, k, g, f : /\ r = Unread /\ b = Data(q) /\ k = Answered(q) /\ g = TRUE /\ f = FALSE
                                     /\ s = [r EXCEPT !.data = b] /\ t = [s EXCEPT !.known = k]
        OBVIOUS
    <2>2. s = [data |-> b, known |-> f, failed |-> f, answer |-> NoAnswer, done |-> 0]
        BY <2>1 DEF Unread
    <2>3. t = [data |-> b, known |-> k, failed |-> f, answer |-> NoAnswer, done |-> 0]
        <3>1. t = [s EXCEPT !.known = k]
            BY <2>1
        <3> QED BY <2>2, <3>1
    <2>4. [t EXCEPT !.failed = g] = [data |-> b, known |-> k, failed |-> g, answer |-> NoAnswer, done |-> 0]
        BY <2>3
    <2>5. [r EXCEPT !.data = b, !.known = k, !.failed = g] = [t EXCEPT !.failed = g]
        BY <2>1
    <2>6. failed = [r EXCEPT !.data = b, !.known = k, !.failed = g]
        BY <2>1
    <2>7. failed = [data |-> b, known |-> k, failed |-> g, answer |-> NoAnswer, done |-> 0]
        BY <2>4, <2>5, <2>6
    <2> QED BY <2>1, <2>7
<1>4. DOMAIN NoAnswer = {} /\ FieldsRead(q, 0) = {} /\ 0 \in 0..(Len(Statements(q)) - 1)
    BY GroupsAre, FieldsAddUp DEF NoAnswer, ViewsInv, ReadsTypeOK
<1>5. /\ Answered(q) \in BOOLEAN
      /\ Answered(q) /\ (q = "subject" \/ ~HasSubject) => DOMAIN Data(q) = AllFields(q)
      /\ ~Answered(q) => Data(q) = NoAnswer
      /\ Told(Data(q))
    BY DEF ViewsInv, ReadsTypeOK, AnswersAreTold, Answered
<1> HIDE DEF failed
<1>6. ASSUME NEW p \in Kinds
      PROVE  /\ reads'[p] = [data |-> reads'[p].data, known |-> reads'[p].known, failed |-> reads'[p].failed,
                              answer |-> reads'[p].answer, done |-> reads'[p].done]
             /\ reads'[p].known \in BOOLEAN /\ reads'[p].failed \in BOOLEAN
             /\ reads'[p].done \in 0..(Len(Statements(p)) - 1)
             /\ DOMAIN reads'[p].answer = FieldsRead(p, reads'[p].done)
             /\ reads'[p].known /\ (p = "subject" \/ ~HasSubject) => DOMAIN reads'[p].data = AllFields(p)
             /\ ~reads'[p].known => reads'[p].data = NoAnswer
             /\ Told(reads'[p].data) /\ Told(reads'[p].answer)
    <2>1. CASE p # q
        BY <1>2, <2>1 DEF ViewsInv, ReadsTypeOK, AnswersAreTold, Data, Answered
    <2>2. CASE p = q
        BY <1>2, <1>3, <1>4, <1>5, <2>2, NothingIsTold
    <2> QED BY <2>1, <2>2
<1>7. ASSUME page = "trace", reads'["subject"].known
      PROVE  GoesOn(reads'["subject"].data, reads'["subject"].answer)
    <2>1. CASE q = "subject"
        BY <1>2, <1>3, <2>1, NothingIsTold
    <2>2. CASE q # "subject"
        <3>1. reads'["subject"] = reads["subject"]
            BY <1>2, <2>2 DEF Kinds
        <3> QED BY <1>7, <3>1 DEF ViewsInv, TraceGoesOn, Answered, Data
    <2> QED BY <2>1, <2>2
<1> QED BY <1>1, <1>2, <1>6, <1>7, ReadsKeepRows

\* A query without data starts again.
LEMMA ViewsInvReadAgain ==
    ASSUME ViewsInv, NEW q \in Kinds, ReadAgain(q)
    PROVE  ViewsInv'
<1>1. /\ DOMAIN reads' = Kinds /\ reads'[q] = Unread
      /\ \A p \in Kinds \ {q} : reads'[p] = reads[p]
      /\ UNCHANGED <<recordVars, page>>
    BY DEF ReadAgain, ViewsInv, ReadsTypeOK
<1>2. /\ Unread.data = NoAnswer /\ Unread.known = FALSE /\ Unread.failed = FALSE /\ Unread.answer = NoAnswer
      /\ Unread.done = 0
      /\ Unread = [data |-> Unread.data, known |-> Unread.known, failed |-> Unread.failed,
                   answer |-> Unread.answer, done |-> Unread.done]
    BY DEF Unread
<1>3. DOMAIN NoAnswer = {} /\ FieldsRead(q, 0) = {} /\ 0 \in 0..(Len(Statements(q)) - 1)
    BY GroupsAre, FieldsAddUp DEF NoAnswer, ViewsInv, ReadsTypeOK
<1>4. ASSUME NEW p \in Kinds
      PROVE  /\ reads'[p] = [data |-> reads'[p].data, known |-> reads'[p].known, failed |-> reads'[p].failed,
                              answer |-> reads'[p].answer, done |-> reads'[p].done]
             /\ reads'[p].known \in BOOLEAN /\ reads'[p].failed \in BOOLEAN
             /\ reads'[p].done \in 0..(Len(Statements(p)) - 1)
             /\ DOMAIN reads'[p].answer = FieldsRead(p, reads'[p].done)
             /\ reads'[p].known /\ (p = "subject" \/ ~HasSubject) => DOMAIN reads'[p].data = AllFields(p)
             /\ ~reads'[p].known => reads'[p].data = NoAnswer
             /\ Told(reads'[p].data) /\ Told(reads'[p].answer)
    <2>1. CASE p # q
        BY <1>1, <2>1 DEF ViewsInv, ReadsTypeOK, AnswersAreTold, Data, Answered
    <2>2. CASE p = q
        BY <1>1, <1>2, <1>3, <2>2, NothingIsTold
    <2> QED BY <2>1, <2>2
<1>5. page = "trace" /\ reads'["subject"].known => GoesOn(reads'["subject"].data, reads'["subject"].answer)
    <2>1. CASE q = "subject"
        BY <1>1, <1>2, <2>1
    <2>2. CASE q # "subject"
        <3>1. reads'["subject"] = reads["subject"]
            BY <1>1, <2>2 DEF Kinds
        <3> QED BY <3>1 DEF ViewsInv, TraceGoesOn, Answered, Data
    <2> QED BY <2>1, <2>2
<1> QED BY <1>1, <1>4, <1>5, ReadsKeepRows

\* Every step of the worker and of the page keeps the invariant.
LEMMA ViewsInvStep ==
    ASSUME ViewsInv, [ViewsNext]_<<recordVars, viewVars>>
    PROVE  ViewsInv'
<1>1. CASE RecordsNext /\ UNCHANGED viewVars
    BY <1>1, CommitsAreTold
<1>2. ASSUME NEW q \in DOMAIN reads, ReadStatement(q) \/ ReadFails(q) \/ ReadAgain(q)
      PROVE  ViewsInv'
    <2>1. q \in Kinds
        BY DEF ViewsInv, ReadsTypeOK
    <2> QED BY <1>2, <2>1, ViewsInvReadStatement, ViewsInvReadFails, ViewsInvReadAgain
<1>3. CASE UNCHANGED <<recordVars, viewVars>>
    <2>1. UNCHANGED <<recordVars, page>> /\ reads' = reads
        BY <1>3 DEF viewVars
    <2>2. /\ DOMAIN reads = Kinds
          /\ \A q \in Kinds :
                /\ reads[q] = [data |-> Data(q), known |-> reads[q].known, failed |-> reads[q].failed,
                               answer |-> reads[q].answer, done |-> reads[q].done]
                /\ reads[q].known \in BOOLEAN /\ reads[q].failed \in BOOLEAN
                /\ reads[q].done \in 0..(Len(Statements(q)) - 1)
                /\ DOMAIN reads[q].answer = FieldsRead(q, reads[q].done)
                /\ Answered(q) /\ (q = "subject" \/ ~HasSubject) => DOMAIN Data(q) = AllFields(q)
                /\ ~Answered(q) => Data(q) = NoAnswer
                /\ Told(Data(q)) /\ Told(reads[q].answer)
          /\ page = "trace" /\ Answered("subject") => GoesOn(Data("subject"), reads["subject"].answer)
        BY DEF ViewsInv, ReadsTypeOK, AnswersAreTold, TraceGoesOn
    <2> QED BY <2>1, <2>2, ReadsKeepRows DEF Data, Answered
<1> QED BY <1>1, <1>2, <1>3 DEF ViewsNext

-----------------------------------------------------------------------------
(* What a page claims is true. *)

TraceFieldNames == {"incident", "decision", "kind", "lifecycle", "attempts", "verification", "run"}

\* The fields of the other pages.
LEMMA PageFields ==
    /\ page = "overview" => AllFields("first") = {"active", "current"}
    /\ page = "incidents" => AllFields("first") = {"incident"}
    /\ page = "actions" => AllFields("first") = {"lifecycle"}
    /\ page = "recovery" => AllFields("first") = {"run"}
    /\ page = "action" => AllFields("subject") = {"lifecycle", "attempts", "verification"}
    /\ page = "run" => AllFields("subject") = {"run"}
<1>1. 1..1 = {1} /\ 1..2 = {1, 2}
    OBVIOUS
<1>2. /\ Len(OperationalSummary) = 1 /\ OperationalSummary[1] = {"active", "current"}
      /\ Len(IncidentList) = 1 /\ IncidentList[1] = {"incident"}
      /\ Len(ActionList) = 1 /\ ActionList[1] = {"lifecycle"}
      /\ Len(RunList) = 1 /\ RunList[1] = {"run"}
      /\ Len(RunDetail) = 1 /\ RunDetail[1] = {"run"}
      /\ Len(ActionDetail) = 2 /\ ActionDetail[1] = {"lifecycle", "attempts"} /\ ActionDetail[2] = {"verification"}
    BY DEF OperationalSummary, IncidentList, ActionList, RunList, RunDetail, ActionDetail
<1>3. /\ page = "overview" => Statements("first") = OperationalSummary
      /\ page = "incidents" => Statements("first") = IncidentList
      /\ page = "actions" => Statements("first") = ActionList
      /\ page = "recovery" => Statements("first") = RunList
      /\ page = "action" => Statements("subject") = ActionDetail
      /\ page = "run" => Statements("subject") = RunDetail
    BY DEF Statements
<1> QED BY <1>1, <1>2, <1>3 DEF AllFields, FieldsRead

\* What is told of the restore and of the samples.
LEMMA ToldOfRows ==
    ASSUME RecordsInv, NEW d, Told(d), TraceFieldNames \subseteq DOMAIN d
    PROVE  /\ Earned("decided") /\ Earned("permitted")
           /\ d.lifecycle # "none" => Earned("acted")
           /\ ConfirmedBy(d) => Earned("confirmed")
           /\ d.verification # "none" => Earned("judged")
           /\ d.lifecycle = "COMMITTED" => Earned("committed")
           /\ d.verification = "EFFECTIVE" => Earned("effective")
           /\ d.run = "COMPLETED" \/ Restored \in d.attempts => Earned("recovered")
           /\ d.incident = "RESOLVED" => Earned("resolved")
    BY DEF Told, TraceFieldNames, Earned, Recovered, Restored, Carried, RecordsInv, RowsFit

\* A tone of success is that of a value that stands for it.
LEMMA TonesOfSuccess ==
    ASSUME NEW d, Typed(d)
    PROVE  /\ "incident" \in DOMAIN d => (TraceTone(d.incident) = "success" => d.incident = "RESOLVED")
           /\ "lifecycle" \in DOMAIN d =>
                 /\ TraceTone(d.lifecycle) = "success" => d.lifecycle = "COMMITTED"
                 /\ ActionTone(d.lifecycle) = "success" => d.lifecycle = "COMMITTED"
           /\ "verification" \in DOMAIN d =>
                 /\ TraceTone(d.verification) = "success" => d.verification = "EFFECTIVE"
                 /\ ActionTone(d.verification) = "success" => d.verification = "EFFECTIVE"
           /\ "run" \in DOMAIN d => (RecoveryTone(d.run) = "success" => d.run = "COMPLETED")
           /\ "attempts" \in DOMAIN d =>
                 \A a \in d.attempts : a.status = "CONFIRMED" \/ ActionTone(a.status) = "success" => ConfirmedBy(d)
<1>1. \A v \in {"none", "RESOLVED"} \cup ActiveIncidents : TraceTone(v) = "success" => v = "RESOLVED"
    BY DEF TraceTone, ActiveIncidents
<1>2. \A v \in Lifecycles : TraceTone(v) = "success" \/ ActionTone(v) = "success" => v = "COMMITTED"
    BY DEF TraceTone, ActionTone, ActiveIncidents, Lifecycles
<1>3. \A v \in Verdicts : TraceTone(v) = "success" \/ ActionTone(v) = "success" => v = "EFFECTIVE"
    BY DEF TraceTone, ActionTone, ActiveIncidents, Verdicts
<1>4. \A v \in Runs : RecoveryTone(v) = "success" => v = "COMPLETED"
    BY DEF RecoveryTone, Runs
<1>5. \A a \in Attempts : a.status = "CONFIRMED" \/ ActionTone(a.status) = "success" => a.status = "CONFIRMED"
    BY DEF ActionTone, Attempts
<1> QED BY <1>1, <1>2, <1>3, <1>4, <1>5 DEF Typed, ConfirmedBy

\* A report that says verified is right.
LEMMA VerifiedIsEarned ==
    ASSUME RecordsInv, NEW d, Told(d), TraceFieldNames \subseteq DOMAIN d, ReportOutcome(d) = "Verified"
    PROVE  Earned("verified")
<1>1. /\ d.incident = "RESOLVED"
      /\ d.lifecycle # "none" => d.lifecycle = "COMMITTED" /\ d.verification = "EFFECTIVE"
    BY DEF ReportOutcome
<1>2. rows.incident = "RESOLVED" /\ d.lifecycle = rows.lifecycle
    BY <1>1 DEF Told, TraceFieldNames, Frozen
<1>3. rows.lifecycle # "none" => rows.verification = "EFFECTIVE" /\ rows.lifecycle = "COMMITTED"
    BY <1>1, <1>2 DEF Told, TraceFieldNames
<1> QED BY <1>2, <1>3 DEF Earned, RecordsInv, AppliedBeforeEnded, UnfinishedIsActive

\* What the trace and its report claim is true.
LEMMA TraceIsEarned ==
    ASSUME RecordsInv, NEW d, Told(d), TraceFieldNames \subseteq DOMAIN d, NEW claim \in TracePage(d)
    PROVE  Earned(claim)
<1>1. /\ claim \in Spine(d) => Earned(claim)
      /\ claim \in SafetyPermitted(d) => Earned(claim)
    BY ToldOfRows DEF Spine, SafetyPermitted, Claim, InstanceRecoveryComplete, Restored
<1>2. claim \in OutcomePanel(d) => Earned(claim)
    BY ToldOfRows, TonesOfSuccess DEF Told, TraceFieldNames, OutcomePanel, Claim, InstanceRecoveryComplete, Restored
<1>3. claim \in Report(d) => Earned(claim)
    BY ToldOfRows, VerifiedIsEarned DEF Report, Claim
<1>5. claim \in Claim(TraceTone(d.incident) = "success", "resolved") => Earned(claim)
    BY ToldOfRows, TonesOfSuccess DEF Told, TraceFieldNames, Claim
<1> QED BY <1>1, <1>2, <1>3, <1>5 DEF TracePage

\* So is what the panels of the overview claim beside the current action c of
\* the summary, unless the mark of the action is another incident's.
LEMMA OverviewIsEarned ==
    ASSUME RecordsInv, NEW d, Told(d), TraceFieldNames \subseteq DOMAIN d,
           NEW c \in {"none", "own", "other"}, c = "own" => rows.lifecycle # "none",
           NEW claim \in DecisionPanel(d, c) \cup CurrentAction(d, c)
    PROVE  Earned(claim) \/ (claim = "acted" /\ d.lifecycle = "none" /\ c = "other")
<1>1. claim = "acted" => rows.lifecycle # "none" \/ (d.lifecycle = "none" /\ c = "other")
    BY ToldOfRows DEF DecisionPanel, CurrentAction, Claim, HasShownAction, Earned
<1>2. claim # "acted" => Earned(claim)
    BY ToldOfRows DEF DecisionPanel, CurrentAction, Claim
<1>3. rows.lifecycle # "none" => Earned("acted")
    BY DEF Earned
<1> QED BY <1>1, <1>2, <1>3

\* What the open page claims is true of the rows.
LEMMA InvClaims ==
    ASSUME ViewsInv
    PROVE  ClaimsAreEarned
<1> SUFFICES ASSUME NEW claim \in Claims, claim \notin Borrowed PROVE Earned(claim)
    BY DEF ClaimsAreEarned
<1> USE DEF ViewsInv
<1>1. Screen = "page" /\ page \in AllPages
    BY DEF Claims, ReadsTypeOK
<1>2. /\ ~HasSubject => Answered("first")
      /\ HasSubject => Answered("subject")
    BY <1>1 DEF Screen, Pending, ReadsTypeOK, Kinds
<1>3. \A q \in Kinds : Answered(q) /\ (q = "subject" \/ ~HasSubject) => DOMAIN Data(q) = AllFields(q)
    BY DEF ReadsTypeOK
<1>4. Told(Data("first")) /\ Told(Data("subject"))
    BY DEF AnswersAreTold, Kinds
<1>5. CASE page = "overview"
    <2> DEFINE c == Data("first").current
    <2>1. claim \in DecisionPanel(TraceData, c) \cup CurrentAction(TraceData, c)
        BY <1>1, <1>5 DEF Claims, OverviewPage
    <2>2. TraceData # NoAnswer
        BY <2>1 DEF DecisionPanel, CurrentAction
    <2>3. Answered("subject") /\ TraceData = Data("subject")
        BY <2>2 DEF TraceData
    <2>4. TraceFieldNames \subseteq DOMAIN Data("subject")
        BY <1>3, <1>5, <2>3, TraceFields DEF Kinds, TraceFieldNames
    <2>5. "current" \in DOMAIN Data("first")
        BY <1>2, <1>3, <1>5, PageFields DEF HasSubject, Kinds
    <2>6. c \in {"none", "own", "other"} /\ (c = "own" => rows.lifecycle # "none")
        BY <1>4, <2>5 DEF Told, Typed
    <2>7. ~(claim = "acted" /\ TraceData.lifecycle = "none" /\ c = "other")
        BY <1>5, <2>2 DEF Borrowed
    <2> QED BY <1>4, <2>1, <2>3, <2>4, <2>6, <2>7, OverviewIsEarned
<1>6. CASE page = "trace"
    <2>1. claim \in TracePage(Data("subject"))
        BY <1>1, <1>6 DEF Claims
    <2>2. TraceFieldNames \subseteq DOMAIN Data("subject")
        BY <1>2, <1>3, <1>6, TraceFields DEF Kinds, TraceFieldNames, HasSubject
    <2> QED BY <1>4, <2>1, <2>2, TraceIsEarned
<1>7. CASE page = "incidents"
    <2>1. claim \in IncidentsPage(Data("first")) /\ DOMAIN Data("first") = {"incident"}
        BY <1>1, <1>2, <1>3, <1>7, PageFields DEF Claims, HasSubject, Kinds
    <2> QED BY <1>4, <2>1, TonesOfSuccess DEF IncidentsPage, Claim, Told, Earned
<1>8. CASE page = "actions"
    <2>1. claim \in ActionsPage(Data("first")) /\ DOMAIN Data("first") = {"lifecycle"}
        BY <1>1, <1>2, <1>3, <1>8, PageFields DEF Claims, HasSubject, Kinds
    <2> QED BY <1>4, <2>1, TonesOfSuccess DEF ActionsPage, Claim, Told, Earned, Carried
<1>9. CASE page = "action"
    <2>1. /\ claim \in ActionPage(Data("subject"))
          /\ DOMAIN Data("subject") = {"lifecycle", "attempts", "verification"}
        BY <1>1, <1>2, <1>3, <1>9, PageFields DEF Claims, HasSubject, Kinds
    <2>2. CASE claim \in ActionsPage(Data("subject"))
        BY <1>4, <2>1, <2>2, TonesOfSuccess DEF ActionsPage, Claim, Told, Earned, Carried
    <2>3. CASE claim = "confirmed"
               /\ \E a \in Data("subject").attempts : a.status = "CONFIRMED" \/ ActionTone(a.status) = "success"
        BY <1>4, <2>1, <2>3, TonesOfSuccess DEF Told, Earned
    <2>4. CASE claim = "judged" /\ Data("subject").verification # "none"
        BY <1>4, <2>1, <2>4 DEF Told, Earned
    <2>5. CASE claim = "effective" /\ ActionTone(Data("subject").verification) = "success"
        BY <1>4, <2>1, <2>5, TonesOfSuccess DEF Told, Earned, Carried
    <2> QED BY <2>1, <2>2, <2>3, <2>4, <2>5 DEF ActionPage, Claim
<1>10. CASE page = "recovery"
    <2>1. claim \in RecoveryPage(Data("first")) /\ DOMAIN Data("first") = {"run"}
        BY <1>1, <1>2, <1>3, <1>10, PageFields DEF Claims, HasSubject, Kinds
    <2> QED BY <1>4, <2>1, TonesOfSuccess DEF RecoveryPage, Claim, Told, Earned, Recovered
<1>11. CASE page = "run"
    <2>1. claim \in RecoveryPage(Data("subject")) /\ DOMAIN Data("subject") = {"run"}
        BY <1>1, <1>2, <1>3, <1>11, PageFields DEF Claims, HasSubject, Kinds
    <2> QED BY <1>4, <2>1, TonesOfSuccess DEF RecoveryPage, Claim, Told, Earned, Recovered
<1> QED BY <1>1, <1>5, <1>6, <1>7, <1>8, <1>9, <1>10, <1>11 DEF AllPages

-----------------------------------------------------------------------------
(* The story of the trace. *)

Forward ==
    page = "trace" /\ Answered("subject") /\ Answered("subject")' =>
        /\ Spine(Data("subject")) \subseteq Spine(Data("subject")')
        /\ ReportOutcome(Data("subject")) = "Verified" => ReportOutcome(Data("subject")') = "Verified"

\* An answer that goes on from another one has its stages and its report.
LEMMA StoriesGoOn ==
    ASSUME NEW d, NEW e, GoesOn(d, e), TraceFieldNames \subseteq DOMAIN e, TraceFieldNames \subseteq DOMAIN d
    PROVE  /\ Spine(d) \subseteq Spine(e)
           /\ ReportOutcome(d) = "Verified" => ReportOutcome(e) = "Verified"
<1>1. /\ d.lifecycle # "none" => e.lifecycle # "none"
      /\ ConfirmedBy(d) => ConfirmedBy(e)
      /\ d.verification # "none" => e.verification # "none"
      /\ d.run = "COMPLETED" => e.run = "COMPLETED"
      /\ InstanceRecoveryComplete(d) => InstanceRecoveryComplete(e)
    BY DEF GoesOn, TraceFieldNames, InstanceRecoveryComplete, Restored
<1>2. Spine(d) \subseteq Spine(e)
    BY <1>1 DEF Spine, Claim
<1>3. ASSUME ReportOutcome(d) = "Verified"
      PROVE  ReportOutcome(e) = "Verified"
    <2>1. /\ d.incident = "RESOLVED" /\ d.incident # "NEEDS_REVIEW"
          /\ d.lifecycle \notin {"RESULT_UNKNOWN", "NEEDS_REVIEW", "ROLLBACK_FAILED"}
          /\ d.verification \notin {"HARMFUL", "INEFFECTIVE"}
        BY <1>3 DEF ReportOutcome
    <2>2. /\ e.incident = d.incident /\ e.kind = d.kind /\ e.lifecycle = d.lifecycle /\ e.attempts = d.attempts
          /\ e.run = d.run /\ e.verification = d.verification
        BY <2>1 DEF GoesOn, TraceFieldNames, Frozen
    <2> QED BY <1>3, <2>2 DEF ReportOutcome
<1> QED BY <1>2, <1>3

\* A complete answer goes on from the one before it.
LEMMA StepsAreForward ==
    ASSUME ViewsInv, [ViewsNext]_<<recordVars, viewVars>>
    PROVE  Forward
<1> SUFFICES ASSUME page = "trace", Answered("subject"), Answered("subject")'
             PROVE  /\ Spine(Data("subject")) \subseteq Spine(Data("subject")')
                    /\ ReportOutcome(Data("subject")) = "Verified" => ReportOutcome(Data("subject")') = "Verified"
    BY DEF Forward
<1> USE DEF ViewsInv
<1>1. CASE Data("subject")' = Data("subject")
    BY <1>1
<1>2. ASSUME ReadStatement("subject"), reads["subject"].done + 1 = Len(Statements("subject"))
      PROVE  Data("subject")' = WithFacts(reads["subject"].answer, Statements("subject")[reads["subject"].done + 1])
    <2>1. reads'["subject"] = [Unread EXCEPT
              !.data = WithFacts(reads["subject"].answer, Statements("subject")[reads["subject"].done + 1]),
                          !.known = TRUE]
        BY <1>2 DEF ReadStatement, ReadsTypeOK, Kinds
    <2> QED BY <2>1 DEF Data, Unread
<1>3. CASE ReadStatement("subject") /\ reads["subject"].done + 1 = Len(Statements("subject"))
    <2>1. /\ GoesOn(Data("subject"), Data("subject")')
          /\ DOMAIN Data("subject")' = AllFields("subject")
        BY <1>2, <1>3, StatementsAreTold DEF ReadStatement, Kinds, AllFields
    <2>2. DOMAIN Data("subject") = AllFields("subject") /\ AllFields("subject") = TraceFieldNames
        BY TraceFields DEF ReadsTypeOK, Kinds, TraceFieldNames
    <2> QED BY <2>1, <2>2, StoriesGoOn
<1>4. CASE ReadStatement("subject") /\ reads["subject"].done + 1 # Len(Statements("subject"))
    <2>1. reads'["subject"].data = reads["subject"].data
        BY <1>4 DEF ReadStatement, ReadsTypeOK, Kinds
    <2> QED BY <2>1, <1>1 DEF Data
<1>5. CASE ReadStatement("first") \/ ReadFails("first") \/ ReadAgain("first")
    <2>1. reads'["subject"] = reads["subject"]
        BY <1>5 DEF ReadStatement, ReadFails, ReadAgain, ReadsTypeOK, Kinds
    <2> QED BY <2>1, <1>1 DEF Data
<1>6. CASE ReadFails("subject")
    <2>1. reads'["subject"] = [Unread EXCEPT !.data = Data("subject"), !.known = Answered("subject"), !.failed = TRUE]
        BY <1>6 DEF ReadFails, ReadsTypeOK, Kinds
    <2> QED BY <2>1, <1>1 DEF Data, Unread
<1>7. CASE ReadAgain("subject")
    BY <1>7 DEF ReadAgain
<1>8. CASE (RecordsNext /\ UNCHANGED viewVars) \/ UNCHANGED <<recordVars, viewVars>>
    <2>1. reads' = reads
        BY <1>8 DEF viewVars
    <2> QED BY <2>1, <1>1 DEF Data
<1> QED BY <1>1, <1>3, <1>4, <1>5, <1>6, <1>7, <1>8 DEF ViewsNext, ReadsTypeOK, Kinds

-----------------------------------------------------------------------------

\* The invariant holds of the worker and any page.
THEOREM ViewsHold == ViewsSpec => []ViewsInv
<1>1. RecordsInit /\ ViewsInit => ViewsInv
    BY ViewsInvInit
<1>2. ViewsInv /\ [ViewsNext]_<<recordVars, viewVars>> => ViewsInv'
    BY ViewsInvStep
<1> QED BY <1>1, <1>2, PTL DEF ViewsSpec

\* Whatever commits fell between the SELECTs of an answer, and however old it
\* is: each claim of each page, and of the report, is true of the rows, but for
\* the Action mark that the overview takes from the environment's current action
\* when its own incident has none.
THEOREM NothingIsClaimedTooEarly == ViewsSpec => []ClaimsAreEarned
<1>1. ViewsInv => ClaimsAreEarned
    BY InvClaims
<1> QED BY <1>1, ViewsHold, PTL

\* A stage of the trace keeps its check and a verified report stays verified.
THEOREM TheStoryIsForward == ViewsSpec => StoryIsForward
<1>1. ViewsInv /\ [ViewsNext]_<<recordVars, viewVars>> => Forward
    BY StepsAreForward
<1>2. [][Forward]_<<recordVars, viewVars>> => StoryIsForward
    BY PTL DEF StoryIsForward, Forward
<1>3. ViewsSpec => [][Forward]_<<recordVars, viewVars>>
    BY <1>1, ViewsHold, PTL DEF ViewsSpec
<1> QED BY <1>2, <1>3
=============================================================================
