---------------------------- MODULE IncidentViews ----------------------------
(***************************************************************************)
(* The pages of the live console that tell the story of an incident        *)
(* (features/overview, incidents, actions, recovery), the report that can  *)
(* be downloaded (lib/reports) and the read models of the API they are     *)
(* made of (routers/operations.py), over the rows of IncidentRecords.      *)
(*                                                                         *)
(* A read is several SELECTs, each of which sees what is committed by      *)
(* then: the worker may commit between two of them.  A page goes on to     *)
(* show the last answer while the rows move on.                            *)
(*                                                                         *)
(* Of a page the module keeps what it claims: the steps it marks as done   *)
(* and the states it shows in the tone of success.                         *)
(***************************************************************************)
EXTENDS IncidentRecords, Sequences

CONSTANT Pages \* the pages that are looked at

VARIABLES
    page,     \* the page that is open
    reads,    \* the queries of the page
    elsewhere \* the newest action in progress is one of another incident

viewVars == <<page, reads, elsewhere>>

AllPages == {"overview", "incidents", "trace", "actions", "action", "recovery", "run"}
ASSUME PagesAssumption == Pages \subseteq AllPages

-----------------------------------------------------------------------------
(* Queries. *)

\* The fields that one group of SELECTs after the other puts into an answer
\* (BOUND: a commit falls between the groups: of a trace the incident with its
\* certificate, the action with its attempts, what came of it).
OperationalSummary == << {"active", "current"} >>
IncidentList == << {"incident"} >>
DecisionTrace == << {"incident", "decision"}, {"kind", "lifecycle", "attempts"}, {"verification", "run"} >>
ActionList == << {"lifecycle"} >>
ActionDetail == << {"lifecycle", "attempts"}, {"verification"} >>
RunList == << {"run"} >>
RunDetail == << {"run"} >>

\* The query that every page starts with, and the one of its subject.
Statements(q) ==
    CASE q = "first" /\ page = "overview" -> OperationalSummary
      [] q = "first" /\ page = "incidents" -> IncidentList
      [] q = "first" /\ page = "actions" -> ActionList
      [] q = "subject" /\ page \in {"overview", "trace"} -> DecisionTrace
      [] q = "subject" /\ page = "action" -> ActionDetail
      [] q = "first" /\ page = "recovery" -> RunList
      [] OTHER -> RunDetail

NoAnswer == <<>>
Unread == [data |-> NoAnswer, known |-> FALSE, failed |-> FALSE, answer |-> NoAnswer, done |-> 0]
Data(q) == reads[q].data
Answered(q) == reads[q].known

HasSubject == page \in {"trace", "action", "run"}

\* A query is disabled as long as nothing names what it asks for.  (Of the
\* list behind a subject nothing is on the page: BOUND, it is not read again.)
Enabled(q) ==
    CASE q = "first" -> ~HasSubject
      [] q = "subject" -> CASE page = "overview" -> Answered("first") /\ Data("first").active
                            [] page = "trace" -> rows.incident # "none"
                            [] page = "action" -> rows.lifecycle # "none"
                            [] page = "run" -> rows.run # "none"
                            [] OTHER -> FALSE

\* The current action of the summary is the newest of the environment, of
\* whatever incident, that has not come to one of four ends: an action whose
\* result is unknown, or whose rollback failed, stays the current one.  It comes
\* without its attempts.
InProgress == rows.lifecycle \notin {"none", "COMMITTED", "ROLLED_BACK", "FAILED", "NEEDS_REVIEW"}
SummaryAction == IF elsewhere THEN "other" ELSE IF InProgress THEN "own" ELSE "none"

\* The class and the certificate are of one commit.
Fact(f) ==
    CASE f = "active" -> Active
      [] f = "current" -> SummaryAction
      [] f = "decision" -> IF rows.class \in ActionClasses /\ rows.allowed THEN "act" ELSE "leave"
      [] OTHER -> rows[f]

ViewsInit ==
    /\ page \in Pages
    \* a subject is opened from its list, which is in the cache
    \* BOUND: chosen once, since a summary keeps nothing of the one before
    /\ elsewhere \in IF page = "overview" THEN BOOLEAN ELSE {FALSE}
    /\ reads = [q \in {"first", "subject"} |-> [Unread EXCEPT !.known = (q = "first" /\ HasSubject)]]

\* An answer with the fields of another group of SELECTs.
WithFacts(answer, fields) ==
    [f \in DOMAIN answer \cup fields |-> IF f \in fields THEN Fact(f) ELSE answer[f]]

\* The next SELECT; the last one completes the answer.  A summary without an
\* active incident leaves the trace without a name, and so without data.
ReadStatement(q) ==
    LET read == reads[q]
        answer == WithFacts(read.answer, Statements(q)[read.done + 1])
    IN  /\ Enabled(q)
        /\ reads' = [p \in DOMAIN reads |->
              IF p # q THEN IF page = "overview" /\ q = "first" /\ ~answer.active THEN Unread ELSE reads[p]
              ELSE IF read.done + 1 = Len(Statements(q)) THEN [Unread EXCEPT !.data = answer, !.known = TRUE]
              ELSE [read EXCEPT !.answer = answer, !.done = @ + 1]]
        /\ UNCHANGED <<recordVars, page, elsewhere>>
\* A failed query keeps its data; without data it loads again.
ReadFails(q) ==
    /\ Enabled(q) /\ ~reads[q].failed
    \* The overview does not tell a trace that failed from one that is pending.
    \* BOUND: a failed summary hides the page as a failed list does.
    /\ page # "overview"
    /\ reads' = [reads EXCEPT ![q] = [Unread EXCEPT !.data = Data(q), !.known = Answered(q), !.failed = TRUE]]
    /\ UNCHANGED <<recordVars, page, elsewhere>>
ReadAgain(q) ==
    /\ reads[q].failed /\ ~Answered(q)
    /\ reads' = [reads EXCEPT ![q] = Unread]
    /\ UNCHANGED <<recordVars, page, elsewhere>>

ViewsNext ==
    \/ RecordsNext /\ UNCHANGED viewVars
    \/ \E q \in DOMAIN reads : ReadStatement(q) \/ ReadFails(q) \/ ReadAgain(q)

ViewsSpec == RecordsInit /\ ViewsInit /\ [][ViewsNext]_<<recordVars, viewVars>>

\* What the page shows as a whole.
Pending(q) == ~Answered(q) /\ ~reads[q].failed
Screen ==
    IF Pending("first") THEN "loading"
    ELSE IF reads["first"].failed THEN "failure"
    ELSE IF HasSubject /\ Pending("subject") THEN "loading subject"
    ELSE IF HasSubject /\ reads["subject"].failed THEN "subject unavailable"
    ELSE "page"

-----------------------------------------------------------------------------
(* Tones, each page with a table of its own. *)

TraceTone(value) ==
    CASE value \in {"RESOLVED", "EFFECTIVE", "HEALTHY", "COMMITTED"} -> "success"
      [] value \in {"FAILED", "HARMFUL", "ROLLBACK_FAILED"} -> "danger"
      [] value \in ActiveIncidents -> "warning"
      [] OTHER -> "neutral"
\* Mutant: a command that was sent counts as a success.
ActionToneOfIssued(value) ==
    CASE value \in {"COMMITTED", "CONFIRMED", "ISSUED", "EFFECTIVE"} -> "success"
      [] value \in {"FAILED", "HARMFUL", "ROLLBACK_FAILED"} -> "danger"
      [] OTHER -> "neutral"
ActionTone(value) ==
    CASE value \in {"COMMITTED", "CONFIRMED", "EFFECTIVE"} -> "success"
      [] value \in {"FAILED", "HARMFUL", "ROLLBACK_FAILED"} -> "danger"
      [] value \in {"PREPARED", "APPLYING", "APPLIED", "VERIFYING", "ACKNOWLEDGMENT_LOST"} -> "warning"
      [] OTHER -> "neutral"
RecoveryTone(value) ==
    CASE value \in {"COMPLETED", "VERIFIED", "HEALTHY"} -> "success"
      [] value \in {"FAILED", "NEEDS_REVIEW", "ROLLED_BACK"} -> "danger"
      [] value \in {"RUNNING", "CURRENT", "PROBING"} -> "warning"
      [] OTHER -> "neutral"

\* {claim} if it is made.
Claim(made, claim) == IF made THEN {claim} ELSE {}

-----------------------------------------------------------------------------
(* The decision trace. *)

ConfirmedBy(d) == \E a \in d.attempts : a.status \in {"CONFIRMED", "ACKNOWLEDGEMENT_LOST_CONFIRMED"}
InstanceRecoveryComplete(d) ==
    /\ d.kind = "INSTANCE_QUARANTINE" /\ d.verification = "EFFECTIVE"
    /\ Attempt(Restore, "CONFIRMED") \in d.attempts

\* Mutant: the stage of the action is told from its lifecycle at the moment.
SpineOfTheMoment(d) ==
    {"decided"}
    \cup Claim(d.lifecycle \in {"PREPARED", "VERIFYING"}, "acted")
    \cup Claim(ConfirmedBy(d), "confirmed")
    \cup Claim(d.verification # "none", "judged")
    \cup Claim(d.run = "COMPLETED" \/ InstanceRecoveryComplete(d), "recovered")

\* The spine: the stages that carry a check.
Spine(d) ==
    {"decided"}
    \cup Claim(d.lifecycle # "none", "acted")
    \cup Claim(ConfirmedBy(d), "confirmed")
    \cup Claim(d.verification # "none", "judged")
    \cup Claim(d.run = "COMPLETED" \/ InstanceRecoveryComplete(d), "recovered")

\* The candidates with a shield: an action, or to leave things as they are.
SafetyPermitted(d) == Claim(d.decision = "act", "permitted")

\* The panel of the action; without an action it claims nothing.
OutcomePanel(d) ==
    IF d.lifecycle = "none" THEN {}
    ELSE Claim(TraceTone(d.lifecycle) = "success", "committed")
         \cup Claim(ConfirmedBy(d), "confirmed")
         \cup Claim(TraceTone(d.verification) = "success", "effective")
         \cup Claim(d.run = "none" /\ InstanceRecoveryComplete(d), "recovered")

\* The report (its chapter on the stages is that of the page of the run).
ReportOutcome(d) ==
    LET restored == Attempt(Restore, "CONFIRMED") \in d.attempts
        recoveryVerified ==
            \/ d.run = "COMPLETED"
            \/ d.kind = "INSTANCE_QUARANTINE" /\ d.verification = "EFFECTIVE" /\ restored
    IN  IF \/ d.incident = "NEEDS_REVIEW"
           \/ d.lifecycle \in {"RESULT_UNKNOWN", "NEEDS_REVIEW", "ROLLBACK_FAILED"}
           \/ d.verification \in {"HARMFUL", "INEFFECTIVE"}
        THEN "Needs review"
        ELSE IF /\ d.incident = "RESOLVED"
                /\ d.lifecycle # "none" =>
                     /\ d.lifecycle = "COMMITTED" /\ d.verification = "EFFECTIVE"
                     /\ d.run = "none" \/ recoveryVerified
        THEN "Verified" ELSE "In progress"
Report(d) ==
    Claim(ReportOutcome(d) = "Verified", "verified")
    \cup Claim(d.lifecycle = "COMMITTED", "committed")
    \cup Claim(d.verification = "EFFECTIVE", "effective")
    \cup Claim(d.run = "COMPLETED", "recovered")

TracePage(d) ==
    Claim(TraceTone(d.incident) = "success", "resolved")
    \cup Spine(d) \cup SafetyPermitted(d) \cup OutcomePanel(d) \cup Report(d)

-----------------------------------------------------------------------------
(* The overview: its decision panel stands on the trace of the active      *)
(* incident, once that is read.                                            *)

TraceData == IF Answered("subject") THEN Data("subject") ELSE NoAnswer

\* The action the overview shows: that of the trace or else the current one of
\* the summary, c, which need not be of this incident.
HasShownAction(d, c) == d.lifecycle # "none" \/ c # "none"

\* Mutant: the verification is marked as soon as there is an action.
DecisionPanelEager(d, c) ==
    IF d = NoAnswer THEN {}
    ELSE {"decided"}
         \cup Claim(HasShownAction(d, c), "acted")
         \cup Claim(ConfirmedBy(d), "confirmed")
         \cup Claim(HasShownAction(d, c), "judged")
         \cup Claim(d.run = "COMPLETED", "recovered")
         \cup Claim(d.verification = "EFFECTIVE", "effective")

\* Without a trace the panel says that no intervention is active.
DecisionPanel(d, c) ==
    IF d = NoAnswer THEN {}
    ELSE {"decided"}
         \cup Claim(HasShownAction(d, c), "acted")
         \cup Claim(ConfirmedBy(d), "confirmed") \* a summary has no attempts
         \cup Claim(d.verification # "none", "judged")
         \cup Claim(d.run = "COMPLETED", "recovered")
         \cup Claim(d.verification = "EFFECTIVE", "effective") \* the bar of samples

\* The panels of the current action and of what happens next.  The lifecycle of
\* a current action that is not the trace's is no success.
CurrentAction(d, c) ==
    IF d = NoAnswer THEN {}
    ELSE Claim(d.lifecycle = "COMMITTED", "committed")
         \cup Claim(HasShownAction(d, c) /\ d.verification = "EFFECTIVE", "effective")
         \cup Claim(d.run = "COMPLETED", "recovered")

\* The headline and the tag over a page without an active incident claim nothing
\* of an incident, and are left out.
OverviewPage ==
    LET c == Data("first").current
    IN  DecisionPanel(TraceData, c) \cup CurrentAction(TraceData, c)

-----------------------------------------------------------------------------
(* Lists, and the details of an action and of a run. *)

IncidentsPage(d) == Claim(TraceTone(d.incident) = "success", "resolved")

ActionsPage(d) == Claim(ActionTone(d.lifecycle) = "success", "committed")
ActionPage(d) ==
    ActionsPage(d)
    \cup Claim(\E a \in d.attempts : a.status = "CONFIRMED" \/ ActionTone(a.status) = "success", "confirmed")
    \cup Claim(d.verification # "none", "judged")
    \cup Claim(ActionTone(d.verification) = "success", "effective")

RecoveryPage(d) == Claim(RecoveryTone(d.run) = "success", "recovered")

\* What the open page claims of the incident.
Claims ==
    IF Screen # "page" THEN {}
    ELSE CASE page = "overview" -> OverviewPage
           [] page = "incidents" -> IncidentsPage(Data("first"))
           [] page = "trace" -> TracePage(Data("subject"))
           [] page = "actions" -> ActionsPage(Data("first"))
           [] page = "action" -> ActionPage(Data("subject"))
           [] page = "recovery" -> RecoveryPage(Data("first"))
           [] page = "run" -> RecoveryPage(Data("subject"))

-----------------------------------------------------------------------------
(* Properties. *)

\* What the rows say of a claim, now.
\* A worker that died before it issued a command, and whose successor finds
\* the Runtime as requested, leaves an action without an attempt of it.
Applied == ConfirmedBy(rows) \/ \A a \in rows.attempts : a.op = Restore
Recovered == rows.run = "COMPLETED" \/ Attempt(Restore, "CONFIRMED") \in rows.attempts
Earned(claim) ==
    CASE claim = "decided" -> rows.class # "none"
      [] claim = "acted" -> rows.lifecycle # "none"
      [] claim = "permitted" -> rows.incident # "none"
      [] claim = "confirmed" -> ConfirmedBy(rows)
      [] claim = "judged" -> rows.verification # "none"
      [] claim = "committed" -> rows.lifecycle \in {"COMMITTED", "RESULT_UNKNOWN"} /\ Applied
      [] claim = "effective" -> rows.lifecycle \in {"COMMITTED", "RESULT_UNKNOWN"} /\ Applied
      [] claim = "recovered" -> Recovered
      [] claim = "resolved" -> rows.incident = "RESOLVED"
      [] claim = "verified" -> /\ rows.incident = "RESOLVED"
                               /\ rows.lifecycle # "none" =>
                                    Applied /\ rows.verification = "EFFECTIVE" /\ (Recovered \/ ~rows.owned)

\* The one mark that can be another incident's: the overview's Action, when the
\* trace has none and the summary's current action is not of this incident.
Borrowed ==
    IF /\ page = "overview" /\ TraceData # NoAnswer /\ TraceData.lifecycle = "none"
       /\ Data("first").current = "other"
    THEN {"acted"} ELSE {}

\* Nothing is shown as done that the worker did not do and confirm: whatever
\* commits fell between the SELECTs of an answer, and however old it is, each
\* claim of each page, and of the report, is true of the rows, but for the mark
\* that the overview borrows.
ClaimsAreEarned == \A claim \in Claims \ Borrowed : Earned(claim)

\* The story only goes forward: a stage with a check keeps it, and a verified
\* report stays verified, in every later answer.
StoryIsForward ==
    [][page = "trace" /\ Answered("subject") /\ Answered("subject")' =>
         /\ Spine(Data("subject")) \subseteq Spine(Data("subject")')
         /\ ReportOutcome(Data("subject")) = "Verified" => ReportOutcome(Data("subject")') = "Verified"
      ]_<<recordVars, viewVars>>
=============================================================================
