----------------------------- MODULE ConsolePages -----------------------------
(***************************************************************************)
(* The shell and the pages of the console, and the stream of events that   *)
(* makes them read again, one after the other: no two of them write the    *)
(* same state, so that each is looked at with the others at rest.  (The    *)
(* tab around them is ConsoleSession, the page of the fault lab, which     *)
(* writes, is FaultLabPage.)                                               *)
(***************************************************************************)
EXTENDS AppShell, RouteMatrix, LiveMatrix, EvidenceReading, IncidentViews, DemoPages, DemoRecords, LabPayloads,
        EventStream

CONSTANT Parts \* of "shell", "demo matrix", "live matrix", "evidence", "incident",
               \* "demo pages", "demo records", "payload", "stream"

VARIABLE part  \* the part that is looked at

others == <<shellVars, matrixVars, liveVars, readingVars, recordVars, viewVars>>
pagesVars == <<part, others, demoVars, recordPageVars, labVars, streamVars>>

\* The state of a part while another one is looked at.
ShellRests == /\ small = FALSE /\ focus = "page" /\ path = "Overview"
              /\ control = <<>> /\ shell = <<>> /\ palette = <<>>
MatrixRests == /\ selected = NoCell /\ address = "none"
               /\ matrix = <<>> /\ filters = <<>> /\ active = <<>>
LiveRests == /\ shown = FALSE /\ liveFocus = OnBody
             /\ api = <<>> /\ query = <<>> /\ sheet = <<>> /\ liveTab = <<>> /\ trigger = <<>>
ReadingRests == conflicts = TRUE /\ evidence = <<>> /\ probes = <<>>
ViewsRest == rows = <<>> /\ at = "idle" /\ drift = FALSE /\ page = "none" /\ reads = <<>> /\ elsewhere = FALSE
DemoRests == trace = <<>> /\ fault = <<>>
RecordPagesRest == where = <<>> /\ told = <<>> /\ view = "none"
LabRests == /\ chosen = "none" /\ applied = "none" /\ covered = "none"
            /\ held = <<>> /\ window = <<>>

Init ==
    /\ part \in Parts
    /\ IF part = "shell" THEN ShellInit ELSE ShellRests
    /\ IF part = "demo matrix" THEN MatrixInit ELSE MatrixRests
    /\ IF part = "live matrix" THEN LiveInit ELSE LiveRests
    /\ IF part = "evidence" THEN ReadingInit ELSE ReadingRests
    /\ IF part = "incident" THEN RecordsInit /\ ViewsInit ELSE ViewsRest
    /\ IF part = "demo pages" THEN DemoInit ELSE DemoRests
    /\ IF part = "demo records" THEN RecordPagesInit ELSE RecordPagesRest
    /\ IF part = "payload" THEN LabInit ELSE LabRests
    /\ StreamInit

ShellPart == ShellNext /\ UNCHANGED <<matrixVars, liveVars, readingVars, recordVars, viewVars, demoVars, recordPageVars, labVars, streamVars>>
MatrixPart == MatrixNext /\ UNCHANGED <<shellVars, liveVars, readingVars, recordVars, viewVars, demoVars, recordPageVars, labVars, streamVars>>
LivePart == LiveNext /\ UNCHANGED <<shellVars, matrixVars, readingVars, recordVars, viewVars, demoVars, recordPageVars, labVars, streamVars>>
ReadingPart == ReadingNext /\ UNCHANGED <<shellVars, matrixVars, liveVars, recordVars, viewVars, demoVars, recordPageVars, labVars, streamVars>>
IncidentPart == ViewsNext /\ UNCHANGED <<shellVars, matrixVars, liveVars, readingVars, demoVars, recordPageVars, labVars, streamVars>>
DemoPart == DemoNext /\ UNCHANGED <<others, recordPageVars, labVars, streamVars>>
RecordsPart == RecordPagesNext /\ UNCHANGED <<shellVars, liveVars, readingVars, recordVars, viewVars, demoVars, labVars, streamVars>>
PayloadPart == LabNext /\ UNCHANGED <<others, demoVars, recordPageVars, streamVars>>
StreamPart == StreamNext /\ UNCHANGED <<others, demoVars, recordPageVars, labVars>>

Next ==
    /\ \/ part = "shell" /\ ShellPart
       \/ part = "demo matrix" /\ MatrixPart
       \/ part = "live matrix" /\ LivePart
       \/ part = "evidence" /\ ReadingPart
       \/ part = "incident" /\ IncidentPart
       \/ part = "demo pages" /\ DemoPart
       \/ part = "demo records" /\ RecordsPart
       \/ part = "payload" /\ PayloadPart
       \/ part = "stream" /\ StreamPart
    /\ UNCHANGED part

Spec == Init /\ [][Next]_pagesVars

-----------------------------------------------------------------------------
(* The invariants of the parts; what they say of a part at rest is known. *)

\* What stands beside what is of one thing: whatever the shell offers has a
\* page of its own and nothing simulated is shown as live or live as simulated,
\* drift is never silently out of view, in either matrix, the demo's grid can
\* be reached with Tab (the compact one loses its tab stop to the route it leaves
\* out, and then only), the tag of a live sheet is that of its record, the trace
\* shows one stage and the phrase its scenario, and a link leads to the record it
\* names, see AppShell, RouteMatrix, LiveMatrix, DemoPages and DemoRecords.
PagesAreCoherent ==
    /\ part = "shell" => OfferedPagesExist /\ SourceIsNamed
    /\ part = "demo matrix" => DriftIsSeen /\ OneTabStop
    /\ part = "live matrix" => SheetTagIsSound
    /\ part = "demo pages" => TraceIsOfOneStage /\ PhraseIsForItsScenario
    /\ part = "demo records" => LinksLeadHome

\* What a page or the report shows as done has been done and confirmed (but for
\* the one mark that the overview may take from another incident), and a
\* payload of the fault lab provokes what the page says it will, see
\* IncidentViews and LabPayloads.
PagesTellTheTruth ==
    /\ part = "incident" => ClaimsAreEarned
    /\ part = "payload" => PayloadsBehaveAsTold
=============================================================================
