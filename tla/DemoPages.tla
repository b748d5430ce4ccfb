------------------------------ MODULE DemoPages ------------------------------
(***************************************************************************)
(* Two pages of the demo that lead the operator through steps: the         *)
(* Decision Trace (components/decision-trace.tsx), a walk along the stages *)
(* of a decision with an inspector beside it, and the demo's Fault Lab     *)
(* (components/lab-pages.tsx), where a hazardous injection is configured   *)
(* and then confirmed by typing a phrase.  The demo's snapshot is constant *)
(* and the demo executes nothing, so that all there is to get wrong is     *)
(* what stands beside what.                                                *)
(***************************************************************************)
EXTENDS Integers, Sequences, SequencesExt

VARIABLES
    trace,  \* the useState values of DecisionTrace
    fault   \* the useState values of FaultLabPage, the scenario its phrase was
            \* typed for, and whether the window is narrow

demoVars == <<trace, fault>>

-----------------------------------------------------------------------------
(* The Decision Trace. *)

Stage(id, status) == [id |-> id, status |-> status]
traceStages ==
    << Stage("evidence", "complete"), Stage("fingerprint", "complete"),
       Stage("classification", "complete"), Stage("confidence", "complete"),
       Stage("safety", "complete"), Stage("routing-unit", "complete"),
       Stage("haproxy", "complete"), Stage("verification", "current"), Stage("outcome", "blocked") >>
chapterMap ==
    << [label |-> "Observe", stages |-> <<"evidence">>],
       [label |-> "Localize", stages |-> <<"fingerprint", "classification", "confidence">>],
       [label |-> "Bound", stages |-> <<"safety", "routing-unit">>],
       [label |-> "Act", stages |-> <<"haproxy">>],
       [label |-> "Verify", stages |-> <<"verification">>],
       [label |-> "Recover", stages |-> <<"outcome">>] >>

\* findIndex, 0 if there is none; the selected stage is the first one then.
selectedIndex == SelectInSeq(traceStages, LAMBDA s : s.id = trace.selectedId)
selectedStage == IF selectedIndex = 0 THEN traceStages[1] ELSE traceStages[selectedIndex]
currentChapter == {c \in ToSet(chapterMap) : trace.selectedId \in ToSet(c.stages)}

\* The inspector of each stage; an unknown one falls to the default.
inspectorContent ==
    CASE trace.selectedId = "evidence" -> "Evidence"
      [] trace.selectedId = "fingerprint" -> "Fingerprint"
      [] trace.selectedId \in {"classification", "confidence"} -> "Classification"
      [] trace.selectedId \in {"safety", "routing-unit"} -> "Scope"
      [] trace.selectedId = "haproxy" -> "Action"
      [] trace.selectedId = "verification" -> "Verification"
      [] OTHER -> "Outcome"

\* The chapter bar, the list of stages and the inspector.
ChapterState(c) ==
    LET statuses == {s.status : s \in {t \in ToSet(traceStages) : t.id \in ToSet(c.stages)}} IN
    CASE "current" \in statuses -> "current"
      [] statuses = {"complete"} -> "complete"
      [] OTHER -> "pending"
Chapters == [i \in 1..Len(chapterMap) |->
                [state |-> ChapterState(chapterMap[i]), selected |-> chapterMap[i] \in currentChapter]]
StageList == {s.id : s \in {t \in ToSet(traceStages) : t.id = trace.selectedId}}
Inspector ==
    [chapter |-> {c.label : c \in currentChapter}, heading |-> selectedStage.id, status |-> selectedStage.status,
     content |-> inspectorContent, raw |-> IF trace.showRaw THEN selectedStage.id ELSE "none"]

SetSelected(id) == trace' = [trace EXCEPT !.selectedId = id] /\ UNCHANGED fault

ToggleRaw == trace' = [trace EXCEPT !.showRaw = ~@] /\ UNCHANGED fault
ChooseChapter == \E c \in ToSet(chapterMap) : SetSelected(c.stages[1])
ChooseStage == \E s \in ToSet(traceStages) : SetSelected(s.id)

\* traceStages[i]?.id
IdAt(i) == IF i \in 1..Len(traceStages) THEN traceStages[i].id ELSE "undefined"

\* Mutant: only the first stage disables a button.
StepBeyond ==
    \/ selectedIndex # 1 /\ SetSelected(IdAt(selectedIndex - 1))
    \/ SetSelected(IdAt(selectedIndex + 1))

\* Previous and Next.
StepStage ==
    \/ selectedIndex # 1 /\ SetSelected(IdAt(selectedIndex - 1))
    \/ selectedIndex # Len(traceStages) /\ SetSelected(IdAt(selectedIndex + 1))

-----------------------------------------------------------------------------
(* The demo's Fault Lab. *)

faultScenarios == {"route-local", "slow-instance", "shared-route", "overload"}
Phrases == {"", "INJECT LOCAL LAB"}

\* Scope or confirmation, each of the chosen scenario; the button that would
\* inject is disabled whatever was typed.
FaultPage ==
    IF fault.step = "configure"
    THEN [kicker |-> "Step 1 - scope", target |-> fault.scenario, review |-> ~fault.small, typed |-> ""]
    ELSE [kicker |-> "Step 2 - confirm", target |-> fault.scenario, review |-> FALSE, typed |-> fault.typed]

Fault(new) == fault' = new /\ UNCHANGED trace

ChooseScenario(s) ==
    Fault([fault EXCEPT !.scenario = s, !.step = "configure", !.typed = "", !.for = "none"])
ReviewInjection == FaultPage.review /\ Fault([fault EXCEPT !.step = "confirm"])
TypePhrase(phrase) ==
    fault.step = "confirm" /\ Fault([fault EXCEPT !.typed = phrase, !.for = fault.scenario])
BackToScope == fault.step = "confirm" /\ Fault([fault EXCEPT !.step = "configure"])
Resize == Fault([fault EXCEPT !.small = ~@])

-----------------------------------------------------------------------------
DemoInit ==
    /\ trace = [selectedId |-> "verification", showRaw |-> FALSE]
    /\ fault = [scenario |-> "route-local", step |-> "configure", typed |-> "", for |-> "none", small |-> FALSE]

DemoNext ==
    \/ ToggleRaw \/ ChooseChapter \/ ChooseStage \/ StepStage
    \/ \E s \in faultScenarios : ChooseScenario(s)
    \/ ReviewInjection \/ (\E p \in Phrases : TypePhrase(p)) \/ BackToScope \/ Resize

-----------------------------------------------------------------------------
(* Properties. *)

\* The parts of the trace show one and the same stage: the list marks it, the
\* bar marks its chapter, and the heading, the raw fields and the content of
\* the inspector are its own, however it was reached.
TraceIsOfOneStage ==
    /\ StageList = {Inspector.heading}
    /\ Inspector.raw \in {"none", Inspector.heading}
    /\ \E i \in 1..Len(Chapters) :
         /\ {j \in 1..Len(Chapters) : Chapters[j].selected} = {i}
         /\ Inspector.heading \in ToSet(chapterMap[i].stages)
         /\ Inspector.chapter = {chapterMap[i].label}
    /\ Inspector.content = "Outcome" <=> Inspector.heading = "outcome"

\* A confirmation is of the scenario it stands beside: the phrase on screen
\* was typed for the scenario that is shown, not for one chosen before.
PhraseIsForItsScenario == FaultPage.typed # "" => fault.for = FaultPage.target
=============================================================================
