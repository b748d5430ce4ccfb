--------------------------- MODULE Reintegration ---------------------------
(***************************************************************************)
(* The staged return of one quarantined route membership to service:       *)
(* ReintegrationRun and its ReintegrationStages, driven by the control     *)
(* worker (worker.py) one tick at a time, against the HAProxy Runtime.     *)
(*                                                                         *)
(* A stage transition is two database transactions around a Runtime        *)
(* command: _set_reintegration_state commits the desired state, sends      *)
(* "set weight" and "set state", and only then does the handler commit     *)
(* the new CURRENT stage.  The variable pc is the position of the worker   *)
(* between these points; an exception, a lost acknowledgement or a crash   *)
(* (Interrupt) drops whatever was not committed.                           *)
(*                                                                         *)
(* Abstracted: sample counts and error rates of a stage to three classes   *)
(* of evidence, clocks to the age of the CURRENT stage, the event log,     *)
(* the observed_weight and sample_count shown to operators.  One worker    *)
(* runs.                                                                   *)
(***************************************************************************)
EXTENDS Integers

CONSTANTS
  Rungs,           \* number of canary stages between PROBING and HEALTHY
  Weight,          \* requested_weight of canary stage 1 .. Rungs
  ProbePasses,     \* minimum_samples of PROBING: consecutive passing probes
  MaxRetries,      \* maximum_reintegration_retries
  BaselineWeight,  \* RouteMembership.baseline_weight
  StaticWeight     \* the weight haproxy.cfg gives every server at start

ASSUME RungsAssumption == Rungs \in Nat \ {0}
ASSUME WeightAssumption ==
  /\ Weight \in [1..Rungs -> Nat \ {0}]
  /\ \A i, j \in 1..Rungs : i < j => Weight[i] < Weight[j]
ASSUME LimitsAssumption ==
  /\ ProbePasses \in Nat \ {0}
  /\ MaxRetries \in Nat
  /\ BaselineWeight \in Nat
  /\ StaticWeight \in Nat

VARIABLES
  runStatus,     \* ReintegrationRun.status, "NONE" before the run exists
  retryCount,    \* ReintegrationRun.retry_count
  lastVerified,  \* ReintegrationRun.last_verified_stage, as a stage index
  stage,         \* ReintegrationStage.status, by stage index
  passes,        \* ReintegrationStage.sample_count of PROBING
  age,           \* time since started_at of the CURRENT stage
  desired,       \* DesiredRouteState of the membership
  incident,      \* Incident.status
  reset,         \* LabResetRequest.status of the latest request
  runtime,       \* what HAProxy applies to the server
  target,        \* the health of the target, as probes and checks see it
  evidence,      \* the class of the real-traffic evidence on the target
  pc, job, next, \* where the worker is inside a tick, and for which purpose
  foreign        \* history: a restart or a lab reset has set the Runtime

run == <<runStatus, retryCount, lastVerified, stage, passes, age>>
database == <<run, desired, incident, reset>>
worker == <<pc, job, next>>
traffic == <<target, evidence>>
vars == <<database, runtime, traffic, worker, foreign>>

Probing == 0
Healthy == Rungs + 1
Stages == Probing .. Healthy
Quarantined == -1          \* last_verified_stage before PROBING is verified
Canaries == 1 .. Rungs

\* requested_weight of a stage that has one: HEALTHY repeats the top rung.
RequestedWeight(s) == IF s = Healthy THEN Weight[Rungs] ELSE Weight[s]
\* Mutant: the baseline is restored one stage early.
EntryWeightEarly(s) == IF s >= Rungs - 1 THEN BaselineWeight ELSE Weight[s]
\* The weight sent on entering a stage: HEALTHY restores the baseline.
EntryWeight(s) == IF s = Healthy THEN BaselineWeight ELSE Weight[s]
AdminFor(w) == IF w > 0 THEN "ready" ELSE "drain"
\* Mutant: a failed stage falls back to full weight.
FallbackWeightFull(v) == IF v \in Canaries THEN Weight[Rungs] ELSE 0
\* fallback_weight, as a function of last_verified_stage
FallbackWeight(v) == IF v \in Canaries THEN Weight[v] ELSE 0

\* The classes of evidence of a canary stage.  "harmful": at least two
\* samples and an error rate above healthy_rate.  "adequate": the minimum
\* of samples and a healthy rate.  "scarce": everything else.
Evidence == {"scarce", "harmful", "adequate"}

Admins == {"ready", "drain"}
ActiveIncident == {"MITIGATING", "RECOVERING", "NEEDS_REVIEW"}

TypeOK ==
  /\ runStatus \in {"NONE", "ACTIVE", "COMPLETED", "NEEDS_REVIEW", "CANCELLED"}
  /\ retryCount \in 0 .. MaxRetries + 1
  /\ lastVerified \in Quarantined .. Healthy
  /\ stage \in [Stages -> {"PENDING", "CURRENT", "VERIFIED", "FAILED", "CANCELLED"}]
  /\ passes \in 0 .. ProbePasses
  /\ age \in {"cooling", "dwelling", "late"}
  /\ desired \in [admin : Admins, weight : Nat, source : {"action", "reset"}]
  /\ incident \in ActiveIncident \cup {"RESOLVED"}
  /\ reset \in {"NONE", "REQUESTED", "RUNNING", "NEEDS_REVIEW", "COMPLETED"}
  /\ runtime \in [admin : Admins, weight : Nat]
  /\ target \in {"ok", "failing", "down"}
  /\ evidence \in Evidence
  /\ pc \in {"idle", "weight", "state", "finish"}
  /\ job \in {"none", "enter", "fallback", "reset", "reset_failed"}
  /\ next \in Stages
  /\ foreign \in BOOLEAN

-----------------------------------------------------------------------------
\* What the Runtime reads back: a server whose health check fails reads as
\* "down" whatever its administrative state.
Observed == [admin  |-> IF target = "down" THEN "down" ELSE runtime.admin,
             weight |-> runtime.weight]

\* Mutant: the administrative state is not compared.
MatchesDesiredWeight == Observed.weight = desired.weight
MatchesDesired ==
  Observed.admin = desired.admin /\ Observed.weight = desired.weight

MatchesStage(s) ==
  /\ Observed.weight = RequestedWeight(s)
  /\ Observed.admin = AdminFor(RequestedWeight(s))

\* A lab reset that waits or runs is served before anything else, and one
\* that ended in NEEDS_REVIEW stops the tick.
ResetPending == reset \in {"REQUESTED", "RUNNING"}
ResetTakesOver == reset \notin {"NONE", "COMPLETED"}
TickReaches == pc = "idle" /\ ~ResetTakesOver

Current(s) == stage[s] = "CURRENT"
RunActive == TickReaches /\ runStatus = "ACTIVE"

Init ==
  /\ runStatus = "NONE"
  /\ retryCount = 0
  /\ lastVerified = Quarantined
  /\ stage = [s \in Stages |-> "PENDING"]
  /\ passes = 0
  /\ age = "cooling"
  /\ desired = [admin |-> "drain", weight |-> 0, source |-> "action"]
  /\ incident = "MITIGATING"
  /\ reset = "NONE"
  /\ runtime = [admin |-> "drain", weight |-> 0]
  /\ target \in {"ok", "failing", "down"}
  /\ evidence \in Evidence
  /\ pc = "idle" /\ job = "none" /\ next = Probing
  /\ foreign = FALSE

-----------------------------------------------------------------------------
\* The tick finds the committed quarantine, its incident still active and
\* every fault cleared.
StartReintegration ==
  /\ TickReaches
  /\ runStatus = "NONE"
  /\ incident \in ActiveIncident
  /\ runStatus' = "ACTIVE"
  /\ stage' = [stage EXCEPT ![Probing] = "CURRENT"]
  /\ incident' = "RECOVERING"
  /\ UNCHANGED <<retryCount, lastVerified, passes, age, desired, reset,
                 runtime, traffic, worker, foreign>>

\* The commit inside _set_reintegration_state: the desired state and the
\* verdict on the old stage become durable, the Runtime is not yet touched.
CommitDesired(w, kind, s) ==
  /\ desired' = [admin |-> AdminFor(w), weight |-> w, source |-> "action"]
  /\ pc' = "weight" /\ job' = kind /\ next' = s
  /\ UNCHANGED <<runStatus, age, incident, reset, runtime, traffic, foreign>>

\* PROBING: consecutive passing probes, reset by a failing one.  The stage
\* has no requested weight, so nothing is read back.
ProbeAgain ==
  /\ RunActive /\ Current(Probing)
  /\ passes' = IF target = "ok" THEN passes + 1 ELSE 0
  /\ passes' < ProbePasses
  /\ UNCHANGED <<runStatus, retryCount, lastVerified, stage, age, desired,
                 incident, reset, runtime, traffic, worker, foreign>>

\* Mutant: the verdict is not written.
JudgedLost(s, verdict) == stage
\* The verdict of the tick on the stage it judged.
Judged(s, verdict) == [stage EXCEPT ![s] = verdict]

ProbingVerified ==
  /\ RunActive /\ Current(Probing)
  /\ target = "ok" /\ passes + 1 >= ProbePasses
  /\ passes' = ProbePasses
  /\ stage' = Judged(Probing, "VERIFIED")
  /\ lastVerified' = Probing
  /\ CommitDesired(Weight[1], "enter", 1)
  /\ UNCHANGED retryCount

EnterReview == runStatus' = "NEEDS_REVIEW" /\ incident' = "NEEDS_REVIEW"

\* A stage with a requested weight is judged only if the Runtime still
\* carries it; otherwise the run stops for review.
DriftDetected(s) ==
  /\ RunActive /\ Current(s) /\ s # Probing
  /\ ~MatchesStage(s)
  /\ EnterReview
  /\ UNCHANGED <<retryCount, lastVerified, stage, passes, age, desired, reset,
                 runtime, traffic, worker, foreign>>

\* Mutant: no timeout for a stage that stays scarce.
StageFailedNoTimeout == target # "ok" \/ evidence = "harmful"

StageFailed ==
  \/ target # "ok" \/ evidence = "harmful"
  \/ age = "late" /\ evidence = "scarce"

\* The verdict on a failed canary stage is durable before the fallback
\* weight is sent.
CanaryFails(s) ==
  /\ RunActive /\ Current(s) /\ MatchesStage(s)
  /\ StageFailed
  /\ retryCount' = retryCount + 1
  /\ stage' = Judged(s, "FAILED")
  /\ CommitDesired(FallbackWeight(lastVerified), "fallback", Probing)
  /\ UNCHANGED <<lastVerified, passes>>

CanaryAdvances(s) ==
  /\ RunActive /\ Current(s) /\ MatchesStage(s)
  /\ ~StageFailed
  /\ age # "cooling" /\ evidence = "adequate"
  /\ stage' = Judged(s, "VERIFIED")
  /\ lastVerified' = s
  /\ CommitDesired(EntryWeight(s + 1), "enter", s + 1)
  /\ UNCHANGED <<retryCount, passes>>

\* HEALTHY asks for one passing probe and has no failure or timeout branch.
HealthyVerified ==
  /\ RunActive /\ Current(Healthy) /\ MatchesStage(Healthy)
  /\ target = "ok"
  /\ runStatus' = "COMPLETED"
  /\ stage' = Judged(Healthy, "VERIFIED")
  /\ lastVerified' = Healthy
  /\ incident' = "RESOLVED"
  /\ UNCHANGED <<retryCount, passes, age, desired, reset, runtime, traffic,
                 worker, foreign>>

-----------------------------------------------------------------------------
\* set_absolute: weight first, then administrative state.
CommandWeight ==
  /\ pc = "weight"
  /\ runtime' = [runtime EXCEPT !.weight = desired.weight]
  /\ pc' = "state"
  /\ UNCHANGED <<database, traffic, job, next, foreign>>

CommandState ==
  /\ pc = "state"
  /\ runtime' = [runtime EXCEPT !.admin = desired.admin]
  /\ pc' = "finish"
  /\ UNCHANGED <<database, traffic, job, next, foreign>>

Idle == pc' = "idle" /\ job' = "none" /\ next' = Probing

\* The second commit of a transition: the entered stage becomes CURRENT.
FinishEnter ==
  /\ pc = "finish" /\ job = "enter"
  /\ stage' = [stage EXCEPT ![next] = "CURRENT"]
  /\ age' = "cooling"
  /\ Idle
  /\ UNCHANGED <<runStatus, retryCount, lastVerified, passes, desired,
                 incident, reset, runtime, traffic, foreign>>

\* Mutant: one retry too many.
RetriesExhaustedLate == retryCount > MaxRetries + 1

\* The second commit of a fallback: probe again, or give up for review.
RetriesExhausted == retryCount > MaxRetries

FinishFallback ==
  /\ pc = "finish" /\ job = "fallback"
  /\ Idle
  /\ \/ /\ RetriesExhausted
        /\ EnterReview
        /\ UNCHANGED <<stage, passes, lastVerified>>
     \/ /\ ~RetriesExhausted
        /\ stage' = [stage EXCEPT ![Probing] = "CURRENT"]
        /\ passes' = 0
        /\ lastVerified' = IF desired.weight = 0 THEN Quarantined
                                                 ELSE lastVerified
        /\ UNCHANGED <<runStatus, incident>>
  /\ UNCHANGED <<retryCount, age, desired, reset, runtime, traffic, foreign>>

\* An exception or a crash inside the command: what was committed stays,
\* the rest of the handler is lost.
Interrupt ==
  /\ pc # "idle"
  /\ Idle
  /\ UNCHANGED <<database, runtime, traffic, foreign>>

\* The next tick finds no CURRENT stage and decides by readback alone.
\* Mutant: any stage at or above the desired weight is taken.
PendingMatchesAbove ==
  {s \in 1 .. Healthy : stage[s] = "PENDING"
                        /\ RequestedWeight(s) >= desired.weight}

PendingMatches ==
  {s \in 1 .. Healthy : stage[s] = "PENDING"
                        /\ RequestedWeight(s) = desired.weight}

Recoverable == MatchesDesired /\ PendingMatches # {}

RecoverTransition ==
  /\ RunActive
  /\ \A s \in Stages : ~Current(s)
  /\ \/ /\ Recoverable
        /\ \E s \in PendingMatches :
             /\ \A t \in PendingMatches : s <= t
             /\ stage' = [stage EXCEPT ![s] = "CURRENT"]
        /\ age' = "cooling"
        /\ UNCHANGED <<runStatus, incident>>
     \/ /\ ~Recoverable
        /\ EnterReview
        /\ UNCHANGED <<stage, age>>
  /\ UNCHANGED <<retryCount, lastVerified, passes, desired, reset, runtime,
                 traffic, worker, foreign>>

-----------------------------------------------------------------------------
\* The operator's lab reset, as far as this membership goes.
RequestReset ==
  /\ ~ResetPending
  /\ reset' = "REQUESTED"
  /\ UNCHANGED <<run, desired, incident, runtime, traffic, worker, foreign>>

\* Faults cannot be cleared, a probe fails, or the topology is incomplete.
ResetGateFails ==
  /\ pc = "idle" /\ ResetPending
  /\ reset' = "NEEDS_REVIEW"
  /\ UNCHANGED <<run, desired, incident, runtime, traffic, worker, foreign>>

ResetRestores ==
  /\ pc = "idle" /\ ResetPending
  /\ target = "ok"
  /\ reset' = "RUNNING"
  /\ desired' = [admin |-> AdminFor(BaselineWeight),
                 weight |-> BaselineWeight, source |-> "reset"]
  /\ pc' = "weight" /\ job' = "reset" /\ next' = Probing
  /\ foreign' = TRUE
  /\ UNCHANGED <<run, incident, runtime, traffic>>

\* During a reset a failing command is recorded, not raised.
ResetCommandFails ==
  /\ job = "reset" /\ pc \in {"weight", "state", "finish"}
  /\ job' = "reset_failed" /\ pc' = "finish"
  /\ UNCHANGED <<database, runtime, traffic, next, foreign>>

FinishReset ==
  /\ pc = "finish" /\ job = "reset" /\ MatchesDesired
  /\ Idle
  /\ reset' = "COMPLETED"
  /\ incident' = "RESOLVED"
  /\ IF runStatus \in {"ACTIVE", "NEEDS_REVIEW"}
     THEN /\ runStatus' = "CANCELLED"
          /\ stage' = [s \in Stages |->
                         IF stage[s] \in {"PENDING", "CURRENT"}
                         THEN "CANCELLED" ELSE stage[s]]
     ELSE UNCHANGED <<runStatus, stage>>
  /\ UNCHANGED <<retryCount, lastVerified, passes, age, desired, runtime,
                 traffic, foreign>>

FinishFailedReset ==
  /\ pc = "finish"
  /\ job = "reset_failed" \/ (job = "reset" /\ ~MatchesDesired)
  /\ Idle
  /\ reset' = "NEEDS_REVIEW"
  /\ runStatus' = IF runStatus = "ACTIVE" THEN "NEEDS_REVIEW" ELSE runStatus
  /\ UNCHANGED <<retryCount, lastVerified, stage, passes, age, desired,
                 incident, runtime, traffic, foreign>>

-----------------------------------------------------------------------------
\* The environment: time passes, the target fails and recovers, HAProxy
\* restarts with the static configuration.
StageAges ==
  /\ age # "late"
  /\ age' = IF age = "cooling" THEN "dwelling" ELSE "late"
  /\ UNCHANGED <<runStatus, retryCount, lastVerified, stage, passes, desired,
                 incident, reset, runtime, traffic, worker, foreign>>

TrafficChanges ==
  /\ target' \in {"ok", "failing", "down"}
  /\ evidence' \in Evidence
  /\ UNCHANGED <<database, runtime, worker, foreign>>

HAProxyRestarts ==
  /\ runtime' = [admin |-> "ready", weight |-> StaticWeight]
  /\ foreign' = TRUE
  /\ UNCHANGED <<database, traffic, worker>>

WorkerStep ==
  \/ StartReintegration
  \/ ProbeAgain \/ ProbingVerified
  \/ \E s \in Canaries : CanaryFails(s) \/ CanaryAdvances(s)
  \/ \E s \in 1 .. Healthy : DriftDetected(s)
  \/ HealthyVerified
  \/ CommandWeight \/ CommandState
  \/ FinishEnter \/ FinishFallback
  \/ RecoverTransition

ResetStep ==
  \/ RequestReset \/ ResetGateFails \/ ResetRestores \/ ResetCommandFails
  \/ FinishReset \/ FinishFailedReset

Environment == Interrupt \/ StageAges \/ TrafficChanges \/ HAProxyRestarts

Next == WorkerStep \/ ResetStep \/ Environment

Spec == Init /\ [][Next]_vars

\* The loop ticks for ever and time passes; nothing else is promised.
FairSpec == Spec /\ WF_vars(WorkerStep) /\ WF_vars(StageAges)

-----------------------------------------------------------------------------
(* What the staged return promises.                                        *)

\* At most one stage of a run is CURRENT: _advance_reintegration selects it
\* with LIMIT 1 and no order.
OneCurrentStage ==
  \A s, t \in Stages : Current(s) /\ Current(t) => s = t

\* A canary stage is CURRENT only right after the stage before it was
\* verified, whatever was interrupted, retried or recovered by readback.
CanaryAfterVerification ==
  \A s \in Canaries : Current(s) => lastVerified = s - 1

\* The desired weight a run asks for is never more than one rung above its
\* last verified stage.
ExposureBounded ==
  desired.source = "action" /\ desired.weight > 0 /\ lastVerified < Rungs =>
    lastVerified >= Probing /\ desired.weight <= Weight[lastVerified + 1]

\* As long as only the run has set the Runtime, traffic at a rung means that
\* every stage below it has been tried, half-sent commands included.
TrafficFollowsLadder ==
  ~foreign /\ runtime.admin = "ready" =>
    \A s \in Canaries : runtime.weight >= Weight[s] =>
      \A t \in 0 .. s - 1 : stage[t] # "PENDING"

\* A run that has used up its retries serves no further stage, also when the
\* worker dies between counting the last failure and recording the review.
RetriesBounded ==
  retryCount > MaxRetries => \A s \in Stages : ~Current(s)

\* The incident is resolved only by a step that reads the baseline back from
\* the Runtime.
ResolvedOnReadback ==
  [][incident # "RESOLVED" /\ incident' = "RESOLVED" =>
       /\ Observed.weight = BaselineWeight
       /\ Observed.admin = AdminFor(BaselineWeight)]_vars

\* With a target that stays healthy a run ends, or a lab reset has taken
\* over: no interleaving of retries, crashes and restarts blocks it.
RunSettles ==
  <>[](target = "ok") =>
    (runStatus = "ACTIVE" ~> runStatus # "ACTIVE" \/ ResetTakesOver)

\* The desired weight as a rung of the ladder, and where the climb stands.
RungOf(w) == CHOOSE r \in 0 .. Rungs : IF r = 0 THEN w = 0 ELSE w = Weight[r]

Phase ==
  IF desired.source = "reset" THEN "taken_over"
  ELSE IF runStatus = "COMPLETED" THEN "restored"
  ELSE IF runStatus = "NEEDS_REVIEW" THEN "review"
  ELSE "returning"

Ladder == INSTANCE CanaryLadder WITH
  rung <- IF desired.source = "reset" THEN 0 ELSE RungOf(desired.weight),
  phase <- Phase

\* The staged return implements the abstract ladder: the durable desired
\* weight climbs one rung at a time through every crash, retry and recovery.
ClimbsLadder == Ladder!Spec

-----------------------------------------------------------------------------
(* Statements of the repository's documents that the code does not keep.   *)

\* "A node cannot skip a canary stage": HEALTHY too is entered only after
\* the 100% stage was verified.
NoStageSkipped ==
  \A s \in 1 .. Healthy : Current(s) => lastVerified = s - 1
=============================================================================
