------------------------ MODULE ReintegrationProofs ------------------------
(***************************************************************************)
(* Safety of the staged return for every ladder, retry limit and baseline. *)
(*                                                                         *)
(* The properties of Reintegration are not inductive by themselves: they   *)
(* hold because of what a transition has made durable when it is cut off   *)
(* between its two commits.  Entered and FellBack describe the two shapes  *)
(* such a database can have, and Settling says that a run without CURRENT  *)
(* stage always has one of them.  Climbed does the same for the weights in *)
(* force, and OnRung says which rungs of CanaryLadder a database may stand *)
(* for.                                                                    *)
(***************************************************************************)
EXTENDS Reintegration, TLAPS

NoCurrent == \A s \in Stages : ~Current(s)

\* What is durable after the first commit of a transition into stage n.
Entered(n) ==
  /\ desired.weight = EntryWeight(n)
  /\ lastVerified = n - 1
  /\ \A t \in Stages : t < n => stage[t] # "PENDING"
  /\ retryCount <= MaxRetries

\* What is durable after the first commit of a fallback.
FellBack ==
  /\ lastVerified < Rungs
  /\ desired.weight = FallbackWeight(lastVerified)
  /\ \A t \in Stages : t <= lastVerified + 1 => stage[t] # "PENDING"

\* A job in progress belongs to an active run or to a reset.
JobOwned ==
  /\ pc = "idle" => job = "none"
  /\ job \in {"reset", "reset_failed"} => desired.source = "reset"
  /\ job \in {"enter", "fallback"} =>
       runStatus = "ACTIVE" /\ desired.source = "action" /\ NoCurrent
  /\ job = "enter" => next \in 1 .. Healthy /\ Entered(next)
  /\ job = "fallback" => FellBack

\* A desired state written by a reset is never continued by a run.
ResetFences ==
  /\ desired.source = "reset" /\ incident # "RESOLVED" => ResetTakesOver
  /\ runStatus = "ACTIVE" => incident # "RESOLVED"
  /\ runStatus = "NONE" =>
       retryCount = 0 /\ \A s \in Stages : stage[s] = "PENDING"

Settling ==
  runStatus = "ACTIVE" /\ desired.source = "action" /\ NoCurrent =>
    FellBack \/ \E n \in 1 .. Healthy : Entered(n)

\* The stages below a CURRENT one have all been tried.
PrefixTried ==
  \A s, t \in Stages : Current(s) /\ t < s => stage[t] # "PENDING"

Safe ==
  /\ OneCurrentStage /\ CanaryAfterVerification
  /\ ExposureBounded /\ RetriesBounded
  /\ ResetFences /\ Settling /\ PrefixTried

IInv == TypeOK /\ Safe /\ JobOwned

-----------------------------------------------------------------------------
\* The index arithmetic of the stages.
LEMMA StageIndex ==
  /\ Rungs \in Nat /\ Rungs >= 1
  /\ Probing = 0 /\ Healthy = Rungs + 1 /\ Quarantined = -1
  /\ Stages = 0 .. Rungs + 1 /\ Canaries = 1 .. Rungs
  /\ Probing \in Stages /\ Healthy \in Stages
BY RungsAssumption DEF Probing, Healthy, Quarantined, Stages, Canaries

\* The rungs are positive and distinct: a weight names at most one canary.
LEMMA WeightFacts ==
  /\ \A i \in Canaries : Weight[i] \in Nat /\ Weight[i] > 0
  /\ \A i, j \in Canaries : i < j => Weight[i] < Weight[j]
  /\ \A i, j \in Canaries : Weight[i] = Weight[j] => i = j
BY StageIndex, WeightAssumption

\* Every weight a transition may commit is a natural number.
LEMMA EntryWeightNat ==
  /\ \A n \in 1 .. Healthy : EntryWeight(n) \in Nat
  /\ \A v \in Quarantined .. Healthy : FallbackWeight(v) \in Nat
  /\ \A w \in Nat : AdminFor(w) \in Admins
BY StageIndex, WeightFacts, LimitsAssumption
   DEF EntryWeight, FallbackWeight, AdminFor, Admins

LEMMA InitIInv == Init => IInv
<1> SUFFICES ASSUME Init PROVE IInv
  OBVIOUS
<1>1. TypeOK
  <2>1. desired \in [admin : Admins, weight : Nat, source : {"action", "reset"}]
    BY DEF Init, Admins
  <2>2. runtime \in [admin : Admins, weight : Nat]
    BY DEF Init, Admins
  <2>3. stage \in [Stages -> {"PENDING", "CURRENT", "VERIFIED", "FAILED", "CANCELLED"}]
    BY DEF Init
  <2>4. lastVerified \in Quarantined .. Healthy /\ next \in Stages
    BY StageIndex DEF Init
  <2>5. retryCount \in 0 .. MaxRetries + 1 /\ passes \in 0 .. ProbePasses
    BY LimitsAssumption DEF Init
  <2> QED BY <2>1, <2>2, <2>3, <2>4, <2>5 DEF Init, TypeOK, ActiveIncident
<1>2. Safe
  BY StageIndex, WeightFacts, LimitsAssumption
     DEF Init, Safe, OneCurrentStage, CanaryAfterVerification, ExposureBounded,
         RetriesBounded, ResetFences, Settling, PrefixTried, Current
<1>3. JobOwned
  BY DEF Init, JobOwned
<1> QED BY <1>1, <1>2, <1>3 DEF IInv

-----------------------------------------------------------------------------
\* Steps that leave the database alone keep every part that is about it.
LEMMA QuietSafe ==
  ASSUME Safe, UNCHANGED database
  PROVE  Safe'
BY DEF Safe, database, run, OneCurrentStage, CanaryAfterVerification,
       ExposureBounded, RetriesBounded, ResetFences, ResetTakesOver, Settling,
       NoCurrent, FellBack, Entered, PrefixTried, Current

\* The same steps keep the job of the worker, when they leave it alone too.
LEMMA QuietOwned ==
  ASSUME JobOwned, UNCHANGED <<database, worker>>
  PROVE  JobOwned'
BY DEF JobOwned, database, run, worker, NoCurrent, FellBack, Entered, Current

\* The record CommitDesired writes has the type of desired.
LEMMA DesiredTyped ==
  ASSUME NEW w \in Nat, NEW src \in {"action", "reset"}
  PROVE  [admin |-> AdminFor(w), weight |-> w, source |-> src]
           \in [admin : Admins, weight : Nat, source : {"action", "reset"}]
BY EntryWeightNat

-----------------------------------------------------------------------------
\* Every step of the specification keeps the types.
LEMMA NextTyped ==
  ASSUME IInv, Next
  PROVE  TypeOK'
<1> USE StageIndex DEF IInv
<1>1. CASE StartReintegration
  BY <1>1 DEF StartReintegration, TypeOK, traffic, worker, ActiveIncident
<1>2. CASE ProbeAgain
  BY <1>2, LimitsAssumption DEF ProbeAgain, TypeOK, traffic, worker
<1>3. CASE ProbingVerified
  <2>1. Weight[1] \in Nat
    BY WeightFacts
  <2> QED BY <1>3, <2>1, DesiredTyped, LimitsAssumption
          DEF ProbingVerified, CommitDesired, Judged, TypeOK, traffic
<1>4. ASSUME NEW s \in Canaries, CanaryFails(s) PROVE TypeOK'
  <2>1. FallbackWeight(lastVerified) \in Nat
    BY EntryWeightNat DEF TypeOK
  <2>2. retryCount <= MaxRetries
    BY <1>4, LimitsAssumption DEF CanaryFails, Safe, RetriesBounded, TypeOK
  <2>3. retryCount' \in 0 .. MaxRetries + 1
    BY <1>4, <2>2, LimitsAssumption DEF CanaryFails, TypeOK
  <2>4. desired' \in [admin : Admins, weight : Nat, source : {"action", "reset"}]
    BY <1>4, <2>1, DesiredTyped DEF CanaryFails, CommitDesired
  <2>5. stage' \in [Stages -> {"PENDING", "CURRENT", "VERIFIED", "FAILED", "CANCELLED"}]
    BY <1>4 DEF CanaryFails, Judged, TypeOK
  <2>6. /\ pc' = "weight" /\ job' = "fallback" /\ next' = Probing
        /\ UNCHANGED <<lastVerified, passes, runStatus, age, incident, reset,
                       runtime, target, evidence, foreign>>
    BY <1>4 DEF CanaryFails, CommitDesired, traffic
  <2> QED BY <2>3, <2>4, <2>5, <2>6 DEF TypeOK
<1>5. ASSUME NEW s \in Canaries, CanaryAdvances(s) PROVE TypeOK'
  <2>1. s + 1 \in 1 .. Healthy /\ s + 1 \in Stages
    OBVIOUS
  <2>2. EntryWeight(s + 1) \in Nat
    BY <2>1, EntryWeightNat
  <2> QED BY <1>5, <2>1, <2>2, DesiredTyped
          DEF CanaryAdvances, CommitDesired, Judged, TypeOK, traffic
<1>6. ASSUME NEW s \in 1 .. Healthy, DriftDetected(s) PROVE TypeOK'
  BY <1>6 DEF DriftDetected, EnterReview, TypeOK, traffic, worker, ActiveIncident
<1>7. CASE HealthyVerified
  BY <1>7 DEF HealthyVerified, Judged, TypeOK, traffic, worker
<1>8. CASE CommandWeight
  BY <1>8 DEF CommandWeight, TypeOK, database, run, traffic
<1>9. CASE CommandState
  BY <1>9 DEF CommandState, TypeOK, database, run, traffic
<1>10. CASE FinishEnter
  BY <1>10 DEF FinishEnter, Idle, TypeOK, traffic
<1>11. CASE FinishFallback
  BY <1>11, LimitsAssumption
     DEF FinishFallback, EnterReview, Idle, TypeOK, traffic, ActiveIncident
<1>12. CASE RecoverTransition
  BY <1>12 DEF RecoverTransition, EnterReview, TypeOK, traffic, worker, ActiveIncident
<1>13. CASE RequestReset
  BY <1>13 DEF RequestReset, TypeOK, run, traffic, worker
<1>14. CASE ResetGateFails
  BY <1>14 DEF ResetGateFails, TypeOK, run, traffic, worker
<1>15. CASE ResetRestores
  BY <1>15, DesiredTyped, LimitsAssumption DEF ResetRestores, TypeOK, run, traffic
<1>16. CASE ResetCommandFails
  BY <1>16 DEF ResetCommandFails, TypeOK, database, run, traffic
<1>17. CASE FinishReset
  BY <1>17 DEF FinishReset, Idle, TypeOK, traffic
<1>18. CASE FinishFailedReset
  BY <1>18 DEF FinishFailedReset, Idle, TypeOK, traffic
<1>19. CASE Interrupt \/ StageAges \/ TrafficChanges
  BY <1>19 DEF Interrupt, Idle, StageAges, TrafficChanges, TypeOK, database,
               run, traffic, worker
<1>20. CASE HAProxyRestarts
  <2>1. runtime' \in [admin : Admins, weight : Nat] /\ foreign' \in BOOLEAN
    BY <1>20, LimitsAssumption DEF HAProxyRestarts, Admins
  <2> QED BY <1>20, <2>1
          DEF HAProxyRestarts, TypeOK, database, run, traffic, worker
<1> QED BY <1>1, <1>2, <1>3, <1>4, <1>5, <1>6, <1>7, <1>8, <1>9, <1>10, <1>11,
           <1>12, <1>13, <1>14, <1>15, <1>16, <1>17, <1>18, <1>19, <1>20
        DEF Next, WorkerStep, ResetStep, Environment

-----------------------------------------------------------------------------
\* The tick acts on a run only while the desired state is the run's own.
LEMMA RunOwnsDesired ==
  ASSUME IInv, RunActive
  PROVE  desired.source = "action" /\ job = "none" /\ pc = "idle"
BY DEF IInv, Safe, ResetFences, JobOwned, RunActive, TickReaches, TypeOK

\* The first commit of a transition into stage n leaves Entered(n).
LEMMA EnterCommits ==
  ASSUME IInv, NEW n \in 1 .. Healthy, RunActive, Current(n - 1),
         stage' = Judged(n - 1, "VERIFIED"), lastVerified' = n - 1,
         CommitDesired(EntryWeight(n), "enter", n), retryCount' = retryCount
  PROVE  Safe' /\ JobOwned'
<1> USE StageIndex DEF IInv
<1>1. /\ desired'.weight = EntryWeight(n) /\ desired'.source = "action"
      /\ UNCHANGED <<runStatus, incident, reset>>
      /\ pc' = "weight" /\ job' = "enter" /\ next' = n
  BY DEF CommitDesired
<1>2. n - 1 \in Stages /\ runStatus = "ACTIVE" /\ stage[n - 1] = "CURRENT"
  BY DEF RunActive, Current
<1>3. \A t \in Stages : stage'[t] = IF t = n - 1 THEN "VERIFIED" ELSE stage[t]
  BY <1>2 DEF Judged, TypeOK
<1>4. NoCurrent'
  BY <1>2, <1>3 DEF NoCurrent, Current, Safe, OneCurrentStage
<1>5. \A t \in Stages : t < n => stage'[t] # "PENDING"
  BY <1>2, <1>3 DEF Safe, PrefixTried, Current
<1>6. retryCount' <= MaxRetries
  BY <1>2, LimitsAssumption DEF Safe, RetriesBounded, Current, TypeOK
<1>7. Entered(n)'
  BY <1>1, <1>5, <1>6 DEF Entered
<1>8. ExposureBounded'
  <2>1. CASE n \in Canaries
    BY <2>1, <1>1, WeightFacts DEF ExposureBounded, EntryWeight
  <2>2. CASE n = Healthy
    BY <2>2, <1>1 DEF ExposureBounded
  <2> QED BY <2>1, <2>2
<1>9. (OneCurrentStage /\ CanaryAfterVerification /\ RetriesBounded /\ PrefixTried)'
  BY <1>4 DEF NoCurrent, Current, OneCurrentStage, CanaryAfterVerification,
              RetriesBounded, PrefixTried
<1>10. ResetFences'
  BY <1>1, <1>2 DEF Safe, ResetFences
<1>11. Settling'
  BY <1>7 DEF Settling
<1>12. JobOwned'
  BY <1>1, <1>2, <1>4, <1>7 DEF JobOwned
<1> QED BY <1>8, <1>9, <1>10, <1>11, <1>12 DEF Safe

\* The first commit of a fallback leaves FellBack.
LEMMA FallbackCommits ==
  ASSUME IInv, NEW s \in Canaries, CanaryFails(s)
  PROVE  Safe' /\ JobOwned'
<1> USE StageIndex DEF IInv
<1>1. /\ desired'.weight = FallbackWeight(lastVerified)
      /\ desired'.source = "action" /\ lastVerified' = lastVerified
      /\ UNCHANGED <<runStatus, incident, reset>>
      /\ pc' = "weight" /\ job' = "fallback"
  BY DEF CanaryFails, CommitDesired
<1>2. s \in Stages /\ runStatus = "ACTIVE" /\ stage[s] = "CURRENT"
  BY DEF CanaryFails, RunActive, Current
<1>3. \A t \in Stages : stage'[t] = IF t = s THEN "FAILED" ELSE stage[t]
  BY <1>2 DEF CanaryFails, Judged, TypeOK
<1>4. NoCurrent'
  BY <1>2, <1>3 DEF NoCurrent, Current, Safe, OneCurrentStage
<1>5. lastVerified = s - 1
  BY <1>2 DEF Safe, CanaryAfterVerification, Current
<1>6. FellBack'
  <2>1. \A t \in Stages : t <= s => stage'[t] # "PENDING"
    BY <1>2, <1>3 DEF Safe, PrefixTried, Current
  <2>2. lastVerified' < Rungs
    BY <1>1, <1>5
  <2>3. \A t \in Stages : t <= lastVerified' + 1 => stage'[t] # "PENDING"
    BY <2>1, <1>1, <1>5
  <2>4. desired'.weight = FallbackWeight(lastVerified')
    BY <1>1
  <2> QED BY <2>2, <2>3, <2>4 DEF FellBack, FallbackWeight
<1>7. ExposureBounded'
  <2>1. CASE lastVerified \in Canaries
    BY <2>1, <1>1, <1>5, WeightFacts DEF ExposureBounded, FallbackWeight
  <2>2. CASE lastVerified \notin Canaries
    BY <2>2, <1>1 DEF ExposureBounded, FallbackWeight
  <2> QED BY <2>1, <2>2
<1>8. (OneCurrentStage /\ CanaryAfterVerification /\ RetriesBounded /\ PrefixTried)'
  BY <1>4 DEF NoCurrent, Current, OneCurrentStage, CanaryAfterVerification,
              RetriesBounded, PrefixTried
<1>9. ResetFences'
  BY <1>1, <1>2 DEF Safe, ResetFences
<1>10. Settling'
  BY <1>6 DEF Settling
<1>11. JobOwned'
  BY <1>1, <1>2, <1>4, <1>6 DEF JobOwned
<1> QED BY <1>7, <1>8, <1>9, <1>10, <1>11 DEF Safe

\* The second commit of a transition makes one stage CURRENT.
LEMMA FinishEnterKeeps ==
  ASSUME IInv, FinishEnter
  PROVE  Safe' /\ JobOwned'
<1> USE StageIndex DEF IInv
<1>1. /\ next \in 1 .. Healthy /\ Entered(next) /\ NoCurrent
      /\ runStatus = "ACTIVE" /\ desired.source = "action"
  BY DEF FinishEnter, JobOwned
<1>2. \A t \in Stages : stage'[t] = IF t = next THEN "CURRENT" ELSE stage[t]
  BY <1>1 DEF FinishEnter, TypeOK
<1>3. /\ pc' = "idle" /\ job' = "none"
      /\ UNCHANGED <<runStatus, retryCount, lastVerified, desired, incident, reset>>
  BY DEF FinishEnter, Idle
<1>4. \A t \in Stages : Current(t)' <=> t = next
  BY <1>1, <1>2 DEF NoCurrent, Current
<1>5. (OneCurrentStage /\ CanaryAfterVerification)'
  BY <1>1, <1>3, <1>4 DEF OneCurrentStage, CanaryAfterVerification, Entered
<1>6. PrefixTried'
  BY <1>1, <1>2, <1>4 DEF PrefixTried, Entered
<1>7. RetriesBounded'
  BY <1>1, <1>3, LimitsAssumption DEF RetriesBounded, Entered, TypeOK
<1>8. (ExposureBounded /\ ResetFences)'
  BY <1>1, <1>3 DEF Safe, ExposureBounded, ResetFences, ResetTakesOver
<1>9. Settling'
  BY <1>1, <1>4 DEF Settling, NoCurrent
<1>10. JobOwned'
  BY <1>3 DEF JobOwned
<1> QED BY <1>5, <1>6, <1>7, <1>8, <1>9, <1>10 DEF Safe

\* The second commit of a fallback probes again, or stops for review.
LEMMA FinishFallbackKeeps ==
  ASSUME IInv, FinishFallback
  PROVE  Safe' /\ JobOwned'
<1> USE StageIndex DEF IInv
<1>1. FellBack /\ NoCurrent /\ runStatus = "ACTIVE" /\ desired.source = "action"
  BY DEF FinishFallback, JobOwned
<1>2. /\ pc' = "idle" /\ job' = "none"
      /\ UNCHANGED <<retryCount, desired, reset>>
  BY DEF FinishFallback, Idle
<1>3. JobOwned'
  BY <1>2 DEF JobOwned
<1>4. CASE RetriesExhausted
  <2>1. /\ UNCHANGED <<stage, lastVerified>>
        /\ runStatus' = "NEEDS_REVIEW" /\ incident' = "NEEDS_REVIEW"
    BY <1>4 DEF FinishFallback, EnterReview
  <2>2. NoCurrent'
    BY <1>1, <2>1 DEF NoCurrent, Current
  <2> QED BY <1>1, <1>2, <1>3, <2>1, <2>2
          DEF Safe, NoCurrent, OneCurrentStage, CanaryAfterVerification,
              ExposureBounded, RetriesBounded, ResetFences, ResetTakesOver,
              Settling, PrefixTried
<1>5. CASE ~RetriesExhausted
  <2>1. /\ stage' = [stage EXCEPT ![Probing] = "CURRENT"]
        /\ lastVerified' = IF desired.weight = 0 THEN Quarantined ELSE lastVerified
        /\ UNCHANGED <<runStatus, incident>>
    BY <1>5 DEF FinishFallback
  <2>2. \A t \in Stages : Current(t)' <=> t = Probing
    BY <1>1, <2>1 DEF NoCurrent, Current, TypeOK
  <2>3. (OneCurrentStage /\ CanaryAfterVerification /\ PrefixTried)'
    BY <2>2 DEF OneCurrentStage, CanaryAfterVerification, PrefixTried
  <2>4. RetriesBounded'
    BY <1>2, <1>5, LimitsAssumption DEF RetriesBounded, RetriesExhausted, TypeOK
  <2>5. ExposureBounded'
    BY <1>2, <2>1 DEF Safe, ExposureBounded
  <2>6. ResetFences'
    BY <1>1, <1>2, <2>1 DEF Safe, ResetFences
  <2>7. Settling'
    BY <2>2 DEF Settling, NoCurrent
  <2> QED BY <1>3, <2>3, <2>4, <2>5, <2>6, <2>7 DEF Safe
<1> QED BY <1>4, <1>5

\* A stage taken up by readback is the one the last transition was entering,
\* or HEALTHY when that stage had been tried before: a fallback never looks
\* like a transition, because its weight belongs to a stage already tried.
LEMMA RecoveryTakes ==
  ASSUME IInv, RunActive, NoCurrent, NEW s \in PendingMatches,
         \A t \in PendingMatches : s <= t
  PROVE  /\ s \in 1 .. Healthy /\ retryCount <= MaxRetries
         /\ s \in Canaries => lastVerified = s - 1
         /\ \A t \in Stages : t < s => stage[t] # "PENDING"
<1> USE StageIndex DEF IInv
<1>1. /\ s \in 1 .. Healthy /\ stage[s] = "PENDING"
      /\ RequestedWeight(s) = desired.weight
  BY DEF PendingMatches
<1>2. runStatus = "ACTIVE" /\ desired.source = "action"
  BY RunOwnsDesired DEF RunActive
<1>3. PICK c \in Canaries : RequestedWeight(s) = Weight[c] /\ (s = c \/ s = Healthy)
  <2>1. CASE s = Healthy
    <3>1. Rungs \in Canaries /\ RequestedWeight(s) = Weight[Rungs]
      BY <2>1 DEF RequestedWeight
    <3> QED BY <3>1, <2>1
  <2>2. CASE s # Healthy
    BY <2>2, <1>1 DEF RequestedWeight
  <2> QED BY <2>1, <2>2
<1>4. ASSUME FellBack PROVE FALSE
  <2>1. lastVerified \in Canaries /\ desired.weight = Weight[lastVerified]
    <3>1. desired.weight = FallbackWeight(lastVerified) /\ desired.weight > 0
      BY <1>1, <1>3, <1>4, WeightFacts DEF FellBack
    <3> QED BY <3>1 DEF FallbackWeight
  <2>2. c = lastVerified /\ c < Rungs
    BY <2>1, <1>1, <1>3, <1>4, WeightFacts DEF FellBack
  <2>3. stage[c] # "PENDING"
    BY <2>2, <1>4 DEF FellBack
  <2>4. s = Healthy
    BY <2>3, <1>1, <1>3
  <2>5. RequestedWeight(s) = Weight[Rungs] /\ Rungs \in Canaries
    BY <2>4 DEF RequestedWeight
  <2>6. Weight[c] = Weight[Rungs]
    BY <2>5, <1>3
  <2>7. c = Rungs
    BY <2>5, <2>6, WeightFacts
  <2> QED BY <2>2, <2>7
<1>5. PICK n \in 1 .. Healthy : Entered(n)
  BY <1>2, <1>4 DEF Safe, Settling
<1>6. retryCount <= MaxRetries /\ lastVerified = n - 1
      /\ \A t \in Stages : t < n => stage[t] # "PENDING"
  BY <1>5 DEF Entered
<1>7. CASE n = Healthy
  <2>1. s = Healthy
    BY <1>1, <1>6, <1>7
  <2> QED BY <1>1, <1>6, <1>7, <2>1
<1>8. CASE n \in Canaries
  <2>1. desired.weight = Weight[n]
    BY <1>5, <1>8 DEF Entered, EntryWeight
  <2>2. c = n
    BY <2>1, <1>1, <1>3, <1>8, WeightFacts
  <2>3. CASE s = n
    BY <2>3, <1>1, <1>6
  <2>4. CASE s = Healthy
    <3>1. n = Rungs
      <4>1. RequestedWeight(s) = Weight[Rungs] /\ Rungs \in Canaries
        BY <2>4 DEF RequestedWeight
      <4> QED BY <4>1, <1>1, <1>8, <2>1, WeightFacts
    <3>2. RequestedWeight(Rungs) = desired.weight
      BY <3>1, <2>1 DEF RequestedWeight
    <3>3. stage[Rungs] # "PENDING"
      BY <2>4, <3>2 DEF PendingMatches
    <3> QED BY <1>1, <1>6, <2>4, <3>1, <3>3
  <2> QED BY <1>3, <2>2, <2>3, <2>4
<1> QED BY <1>7, <1>8

\* Taking a stage up by readback, or stopping for review.
LEMMA RecoverKeeps ==
  ASSUME IInv, RecoverTransition
  PROVE  Safe' /\ JobOwned'
<1> USE StageIndex DEF IInv
<1>1. /\ RunActive /\ NoCurrent /\ desired.source = "action"
      /\ runStatus = "ACTIVE" /\ job = "none"
  BY RunOwnsDesired DEF RecoverTransition, NoCurrent, RunActive
<1>2. UNCHANGED <<retryCount, lastVerified, desired, reset, pc, job, next>>
  BY DEF RecoverTransition, worker
<1>3. JobOwned'
  BY <1>1, <1>2 DEF JobOwned
<1>4. CASE Recoverable
  <2>1. PICK s \in PendingMatches : /\ \A t \in PendingMatches : s <= t
                                    /\ stage' = [stage EXCEPT ![s] = "CURRENT"]
    BY <1>4 DEF RecoverTransition
  <2>2. UNCHANGED <<runStatus, incident>>
    BY <1>4 DEF RecoverTransition
  <2>3. /\ s \in 1 .. Healthy /\ retryCount <= MaxRetries
        /\ s \in Canaries => lastVerified = s - 1
        /\ \A t \in Stages : t < s => stage[t] # "PENDING"
    BY <1>1, <2>1, RecoveryTakes
  <2>4. \A t \in Stages : stage'[t] = IF t = s THEN "CURRENT" ELSE stage[t]
    BY <2>1, <2>3 DEF TypeOK
  <2>5. \A t \in Stages : Current(t)' <=> t = s
    BY <1>1, <2>3, <2>4 DEF NoCurrent, Current
  <2>6. (OneCurrentStage /\ CanaryAfterVerification)'
    BY <1>2, <2>3, <2>5 DEF OneCurrentStage, CanaryAfterVerification
  <2>7. PrefixTried'
    BY <2>3, <2>4, <2>5 DEF PrefixTried
  <2>8. RetriesBounded'
    BY <1>2, <2>3, LimitsAssumption DEF RetriesBounded, TypeOK
  <2>9. (ExposureBounded /\ ResetFences)'
    BY <1>1, <1>2, <2>2 DEF Safe, ExposureBounded, ResetFences, ResetTakesOver
  <2>10. Settling'
    BY <2>3, <2>5 DEF Settling, NoCurrent
  <2> QED BY <1>3, <2>6, <2>7, <2>8, <2>9, <2>10 DEF Safe
<1>5. CASE ~Recoverable
  <2>1. /\ UNCHANGED stage
        /\ runStatus' = "NEEDS_REVIEW" /\ incident' = "NEEDS_REVIEW"
    BY <1>5 DEF RecoverTransition, EnterReview
  <2> QED BY <1>1, <1>2, <1>3, <2>1
          DEF Safe, Current, OneCurrentStage, CanaryAfterVerification,
              ExposureBounded, RetriesBounded, ResetFences, ResetTakesOver,
              Settling, PrefixTried
<1> QED BY <1>4, <1>5

\* The run starts with PROBING, before any stage was tried.
LEMMA StartKeeps ==
  ASSUME IInv, StartReintegration
  PROVE  Safe' /\ JobOwned'
<1> USE StageIndex DEF IInv
<1>1. /\ retryCount = 0 /\ \A s \in Stages : stage[s] = "PENDING"
      /\ desired.source = "action"
  BY DEF StartReintegration, TickReaches, Safe, ResetFences, ActiveIncident, TypeOK
<1>2. /\ stage' = [stage EXCEPT ![Probing] = "CURRENT"]
      /\ runStatus' = "ACTIVE" /\ incident' = "RECOVERING"
      /\ UNCHANGED <<retryCount, lastVerified, desired, reset, pc, job, next>>
  BY DEF StartReintegration, worker
<1>3. \A t \in Stages : Current(t)' <=> t = Probing
  BY <1>1, <1>2 DEF Current, TypeOK
<1>4. (OneCurrentStage /\ CanaryAfterVerification /\ PrefixTried)'
  BY <1>3 DEF OneCurrentStage, CanaryAfterVerification, PrefixTried
<1>5. (RetriesBounded /\ ExposureBounded /\ ResetFences)'
  BY <1>1, <1>2, LimitsAssumption
     DEF Safe, RetriesBounded, ExposureBounded, ResetFences
<1>6. Settling'
  BY <1>3 DEF Settling, NoCurrent
<1>7. JobOwned'
  BY <1>2 DEF StartReintegration, TickReaches, JobOwned
<1> QED BY <1>4, <1>5, <1>6, <1>7 DEF Safe

\* Counting probes, drift and the verdict on HEALTHY.
LEMMA TickKeeps ==
  ASSUME IInv,
         ProbeAgain \/ HealthyVerified \/ \E s \in 1 .. Healthy : DriftDetected(s)
  PROVE  Safe' /\ JobOwned'
<1> USE StageIndex DEF IInv
<1>1. RunActive /\ runStatus = "ACTIVE" /\ incident # "RESOLVED"
  BY DEF ProbeAgain, HealthyVerified, DriftDetected, RunActive, Safe, ResetFences
<1>2. desired.source = "action" /\ job = "none" /\ pc = "idle"
  BY <1>1, RunOwnsDesired
<1>3. UNCHANGED <<retryCount, desired, reset, pc, job, next>>
  BY DEF ProbeAgain, HealthyVerified, DriftDetected, worker
<1>4. JobOwned'
  BY <1>2, <1>3 DEF JobOwned
<1>5. CASE ProbeAgain
  BY <1>3, <1>4, <1>5
     DEF ProbeAgain, Safe, OneCurrentStage, CanaryAfterVerification,
         ExposureBounded, RetriesBounded, ResetFences, ResetTakesOver, Settling,
         NoCurrent, FellBack, Entered, PrefixTried, Current
<1>6. CASE \E s \in 1 .. Healthy : DriftDetected(s)
  <2>1. /\ UNCHANGED <<stage, lastVerified>>
        /\ runStatus' = "NEEDS_REVIEW" /\ incident' = "NEEDS_REVIEW"
    BY <1>6 DEF DriftDetected, EnterReview
  <2> QED BY <1>2, <1>3, <1>4, <2>1
          DEF Safe, Current, OneCurrentStage, CanaryAfterVerification,
              ExposureBounded, RetriesBounded, ResetFences, Settling, PrefixTried
<1>7. CASE HealthyVerified
  <2>1. /\ runStatus' = "COMPLETED" /\ incident' = "RESOLVED"
        /\ lastVerified' = Healthy /\ stage[Healthy] = "CURRENT"
        /\ stage' = [stage EXCEPT ![Healthy] = "VERIFIED"]
    BY <1>7 DEF HealthyVerified, Judged, Current
  <2>2. NoCurrent'
    BY <2>1 DEF Safe, OneCurrentStage, NoCurrent, Current, TypeOK
  <2> QED BY <1>2, <1>3, <1>4, <2>1, <2>2
          DEF Safe, NoCurrent, OneCurrentStage, CanaryAfterVerification,
              ExposureBounded, RetriesBounded, ResetFences, Settling, PrefixTried
<1> QED BY <1>5, <1>6, <1>7

\* A lab reset takes the desired state over and cancels the run.
LEMMA ResetKeeps ==
  ASSUME IInv, ResetStep
  PROVE  Safe' /\ JobOwned'
<1> USE StageIndex DEF IInv
<1>1. CASE RequestReset \/ ResetGateFails
  <2>1. /\ UNCHANGED <<run, desired, incident, worker>>
        /\ reset' \in {"REQUESTED", "NEEDS_REVIEW"}
    BY <1>1 DEF RequestReset, ResetGateFails
  <2>2. Safe'
    BY <2>1 DEF Safe, run, OneCurrentStage, CanaryAfterVerification,
                ExposureBounded, RetriesBounded, ResetFences, ResetTakesOver,
                Settling, NoCurrent, FellBack, Entered, PrefixTried, Current
  <2>3. JobOwned'
    BY <2>1 DEF JobOwned, run, worker, NoCurrent, FellBack, Entered, Current
  <2> QED BY <2>2, <2>3
<1>2. CASE ResetRestores
  <2>1. /\ UNCHANGED <<run, incident>>
        /\ reset' = "RUNNING" /\ desired'.source = "reset"
        /\ pc' = "weight" /\ job' = "reset"
    BY <1>2 DEF ResetRestores
  <2> QED BY <2>1
          DEF Safe, run, OneCurrentStage, CanaryAfterVerification,
              ExposureBounded, RetriesBounded, ResetFences, ResetTakesOver,
              Settling, PrefixTried, Current, JobOwned
<1>3. CASE ResetCommandFails
  <2>1. UNCHANGED database /\ job = "reset" /\ job' = "reset_failed" /\ pc' = "finish"
    BY <1>3 DEF ResetCommandFails
  <2>2. desired'.source = "reset"
    BY <2>1 DEF JobOwned, database
  <2> QED BY <2>1, <2>2, QuietSafe DEF JobOwned
<1>4. CASE FinishReset
  <2>1. /\ pc' = "idle" /\ job' = "none"
        /\ UNCHANGED <<retryCount, lastVerified, desired>>
        /\ reset' = "COMPLETED" /\ incident' = "RESOLVED"
        /\ desired.source = "reset"
    BY <1>4 DEF FinishReset, Idle, JobOwned
  <2>2. /\ runStatus' # "ACTIVE"
        /\ runStatus' = "NONE" => runStatus = "NONE" /\ stage' = stage
    BY <1>4 DEF FinishReset
  <2>3. \A t \in Stages : /\ stage'[t] = "CURRENT" => stage[t] = "CURRENT"
                          /\ stage'[t] = "PENDING" => stage[t] = "PENDING"
    BY <1>4 DEF FinishReset
  <2> QED BY <2>1, <2>2, <2>3
          DEF Safe, OneCurrentStage, CanaryAfterVerification, ExposureBounded,
              RetriesBounded, ResetFences, Settling, PrefixTried, Current, JobOwned
<1>5. CASE FinishFailedReset
  <2>1. /\ pc' = "idle" /\ job' = "none"
        /\ UNCHANGED <<retryCount, lastVerified, stage, desired, incident>>
        /\ reset' = "NEEDS_REVIEW" /\ runStatus' # "ACTIVE"
        /\ runStatus' = "NONE" => runStatus = "NONE"
    BY <1>5 DEF FinishFailedReset, Idle
  <2> QED BY <2>1
          DEF Safe, OneCurrentStage, CanaryAfterVerification, ExposureBounded,
              RetriesBounded, ResetFences, ResetTakesOver, Settling,
              PrefixTried, Current, JobOwned
<1> QED BY <1>1, <1>2, <1>3, <1>4, <1>5 DEF ResetStep

\* Commands, interruptions and the environment leave the database alone;
\* time only moves the age of a stage.
LEMMA EnvironmentKeeps ==
  ASSUME IInv, CommandWeight \/ CommandState \/ Environment
  PROVE  Safe' /\ JobOwned'
<1> USE DEF IInv
<1>1. CASE TrafficChanges \/ HAProxyRestarts
  BY <1>1, QuietSafe, QuietOwned DEF TrafficChanges, HAProxyRestarts
<1>2. CASE CommandWeight \/ CommandState
  <2>1. UNCHANGED <<database, job, next>> /\ pc' # "idle"
    BY <1>2 DEF CommandWeight, CommandState
  <2>2. JobOwned'
    BY <2>1 DEF JobOwned, database, run, NoCurrent, FellBack, Entered, Current
  <2> QED BY <2>1, <2>2, QuietSafe
<1>3. CASE Interrupt
  BY <1>3, QuietSafe DEF Interrupt, Idle, JobOwned
<1>4. CASE StageAges
  <2>1. UNCHANGED <<runStatus, retryCount, lastVerified, stage, desired,
                    incident, reset, pc, job, next>>
    BY <1>4 DEF StageAges, worker
  <2>2. Safe'
    BY <2>1 DEF Safe, OneCurrentStage, CanaryAfterVerification,
                ExposureBounded, RetriesBounded, ResetFences, ResetTakesOver,
                Settling, NoCurrent, FellBack, Entered, PrefixTried, Current
  <2>3. JobOwned'
    BY <2>1 DEF JobOwned, NoCurrent, FellBack, Entered, Current
  <2> QED BY <2>2, <2>3
<1> QED BY <1>1, <1>2, <1>3, <1>4 DEF Environment

LEMMA NextKeeps ==
  ASSUME IInv, Next
  PROVE  IInv'
<1> USE StageIndex
<1>1. CASE ProbingVerified
  <2>1. /\ RunActive /\ Current(1 - 1) /\ stage' = Judged(1 - 1, "VERIFIED")
        /\ lastVerified' = 1 - 1 /\ retryCount' = retryCount
    BY <1>1 DEF ProbingVerified
  <2>2. 1 \in 1 .. Healthy /\ EntryWeight(1) = Weight[1]
    BY DEF EntryWeight
  <2>3. CommitDesired(EntryWeight(1), "enter", 1)
    BY <1>1, <2>2 DEF ProbingVerified
  <2> QED BY <2>1, <2>2, <2>3, EnterCommits, NextTyped DEF IInv
<1>2. ASSUME NEW s \in Canaries, CanaryAdvances(s) PROVE IInv'
  <2>1. /\ RunActive /\ Current((s + 1) - 1)
        /\ stage' = Judged((s + 1) - 1, "VERIFIED")
        /\ lastVerified' = (s + 1) - 1 /\ retryCount' = retryCount
        /\ CommitDesired(EntryWeight(s + 1), "enter", s + 1)
    <3>1. (s + 1) - 1 = s
      OBVIOUS
    <3> QED BY <1>2, <3>1 DEF CanaryAdvances
  <2>2. s + 1 \in 1 .. Healthy
    OBVIOUS
  <2> QED BY <2>1, <2>2, EnterCommits, NextTyped DEF IInv
<1>3. ASSUME NEW s \in Canaries, CanaryFails(s) PROVE IInv'
  BY <1>3, FallbackCommits, NextTyped DEF IInv
<1>4. CASE StartReintegration
  BY <1>4, StartKeeps, NextTyped DEF IInv
<1>5. CASE ProbeAgain \/ HealthyVerified \/ \E s \in 1 .. Healthy : DriftDetected(s)
  BY <1>5, TickKeeps, NextTyped DEF IInv
<1>6. CASE FinishEnter
  BY <1>6, FinishEnterKeeps, NextTyped DEF IInv
<1>7. CASE FinishFallback
  BY <1>7, FinishFallbackKeeps, NextTyped DEF IInv
<1>8. CASE RecoverTransition
  BY <1>8, RecoverKeeps, NextTyped DEF IInv
<1>9. CASE ResetStep
  BY <1>9, ResetKeeps, NextTyped DEF IInv
<1>10. CASE CommandWeight \/ CommandState \/ Environment
  BY <1>10, EnvironmentKeeps, NextTyped DEF IInv
<1> QED BY <1>1, <1>2, <1>3, <1>4, <1>5, <1>6, <1>7, <1>8, <1>9, <1>10
        DEF Next, WorkerStep

LEMMA StutterKeeps ==
  ASSUME IInv, UNCHANGED vars
  PROVE  IInv'
<1>1. UNCHANGED <<database, worker>>
  BY DEF vars
<1>2. Safe' /\ JobOwned'
  BY <1>1, QuietSafe, QuietOwned DEF IInv
<1>3. TypeOK'
  BY DEF IInv, TypeOK, vars, database, run, traffic, worker
<1> QED BY <1>2, <1>3 DEF IInv

\* The inductive invariant of the staged return.
THEOREM Inductive == Spec => []IInv
<1>1. IInv /\ [Next]_vars => IInv'
  BY NextKeeps, StutterKeeps
<1> QED BY InitIInv, <1>1, PTL DEF Spec

\* Every variable keeps its type; in particular retry_count never exceeds
\* maximum_retries by more than the failure that ends the run.
THEOREM TypeCorrect == Spec => []TypeOK
<1>1. IInv => TypeOK
  BY DEF IInv
<1> QED BY <1>1, Inductive, PTL

\* _advance_reintegration never has two CURRENT stages to choose from.
THEOREM OneStageAtATime == Spec => []OneCurrentStage
<1>1. IInv => OneCurrentStage
  BY DEF IInv, Safe
<1> QED BY <1>1, Inductive, PTL

\* No crash, retry or recovery by readback lets a canary stage start before
\* the stage below it was verified.
THEOREM NoCanarySkipped == Spec => []CanaryAfterVerification
<1>1. IInv => CanaryAfterVerification
  BY DEF IInv, Safe
<1> QED BY <1>1, Inductive, PTL

\* The weight asked for is at most one rung above what was verified.
THEOREM Exposure == Spec => []ExposureBounded
<1>1. IInv => ExposureBounded
  BY DEF IInv, Safe
<1> QED BY <1>1, Inductive, PTL

\* Used-up retries serve no further stage, also across a crash.
THEOREM Retries == Spec => []RetriesBounded
<1>1. IInv => RetriesBounded
  BY DEF IInv, Safe
<1> QED BY <1>1, Inductive, PTL

-----------------------------------------------------------------------------
(* Traffic follows the ladder. *)

\* Every rung that weight w reaches or exceeds lies above tried stages.
Tried(w) ==
  \A s \in Canaries : w >= Weight[s] => \A t \in 0 .. s - 1 : stage[t] # "PENDING"

\* What a run asked for, and what HAProxy was told, has been climbed to.
Climbed == ~foreign => desired.source = "action" /\ Tried(desired.weight) /\ Tried(runtime.weight)

\* A stage that was tried never becomes PENDING again.
LEMMA TriedForGood ==
  ASSUME IInv, Next
  PROVE  \A t \in Stages : stage'[t] = "PENDING" => stage[t] = "PENDING"
<1> USE StageIndex DEF IInv, TypeOK
<1>1. CASE \E s \in Canaries : CanaryFails(s) \/ CanaryAdvances(s)
  BY <1>1 DEF CanaryFails, CanaryAdvances, Judged
<1>2. CASE StartReintegration \/ ProbingVerified \/ HealthyVerified
  BY <1>2 DEF StartReintegration, ProbingVerified, HealthyVerified, Judged
<1>3. CASE FinishEnter \/ FinishFallback \/ RecoverTransition
  BY <1>3 DEF FinishEnter, FinishFallback, RecoverTransition
<1>4. CASE ProbeAgain \/ \E s \in 1 .. Healthy : DriftDetected(s)
  BY <1>4 DEF ProbeAgain, DriftDetected
<1>5. CASE CommandWeight \/ CommandState \/ Environment
  BY <1>5 DEF CommandWeight, CommandState, Environment, Interrupt, StageAges,
              TrafficChanges, HAProxyRestarts, database, run
<1>6. CASE ResetStep
  BY <1>6 DEF ResetStep, RequestReset, ResetGateFails, ResetRestores,
              ResetCommandFails, FinishReset, FinishFailedReset, database, run
<1> QED BY <1>1, <1>2, <1>3, <1>4, <1>5, <1>6 DEF Next, WorkerStep

\* A transition cut off after its first commit has climbed to what it asks for.
LEMMA CommittedIsClimbed ==
  IInv /\ (FellBack \/ \E n \in 1 .. Healthy : Entered(n)) => Tried(desired.weight)
<1> USE StageIndex DEF IInv
<1> SUFFICES ASSUME IInv, FellBack \/ \E n \in 1 .. Healthy : Entered(n),
                    NEW s \in Canaries, desired.weight >= Weight[s], NEW t \in 0 .. s - 1
             PROVE  stage[t] # "PENDING"
  BY DEF Tried
<1>0. t \in Stages /\ t < s /\ Weight[s] \in Nat /\ Weight[s] > 0
  BY WeightFacts
<1>1. CASE FellBack
  <2>1. lastVerified \in Canaries /\ desired.weight = Weight[lastVerified]
    BY <1>0, <1>1 DEF FellBack, FallbackWeight
  <2>2. s <= lastVerified
    BY <2>1, WeightFacts
  <2> QED BY <1>0, <1>1, <2>1, <2>2 DEF FellBack
<1>2. ASSUME NEW n \in 1 .. Healthy, Entered(n) PROVE stage[t] # "PENDING"
  <2>1. CASE n = Healthy
    BY <1>0, <1>2, <2>1 DEF Entered
  <2>2. CASE n \in Canaries
    <3>1. desired.weight = Weight[n]
      BY <1>2, <2>2 DEF Entered, EntryWeight
    <3>2. s <= n
      BY <2>2, <3>1, WeightFacts
    <3> QED BY <1>0, <1>2, <3>2 DEF Entered
  <2> QED BY <2>1, <2>2
<1> QED BY <1>1, <1>2

\* The same of the state after a step.
LEMMA CommittedIsClimbedNext ==
  IInv' /\ (FellBack \/ \E n \in 1 .. Healthy : Entered(n))' => Tried(desired.weight)'
BY CommittedIsClimbed, PTL

\* Who writes the desired row, who sets HAProxy.
LEMMA Writers ==
  ASSUME Next
  PROVE  /\ desired' # desired => \/ ProbingVerified \/ ResetRestores
                                  \/ \E s \in Canaries : CanaryFails(s) \/ CanaryAdvances(s)
         /\ runtime' # runtime => CommandWeight \/ CommandState \/ HAProxyRestarts
         /\ foreign' # foreign => ResetRestores \/ HAProxyRestarts
BY DEF Next, WorkerStep, ResetStep, Environment, StartReintegration, ProbeAgain,
       ProbingVerified, CanaryFails, CanaryAdvances, CommitDesired, DriftDetected,
       HealthyVerified, CommandWeight, CommandState, FinishEnter, FinishFallback,
       RecoverTransition, RequestReset, ResetGateFails, ResetRestores,
       ResetCommandFails, FinishReset, FinishFailedReset, Interrupt, StageAges,
       TrafficChanges, HAProxyRestarts, database

\* The first commit of a transition asks for what has been climbed to.
LEMMA CommitClimbs ==
  ASSUME IInv, Next,
         ProbingVerified \/ \E s \in Canaries : CanaryFails(s) \/ CanaryAdvances(s)
  PROVE  /\ desired'.source = "action" /\ Tried(desired.weight)'
         /\ UNCHANGED <<runtime, foreign>>
<1>1. /\ desired'.source = "action" /\ job' \in {"enter", "fallback"}
      /\ UNCHANGED <<runtime, foreign>>
  BY DEF ProbingVerified, CanaryFails, CanaryAdvances, CommitDesired
<1>2. IInv'
  BY NextKeeps
<1>3. (FellBack \/ \E n \in 1 .. Healthy : Entered(n))'
  BY <1>1, <1>2 DEF IInv, JobOwned
<1> QED BY <1>1, <1>2, <1>3, CommittedIsClimbedNext

LEMMA NextClimbed ==
  ASSUME IInv, Climbed, Next
  PROVE  Climbed'
<1> USE StageIndex
<1> SUFFICES ASSUME ~foreign'
             PROVE  (desired.source = "action" /\ Tried(desired.weight) /\ Tried(runtime.weight))'
  BY DEF Climbed
<1>1. ~HAProxyRestarts /\ ~ResetRestores
  BY DEF HAProxyRestarts, ResetRestores
<1>2. ~foreign
  BY <1>1, Writers
<1>3. desired.source = "action" /\ Tried(desired.weight) /\ Tried(runtime.weight)
  BY <1>2 DEF Climbed
<1>4. ASSUME NEW w, Tried(w)
      PROVE  \A s \in Canaries : w >= Weight[s] => \A t \in 0 .. s - 1 : stage'[t] # "PENDING"
  BY <1>4, TriedForGood DEF Tried
<1>5. CASE desired' # desired
  BY <1>1, <1>3, <1>4, <1>5, Writers, CommitClimbs DEF Tried
<1>6. CASE desired' = desired
  <2>1. runtime'.weight \in {runtime.weight, desired.weight}
    BY <1>1, Writers DEF CommandWeight, CommandState, IInv, TypeOK
  <2> QED BY <1>3, <1>4, <1>6, <2>1 DEF Tried
<1> QED BY <1>5, <1>6

\* As long as only the run has set HAProxy, the traffic of a rung is served
\* only after every stage below it was tried, half-sent commands included.
THEOREM TrafficClimbs == Spec => []TrafficFollowsLadder
<1>1. Init => Climbed
  BY StageIndex, WeightFacts DEF Init, Climbed, Tried
<1>2. IInv /\ Climbed /\ [Next]_vars => Climbed'
  <2>1. IInv /\ Climbed /\ UNCHANGED vars => Climbed'
    BY DEF vars, Climbed, Tried, database, run
  <2> QED BY <2>1, NextClimbed
<1>3. Climbed => TrafficFollowsLadder
  BY DEF Climbed, Tried, TrafficFollowsLadder
<1> QED BY <1>1, <1>2, <1>3, Inductive, PTL DEF Spec

-----------------------------------------------------------------------------
(* What the run implements: a ladder that ends at the baseline.  Any other  *)
(* ladder stops at HEALTHY, where the weight sent and the weight asked for  *)
(* differ.                                                                  *)

EndsAtBaseline == BaselineWeight = Weight[Rungs]

\* The desired weight is a rung, that of the CURRENT stage if there is one; a
\* reset has written the baseline.
OnRung ==
  /\ desired.source = "action" =>
       /\ \E r \in 0 .. Rungs : desired.weight = FallbackWeight(r)
       /\ \A s \in 1 .. Healthy : Current(s) => desired.weight = RequestedWeight(s)
  /\ desired.source = "reset" =>
       desired.weight = BaselineWeight /\ desired.admin = AdminFor(BaselineWeight)

LEMMA RungOfWeight ==
  \A r \in 0 .. Rungs : FallbackWeight(r) \in Nat /\ RungOf(FallbackWeight(r)) = r
<1> USE StageIndex
<1> TAKE r \in 0 .. Rungs
<1> DEFINE Names(w, q) == IF q = 0 THEN w = 0 ELSE w = Weight[q]
<1>1. FallbackWeight(r) \in Nat /\ Names(FallbackWeight(r), r)
  BY WeightFacts DEF FallbackWeight
<1>2. \A q \in 0 .. Rungs : Names(FallbackWeight(r), q) => q = r
  BY WeightFacts DEF FallbackWeight
<1>3. RungOf(FallbackWeight(r)) = CHOOSE q \in 0 .. Rungs : Names(FallbackWeight(r), q)
  BY DEF RungOf
<1> HIDE DEF Names
<1> QED BY <1>1, <1>2, <1>3

\* The weight of a stage is that of its rung; HEALTHY is on the top one.
LEMMA EntryIsRung ==
  ASSUME EndsAtBaseline, NEW n \in 1 .. Healthy
  PROVE  /\ EntryWeight(n) = RequestedWeight(n)
         /\ EntryWeight(n) = FallbackWeight(IF n = Healthy THEN Rungs ELSE n)
BY StageIndex DEF EndsAtBaseline, EntryWeight, RequestedWeight, FallbackWeight

\* No stage is CURRENT after the first commit of a transition.
LEMMA CommitEndsStage ==
  ASSUME IInv, NEW s \in 0 .. Rungs, Current(s),
         NEW verdict \in {"VERIFIED", "FAILED"}, stage' = Judged(s, verdict)
  PROVE  NoCurrent'
BY StageIndex DEF IInv, Safe, OneCurrentStage, TypeOK, NoCurrent, Current, Judged

LEMMA NextOnRung ==
  ASSUME EndsAtBaseline, IInv, OnRung, Next
  PROVE  OnRung'
<1> USE StageIndex
<1>1. ASSUME NEW n \in 1 .. Healthy, RunActive, Current(n - 1), stage' = Judged(n - 1, "VERIFIED"),
             CommitDesired(EntryWeight(n), "enter", n)
      PROVE  OnRung'
  <2>1. NoCurrent'
    BY <1>1, CommitEndsStage
  <2>2. desired'.source = "action" /\ desired'.weight = EntryWeight(n)
    BY <1>1 DEF CommitDesired
  <2>3. (IF n = Healthy THEN Rungs ELSE n) \in 0 .. Rungs
    OBVIOUS
  <2> QED BY <2>1, <2>2, <2>3, EntryIsRung DEF OnRung, NoCurrent
<1>2. CASE ProbingVerified
  BY <1>1, <1>2 DEF ProbingVerified, EntryWeight
<1>3. ASSUME NEW s \in Canaries, CanaryAdvances(s) PROVE OnRung'
  <2>1. s + 1 \in 1 .. Healthy /\ (s + 1) - 1 = s
    OBVIOUS
  <2> QED BY <1>1, <1>3, <2>1 DEF CanaryAdvances
<1>4. ASSUME NEW s \in Canaries, CanaryFails(s) PROVE OnRung'
  <2>1. NoCurrent'
    BY <1>4, CommitEndsStage DEF CanaryFails
  <2>2. desired'.source = "action" /\ desired'.weight = FallbackWeight(lastVerified)
    BY <1>4 DEF CanaryFails, CommitDesired
  <2>3. lastVerified = s - 1
    BY <1>4 DEF CanaryFails, IInv, Safe, CanaryAfterVerification
  <2> QED BY <2>1, <2>2, <2>3 DEF OnRung, NoCurrent
<1>5. CASE ResetRestores
  BY <1>5 DEF ResetRestores, OnRung
<1>6. CASE FinishEnter
  <2>1. next \in 1 .. Healthy /\ desired.weight = EntryWeight(next) /\ NoCurrent
    BY <1>6 DEF FinishEnter, IInv, JobOwned, Entered
  <2>2. \A t \in Stages : stage'[t] = IF t = next THEN "CURRENT" ELSE stage[t]
    BY <1>6, <2>1 DEF FinishEnter, IInv, TypeOK
  <2>3. desired' = desired
    BY <1>6 DEF FinishEnter
  <2> QED BY <2>1, <2>2, <2>3, EntryIsRung DEF OnRung, NoCurrent, Current
<1>7. CASE RecoverTransition
  <2>1. ASSUME NEW s \in PendingMatches, stage' = [stage EXCEPT ![s] = "CURRENT"], NoCurrent
        PROVE  \A t \in 1 .. Healthy : Current(t)' => desired.weight = RequestedWeight(t)
    BY <2>1 DEF PendingMatches, NoCurrent, Current, IInv, TypeOK
  <2>2. desired' = desired
    BY <1>7 DEF RecoverTransition
  <2> QED BY <1>7, <2>1, <2>2 DEF RecoverTransition, OnRung, NoCurrent, Current
<1>8. CASE UNCHANGED desired /\ \A s \in 1 .. Healthy : Current(s)' => Current(s)
  BY <1>8 DEF OnRung
<1>9. CASE StartReintegration \/ FinishFallback
  <2>1. UNCHANGED desired /\ \A s \in 1 .. Healthy : Current(s)' => Current(s)
    BY <1>9 DEF StartReintegration, FinishFallback, Current, IInv, TypeOK
  <2> QED BY <1>8, <2>1
<1>10. CASE HealthyVerified \/ FinishReset
  <2>1. UNCHANGED desired /\ \A s \in 1 .. Healthy : Current(s)' => Current(s)
    BY <1>10 DEF HealthyVerified, FinishReset, Judged, Current, IInv, TypeOK
  <2> QED BY <1>8, <2>1
<1>11. CASE \/ ProbeAgain \/ CommandWeight \/ CommandState \/ Environment
            \/ RequestReset \/ ResetGateFails \/ ResetCommandFails \/ FinishFailedReset
            \/ \E s \in 1 .. Healthy : DriftDetected(s)
  <2>1. UNCHANGED <<desired, stage>>
    BY <1>11 DEF ProbeAgain, CommandWeight, CommandState, Environment, RequestReset,
                 ResetGateFails, ResetCommandFails, FinishFailedReset, DriftDetected,
                 Interrupt, StageAges, TrafficChanges, HAProxyRestarts, database, run
  <2> QED BY <1>8, <2>1 DEF Current
<1> QED BY <1>2, <1>3, <1>4, <1>5, <1>6, <1>7, <1>9, <1>10, <1>11
        DEF Next, WorkerStep, ResetStep

LEMMA RungsKept == EndsAtBaseline => (Spec => []OnRung)
<1> SUFFICES ASSUME EndsAtBaseline PROVE Spec => []OnRung
  OBVIOUS
<1>1. Init => OnRung
  BY StageIndex DEF Init, OnRung, Current, FallbackWeight
<1>2. IInv /\ OnRung /\ [Next]_vars => OnRung'
  <2>1. OnRung /\ UNCHANGED vars => OnRung'
    BY DEF vars, OnRung, Current, database, run
  <2> QED BY <2>1, NextOnRung
<1> QED BY <1>1, <1>2, Inductive, PTL DEF Spec

\* An incident is resolved only by a step that reads the baseline back, when
\* the ladder ends there: HEALTHY and the lab reset both ask for it.
THEOREM ReadBackFirst == EndsAtBaseline => (Spec => ResolvedOnReadback)
<1> SUFFICES ASSUME EndsAtBaseline PROVE Spec => ResolvedOnReadback
  OBVIOUS
<1> DEFINE Resolves == incident # "RESOLVED" /\ incident' = "RESOLVED"
           ReadBack == /\ Observed.weight = BaselineWeight
                       /\ Observed.admin = AdminFor(BaselineWeight)
<1>1. IInv /\ OnRung /\ [Next]_vars => [Resolves => ReadBack]_vars
  <2> SUFFICES ASSUME IInv, OnRung, Next, Resolves PROVE ReadBack
    OBVIOUS
  <2>1. HealthyVerified \/ FinishReset
    BY DEF Next, WorkerStep, ResetStep, Environment, StartReintegration, ProbeAgain,
           ProbingVerified, CanaryFails, CanaryAdvances, CommitDesired, DriftDetected,
           EnterReview, CommandWeight, CommandState, FinishEnter, FinishFallback,
           RecoverTransition, RequestReset, ResetGateFails, ResetRestores,
           ResetCommandFails, FinishFailedReset, Interrupt, StageAges,
           TrafficChanges, HAProxyRestarts, database
  <2>2. CASE HealthyVerified
    BY <2>2 DEF HealthyVerified, MatchesStage, RequestedWeight, EndsAtBaseline
  <2>3. CASE FinishReset
    <3>1. desired.source = "reset" /\ MatchesDesired
      BY <2>3 DEF FinishReset, IInv, JobOwned
    <3> QED BY <3>1 DEF MatchesDesired, OnRung
  <2> QED BY <2>1, <2>2, <2>3
<1> QED BY <1>1, Inductive, RungsKept, PTL DEF Spec, ResolvedOnReadback

-----------------------------------------------------------------------------
(* The staged return implements CanaryLadder.                              *)

\* What Ladder takes for its rung.
Rung == IF desired.source = "reset" THEN 0 ELSE RungOf(desired.weight)

\* The steps of the ladder in terms of Rung and Phase.
LEMMA LadderMoves ==
  ASSUME Rung \in 0 .. Rungs, Rung' \in 0 .. Rungs, Rung' <= Rung + 1,
         Phase = "returning", Phase' = "returning"
  PROVE  [Ladder!Next]_Ladder!ladder
BY StageIndex DEF Rung, Ladder!Next, Ladder!Climb, Ladder!Fall, Ladder!ladder

LEMMA LadderEnds ==
  ASSUME \/ Phase = "returning" /\ Phase' = "review" /\ Rung' = Rung
         \/ Phase = "returning" /\ Phase' = "restored" /\ Rung' = Rung /\ Rung = Rungs
         \/ Phase # "taken_over" /\ Phase' = "taken_over" /\ Rung' = 0
         \/ Phase' = Phase /\ Rung' = Rung
  PROVE  [Ladder!Next]_Ladder!ladder
<1>1. CASE Phase = "returning" /\ Phase' = "review" /\ Rung' = Rung
  BY <1>1 DEF Rung, Ladder!Next, Ladder!Review
<1>2. CASE Phase = "returning" /\ Phase' = "restored" /\ Rung' = Rung /\ Rung = Rungs
  BY <1>2 DEF Rung, Ladder!Next, Ladder!Restore
<1>3. CASE Phase # "taken_over" /\ Phase' = "taken_over" /\ Rung' = 0
  BY <1>3 DEF Rung, Ladder!Next, Ladder!TakeOver
<1>4. CASE Phase' = Phase /\ Rung' = Rung
  BY <1>4 DEF Rung, Ladder!ladder
<1> QED BY <1>1, <1>2, <1>3, <1>4

\* The rung of a desired row, before and after a step.
LEMMA StandsOn ==
  ASSUME OnRung, desired.source = "action"
  PROVE  /\ Rung \in 0 .. Rungs
         /\ \A r \in 0 .. Rungs : desired.weight = FallbackWeight(r) => Rung = r
         /\ \A s \in Canaries : Current(s) => Rung = s
         /\ Current(Healthy) => Rung = Rungs
<1> USE StageIndex
<1>1. PICK r \in 0 .. Rungs : desired.weight = FallbackWeight(r)
  BY DEF OnRung
<1>2. \A q \in 0 .. Rungs : desired.weight = FallbackWeight(q) => Rung = q
  BY RungOfWeight DEF Rung
<1>3. \A s \in Canaries : Current(s) => desired.weight = FallbackWeight(s)
  BY DEF OnRung, RequestedWeight, FallbackWeight
<1>4. Current(Healthy) => desired.weight = FallbackWeight(Rungs)
  BY DEF OnRung, RequestedWeight, FallbackWeight
<1> QED BY <1>1, <1>2, <1>3, <1>4

LEMMA LandsOn ==
  ASSUME desired'.source = "action", NEW r \in 0 .. Rungs, desired'.weight = FallbackWeight(r)
  PROVE  Rung' = r
BY RungOfWeight DEF Rung

\* Entering a stage climbs one rung, or goes back to the first.
LEMMA EnteringClimbs ==
  ASSUME EndsAtBaseline, IInv, OnRung, NEW n \in 1 .. Healthy, RunActive,
         Current(n - 1), CommitDesired(EntryWeight(n), "enter", n)
  PROVE  [Ladder!Next]_Ladder!ladder
<1> USE StageIndex
<1>1. /\ desired.source = "action" /\ desired'.source = "action"
      /\ runStatus = "ACTIVE" /\ runStatus' = "ACTIVE"
  BY RunOwnsDesired DEF CommitDesired, RunActive
<1>2. Phase = "returning" /\ Phase' = "returning"
  BY <1>1 DEF Phase
<1>3. Rung' = IF n = Healthy THEN Rungs ELSE n
  <2>1. (IF n = Healthy THEN Rungs ELSE n) \in 0 .. Rungs
    OBVIOUS
  <2> QED BY <1>1, <2>1, EntryIsRung, LandsOn DEF CommitDesired
<1>4. Rung \in 0 .. Rungs /\ (n - 1 \in Canaries => Rung = n - 1)
  BY <1>1, StandsOn
<1>5. Rung' \in 0 .. Rungs /\ Rung' <= Rung + 1
  <2>1. CASE n = 1
    BY <1>3, <1>4, <2>1
  <2>2. CASE n # 1
    <3>1. n - 1 \in Canaries
      BY <2>2
    <3> QED BY <1>3, <1>4, <3>1
  <2> QED BY <2>1, <2>2
<1> QED BY <1>2, <1>4, <1>5, LadderMoves

\* A fallback goes back to the rung below, or to the ground.
LEMMA FallingBack ==
  ASSUME EndsAtBaseline, IInv, OnRung, NEW s \in Canaries, CanaryFails(s)
  PROVE  [Ladder!Next]_Ladder!ladder
<1> USE StageIndex
<1>1. /\ desired.source = "action" /\ desired'.source = "action"
      /\ runStatus = "ACTIVE" /\ runStatus' = "ACTIVE" /\ Current(s)
  BY RunOwnsDesired DEF CanaryFails, CommitDesired, RunActive
<1>2. Phase = "returning" /\ Phase' = "returning"
  BY <1>1 DEF Phase
<1>3. lastVerified = s - 1 /\ desired'.weight = FallbackWeight(lastVerified)
  BY <1>1 DEF CanaryFails, CommitDesired, IInv, Safe, CanaryAfterVerification
<1>4. Rung' = s - 1
  <2>1. s - 1 \in 0 .. Rungs
    OBVIOUS
  <2> QED BY <1>1, <1>3, <2>1, LandsOn
<1>5. Rung = s
  BY <1>1, StandsOn
<1> QED BY <1>2, <1>4, <1>5, LadderMoves

LEMMA NextClimbs ==
  ASSUME EndsAtBaseline, IInv, OnRung, Next
  PROVE  [Ladder!Next]_Ladder!ladder
<1> USE StageIndex
<1>1. CASE ProbingVerified
  <2>1. 1 \in 1 .. Healthy /\ 1 - 1 = Probing /\ EntryWeight(1) = Weight[1]
    BY DEF EntryWeight
  <2> QED BY <1>1, <2>1, EnteringClimbs DEF ProbingVerified
<1>2. ASSUME NEW s \in Canaries, CanaryAdvances(s) PROVE [Ladder!Next]_Ladder!ladder
  <2>1. s + 1 \in 1 .. Healthy /\ (s + 1) - 1 = s
    OBVIOUS
  <2> QED BY <1>2, <2>1, EnteringClimbs DEF CanaryAdvances
<1>3. ASSUME NEW s \in Canaries, CanaryFails(s) PROVE [Ladder!Next]_Ladder!ladder
  BY <1>3, FallingBack
<1>4. CASE ResetRestores
  <2>1. desired'.source = "reset"
    BY <1>4 DEF ResetRestores
  <2>2. Phase' = "taken_over" /\ Rung' = 0
    BY <2>1 DEF Phase, Rung
  <2>3. Phase = "taken_over" => Rung = 0
    BY DEF Phase, Rung
  <2> QED BY <2>2, <2>3, LadderEnds
<1>5. CASE HealthyVerified
  <2>1. /\ desired.source = "action" /\ desired' = desired /\ Current(Healthy)
        /\ runStatus = "ACTIVE" /\ runStatus' = "COMPLETED"
    BY <1>5, RunOwnsDesired DEF HealthyVerified, RunActive
  <2>2. Phase = "returning" /\ Phase' = "restored" /\ Rung' = Rung
    BY <2>1 DEF Phase, Rung
  <2>3. Rung = Rungs
    BY <2>1, StandsOn
  <2> QED BY <2>2, <2>3, LadderEnds
<1>6. CASE desired' = desired /\ ~HealthyVerified
  <2>1. Rung' = Rung
    BY <1>6 DEF Rung
  <2>2. CASE desired.source = "reset"
    BY <1>6, <2>1, <2>2, LadderEnds DEF Phase
  <2>3. CASE desired.source = "action" /\ runStatus' = runStatus
    BY <1>6, <2>1, <2>3, LadderEnds DEF Phase
  <2>4. CASE desired.source = "action" /\ runStatus' # runStatus
    <3>1. \/ runStatus = "NONE" /\ runStatus' = "ACTIVE"
          \/ runStatus = "ACTIVE" /\ runStatus' = "NEEDS_REVIEW"
      <4>1. ~FinishReset /\ ~FinishFailedReset
        BY <2>4 DEF FinishReset, FinishFailedReset, IInv, JobOwned
      <4> QED BY <1>6, <2>4, <4>1
              DEF Next, WorkerStep, ResetStep, Environment, StartReintegration, ProbeAgain,
                  ProbingVerified, CanaryFails, CanaryAdvances, CommitDesired,
                  DriftDetected, EnterReview, CommandWeight, CommandState, FinishEnter,
                  FinishFallback, RecoverTransition, RequestReset, ResetGateFails,
                  ResetRestores, ResetCommandFails, Interrupt, StageAges, TrafficChanges,
                  HAProxyRestarts, database, run, RunActive, IInv, JobOwned
    <3>2. \/ Phase = "returning" /\ Phase' = "returning"
          \/ Phase = "returning" /\ Phase' = "review"
      BY <1>6, <2>4, <3>1 DEF Phase
    <3> QED BY <2>1, <3>2, LadderEnds
  <2> QED BY <2>2, <2>3, <2>4 DEF IInv, TypeOK
<1>7. CASE desired' # desired
  BY <1>1, <1>2, <1>3, <1>4, <1>7, Writers
<1> QED BY <1>5, <1>6, <1>7

\* Whatever is interrupted, retried, recovered or reset, the durable desired
\* weight moves as CanaryLadder allows, for every ladder that ends at the
\* baseline weight.
THEOREM ImplementsLadder == EndsAtBaseline => (Spec => ClimbsLadder)
<1> SUFFICES ASSUME EndsAtBaseline PROVE Spec => ClimbsLadder
  OBVIOUS
<1>1. Init => Ladder!Init
  <2> SUFFICES ASSUME Init PROVE Ladder!Init
    OBVIOUS
  <2>1. 0 \in 0 .. Rungs /\ FallbackWeight(0) = 0
    BY StageIndex DEF FallbackWeight
  <2>2. RungOf(0) = 0
    BY <2>1, RungOfWeight
  <2> QED BY <2>2 DEF Init, Ladder!Init, Phase
<1>2. IInv /\ OnRung /\ [Next]_vars => [Ladder!Next]_Ladder!ladder
  <2>1. UNCHANGED vars => [Ladder!Next]_Ladder!ladder
    BY DEF vars, database, run, Ladder!ladder, Phase
  <2> QED BY <2>1, NextClimbs
<1> QED BY <1>1, <1>2, Inductive, RungsKept, PTL DEF Spec, ClimbsLadder, Ladder!Spec
=============================================================================
