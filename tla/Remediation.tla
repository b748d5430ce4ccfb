---------------------------- MODULE Remediation ----------------------------
(***************************************************************************)
(* The remediation sagas of the control worker (worker.py): from a failing *)
(* membership or instance to an incident, an action that drains it through *)
(* the HAProxy Runtime, its verification or rollback, and its return, with *)
(* the lab reset that overrides all of them.                               *)
(*                                                                         *)
(* tick() serves one duty per iteration, in a fixed order of priority; a   *)
(* handler alternates database transactions and Runtime commands.  The     *)
(* variable worker is where the handler stands between two of them.        *)
(* Nothing but the database and the Runtime survives Interrupt, which is a *)
(* crash, a restart or an exception that the loop catches.                 *)
(*                                                                         *)
(* Abstracted: evidence to what it lets the classifier conclude on the     *)
(* traffic of the current routing; the confirmation by two windows; queues *)
(* and reserve to whether the certificate allows the action; SHARED_ROUTE  *)
(* and UNKNOWN incidents, which no other handler reads; probe passes to a  *)
(* passing probe; the stages of a return to three weights (see             *)
(* Reintegration); certificates, attempts, snapshots and events.  One      *)
(* worker runs.                                                            *)
(***************************************************************************)
EXTENDS Integers, Sequences

CONSTANTS
  Routes, Instances,
  MaxIncidents,  \* bound on the incidents of a behaviour
  MaxMishaps,    \* bound on interrupts and failed commands
  MaxRestarts,   \* bound on restarts of HAProxy
  MaxResets      \* bound on the lab resets an operator requests

ASSUME BoundsAssumption ==
  MaxIncidents \in Nat /\ MaxMishaps \in Nat /\ MaxRestarts \in Nat /\ MaxResets \in Nat

VARIABLES
  incidents,    \* Incident rows in order of opened_at, with what their
                \* latest certificate allows
  actions,      \* Action rows in order of created_at, with their run
  desired,      \* DesiredRouteState of each membership
  reset,        \* LabResetRequest.status of the latest request
  runtime,      \* what HAProxy applies to each server
  failing,      \* memberships whose application probe fails
  faultsClear,  \* no LabFault is outside its terminal statuses
  worker,       \* the point the worker has reached in a handler
  used          \* how much of each bound is used up

database == <<incidents, actions, desired, reset>>
faults == <<failing, faultsClear>>
vars == <<database, runtime, faults, worker, used>>

Members == Routes \X Instances
OfInstance(x) == Routes \X {x}
\* Route peers on other instances and sibling routes on the same instance.
Comparisons(m) == {p \in Members \ {m} : p[1] = m[1] \/ p[2] = m[2]}
Failures == {{}} \cup {{m} : m \in Members} \cup {OfInstance(x) : x \in Instances}

\* Of "full", ready at weight 100; "canary", ready at a lower weight; "drain",
\* drained at weight 0.  Runtime may also be "half": one of the two commands
\* between an out-of-service and an in-service state was applied.
States == {"full", "canary", "drain"}
InService == {"full", "canary"}

ActiveStatus == {"OPEN", "VERIFYING", "MITIGATING", "RECOVERING", "NEEDS_REVIEW"}
InFlightLifecycle == {"PREPARED", "VERIFYING"}

-----------------------------------------------------------------------------
Idle == [at |-> "idle", subject |-> 0, todo |-> {}, err |-> FALSE]
Sending(job, i, S) == [at |-> job, subject |-> i, todo |-> S, err |-> FALSE]

Oldest(S) == CHOOSE i \in S : \A j \in S : i <= j
Newest(S) == CHOOSE i \in S : \A j \in S : j <= i

IncidentOf(i) == actions[i].incident
ActiveIncident(k) == incidents[k].status \in ActiveStatus
WithLifecycle(L) == {i \in DOMAIN actions : actions[i].lifecycle \in L}
HasAction(k) == \E i \in DOMAIN actions : IncidentOf(i) = k

Use(what) == used' = [used EXCEPT ![what] = @ + 1]

\* The action i and its incident after a handler's last transaction.
Settle(i, lifecycle, status) ==
  /\ actions' = [actions EXCEPT ![i].lifecycle = lifecycle]
  /\ incidents' = [incidents EXCEPT ![IncidentOf(i)].status = status]

\* A server reads "down" while its health check fails, which takes every
\* route of the instance to fail, and some time.
Downable == {m \in Members : OfInstance(m[2]) \subseteq failing}
Reads(m, s, down) == m \notin down /\ runtime[m] = s
AllRead(S, s, down) == \A m \in S : Reads(m, s, down)

Init ==
  /\ incidents = <<>> /\ actions = <<>>
  /\ desired = [m \in Members |-> [state |-> "full", source |-> 0]]
  /\ reset = "NONE"
  /\ runtime = [m \in Members |-> "full"]
  /\ failing = {} /\ faultsClear = TRUE
  /\ worker = Idle
  /\ used = [what \in {"mishap", "restart", "reset"} |-> 0]

-----------------------------------------------------------------------------
(* The order in which tick() looks for its duty.                           *)

ResetPending == reset \in {"REQUESTED", "RUNNING"}
TickReaches == worker.at = "idle" /\ ~ResetPending /\ reset # "NEEDS_REVIEW"

Prepared == WithLifecycle({"PREPARED"})
Verifying == WithLifecycle({"VERIFYING"})
UnknownInstances ==
  {i \in WithLifecycle({"RESULT_UNKNOWN"}) : actions[i].kind = "INSTANCE"}
ActiveRuns == {i \in DOMAIN actions : actions[i].run = "ACTIVE"}
Quarantines == {i \in WithLifecycle({"COMMITTED"}) : ActiveIncident(IncidentOf(i))}

ServesPrepared(i) == TickReaches /\ i \in Prepared /\ i = Oldest(Prepared)
NoneInFlight == TickReaches /\ Prepared = {} /\ Verifying = {}
ServesVerifying(i) ==
  TickReaches /\ Prepared = {} /\ i \in Verifying /\ i = Oldest(Verifying)
ServesUnknown(i) ==
  /\ NoneInFlight /\ i \in UnknownInstances /\ i = Oldest(UnknownInstances)
  /\ faultsClear
ServesRun(i) ==
  /\ NoneInFlight /\ UnknownInstances = {}
  /\ i \in ActiveRuns /\ i = Oldest(ActiveRuns)
ServesQuarantine(i) ==
  /\ NoneInFlight /\ UnknownInstances = {} /\ ActiveRuns = {}
  /\ i \in Quarantines /\ i = Newest(Quarantines)
  /\ faultsClear
Classifies ==
  /\ NoneInFlight /\ UnknownInstances = {} /\ ActiveRuns = {}
  /\ ~(Quarantines # {} /\ faultsClear)
  /\ \A k \in DOMAIN incidents : ActiveIncident(k) => incidents[k].class # "ROUTE"

-----------------------------------------------------------------------------
(* From evidence to a durable decision, to an action, to its readback.     *)

HasTraffic(m) == runtime[m] \in InService

\* What classify() can conclude and confirm.  A failing instance comes first,
\* judged by probes alone; a route needs traffic on every compared member.
Suspects(class, S) ==
  \/ /\ class = "INSTANCE"
     /\ \E x \in Instances : S = OfInstance(x) /\ S \subseteq failing
  \/ /\ class = "ROUTE"
     /\ Downable = {}
     /\ \E m \in failing : /\ S = {m} /\ HasTraffic(m)
                           /\ \A p \in Comparisons(m) : p \notin failing /\ HasTraffic(p)
  \/ /\ class = "DEGRADED"
     /\ Downable = {}
     /\ \E m \in Members : S = {m} /\ HasTraffic(m)

\* The active incident of the same fingerprint, or, for a route membership,
\* of the other route class.
SameIncident(class, S) ==
  {k \in DOMAIN incidents :
     /\ ActiveIncident(k) /\ incidents[k].scope = S
     /\ incidents[k].class = class \/ {incidents[k].class, class} = {"ROUTE", "DEGRADED"}}

Decided(class, k) ==
  worker' = IF class = "DEGRADED" THEN Idle ELSE Sending("decided", k, {})

OpenIncident(class, S) ==
  /\ Classifies /\ Suspects(class, S) /\ SameIncident(class, S) = {}
  /\ Len(incidents) < MaxIncidents
  /\ \E allowed \in BOOLEAN :
       incidents' = Append(incidents,
         [class |-> class, scope |-> S, status |-> "OPEN",
          allowed |-> allowed /\ class # "DEGRADED"])
  /\ Decided(class, Len(incidents) + 1)
  /\ UNCHANGED <<actions, desired, reset, runtime, faults, used>>

\* A window that overlaps the one of the latest certificate answers with
\* that certificate; a later one is classified and certified anew.
UpdateIncident(class, S) ==
  /\ Classifies /\ Suspects(class, S)
  /\ \E k \in SameIncident(class, S) :
       /\ k = Newest(SameIncident(class, S))
       /\ \/ UNCHANGED incidents
          \/ \E allowed \in BOOLEAN :
               incidents' = [incidents EXCEPT
                 ![k].class = class, ![k].allowed = allowed /\ class # "DEGRADED"]
       /\ Decided(class, k)
  /\ UNCHANGED <<actions, desired, reset, runtime, faults, used>>

\* Traffic and probes of every membership are back to normal.
ResolveNonAction ==
  /\ Classifies /\ faultsClear /\ failing = {}
  /\ \A m \in Members : HasTraffic(m)
  /\ incidents' = [k \in DOMAIN incidents |->
       IF ActiveIncident(k) /\ ~HasAction(k)
         THEN [incidents[k] EXCEPT !.status = "RESOLVED"] ELSE incidents[k]]
  /\ incidents' # incidents
  /\ UNCHANGED <<actions, desired, reset, runtime, faults, worker, used>>

ActionDenied ==
  /\ worker.at = "decided" /\ ~incidents[worker.subject].allowed
  /\ incidents' = [incidents EXCEPT ![worker.subject].status = "NEEDS_REVIEW"]
  /\ worker' = Idle
  /\ UNCHANGED <<actions, desired, reset, runtime, faults, used>>

ActionExists ==
  /\ worker.at = "decided" /\ incidents[worker.subject].allowed
  /\ HasAction(worker.subject)
  /\ worker' = Idle
  /\ UNCHANGED <<database, runtime, faults, used>>

\* PREPARED, with the state to return to, is durable before any command.
Prepare ==
  /\ worker.at = "decided" /\ incidents[worker.subject].allowed
  /\ ~HasAction(worker.subject)
  /\ LET inc == incidents[worker.subject]
         new == Len(actions) + 1
     IN /\ actions' = Append(actions,
             [incident |-> worker.subject, kind |-> inc.class, scope |-> inc.scope,
              lifecycle |-> "PREPARED", run |-> "none",
              saved |-> [m \in inc.scope |-> desired[m].state]])
        /\ desired' = [m \in Members |-> IF m \in inc.scope
             THEN [state |-> "drain", source |-> new] ELSE desired[m]]
        /\ worker' = Sending("drain", new, inc.scope)
  /\ UNCHANGED <<incidents, reset, runtime, faults, used>>

\* What the current job asks of membership m.
Requested(m) ==
  CASE worker.at = "drain" -> "drain"
    [] worker.at \in {"rollback", "restore"} -> actions[worker.subject].saved[m]
    [] worker.at = "advance" -> desired[m].state
    [] OTHER -> "full"

\* set_absolute: both commands applied, and the server read back.
CommandOk ==
  \E m \in worker.todo, down \in SUBSET Downable :
    /\ runtime' = [runtime EXCEPT ![m] = Requested(m)]
    /\ worker' = [worker EXCEPT !.todo = @ \ {m},
                    !.err = @ \/ (worker.at = "reset" /\ m \in down)]
    /\ UNCHANGED <<database, faults, used>>

\* Only the weight was applied.
PartlySent(s, t) ==
  IF s = t \/ {s, t} \subseteq InService THEN t ELSE "half"

\* A failed command or a lost acknowledgement: an instance's commands stop,
\* a lab reset notes it and goes on, a route's drain is judged by readback,
\* and any other handler is left by an exception.
CommandFails ==
  /\ used["mishap"] < MaxMishaps /\ Use("mishap")
  /\ \E m \in worker.todo :
       /\ \E s \in {runtime[m], PartlySent(runtime[m], Requested(m)), Requested(m)} :
            runtime' = [runtime EXCEPT ![m] = s]
       /\ worker' =
            CASE worker.at = "reset" -> [worker EXCEPT !.todo = @ \ {m}, !.err = TRUE]
              [] worker.at = "drain" \/ (worker.at \in {"rollback", "restore"}
                   /\ actions[worker.subject].kind = "INSTANCE")
                     -> [worker EXCEPT !.todo = {}, !.err = TRUE]
              [] OTHER -> Idle
  /\ UNCHANGED <<database, faults>>

DrainOutcome(kind, drained, preserved) ==
  IF drained /\ preserved THEN "VERIFYING"
  ELSE IF kind = "INSTANCE" \/ (worker.err /\ ~drained) THEN "RESULT_UNKNOWN"
  ELSE "NEEDS_REVIEW"

\* The memberships are read back.  "preserved" fails when another server
\* reads otherwise than when the tick began; after a failed route command
\* the target may not be readable.
FinishDrain ==
  /\ worker.at = "drain" /\ worker.todo = {}
  /\ LET i == worker.subject IN
     \E down \in SUBSET Downable, preserved \in BOOLEAN,
        readable \in IF worker.err /\ actions[i].kind = "ROUTE" THEN BOOLEAN ELSE {TRUE} :
       LET drained == readable /\ AllRead(actions[i].scope, "drain", down)
           outcome == DrainOutcome(actions[i].kind, drained, preserved)
       IN Settle(i, outcome, IF outcome = "VERIFYING" THEN "VERIFYING" ELSE "NEEDS_REVIEW")
  /\ worker' = Idle
  /\ UNCHANGED <<desired, reset, runtime, faults, used>>

-----------------------------------------------------------------------------
(* The duties of a tick.                                                   *)

\* Servers of the same instance for a route action, of the other instances
\* for an instance action, read in full service.
Preserved(i, down) ==
  LET Same(p) == \E m \in actions[i].scope : m[2] = p[2]
      rest == {p \in Members \ actions[i].scope :
                 IF actions[i].kind = "ROUTE" THEN Same(p) ELSE ~Same(p)}
  IN AllRead(rest, "full", down)

\* Mutant: a readback that does not match leaves the action as it is.
RecoverMatching(i) ==
  /\ ServesPrepared(i)
  /\ \E down \in SUBSET Downable :
       AllRead(actions[i].scope, "drain", down) /\ Preserved(i, down)
  /\ Settle(i, "VERIFYING", "VERIFYING")
  /\ UNCHANGED <<desired, reset, runtime, faults, worker, used>>

\* Resolve a crash window from readback; never replay a command.
Recover(i) ==
  /\ ServesPrepared(i)
  /\ \E down \in SUBSET Downable :
       IF AllRead(actions[i].scope, "drain", down) /\ Preserved(i, down)
         THEN Settle(i, "VERIFYING", "VERIFYING")
         ELSE Settle(i, "RESULT_UNKNOWN", "NEEDS_REVIEW")
  /\ UNCHANGED <<desired, reset, runtime, faults, worker, used>>

\* EFFECTIVE: the evidence is good and every target reads drained.
CommitAction(i) ==
  /\ ServesVerifying(i)
  /\ \E down \in SUBSET Downable : AllRead(actions[i].scope, "drain", down)
  /\ Settle(i, "COMMITTED", "MITIGATING")
  /\ UNCHANGED <<desired, reset, runtime, faults, worker, used>>

\* HARMFUL or INEFFECTIVE: the saved state is sent before anything is
\* recorded.  Insufficient evidence leaves everything as it is.
BeginRollback(i) ==
  /\ ServesVerifying(i)
  /\ worker' = Sending("rollback", i, actions[i].scope)
  /\ UNCHANGED <<database, runtime, faults, used>>

\* An instance's rollback is judged by readback, a route's is not.
FinishRollback ==
  /\ worker.at = "rollback" /\ worker.todo = {}
  /\ LET i == worker.subject IN
     \E down \in SUBSET Downable :
       LET restored == \A m \in actions[i].scope : Reads(m, actions[i].saved[m], down)
       IN Settle(i, IF actions[i].kind = "ROUTE" \/ restored
                      THEN "ROLLED_BACK" ELSE "ROLLBACK_FAILED", "NEEDS_REVIEW")
  /\ worker' = Idle
  /\ UNCHANGED <<desired, reset, runtime, faults, used>>

\* Mutant: the commands are sent without recording what is desired.
BeginRestoreUnrecorded(i) ==
  /\ ServesUnknown(i) \/ (ServesQuarantine(i) /\ actions[i].kind = "INSTANCE")
  /\ actions[i].scope \cap failing = {}
  /\ worker' = Sending("restore", i, actions[i].scope)
  /\ UNCHANGED <<database, runtime, faults, used>>


\* The instance answers every probe again: the saved state is desired again.
\* A desired row that another action or a lab reset owns is an error, which
\* ends the tick.
BeginRestore(i) ==
  /\ ServesUnknown(i) \/ (ServesQuarantine(i) /\ actions[i].kind = "INSTANCE")
  /\ actions[i].scope \cap failing = {}
  /\ \A m \in actions[i].scope : desired[m].source = i
  /\ desired' = [m \in Members |-> IF m \in actions[i].scope
       THEN [desired[m] EXCEPT !.state = actions[i].saved[m]] ELSE desired[m]]
  /\ worker' = Sending("restore", i, actions[i].scope)
  /\ UNCHANGED <<incidents, actions, reset, runtime, faults, used>>

\* Mutant: the incident is resolved whatever is read back.
FinishRestoreBlind ==
  /\ worker.at = "restore" /\ worker.todo = {}
  /\ Settle(worker.subject, "COMMITTED", "RESOLVED")
  /\ worker' = Idle
  /\ UNCHANGED <<desired, reset, runtime, faults, used>>

\* Mutant: a restore that is not read back is verified again.
FinishRestoreRetries ==
  /\ worker.at = "restore" /\ worker.todo = {}
  /\ LET i == worker.subject IN
     \E down \in SUBSET Downable :
       IF \A m \in actions[i].scope : Reads(m, actions[i].saved[m], down)
         THEN Settle(i, "COMMITTED", "RESOLVED")
         ELSE Settle(i, "VERIFYING", "VERIFYING")
  /\ worker' = Idle
  /\ UNCHANGED <<desired, reset, runtime, faults, used>>

FinishRestore ==
  /\ worker.at = "restore" /\ worker.todo = {}
  /\ LET i == worker.subject IN
     \E down \in SUBSET Downable :
       IF \A m \in actions[i].scope : Reads(m, actions[i].saved[m], down)
         THEN Settle(i, "COMMITTED", "RESOLVED")
         ELSE Settle(i, "RESULT_UNKNOWN", "NEEDS_REVIEW")
  /\ worker' = Idle
  /\ UNCHANGED <<desired, reset, runtime, faults, used>>

-----------------------------------------------------------------------------
(* The staged return of a route membership, in outline.                    *)

SetRun(i, run, status) ==
  /\ actions' = [actions EXCEPT ![i].run = run]
  /\ incidents' = [incidents EXCEPT ![IncidentOf(i)].status = status]

StartRun(i) ==
  /\ ServesQuarantine(i) /\ actions[i].kind = "ROUTE" /\ actions[i].run = "none"
  /\ SetRun(i, "ACTIVE", "RECOVERING")
  /\ UNCHANGED <<desired, reset, runtime, faults, worker, used>>

\* A stage is entered or given up: the desired state is durable before the
\* command.
BeginAdvance(i, m, s) ==
  /\ desired' = [desired EXCEPT ![m] = [state |-> s, source |-> i]]
  /\ worker' = Sending("advance", i, actions[i].scope)
  /\ UNCHANGED <<incidents, actions, reset, runtime, faults, used>>

\* PROBING is verified by probes alone.
EnterFirstStage(i) ==
  /\ ServesRun(i)
  /\ \E m \in actions[i].scope :
       /\ desired[m].state = "drain" /\ m \notin failing
       /\ BeginAdvance(i, m, "canary")

\* Later stages are advanced, or given up, on real traffic.
ChangeStage(i, s) ==
  /\ ServesRun(i)
  /\ \E m \in actions[i].scope :
       /\ desired[m].state = "canary" \/ (desired[m].state = "full" /\ s # "full")
       /\ s = "full" => m \notin failing
       /\ BeginAdvance(i, m, s)

\* After a stage was given up the retries may be used up.
FinishAdvance ==
  /\ worker.at = "advance" /\ worker.todo = {}
  /\ \/ UNCHANGED <<incidents, actions>>
     \/ /\ \A m \in actions[worker.subject].scope : desired[m].state # "full"
        /\ SetRun(worker.subject, "NEEDS_REVIEW", "NEEDS_REVIEW")
  /\ worker' = Idle
  /\ UNCHANGED <<desired, reset, runtime, faults, used>>

\* Mutant: the run is completed on the probe alone.
CompleteRunBlind(i) ==
  /\ ServesRun(i)
  /\ actions[i].scope \cap failing = {}
  /\ SetRun(i, "COMPLETED", "RESOLVED")
  /\ UNCHANGED <<desired, reset, runtime, faults, worker, used>>

\* HEALTHY: the full weight is read back and the probe passes.
CompleteRun(i) ==
  /\ ServesRun(i)
  /\ actions[i].scope \cap failing = {}
  /\ \E down \in SUBSET Downable : AllRead(actions[i].scope, "full", down)
  /\ \A m \in actions[i].scope : desired[m].state = "full"
  /\ SetRun(i, "COMPLETED", "RESOLVED")
  /\ UNCHANGED <<desired, reset, runtime, faults, worker, used>>

\* Drift of a stage that asks for a weight, or an interrupted transition that
\* readback does not settle.
ReviewRun(i) ==
  /\ ServesRun(i)
  /\ \/ used["mishap"] > 0
     \/ \E m \in actions[i].scope, down \in SUBSET Downable :
          desired[m].state # "drain" /\ ~Reads(m, desired[m].state, down)
  /\ SetRun(i, "NEEDS_REVIEW", "NEEDS_REVIEW")
  /\ UNCHANGED <<desired, reset, runtime, faults, worker, used>>

-----------------------------------------------------------------------------
(* The lab reset.                                                          *)

RequestReset ==
  /\ ~ResetPending /\ reset' = "REQUESTED"
  /\ used["reset"] < MaxResets /\ Use("reset")
  /\ UNCHANGED <<incidents, actions, desired, runtime, faults, worker>>

StartReset ==
  /\ worker.at = "idle" /\ reset = "REQUESTED"
  /\ reset' = "RUNNING"
  /\ UNCHANGED <<incidents, actions, desired, runtime, faults, worker, used>>

\* A backend does not clear its fault, or a probe still fails.
ResetGateFails ==
  /\ worker.at = "idle" /\ reset = "RUNNING"
  /\ reset' = "NEEDS_REVIEW"
  /\ \/ UNCHANGED faults
     \/ faultsClear' = TRUE /\ failing # {} /\ UNCHANGED failing
  /\ UNCHANGED <<incidents, actions, desired, runtime, worker, used>>

\* Mutant: the servers are restored and what is desired of them is not.
ResetRestoresRuntime ==
  /\ worker.at = "idle" /\ reset = "RUNNING"
  /\ failing' = {} /\ faultsClear' = TRUE
  /\ worker' = Sending("reset", 0, Members)
  /\ UNCHANGED <<database, runtime, used>>

ResetRestores ==
  /\ worker.at = "idle" /\ reset = "RUNNING"
  /\ failing' = {} /\ faultsClear' = TRUE
  /\ desired' = [m \in Members |-> [state |-> "full", source |-> 0]]
  /\ worker' = Sending("reset", 0, Members)
  /\ UNCHANGED <<incidents, actions, reset, runtime, used>>

\* The verdict of every action in flight, and of the runs in the given states.
EndAll(lifecycle, runs, run) ==
  actions' = [i \in DOMAIN actions |->
    [actions[i] EXCEPT
       !.lifecycle = IF @ \in InFlightLifecycle THEN lifecycle ELSE @,
       !.run = IF @ \in runs THEN run ELSE @]]

\* Mutant: errors of the commands are ignored.
FinishResetAnyway ==
  /\ worker.at = "reset" /\ worker.todo = {}
  /\ EndAll("ROLLED_BACK", {"ACTIVE", "NEEDS_REVIEW"}, "CANCELLED")
  /\ incidents' = [k \in DOMAIN incidents |-> [incidents[k] EXCEPT !.status = "RESOLVED"]]
  /\ reset' = "COMPLETED"
  /\ worker' = Idle
  /\ UNCHANGED <<desired, runtime, faults, used>>

FinishReset ==
  /\ worker.at = "reset" /\ worker.todo = {} /\ ~worker.err
  /\ EndAll("ROLLED_BACK", {"ACTIVE", "NEEDS_REVIEW"}, "CANCELLED")
  /\ incidents' = [k \in DOMAIN incidents |-> [incidents[k] EXCEPT !.status = "RESOLVED"]]
  /\ reset' = "COMPLETED"
  /\ worker' = Idle
  /\ UNCHANGED <<desired, runtime, faults, used>>

FinishFailedReset ==
  /\ worker.at = "reset" /\ worker.todo = {} /\ worker.err
  /\ EndAll("NEEDS_REVIEW", {"ACTIVE"}, "NEEDS_REVIEW")
  /\ reset' = "NEEDS_REVIEW"
  /\ worker' = Idle
  /\ UNCHANGED <<incidents, desired, runtime, faults, used>>

-----------------------------------------------------------------------------
(* The environment.                                                        *)

Interrupt ==
  /\ worker.at # "idle"
  /\ used["mishap"] < MaxMishaps /\ Use("mishap")
  /\ worker' = Idle
  /\ UNCHANGED <<database, runtime, faults>>

\* LAB faults are injected, expire and are cleared, and instances fail on
\* their own.
FaultsChange ==
  /\ failing' \in Failures /\ faultsClear' \in BOOLEAN
  /\ UNCHANGED <<database, runtime, worker, used>>

\* haproxy.cfg starts every server ready at weight 100.
HAProxyRestarts ==
  /\ used["restart"] < MaxRestarts /\ Use("restart")
  /\ runtime' = [m \in Members |-> "full"]
  /\ UNCHANGED <<database, faults, worker>>

Decide ==
  \E class \in {"ROUTE", "DEGRADED", "INSTANCE"}, S \in Failures :
    OpenIncident(class, S) \/ UpdateIncident(class, S)

Judge ==
  \E i \in DOMAIN actions : CommitAction(i) \/ BeginRollback(i)

Return ==
  \E i \in DOMAIN actions :
    \/ \E s \in States : ChangeStage(i, s)
    \/ CompleteRun(i) \/ ReviewRun(i)

\* The steps that depend on no evidence of real traffic.
Proceed ==
  \/ ResolveNonAction \/ ActionDenied \/ ActionExists \/ Prepare
  \/ CommandOk
  \/ FinishDrain \/ FinishRollback \/ FinishRestore \/ FinishAdvance
  \/ \E i \in DOMAIN actions : Recover(i) \/ BeginRestore(i) \/ StartRun(i) \/ EnterFirstStage(i)
  \/ StartReset \/ ResetGateFails \/ ResetRestores
  \/ FinishReset \/ FinishFailedReset

Environment ==
  CommandFails \/ Interrupt \/ RequestReset \/ FaultsChange \/ HAProxyRestarts

Next == Decide \/ Judge \/ Return \/ Proceed \/ Environment

Spec == Init /\ [][Next]_vars

\* The loop ticks for ever.  Evidence from real traffic may stay
\* insufficient, so nothing is promised of what depends on it.
FairSpec == Spec /\ WF_vars(Proceed)

-----------------------------------------------------------------------------
(* What the sagas promise.                                                 *)

InFlight == WithLifecycle(InFlightLifecycle)
ResetOver == reset \in {"NONE", "COMPLETED"}
Covers(i, m) == m \in actions[i].scope

\* A membership that takes no traffic is never forgotten: an active incident
\* has an action on it, or a lab reset that has not succeeded answers for it,
\* also after crashes, failed commands and half-done returns.
QuarantineOwned ==
  worker.at = "idle" /\ ResetOver =>
    \A m \in Members : ~HasTraffic(m) =>
      \E i \in DOMAIN actions : Covers(i, m) /\ ActiveIncident(IncidentOf(i))

\* While HAProxy is not restarted, a mitigated scope takes traffic only where
\* the durable desired state says so, unless a later action has taken it over.
MitigationHolds ==
  worker.at = "idle" /\ ResetOver /\ used["restart"] = 0 =>
    \A i \in DOMAIN actions :
      actions[i].lifecycle = "COMMITTED" /\ incidents[IncidentOf(i)].status = "MITIGATING" =>
        \A m \in actions[i].scope :
          desired[m].source = i /\ HasTraffic(m) => desired[m].state \in InService

\* Between handlers the Runtime carries the durable desired state as long as
\* no command fails and nothing restarts, but for an action rolled back.
DesiredAgrees ==
  worker.at = "idle" /\ ResetOver /\ used["mishap"] = 0 /\ used["restart"] = 0 =>
    \A m \in Members :
      \/ runtime[m] = desired[m].state
      \/ \E i \in WithLifecycle({"ROLLED_BACK", "ROLLBACK_FAILED"}) : desired[m].source = i

\* An incident that was acted on is resolved only with its whole scope in
\* service again, by the return, the instance restore or the lab reset.
ResolvedInService ==
  [][\A k \in DOMAIN incidents :
       ActiveIncident(k) /\ incidents'[k].status = "RESOLVED" /\ HasAction(k) =>
         \A m \in incidents[k].scope : HasTraffic(m)]_vars

\* A completed lab reset leaves nothing to do: every server in full service,
\* no active incident, no action in flight and no run.
ResetLeavesBaseline ==
  [][reset # "COMPLETED" /\ reset' = "COMPLETED" =>
       /\ \A m \in Members : runtime[m] = "full" /\ desired[m].state = "full"
       /\ (\A k \in DOMAIN incidents : ~ActiveIncident(k))'
       /\ InFlight' = {} /\ ActiveRuns' = {}]_vars

\* One action at a time is between its preparation and its verdict, each once
\* and never after it was settled: tick() selects by lifecycle with LIMIT 1
\* and nothing in the schema forbids two.
Serial == INSTANCE SerialActions WITH
  open <- InFlight, closed <- DOMAIN actions \ InFlight
ActionsAreSerial == Serial!Spec

\* Every prepared action is decided from readback, whatever interrupts it,
\* unless a lab reset that does not succeed has stopped the tick.
PreparedIsDecided ==
  \A i \in 1 .. MaxIncidents :
    (i \in Prepared) ~> (i \notin Prepared \/ ~ResetOver)

\* An action that took an instance out and has not brought it back.
KeepsOut(i) ==
  /\ i \in DOMAIN actions /\ actions[i].kind = "INSTANCE"
  /\ ActiveIncident(IncidentOf(i))
  /\ actions[i].lifecycle \in {"COMMITTED", "RESULT_UNKNOWN"}
\* A later action or a lab reset has taken one of its desired rows.
Disowned(i) ==
  i \in DOMAIN actions /\ \E m \in actions[i].scope : desired[m].source # i
\* A later action has no verdict yet, or the return it began is not complete.
HeldBack(i) ==
  \E j \in DOMAIN actions : j > i /\ (j \in InFlight \/ actions[j].run \in {"ACTIVE", "NEEDS_REVIEW"})


-----------------------------------------------------------------------------
(* Statements of the repository's documents that the code does not keep.   *)

\* "max automatic complete-instance drains | one at a time"
OneInstanceDrained ==
  \A x, y \in Instances :
    /\ \A m \in OfInstance(x) : desired[m].state = "drain"
    /\ \A m \in OfInstance(y) : desired[m].state = "drain"
    => x = y

\* "every crash point recovers/compensates/reviews"
CrashPointsSettle ==
  \A k \in 1 .. MaxIncidents :
    (/\ worker.at = "idle" /\ k \in DOMAIN incidents /\ incidents[k].class = "ROUTE"
     /\ incidents[k].status = "OPEN" /\ ~HasAction(k))
    ~> (k \in DOMAIN incidents /\ (incidents[k].status # "OPEN" \/ HasAction(k)))

\* "Restore the synthetic LAB to its registered baseline": when it has, and
\* everything is healthy, no action keeps the worker from classifying.
ResetFreesAutomation ==
  <>[](failing = {} /\ faultsClear) =>
    (reset = "COMPLETED" /\ UnknownInstances # {} ~> UnknownInstances = {} \/ ~ResetOver)
=============================================================================
