------------------------- MODULE RemediationProofs -------------------------
(***************************************************************************)
(* For any routes, instances, incidents, mishaps, restarts and resets: the *)
(* types of the sagas, actions that are opened one at a time and closed    *)
(* once, and a completed lab reset that leaves the baseline.               *)
(*                                                                         *)
(* Two actions cannot be in flight because the decision that precedes an   *)
(* action is only taken while none is, and because nothing else happens to *)
(* actions until the handler has prepared it (Jobs).  A reset that saw no  *)
(* command fail has told every server so (ResetSent).                      *)
(*                                                                         *)
(* Account says who answers for what: actions, incidents and desired rows  *)
(* agree on the scope they share (RowsAgree, LifecyclesTell); a membership *)
(* without traffic belongs to an active incident (NothingForgotten); what  *)
(* a handler relies on until it is through (Handlers); a mitigation keeps  *)
(* its drain (MitigationStands); and what is desired has been sent or is   *)
(* still in todo (SentOrDue).  The four promises that rest on it are last. *)
(***************************************************************************)
EXTENDS Remediation, TLAPS, SequenceTheorems

Classes == {"ROUTE", "DEGRADED", "INSTANCE"}
Statuses == ActiveStatus \cup {"RESOLVED"}
Lifecycles == InFlightLifecycle \cup
  {"COMMITTED", "RESULT_UNKNOWN", "NEEDS_REVIEW", "ROLLED_BACK", "ROLLBACK_FAILED"}
RunStatuses == {"none", "ACTIVE", "COMPLETED", "NEEDS_REVIEW", "CANCELLED"}
Points == {"idle", "decided", "drain", "rollback", "restore", "advance", "reset"}

IncidentRows == [class : Classes, scope : SUBSET Members, status : Statuses, allowed : BOOLEAN]
ActionRows == [incident : Nat, kind : Classes, scope : SUBSET Members,
               lifecycle : Lifecycles, run : RunStatuses,
               saved : UNION {[S -> States] : S \in SUBSET Members}]
DesiredRows == [Members -> [state : States, source : Nat]]
Servers == [Members -> States \cup {"half"}]
Workers == [at : Points, subject : Nat, todo : SUBSET Members, err : BOOLEAN]

RowsTyped == incidents \in Seq(IncidentRows) /\ actions \in Seq(ActionRows)

TypeOK ==
  /\ RowsTyped
  /\ desired \in DesiredRows /\ runtime \in Servers
  /\ reset \in {"NONE", "REQUESTED", "RUNNING", "NEEDS_REVIEW", "COMPLETED"}
  /\ failing \subseteq Members /\ faultsClear \in BOOLEAN
  /\ worker \in Workers
  /\ used \in [{"mishap", "restart", "reset"} -> Nat]

\* An action belongs to an incident and knows the state of its whole scope.
Grounded ==
  \A i \in DOMAIN actions :
    IncidentOf(i) \in DOMAIN incidents /\ DOMAIN actions[i].saved = actions[i].scope

OneInFlight == \A i, j \in InFlight : i = j

\* What a handler is about.
Jobs ==
  /\ worker.at = "decided" => worker.subject \in DOMAIN incidents /\ InFlight = {}
  /\ worker.at \in {"drain", "rollback", "restore", "advance"} =>
       worker.subject \in DOMAIN actions /\ worker.todo \subseteq actions[worker.subject].scope
  /\ worker.at = "drain" => worker.subject \in Prepared

\* A reset without an error has restored every server it is done with.
ResetSent ==
  worker.at = "reset" =>
    /\ \A m \in Members : desired[m].state = "full"
    /\ ~worker.err => \A m \in Members \ worker.todo : runtime[m] = "full"

Sagas == Grounded /\ OneInFlight /\ Jobs
IInv == TypeOK /\ Sagas /\ ResetSent

serial == <<InFlight, DOMAIN actions \ InFlight>>

-----------------------------------------------------------------------------
(* Rows. *)

LEMMA SeqOf ==
  ASSUME NEW S, NEW n \in Nat, NEW f \in [1..n -> S]
  PROVE  f \in Seq(S) /\ Len(f) = n /\ DOMAIN f = 1..n
<1>1. f \in Seq(S)
  BY SeqDef
<1>2. DOMAIN f = 1..n /\ DOMAIN f = 1..Len(f) /\ Len(f) \in Nat
  BY <1>1, LenProperties
<1> QED BY <1>1, <1>2

\* The rows after a step that changes them one by one.
LEMMA SameRows ==
  ASSUME NEW S, NEW s \in Seq(S), NEW f, DOMAIN f = DOMAIN s,
         \A i \in DOMAIN s : f[i] \in S, f = [i \in DOMAIN s |-> f[i]]
  PROVE  f \in Seq(S) /\ Len(f) = Len(s)
<1>1. DOMAIN s = 1..Len(s) /\ Len(s) \in Nat
  BY LenProperties
<1>2. f \in [1..Len(s) -> S]
  BY <1>1
<1> QED BY <1>1, <1>2, SeqOf

LEMMA RowsAre ==
  ASSUME RowsTyped
  PROVE  /\ DOMAIN incidents = 1..Len(incidents) /\ Len(incidents) \in Nat
         /\ DOMAIN actions = 1..Len(actions) /\ Len(actions) \in Nat
         /\ \A k \in DOMAIN incidents : incidents[k] \in IncidentRows
         /\ \A i \in DOMAIN actions : actions[i] \in ActionRows
BY LenProperties, ElementOfSeq DEF RowsTyped

\* A status is written.
LEMMA StatusWritten ==
  ASSUME RowsTyped, NEW k \in DOMAIN incidents, NEW status \in Statuses,
         incidents' = [incidents EXCEPT ![k].status = status]
  PROVE  incidents' \in Seq(IncidentRows) /\ DOMAIN incidents' = DOMAIN incidents
<1>1. \A j \in DOMAIN incidents : incidents'[j] \in IncidentRows
  BY RowsAre DEF IncidentRows
<1> QED BY <1>1, SameRows DEF RowsTyped

\* The action after a step that writes its lifecycle or its run.
LEMMA ActionWritten ==
  ASSUME RowsTyped, DOMAIN actions' = DOMAIN actions,
         actions' = [i \in DOMAIN actions |-> actions'[i]],
         \A i \in DOMAIN actions : \E L \in Lifecycles, r \in RunStatuses :
            actions'[i] = [actions[i] EXCEPT !.lifecycle = L, !.run = r]
  PROVE  /\ actions' \in Seq(ActionRows)
         /\ \A i \in DOMAIN actions : /\ actions'[i].incident = actions[i].incident
                                      /\ actions'[i].scope = actions[i].scope
                                      /\ actions'[i].saved = actions[i].saved
<1>1. ASSUME NEW i \in DOMAIN actions
      PROVE  /\ actions'[i] \in ActionRows
             /\ actions'[i].incident = actions[i].incident
             /\ actions'[i].scope = actions[i].scope
             /\ actions'[i].saved = actions[i].saved
  <2>1. PICK L \in Lifecycles, r \in RunStatuses :
           actions'[i] = [actions[i] EXCEPT !.lifecycle = L, !.run = r]
    OBVIOUS
  <2>2. actions[i] \in ActionRows
    BY RowsAre
  <2> QED BY <2>1, <2>2 DEF ActionRows
<1> QED BY <1>1, SameRows DEF RowsTyped

\* What a step that opens no action does to the actions.
Quiet ==
  /\ RowsTyped' /\ Grounded'
  /\ DOMAIN actions' = DOMAIN actions /\ DOMAIN incidents \subseteq DOMAIN incidents'
  /\ InFlight' \subseteq InFlight

\* A verdict, or the next point of an action in flight.
LEMMA SettleStep ==
  ASSUME RowsTyped, Grounded, NEW i \in DOMAIN actions, NEW L \in Lifecycles,
         L \in InFlightLifecycle => i \in InFlight,
         NEW status \in Statuses, Settle(i, L, status)
  PROVE  Quiet
<1>1. /\ actions' = [actions EXCEPT ![i].lifecycle = L]
      /\ incidents' = [incidents EXCEPT ![IncidentOf(i)].status = status]
  BY DEF Settle
<1>2. DOMAIN actions' = DOMAIN actions /\ actions' = [j \in DOMAIN actions |-> actions'[j]]
  BY <1>1
<1>3. \A j \in DOMAIN actions : \E K \in Lifecycles, r \in RunStatuses :
        actions'[j] = [actions[j] EXCEPT !.lifecycle = K, !.run = r]
  <2> TAKE j \in DOMAIN actions
  <2>1. actions[j] \in ActionRows
    BY RowsAre
  <2>2. actions'[j] = [actions[j] EXCEPT !.lifecycle = IF j = i THEN L ELSE @, !.run = actions[j].run]
    BY <1>1, <2>1 DEF ActionRows
  <2> QED BY <2>1, <2>2 DEF ActionRows
<1>4. incidents' \in Seq(IncidentRows) /\ DOMAIN incidents' = DOMAIN incidents
  BY <1>1, StatusWritten DEF Grounded
<1>5. RowsTyped' /\ Grounded'
  BY <1>2, <1>3, <1>4, ActionWritten DEF RowsTyped, Grounded, IncidentOf
<1>6. InFlight' \subseteq InFlight
  BY <1>1, RowsAre DEF InFlight, WithLifecycle, ActionRows
<1> QED BY <1>2, <1>4, <1>5, <1>6 DEF Quiet

\* A run of an action goes on or ends.
LEMMA RunStep ==
  ASSUME RowsTyped, Grounded, NEW i \in DOMAIN actions, NEW r \in RunStatuses,
         NEW status \in Statuses, SetRun(i, r, status)
  PROVE  Quiet
<1>1. /\ actions' = [actions EXCEPT ![i].run = r]
      /\ incidents' = [incidents EXCEPT ![IncidentOf(i)].status = status]
  BY DEF SetRun
<1>2. DOMAIN actions' = DOMAIN actions /\ actions' = [j \in DOMAIN actions |-> actions'[j]]
  BY <1>1
<1>3. \A j \in DOMAIN actions : \E K \in Lifecycles, q \in RunStatuses :
        actions'[j] = [actions[j] EXCEPT !.lifecycle = K, !.run = q]
  <2> TAKE j \in DOMAIN actions
  <2>1. actions[j] \in ActionRows
    BY RowsAre
  <2>2. actions'[j] = [actions[j] EXCEPT !.lifecycle = actions[j].lifecycle, !.run = IF j = i THEN r ELSE @]
    BY <1>1, <2>1 DEF ActionRows
  <2> QED BY <2>1, <2>2 DEF ActionRows
<1>4. incidents' \in Seq(IncidentRows) /\ DOMAIN incidents' = DOMAIN incidents
  BY <1>1, StatusWritten DEF Grounded
<1>5. RowsTyped' /\ Grounded'
  BY <1>2, <1>3, <1>4, ActionWritten DEF RowsTyped, Grounded, IncidentOf
<1>6. InFlight' \subseteq InFlight
  BY <1>1, RowsAre DEF InFlight, WithLifecycle, ActionRows
<1> QED BY <1>2, <1>4, <1>5, <1>6 DEF Quiet

\* A lab reset gives every action in flight its verdict.
LEMMA EndStep ==
  ASSUME RowsTyped, Grounded, NEW L \in Lifecycles \ InFlightLifecycle, NEW runs, NEW r \in RunStatuses,
         EndAll(L, runs, r), incidents' \in Seq(IncidentRows), DOMAIN incidents' = DOMAIN incidents
  PROVE  Quiet /\ InFlight' = {} /\ (r \notin runs => \A i \in DOMAIN actions' : actions'[i].run \notin runs)
<1>1. DOMAIN actions' = DOMAIN actions /\ actions' = [j \in DOMAIN actions |-> actions'[j]]
  BY DEF EndAll
<1>2. ASSUME NEW j \in DOMAIN actions
      PROVE  \E K \in Lifecycles \ InFlightLifecycle, q \in RunStatuses :
               /\ actions'[j] = [actions[j] EXCEPT !.lifecycle = K, !.run = q]
               /\ r \notin runs => q \notin runs
  <2>1. actions[j] \in ActionRows
    BY RowsAre
  <2>2. actions'[j] = [actions[j] EXCEPT
          !.lifecycle = IF actions[j].lifecycle \in InFlightLifecycle THEN L ELSE actions[j].lifecycle,
          !.run = IF actions[j].run \in runs THEN r ELSE actions[j].run]
    BY DEF EndAll
  <2> QED BY <2>1, <2>2 DEF ActionRows
<1>3. RowsTyped' /\ Grounded'
  <2>1. \A j \in DOMAIN actions : \E K \in Lifecycles, q \in RunStatuses :
          actions'[j] = [actions[j] EXCEPT !.lifecycle = K, !.run = q]
    BY <1>2
  <2> QED BY <1>1, <2>1, ActionWritten DEF RowsTyped, Grounded, IncidentOf
<1>4. \A j \in DOMAIN actions : /\ actions'[j].lifecycle \notin InFlightLifecycle
                                /\ r \notin runs => actions'[j].run \notin runs
  BY <1>2, RowsAre DEF ActionRows
<1>5. DOMAIN actions' = DOMAIN actions
  BY <1>1
<1>6. InFlight' = {}
  BY <1>4, <1>5 DEF InFlight, WithLifecycle
<1>7. Quiet
  BY <1>3, <1>5, <1>6 DEF Quiet
<1> QED BY <1>4, <1>5, <1>6, <1>7

\* A step that opens no action keeps at most one of them in flight, and is a
\* verdict on it or nothing as far as SerialActions is concerned.
LEMMA QuietMoves ==
  ASSUME OneInFlight, Quiet
  PROVE  OneInFlight' /\ [Serial!Next]_serial
<1>1. OneInFlight'
  BY DEF OneInFlight, Quiet
<1>2. CASE InFlight' = InFlight
  BY <1>1, <1>2 DEF serial, Quiet
<1>3. CASE InFlight' # InFlight
  <2>1. PICK i \in InFlight : InFlight = {i}
    BY <1>3 DEF OneInFlight, Quiet
  <2>2. InFlight' = {} /\ i \in DOMAIN actions
    BY <1>3, <2>1 DEF Quiet, InFlight, WithLifecycle
  <2>3. Serial!Close(i)
    BY <2>1, <2>2 DEF Quiet, Serial!Close
  <2> QED BY <1>1, <2>1, <2>3 DEF Serial!Next
<1> QED BY <1>1, <1>2, <1>3

-----------------------------------------------------------------------------
(* The invariant is kept. *)

LEMMA InitIInv == Init => IInv /\ Serial!Init
<1> SUFFICES ASSUME Init PROVE IInv /\ Serial!Init
  OBVIOUS
<1>1. incidents = <<>> /\ actions = <<>> /\ DOMAIN actions = {} /\ InFlight = {}
  <2>1. <<>> \in Seq(ActionRows) /\ Len(<<>>) = 0
    BY EmptySeq
  <2>2. DOMAIN actions = {}
    BY <2>1, LenProperties DEF Init
  <2> QED BY <2>2 DEF Init, InFlight, WithLifecycle
<1>2. RowsTyped
  BY <1>1, EmptySeq DEF RowsTyped
<1>3. worker = [at |-> "idle", subject |-> 0, todo |-> {}, err |-> FALSE]
  BY DEF Init, Idle
<1>4. worker \in Workers
  BY <1>3 DEF Workers, Points
<1>5. TypeOK
  BY <1>2, <1>4 DEF Init, TypeOK, DesiredRows, Servers, States
<1>6. Sagas
  BY <1>1, <1>3 DEF Sagas, Grounded, OneInFlight, Jobs
<1>7. ResetSent
  BY <1>3 DEF ResetSent
<1> QED BY <1>1, <1>5, <1>6, <1>7 DEF IInv, Serial!Init

\* What is left to show of a step that opens no action.
LEMMA QuietKeeps ==
  ASSUME IInv, Quiet, TypeOK', Jobs', ResetSent'
  PROVE  IInv' /\ [Serial!Next]_serial
BY QuietMoves DEF IInv, Sagas, Quiet

LEMMA RowsKept ==
  ASSUME IInv, UNCHANGED <<incidents, actions>>
  PROVE  Quiet
BY DEF IInv, TypeOK, Sagas, RowsTyped, Grounded, IncidentOf, Quiet, InFlight, WithLifecycle

\* The handler stands where it stood, with less to do.
LEMMA JobGoesOn ==
  ASSUME Jobs, UNCHANGED <<incidents, actions>>, worker'.at = worker.at,
         worker'.subject = worker.subject, worker'.todo \subseteq worker.todo
  PROVE  Jobs'
BY DEF Jobs, Prepared, InFlight, WithLifecycle

LEMMA IdleHasNoJob ==
  ASSUME worker'.at = "idle"
  PROVE  Jobs' /\ ResetSent'
BY DEF Jobs, ResetSent

LEMMA IdleTyped == Idle \in Workers /\ Idle.at = "idle"
BY DEF Idle, Workers, Points

LEMMA FailuresTyped == \A F \in Failures : F \subseteq Members
BY DEF Failures, Members, OfInstance

\* A bound is used up.
LEMMA UsedTyped ==
  ASSUME TypeOK, UNCHANGED used \/ \E what \in {"mishap", "restart", "reset"} : Use(what)
  PROVE  used' \in [{"mishap", "restart", "reset"} -> Nat]
BY DEF TypeOK, Use

\* Requests, faults, restarts and crashes leave the rows of the sagas alone.
LEMMA EnvironmentKeeps ==
  ASSUME IInv,
         \/ RequestReset \/ FaultsChange \/ HAProxyRestarts \/ Interrupt
         \/ StartReset \/ ResetGateFails \/ ActionExists
  PROVE  IInv' /\ [Serial!Next]_serial
<1> USE DEF IInv
<1>1. UNCHANGED <<incidents, actions, desired>>
  BY DEF RequestReset, FaultsChange, HAProxyRestarts, Interrupt, StartReset,
         ResetGateFails, ActionExists, database
<1>2. worker' = worker \/ worker' = Idle
  BY DEF RequestReset, FaultsChange, HAProxyRestarts, Interrupt, StartReset,
         ResetGateFails, ActionExists
<1>3. runtime' = runtime \/ (HAProxyRestarts /\ runtime' = [m \in Members |-> "full"])
  BY DEF RequestReset, FaultsChange, HAProxyRestarts, Interrupt, StartReset,
         ResetGateFails, ActionExists
<1>4. RowsTyped' /\ Quiet
  BY <1>1, RowsKept DEF Quiet
<1>5. worker' \in Workers /\ runtime' \in Servers
  BY <1>2, <1>3, IdleTyped DEF TypeOK, Servers, States
<1>6. used' \in [{"mishap", "restart", "reset"} -> Nat]
  <2>1. UNCHANGED used \/ Use("mishap") \/ Use("restart") \/ Use("reset")
    BY DEF RequestReset, FaultsChange, HAProxyRestarts, Interrupt, StartReset,
           ResetGateFails, ActionExists
  <2> QED BY <2>1, UsedTyped
<1>7. /\ failing' \subseteq Members /\ faultsClear' \in BOOLEAN
      /\ reset' \in {"NONE", "REQUESTED", "RUNNING", "NEEDS_REVIEW", "COMPLETED"}
  <2>1. failing' \in {failing} \cup Failures /\ faultsClear' \in {faultsClear} \cup BOOLEAN
    BY DEF RequestReset, FaultsChange, HAProxyRestarts, Interrupt, StartReset,
           ResetGateFails, ActionExists, faults
  <2>2. reset' \in {reset, "REQUESTED", "RUNNING", "NEEDS_REVIEW"}
    BY DEF RequestReset, FaultsChange, HAProxyRestarts, Interrupt, StartReset,
           ResetGateFails, ActionExists, database
  <2> QED BY <2>1, <2>2, FailuresTyped DEF TypeOK
<1>8. TypeOK'
  BY <1>1, <1>4, <1>5, <1>6, <1>7 DEF TypeOK
<1>9. Jobs' /\ ResetSent'
  <2>1. CASE worker' = Idle
    BY <2>1, IdleTyped, IdleHasNoJob
  <2>2. CASE worker' = worker
    <3>1. Jobs'
      BY <1>1, <2>2, JobGoesOn DEF Sagas
    <3>2. ResetSent'
      BY <1>1, <1>3, <2>2 DEF ResetSent
    <3> QED BY <3>1, <3>2
  <2> QED BY <1>2, <2>1, <2>2
<1> QED BY <1>4, <1>8, <1>9, QuietKeeps

\* What is requested of a server is a state it can have.
LEMMA RequestedTyped ==
  ASSUME IInv, NEW m \in worker.todo
  PROVE  m \in Members /\ Requested(m) \in States
<1> USE DEF IInv
<1>1. m \in Members /\ desired[m].state \in States
  BY DEF TypeOK, Workers, DesiredRows
<1>2. CASE worker.at \in {"rollback", "restore"}
  <2>1. /\ worker.subject \in DOMAIN actions /\ m \in actions[worker.subject].scope
        /\ DOMAIN actions[worker.subject].saved = actions[worker.subject].scope
    BY <1>2 DEF Sagas, Jobs, Grounded
  <2>2. PICK S \in SUBSET Members : actions[worker.subject].saved \in [S -> States]
    <3>1. actions[worker.subject] \in ActionRows
      BY <2>1, RowsAre DEF TypeOK
    <3> QED BY <3>1 DEF ActionRows
  <2>3. actions[worker.subject].saved[m] \in States
    BY <2>1, <2>2
  <2> QED BY <1>1, <1>2, <2>3 DEF Requested
<1>3. CASE worker.at \notin {"rollback", "restore"}
  BY <1>1, <1>3 DEF Requested, States
<1> QED BY <1>2, <1>3

LEMMA CommandKeeps ==
  ASSUME IInv, CommandOk \/ CommandFails
  PROVE  IInv' /\ [Serial!Next]_serial
<1> USE DEF IInv
<1>1. UNCHANGED <<incidents, actions, desired, reset, failing, faultsClear>>
  BY DEF CommandOk, CommandFails, database, faults
<1>2. Quiet /\ RowsTyped'
  BY <1>1, RowsKept DEF Quiet
<1>3. used' \in [{"mishap", "restart", "reset"} -> Nat]
  <2>1. UNCHANGED used \/ Use("mishap")
    BY DEF CommandOk, CommandFails
  <2> QED BY <2>1, UsedTyped
<1>4. PICK m \in worker.todo :
        /\ m \in Members
        /\ \E s \in States \cup {"half"} : runtime' = [runtime EXCEPT ![m] = s]
        /\ \/ worker' = Idle
           \/ /\ worker' \in Workers
              /\ worker'.at = worker.at /\ worker'.subject = worker.subject
              /\ worker'.todo \subseteq worker.todo
              /\ worker.at = "reset" => worker'.todo = worker.todo \ {m}
              /\ worker.at = "reset" /\ ~worker'.err =>
                   ~worker.err /\ runtime' = [runtime EXCEPT ![m] = "full"]
  <2>1. CASE CommandOk
    <3>1. PICK m \in worker.todo, down \in SUBSET Downable :
            /\ runtime' = [runtime EXCEPT ![m] = Requested(m)]
            /\ worker' = [worker EXCEPT !.todo = @ \ {m},
                            !.err = @ \/ (worker.at = "reset" /\ m \in down)]
      BY <2>1 DEF CommandOk
    <3> DEFINE err == worker.err \/ (worker.at = "reset" /\ m \in down)
    <3>2. err \in BOOLEAN /\ (~err => ~worker.err)
      BY DEF TypeOK, Workers
    <3>3. worker' = [worker EXCEPT !.todo = worker.todo \ {m}, !.err = err]
      BY <3>1 DEF TypeOK, Workers
    <3> HIDE DEF err
    <3>4. /\ worker' \in Workers
          /\ worker'.at = worker.at /\ worker'.subject = worker.subject
          /\ worker'.todo = worker.todo \ {m} /\ worker'.err = err
      BY <3>2, <3>3 DEF TypeOK, Workers
    <3>5. worker.at = "reset" => Requested(m) = "full"
      BY DEF Requested
    <3> QED BY <3>1, <3>2, <3>4, <3>5, RequestedTyped
  <2>2. CASE CommandFails
    <3>1. PICK m \in worker.todo :
            /\ \E s \in {runtime[m], PartlySent(runtime[m], Requested(m)), Requested(m)} :
                 runtime' = [runtime EXCEPT ![m] = s]
            /\ \/ worker.at # "reset" /\ worker' = Idle
               \/ worker.at = "reset" /\ worker' = [worker EXCEPT !.todo = @ \ {m}, !.err = TRUE]
               \/ worker.at # "reset" /\ worker' = [worker EXCEPT !.todo = {}, !.err = TRUE]
      BY <2>2 DEF CommandFails
    <3>2. \A s \in {runtime[m], PartlySent(runtime[m], Requested(m)), Requested(m)} :
             s \in States \cup {"half"}
      BY RequestedTyped DEF TypeOK, Servers, PartlySent
    <3>3. \/ worker' = Idle
          \/ /\ worker' \in Workers /\ worker'.err = TRUE
             /\ worker'.at = worker.at /\ worker'.subject = worker.subject
             /\ worker'.todo \subseteq worker.todo
             /\ worker.at = "reset" => worker'.todo = worker.todo \ {m}
      <4>1. ASSUME NEW S \in SUBSET worker.todo, worker' = [worker EXCEPT !.todo = S, !.err = TRUE]
            PROVE  /\ worker' \in Workers /\ worker'.err = TRUE
                   /\ worker'.at = worker.at /\ worker'.subject = worker.subject
                   /\ worker'.todo = S
        BY <4>1 DEF TypeOK, Workers
      <4>2. CASE worker.at = "reset" /\ worker' = [worker EXCEPT !.todo = worker.todo \ {m}, !.err = TRUE]
        BY <4>1, <4>2
      <4>3. CASE worker.at # "reset" /\ worker' = [worker EXCEPT !.todo = {}, !.err = TRUE]
        <5>1. {} \in SUBSET worker.todo
          OBVIOUS
        <5>2. worker'.todo = {} /\ worker' \in Workers /\ worker'.err = TRUE
              /\ worker'.at = worker.at /\ worker'.subject = worker.subject
          BY <4>3 DEF TypeOK, Workers
        <5> QED BY <4>3, <5>1, <5>2
      <4> QED BY <3>1, <4>2, <4>3
    <3> QED BY <3>1, <3>2, <3>3, RequestedTyped
  <2> QED BY <2>1, <2>2
<1>5. runtime' \in Servers /\ worker' \in Workers
  BY <1>4, IdleTyped DEF TypeOK, Servers
<1>6. TypeOK'
  BY <1>1, <1>2, <1>3, <1>5 DEF TypeOK
<1>7. CASE worker' = Idle
  BY <1>2, <1>6, <1>7, IdleTyped, IdleHasNoJob, QuietKeeps
<1>8. CASE worker' # Idle
  <2>1. Jobs'
    BY <1>1, <1>4, <1>8, JobGoesOn DEF Sagas
  <2>2. ResetSent'
    <3> SUFFICES ASSUME worker'.at = "reset"
                 PROVE  /\ \A p \in Members : desired'[p].state = "full"
                        /\ ~worker'.err => \A p \in Members \ worker'.todo : runtime'[p] = "full"
      BY DEF ResetSent
    <3>1. worker.at = "reset"
      BY <1>4, <1>8
    <3>2. \A p \in Members : runtime'[p] = IF p = m THEN runtime'[m] ELSE runtime[p]
      BY <1>4 DEF TypeOK, Servers
    <3> QED BY <1>1, <1>4, <1>8, <3>1, <3>2 DEF ResetSent, TypeOK, Servers
  <2> QED BY <1>2, <1>6, <2>1, <2>2, QuietKeeps
<1> QED BY <1>7, <1>8

\* A decision is taken while no action is in flight and leaves the actions
\* alone.
LEMMA DecideKeeps ==
  ASSUME IInv, Decide \/ ResolveNonAction \/ ActionDenied
  PROVE  IInv' /\ [Serial!Next]_serial
<1> USE DEF IInv
<1>1. UNCHANGED <<actions, desired, reset, runtime, failing, faultsClear, used>>
  BY DEF Decide, OpenIncident, UpdateIncident, ResolveNonAction, ActionDenied, faults
<1> DEFINE RowsOk == incidents' \in Seq(IncidentRows) /\ DOMAIN incidents \subseteq DOMAIN incidents'
           JobOk == \/ worker' = worker /\ worker.at = "idle"
                    \/ worker' = Idle
                    \/ \E k \in DOMAIN incidents' : worker' = Sending("decided", k, {}) /\ InFlight = {}
<1>2. RowsOk /\ JobOk
  <2>1. ASSUME NEW class \in Classes, NEW S \in Failures, OpenIncident(class, S)
        PROVE  RowsOk /\ JobOk
    <3>1. PICK allowed \in BOOLEAN :
            incidents' = Append(incidents,
              [class |-> class, scope |-> S, status |-> "OPEN",
               allowed |-> allowed /\ class # "DEGRADED"])
      BY <2>1 DEF OpenIncident
    <3> DEFINE ok == allowed /\ class # "DEGRADED"
               row == [class |-> class, scope |-> S, status |-> "OPEN", allowed |-> ok]
    <3>2. ok \in BOOLEAN /\ S \subseteq Members
      BY FailuresTyped
    <3>3. incidents' = Append(incidents, row)
      BY <3>1
    <3> HIDE DEF ok
    <3>4. row \in IncidentRows
      BY <3>2 DEF IncidentRows, Statuses, ActiveStatus
    <3> HIDE DEF row
    <3>5. /\ incidents' \in Seq(IncidentRows)
          /\ DOMAIN incidents' = 1..(Len(incidents) + 1)
          /\ DOMAIN incidents = 1..Len(incidents) /\ Len(incidents) \in Nat
      BY <3>3, <3>4, AppendProperties, LenProperties DEF TypeOK, RowsTyped
    <3>6. InFlight = {}
      BY <2>1 DEF OpenIncident, Classifies, NoneInFlight, Prepared, Verifying, WithLifecycle,
                  InFlight, InFlightLifecycle
    <3>7. worker' = Idle \/ worker' = Sending("decided", Len(incidents) + 1, {})
      BY <2>1 DEF OpenIncident, Decided
    <3> QED BY <3>5, <3>6, <3>7
  <2>2. ASSUME NEW class \in Classes, NEW S \in Failures, UpdateIncident(class, S)
        PROVE  RowsOk /\ JobOk
    <3>1. PICK k \in SameIncident(class, S) :
            /\ \/ UNCHANGED incidents
               \/ \E allowed \in BOOLEAN :
                    incidents' = [incidents EXCEPT
                      ![k].class = class, ![k].allowed = allowed /\ class # "DEGRADED"]
            /\ Decided(class, k)
      BY <2>2 DEF UpdateIncident
    <3>2. k \in DOMAIN incidents
      BY DEF SameIncident
    <3>3. incidents' \in Seq(IncidentRows) /\ DOMAIN incidents' = DOMAIN incidents
      <4>1. CASE UNCHANGED incidents
        BY <4>1 DEF TypeOK, RowsTyped
      <4>2. ASSUME NEW ok \in BOOLEAN,
                   incidents' = [incidents EXCEPT ![k].class = class, ![k].allowed = ok]
            PROVE  incidents' \in Seq(IncidentRows) /\ DOMAIN incidents' = DOMAIN incidents
        <5>1. \A j \in DOMAIN incidents : incidents'[j] \in IncidentRows
          BY <3>2, <4>2, RowsAre DEF TypeOK, IncidentRows
        <5>2. DOMAIN incidents' = DOMAIN incidents
              /\ incidents' = [j \in DOMAIN incidents |-> incidents'[j]]
          BY <4>2
        <5> QED BY <5>1, <5>2, SameRows DEF TypeOK, RowsTyped
      <4>3. \A allowed \in BOOLEAN : (allowed /\ class # "DEGRADED") \in BOOLEAN
        OBVIOUS
      <4> QED BY <3>1, <4>1, <4>2, <4>3
    <3>4. InFlight = {}
      BY <2>2 DEF UpdateIncident, Classifies, NoneInFlight, Prepared, Verifying, WithLifecycle,
                  InFlight, InFlightLifecycle
    <3>5. worker' = Idle \/ worker' = Sending("decided", k, {})
      BY <3>1 DEF Decided
    <3> QED BY <3>2, <3>3, <3>4, <3>5
  <2>3. CASE ResolveNonAction
    <3>1. DOMAIN incidents' = DOMAIN incidents
          /\ incidents' = [k \in DOMAIN incidents |-> incidents'[k]]
      BY <2>3 DEF ResolveNonAction
    <3>2. \A k \in DOMAIN incidents : incidents'[k] \in IncidentRows
      BY <2>3, RowsAre DEF ResolveNonAction, TypeOK, IncidentRows, Statuses
    <3> QED BY <2>3, <3>1, <3>2, SameRows
            DEF ResolveNonAction, TypeOK, RowsTyped, Classifies, NoneInFlight, TickReaches
  <2>4. CASE ActionDenied
    <3>1. worker.subject \in DOMAIN incidents
      BY <2>4 DEF ActionDenied, Sagas, Jobs
    <3>2. "NEEDS_REVIEW" \in Statuses
      BY DEF Statuses, ActiveStatus
    <3> QED BY <2>4, <3>1, <3>2, StatusWritten DEF ActionDenied, TypeOK
  <2> QED BY <2>1, <2>2, <2>3, <2>4 DEF Decide, Classes
<1>3. Quiet
  BY <1>1, <1>2 DEF Quiet, TypeOK, Sagas, RowsTyped, Grounded, IncidentOf, InFlight, WithLifecycle
<1>4. worker' \in Workers
  <2>1. ASSUME NEW k \in DOMAIN incidents', worker' = Sending("decided", k, {})
        PROVE  worker' \in Workers
    <3>1. k \in Nat
      BY <1>2, LenProperties
    <3> QED BY <2>1, <3>1 DEF Sending, Workers, Points
  <2> QED BY <1>2, <2>1, IdleTyped DEF TypeOK
<1>5. TypeOK'
  BY <1>1, <1>2, <1>4 DEF TypeOK, RowsTyped
<1>6. Jobs' /\ ResetSent'
  <2>1. CASE worker'.at = "idle"
    BY <2>1, IdleHasNoJob
  <2>2. ASSUME NEW k \in DOMAIN incidents', worker' = Sending("decided", k, {}), InFlight = {}
        PROVE  Jobs' /\ ResetSent'
    <3>1. InFlight' = {}
      BY <1>1, <2>2 DEF InFlight, WithLifecycle
    <3> QED BY <2>2, <3>1 DEF Sending, Jobs, ResetSent
  <2> QED BY <1>2, <2>1, <2>2, IdleTyped
<1> QED BY <1>3, <1>5, <1>6, QuietKeeps

\* The one step that opens an action: its decision found none in flight.
LEMMA PrepareKeeps ==
  ASSUME IInv, Prepare
  PROVE  IInv' /\ [Serial!Next]_serial
<1> USE DEF IInv
<1> DEFINE k == worker.subject
           inc == incidents[k]
           new == Len(actions) + 1
           row == [incident |-> k, kind |-> inc.class, scope |-> inc.scope,
                   lifecycle |-> "PREPARED", run |-> "none",
                   saved |-> [m \in inc.scope |-> desired[m].state]]
<1>1. /\ worker.at = "decided"
      /\ actions' = Append(actions, row)
      /\ desired' = [m \in Members |-> IF m \in inc.scope
           THEN [state |-> "drain", source |-> new] ELSE desired[m]]
      /\ worker' = Sending("drain", new, inc.scope)
      /\ UNCHANGED <<incidents, reset, runtime, failing, faultsClear, used>>
  BY DEF Prepare, faults
<1>2. k \in DOMAIN incidents /\ InFlight = {} /\ k \in Nat
  <2>1. k \in DOMAIN incidents /\ InFlight = {}
    BY <1>1 DEF Sagas, Jobs
  <2> QED BY <2>1, RowsAre DEF TypeOK
<1>3. inc \in IncidentRows /\ inc.scope \subseteq Members /\ inc.class \in Classes
  BY <1>2, RowsAre DEF TypeOK, IncidentRows
<1>4. row \in ActionRows
  <2>1. [m \in inc.scope |-> desired[m].state] \in [inc.scope -> States]
    BY <1>3 DEF TypeOK, DesiredRows
  <2> DEFINE saved == [m \in inc.scope |-> desired[m].state]
             scope == inc.scope
             class == inc.class
  <2>2. saved \in UNION {[S -> States] : S \in SUBSET Members}
    BY <1>3, <2>1
  <2> HIDE DEF saved, scope, class
  <2>3. [incident |-> k, kind |-> class, scope |-> scope, lifecycle |-> "PREPARED",
         run |-> "none", saved |-> saved] \in ActionRows
    BY <1>2, <1>3, <2>2 DEF ActionRows, Lifecycles, InFlightLifecycle, RunStatuses, scope, class
  <2> QED BY <2>3 DEF saved, scope, class
<1>5. /\ actions' \in Seq(ActionRows) /\ new \in Nat
      /\ DOMAIN actions = 1..Len(actions) /\ Len(actions) \in Nat
      /\ DOMAIN actions' = 1..new
      /\ \A i \in DOMAIN actions : actions'[i] = actions[i]
      /\ actions'[new] = row
  <2> HIDE DEF row
  <2> QED BY <1>1, <1>4, AppendProperties, LenProperties DEF TypeOK, RowsTyped
<1>6. InFlight' = {new} /\ DOMAIN actions' = DOMAIN actions \cup {new} /\ new \notin DOMAIN actions
  <2>1. DOMAIN actions' = DOMAIN actions \cup {new} /\ new \notin DOMAIN actions
    BY <1>5
  <2>2. row.lifecycle = "PREPARED"
    OBVIOUS
  <2> HIDE DEF new, row
  <2>3. new \in InFlight'
    BY <1>5, <2>1, <2>2 DEF InFlight, WithLifecycle, InFlightLifecycle
  <2>4. \A i \in InFlight' : i = new
    BY <1>2, <1>5, <2>1 DEF InFlight, WithLifecycle
  <2> QED BY <2>1, <2>3, <2>4
<1>7. desired' \in DesiredRows
  BY <1>1, <1>5 DEF TypeOK, DesiredRows, States
<1>8. worker' \in Workers
  BY <1>1, <1>3, <1>5 DEF Sending, Workers, Points
<1>9. TypeOK'
  BY <1>1, <1>5, <1>7, <1>8 DEF TypeOK, RowsTyped
<1>10. Grounded'
  <2>1. /\ row.incident = k /\ row.scope = inc.scope /\ DOMAIN row.saved = inc.scope
    OBVIOUS
  <2> HIDE DEF k, row, new
  <2>2. ASSUME NEW i \in DOMAIN actions'
        PROVE  actions'[i].incident \in DOMAIN incidents' /\ DOMAIN actions'[i].saved = actions'[i].scope
    BY <1>1, <1>2, <1>5, <1>6, <2>1 DEF Sagas, Grounded, IncidentOf
  <2> QED BY <2>2 DEF Grounded, IncidentOf
<1>11. Jobs'
  <2>1. worker'.at = "drain" /\ worker'.subject = new /\ worker'.todo = inc.scope
    BY <1>1 DEF Sending
  <2>2. row.scope = inc.scope /\ row.lifecycle = "PREPARED"
    OBVIOUS
  <2> HIDE DEF row, new
  <2> QED BY <1>5, <1>6, <2>1, <2>2 DEF Jobs, Prepared, WithLifecycle
<1>12. ResetSent'
  BY <1>1 DEF ResetSent, Sending
<1>13. OneInFlight'
  BY <1>6 DEF OneInFlight
<1>14. Serial!Open(new)
  BY <1>2, <1>6 DEF Serial!Open
<1>15. [Serial!Next]_serial
  BY <1>6, <1>14 DEF Serial!Next
<1> QED BY <1>9, <1>10, <1>11, <1>12, <1>13, <1>15 DEF Sagas

\* The steps that leave the worker idle with the rows of one action, or
\* none, changed: verdicts, and the return's own progress.
LEMMA VerdictKeeps ==
  ASSUME IInv,
         \/ FinishDrain \/ FinishRollback \/ FinishRestore \/ FinishAdvance
         \/ \E i \in DOMAIN actions :
              Recover(i) \/ CommitAction(i) \/ StartRun(i) \/ CompleteRun(i) \/ ReviewRun(i)
  PROVE  IInv' /\ [Serial!Next]_serial
<1> USE DEF IInv
<1>1. UNCHANGED <<desired, reset, runtime, failing, faultsClear, used>>
  BY DEF FinishDrain, FinishRollback, FinishRestore, FinishAdvance, Recover, CommitAction,
         StartRun, CompleteRun, ReviewRun, faults
<1>2. worker' = Idle \/ (worker' = worker /\ worker.at = "idle")
  <2>1. CASE FinishDrain \/ FinishRollback \/ FinishRestore \/ FinishAdvance
    BY <2>1 DEF FinishDrain, FinishRollback, FinishRestore, FinishAdvance
  <2>2. ASSUME NEW i \in DOMAIN actions, Recover(i) \/ CommitAction(i)
        PROVE  worker' = worker /\ worker.at = "idle"
    BY <2>2 DEF Recover, CommitAction, ServesPrepared, ServesVerifying, TickReaches
  <2>3. ASSUME NEW i \in DOMAIN actions, StartRun(i) \/ CompleteRun(i) \/ ReviewRun(i)
        PROVE  worker' = worker /\ worker.at = "idle"
    BY <2>3 DEF StartRun, CompleteRun, ReviewRun, ServesQuarantine, ServesRun, NoneInFlight,
                TickReaches
  <2> QED BY <2>1, <2>2, <2>3
<1>3. Quiet
  <2> USE DEF TypeOK, Sagas
  <2>1. /\ {"VERIFYING", "NEEDS_REVIEW", "MITIGATING", "RESOLVED", "RECOVERING"} \subseteq Statuses
        /\ {"VERIFYING", "RESULT_UNKNOWN", "NEEDS_REVIEW", "COMMITTED", "ROLLED_BACK",
            "ROLLBACK_FAILED"} \subseteq Lifecycles
        /\ {"ACTIVE", "COMPLETED", "NEEDS_REVIEW"} \subseteq RunStatuses
        /\ InFlightLifecycle = {"PREPARED", "VERIFYING"}
    BY DEF Statuses, ActiveStatus, Lifecycles, InFlightLifecycle, RunStatuses
  <2>2. CASE FinishDrain
    <3>1. worker.subject \in Prepared
      BY <2>2 DEF FinishDrain, Jobs
    <3>2. worker.subject \in DOMAIN actions /\ worker.subject \in InFlight
      BY <3>1 DEF Prepared, InFlight, InFlightLifecycle, WithLifecycle
    <3>3. \E L \in {"VERIFYING", "RESULT_UNKNOWN", "NEEDS_REVIEW"}, status \in {"VERIFYING", "NEEDS_REVIEW"} :
            Settle(worker.subject, L, status)
      BY <2>2 DEF FinishDrain, DrainOutcome
    <3> QED BY <2>1, <3>2, <3>3, SettleStep
  <2>3. CASE FinishRollback
    <3>1. worker.subject \in DOMAIN actions
      BY <2>3 DEF FinishRollback, Jobs
    <3>2. \E L \in {"ROLLED_BACK", "ROLLBACK_FAILED"} : Settle(worker.subject, L, "NEEDS_REVIEW")
      BY <2>3 DEF FinishRollback
    <3> QED BY <2>1, <3>1, <3>2, SettleStep
  <2>4. CASE FinishRestore
    <3>1. worker.subject \in DOMAIN actions
      BY <2>4 DEF FinishRestore, Jobs
    <3>2. \/ Settle(worker.subject, "COMMITTED", "RESOLVED")
          \/ Settle(worker.subject, "RESULT_UNKNOWN", "NEEDS_REVIEW")
      BY <2>4 DEF FinishRestore
    <3> QED BY <2>1, <3>1, <3>2, SettleStep
  <2>5. CASE FinishAdvance
    <3>1. worker.subject \in DOMAIN actions
      BY <2>5 DEF FinishAdvance, Jobs
    <3>2. \/ UNCHANGED <<incidents, actions>>
          \/ SetRun(worker.subject, "NEEDS_REVIEW", "NEEDS_REVIEW")
      BY <2>5 DEF FinishAdvance
    <3> QED BY <2>1, <3>1, <3>2, RunStep, RowsKept
  <2>6. ASSUME NEW i \in DOMAIN actions, Recover(i) \/ CommitAction(i)
        PROVE  Quiet
    <3>1. i \in InFlight
      BY <2>6 DEF Recover, CommitAction, ServesPrepared, ServesVerifying, Prepared, Verifying,
                  InFlight, InFlightLifecycle, WithLifecycle
    <3>2. \/ Settle(i, "VERIFYING", "VERIFYING") \/ Settle(i, "RESULT_UNKNOWN", "NEEDS_REVIEW")
          \/ Settle(i, "COMMITTED", "MITIGATING")
      BY <2>6 DEF Recover, CommitAction
    <3> QED BY <2>1, <3>1, <3>2, SettleStep
  <2>7. ASSUME NEW i \in DOMAIN actions, StartRun(i) \/ CompleteRun(i) \/ ReviewRun(i)
        PROVE  Quiet
    <3>1. \/ SetRun(i, "ACTIVE", "RECOVERING") \/ SetRun(i, "COMPLETED", "RESOLVED")
          \/ SetRun(i, "NEEDS_REVIEW", "NEEDS_REVIEW")
      BY <2>7 DEF StartRun, CompleteRun, ReviewRun
    <3> QED BY <2>1, <3>1, RunStep
  <2> QED BY <2>2, <2>3, <2>4, <2>5, <2>6, <2>7
<1>4. worker' \in Workers /\ worker'.at = "idle"
  BY <1>2, IdleTyped DEF TypeOK
<1>5. TypeOK'
  BY <1>1, <1>3, <1>4 DEF TypeOK, Quiet
<1> QED BY <1>3, <1>4, <1>5, IdleHasNoJob, QuietKeeps

\* The steps that start sending: what is asked of the servers is durable
\* before, except for a rollback.
LEMMA BeginKeeps ==
  ASSUME IInv, NEW i \in DOMAIN actions,
         \/ BeginRollback(i) \/ BeginRestore(i) \/ EnterFirstStage(i)
         \/ \E s \in States : ChangeStage(i, s)
  PROVE  IInv' /\ [Serial!Next]_serial
<1> USE DEF IInv
<1>1. UNCHANGED <<incidents, actions, reset, runtime, failing, faultsClear, used>>
  BY DEF BeginRollback, BeginRestore, EnterFirstStage, ChangeStage, BeginAdvance, faults, database
<1>2. \E job \in {"rollback", "restore", "advance"} : worker' = Sending(job, i, actions[i].scope)
  BY DEF BeginRollback, BeginRestore, EnterFirstStage, ChangeStage, BeginAdvance
<1>3. i \in Nat /\ actions[i] \in ActionRows
  BY RowsAre DEF TypeOK
<1>4. desired' \in DesiredRows
  <2>1. CASE BeginRollback(i)
    BY <2>1 DEF BeginRollback, database, TypeOK
  <2>2. CASE BeginRestore(i)
    <3>1. PICK S \in SUBSET Members : actions[i].saved \in [S -> States]
      BY <1>3 DEF ActionRows
    <3>2. \A m \in actions[i].scope : actions[i].saved[m] \in States
      BY <3>1 DEF Sagas, Grounded
    <3>3. desired' = [m \in Members |-> IF m \in actions[i].scope
            THEN [desired[m] EXCEPT !.state = actions[i].saved[m]] ELSE desired[m]]
      BY <2>2 DEF BeginRestore
    <3> QED BY <3>2, <3>3 DEF TypeOK, DesiredRows
  <2>3. ASSUME NEW m, NEW s \in States, BeginAdvance(i, m, s)
        PROVE  desired' \in DesiredRows
    BY <1>3, <2>3 DEF BeginAdvance, TypeOK, DesiredRows
  <2> QED BY <2>1, <2>2, <2>3 DEF EnterFirstStage, ChangeStage, States
<1>5. worker' \in Workers
  BY <1>2, <1>3 DEF Sending, Workers, Points, ActionRows
<1>6. Quiet
  BY <1>1, RowsKept
<1>7. TypeOK'
  BY <1>1, <1>4, <1>5, <1>6 DEF TypeOK, Quiet
<1>8. Jobs' /\ ResetSent'
  BY <1>1, <1>2 DEF Sending, Jobs, ResetSent
<1> QED BY <1>6, <1>7, <1>8, QuietKeeps

\* The lab reset asks full service of every server, and gives the verdicts.
LEMMA ResetKeeps ==
  ASSUME IInv, ResetRestores \/ FinishReset \/ FinishFailedReset
  PROVE  IInv' /\ [Serial!Next]_serial
<1> USE DEF IInv
<1>1. CASE ResetRestores
  <2>1. /\ UNCHANGED <<incidents, actions, reset, runtime, used>>
        /\ failing' = {} /\ faultsClear' = TRUE
        /\ desired' = [m \in Members |-> [state |-> "full", source |-> 0]]
        /\ worker' = Sending("reset", 0, Members)
    BY <1>1 DEF ResetRestores
  <2>2. Quiet
    BY <2>1, RowsKept
  <2>3. worker' \in Workers /\ desired' \in DesiredRows
    BY <2>1 DEF Sending, Workers, Points, DesiredRows, States
  <2>4. TypeOK'
    BY <2>1, <2>2, <2>3 DEF TypeOK, Quiet
  <2>5. Jobs' /\ ResetSent'
    BY <2>1 DEF Sending, Jobs, ResetSent
  <2> QED BY <2>2, <2>4, <2>5, QuietKeeps
<1>2. CASE FinishReset \/ FinishFailedReset
  <2>1. /\ UNCHANGED <<desired, runtime, failing, faultsClear, used>>
        /\ worker' = Idle /\ reset' \in {"COMPLETED", "NEEDS_REVIEW"}
    BY <1>2 DEF FinishReset, FinishFailedReset, faults
  <2>2. incidents' \in Seq(IncidentRows) /\ DOMAIN incidents' = DOMAIN incidents
    <3>1. CASE FinishReset
      <4>1. /\ DOMAIN incidents' = DOMAIN incidents
            /\ incidents' = [k \in DOMAIN incidents |-> incidents'[k]]
        BY <3>1 DEF FinishReset
      <4>2. \A k \in DOMAIN incidents : incidents'[k] \in IncidentRows
        BY <3>1, RowsAre DEF FinishReset, TypeOK, IncidentRows, Statuses
      <4> QED BY <4>1, <4>2, SameRows DEF TypeOK, RowsTyped
    <3>2. CASE FinishFailedReset
      BY <3>2 DEF FinishFailedReset, TypeOK, RowsTyped
    <3> QED BY <1>2, <3>1, <3>2
  <2>3. \/ EndAll("ROLLED_BACK", {"ACTIVE", "NEEDS_REVIEW"}, "CANCELLED")
        \/ EndAll("NEEDS_REVIEW", {"ACTIVE"}, "NEEDS_REVIEW")
    BY <1>2 DEF FinishReset, FinishFailedReset
  <2>4. /\ {"ROLLED_BACK", "NEEDS_REVIEW"} \subseteq Lifecycles \ InFlightLifecycle
        /\ {"CANCELLED", "NEEDS_REVIEW"} \subseteq RunStatuses
    BY DEF Lifecycles, InFlightLifecycle, RunStatuses
  <2>5. Quiet
    BY <2>2, <2>3, <2>4, EndStep DEF TypeOK, Sagas
  <2>6. TypeOK'
    BY <2>1, <2>5, IdleTyped DEF TypeOK, Quiet
  <2> QED BY <2>1, <2>5, <2>6, IdleTyped, IdleHasNoJob, QuietKeeps
<1> QED BY <1>1, <1>2

LEMMA NextKeeps == IInv /\ [Next]_vars => IInv' /\ [Serial!Next]_serial
<1> SUFFICES ASSUME IInv, [Next]_vars PROVE IInv' /\ [Serial!Next]_serial
  OBVIOUS
<1>1. CASE Decide
  BY <1>1, DecideKeeps
<1>2. CASE Judge
  BY <1>2, VerdictKeeps, BeginKeeps DEF Judge
<1>3. CASE Return
  BY <1>3, VerdictKeeps, BeginKeeps DEF Return
<1>4. CASE Proceed
  BY <1>4, DecideKeeps, EnvironmentKeeps, PrepareKeeps, CommandKeeps, VerdictKeeps, BeginKeeps,
     ResetKeeps DEF Proceed
<1>5. CASE Environment
  BY <1>5, CommandKeeps, EnvironmentKeeps DEF Environment
<1>6. CASE UNCHANGED vars
  <2>1. UNCHANGED <<incidents, actions, desired, reset, runtime, failing, faultsClear, worker, used>>
    BY <1>6 DEF vars, database, faults
  <2>2. Quiet
    BY <2>1, RowsKept
  <2>3. TypeOK'
    BY <2>1, <2>2 DEF IInv, TypeOK, Quiet
  <2>4. Jobs' /\ ResetSent'
    BY <2>1, JobGoesOn DEF IInv, Sagas, ResetSent
  <2> QED BY <2>2, <2>3, <2>4, QuietKeeps
<1> QED BY <1>1, <1>2, <1>3, <1>4, <1>5, <1>6 DEF Next

-----------------------------------------------------------------------------
(* The account of every membership: who answers for it, and what is sent.  *)

Inc(i) == incidents[IncidentOf(i)]
Owned(m) == \E i \in DOMAIN actions : Covers(i, m) /\ ActiveIncident(IncidentOf(i))
RolledBack == WithLifecycle({"ROLLED_BACK", "ROLLBACK_FAILED"})

\* An action keeps what its incident was decided for, and no two incidents
\* claim an instance.
RowsAgree ==
  /\ \A i \in DOMAIN actions :
       /\ Inc(i).scope = actions[i].scope /\ Inc(i).class = actions[i].kind
       /\ actions[i].kind # "DEGRADED"
       /\ actions[i].kind = "INSTANCE" =>
            \A m \in actions[i].scope : actions[i].saved[m] \in InService
  /\ \A i, j \in DOMAIN actions : IncidentOf(i) = IncidentOf(j) => i = j
  /\ \A k \in DOMAIN incidents :
       /\ incidents[k].allowed => incidents[k].class # "DEGRADED"
       /\ incidents[k].class = "INSTANCE" => \E x \in Instances : incidents[k].scope = OfInstance(x)
       /\ incidents[k].class # "INSTANCE" => \E m \in Members : incidents[k].scope = {m}
  /\ \A j, k \in DOMAIN incidents :
       /\ ActiveIncident(j) /\ incidents[j].class = "INSTANCE"
       /\ ActiveIncident(k) /\ incidents[k].class = "INSTANCE"
       /\ incidents[j].scope = incidents[k].scope
       => j = k

\* What the lifecycle of an action says of its incident and its scope.
LifecyclesTell ==
  \A i \in DOMAIN actions :
    /\ i \in InFlight =>
         /\ ActiveIncident(IncidentOf(i))
         /\ ResetOver =>
              \A m \in actions[i].scope : desired[m].state = "drain" /\ desired[m].source = i
    /\ actions[i].run = "ACTIVE" =>
         /\ actions[i].lifecycle = "COMMITTED" /\ actions[i].kind = "ROUTE"
         /\ Inc(i).status = "RECOVERING"
    /\ actions[i].lifecycle = "RESULT_UNKNOWN" /\ ~ActiveIncident(IncidentOf(i)) =>
         \A m \in Members : desired[m].source # i

\* Whatever is drained, or was meant to be, has an active incident.
NothingForgotten ==
  \A m \in Members : desired[m].state = "drain" \/ ~HasTraffic(m) => Owned(m)

\* What a handler may rely on until it is through.
Handlers ==
  /\ worker.at \in {"idle", "decided"} => worker.todo = {}
  /\ worker.at = "decided" =>
       /\ ActiveIncident(worker.subject) /\ ActiveRuns = {}
       /\ \A k \in DOMAIN incidents :
            ActiveIncident(k) /\ incidents[k].class = "ROUTE" => k = worker.subject
  /\ worker.at \in {"drain", "rollback"} =>
       /\ worker.subject \in InFlight
       /\ \A m \in actions[worker.subject].scope :
            desired[m].state = "drain" /\ desired[m].source = worker.subject
  /\ worker.at = "advance" =>
       /\ worker.subject \in ActiveRuns
       /\ \A m \in actions[worker.subject].scope : desired[m].source = worker.subject
  /\ worker.at = "restore" =>
       /\ actions[worker.subject].kind = "INSTANCE"
       /\ actions[worker.subject].lifecycle \in {"RESULT_UNKNOWN", "COMMITTED"}
       /\ ActiveIncident(IncidentOf(worker.subject)) \/ actions[worker.subject].scope = {}
       /\ \A m \in actions[worker.subject].scope :
            /\ desired[m].state = actions[worker.subject].saved[m]
            /\ desired[m].source = worker.subject
  /\ worker.at = "reset" =>
       \A m \in Members : desired[m].state = "full" /\ desired[m].source = 0

MitigationStands ==
  used["restart"] = 0 =>
    \A i \in DOMAIN actions :
      actions[i].lifecycle = "COMMITTED" /\ Inc(i).status = "MITIGATING" =>
        \A m \in actions[i].scope :
          desired[m].source = i /\ HasTraffic(m) => desired[m].state \in InService

SentOrDue ==
  used["mishap"] = 0 /\ used["restart"] = 0 =>
    \A m \in Members :
      \/ m \in worker.todo \/ runtime[m] = desired[m].state
      \/ desired[m].source \in RolledBack
      \/ worker.at = "rollback" /\ m \in actions[worker.subject].scope

Account ==
  RowsAgree /\ LifecyclesTell /\ NothingForgotten /\ Handlers /\ MitigationStands /\ SentOrDue

\* What no step but a decision does to existing rows.
RowsStay ==
  /\ DOMAIN actions' = DOMAIN actions /\ DOMAIN incidents' = DOMAIN incidents
  /\ \A j \in DOMAIN actions :
       /\ actions'[j].incident = actions[j].incident /\ actions'[j].kind = actions[j].kind
       /\ actions'[j].scope = actions[j].scope /\ actions'[j].saved = actions[j].saved
  /\ \A k \in DOMAIN incidents :
       /\ incidents'[k].class = incidents[k].class /\ incidents'[k].scope = incidents[k].scope
       /\ incidents'[k].allowed = incidents[k].allowed

NoneActivated ==
  \A k \in DOMAIN incidents :
    incidents'[k].status \in ActiveStatus => incidents[k].status \in ActiveStatus

LEMMA SettleRows ==
  ASSUME RowsTyped, Grounded, NEW i \in DOMAIN actions, NEW L, NEW status, Settle(i, L, status)
  PROVE  /\ RowsStay
         /\ \A j \in DOMAIN actions :
              /\ actions'[j].lifecycle = IF j = i THEN L ELSE actions[j].lifecycle
              /\ actions'[j].run = actions[j].run
         /\ \A k \in DOMAIN incidents :
              incidents'[k].status = IF k = actions[i].incident THEN status ELSE incidents[k].status
<1>1. /\ actions' = [actions EXCEPT ![i].lifecycle = L]
      /\ incidents' = [incidents EXCEPT ![actions[i].incident].status = status]
      /\ actions[i].incident \in DOMAIN incidents
  BY DEF Settle, Grounded, IncidentOf
<1>2. /\ \A j \in DOMAIN actions : actions[j] \in ActionRows
      /\ \A k \in DOMAIN incidents : incidents[k] \in IncidentRows
  BY RowsAre
<1> QED BY <1>1, <1>2 DEF RowsStay, ActionRows, IncidentRows

LEMMA RunRows ==
  ASSUME RowsTyped, Grounded, NEW i \in DOMAIN actions, NEW r, NEW status, SetRun(i, r, status)
  PROVE  /\ RowsStay
         /\ \A j \in DOMAIN actions :
              /\ actions'[j].run = IF j = i THEN r ELSE actions[j].run
              /\ actions'[j].lifecycle = actions[j].lifecycle
         /\ \A k \in DOMAIN incidents :
              incidents'[k].status = IF k = actions[i].incident THEN status ELSE incidents[k].status
<1>1. /\ actions' = [actions EXCEPT ![i].run = r]
      /\ incidents' = [incidents EXCEPT ![actions[i].incident].status = status]
      /\ actions[i].incident \in DOMAIN incidents
  BY DEF SetRun, Grounded, IncidentOf
<1>2. /\ \A j \in DOMAIN actions : actions[j] \in ActionRows
      /\ \A k \in DOMAIN incidents : incidents[k] \in IncidentRows
  BY RowsAre
<1> QED BY <1>1, <1>2 DEF RowsStay, ActionRows, IncidentRows

LEMMA EndRows ==
  ASSUME RowsTyped, NEW L, NEW runs, NEW r, EndAll(L, runs, r)
  PROVE  /\ DOMAIN actions' = DOMAIN actions
         /\ \A j \in DOMAIN actions :
              /\ actions'[j].incident = actions[j].incident /\ actions'[j].kind = actions[j].kind
              /\ actions'[j].scope = actions[j].scope /\ actions'[j].saved = actions[j].saved
              /\ actions'[j].lifecycle =
                   IF actions[j].lifecycle \in InFlightLifecycle THEN L ELSE actions[j].lifecycle
              /\ actions'[j].run = IF actions[j].run \in runs THEN r ELSE actions[j].run
<1>1. \A j \in DOMAIN actions : actions[j] \in ActionRows
  BY RowsAre
<1> QED BY <1>1 DEF EndAll, ActionRows

LEMMA AgreementKept ==
  ASSUME RowsTyped, Grounded, RowsAgree, RowsStay, NoneActivated
  PROVE  RowsAgree'
<1>1. \A i \in DOMAIN actions : actions[i].incident \in DOMAIN incidents
  BY DEF Grounded, IncidentOf
<1>2. \A i \in DOMAIN actions' :
        /\ Inc(i)'.scope = actions'[i].scope /\ Inc(i)'.class = actions'[i].kind
        /\ actions'[i].kind # "DEGRADED"
        /\ actions'[i].kind = "INSTANCE" =>
             \A m \in actions'[i].scope : actions'[i].saved[m] \in InService
  BY <1>1 DEF RowsAgree, RowsStay, Inc, IncidentOf
<1>3. \A i, j \in DOMAIN actions' : IncidentOf(i)' = IncidentOf(j)' => i = j
  BY DEF RowsAgree, RowsStay, IncidentOf
<1>4. \A k \in DOMAIN incidents' :
        /\ incidents'[k].allowed => incidents'[k].class # "DEGRADED"
        /\ incidents'[k].class = "INSTANCE" => \E x \in Instances : incidents'[k].scope = OfInstance(x)
        /\ incidents'[k].class # "INSTANCE" => \E m \in Members : incidents'[k].scope = {m}
  BY DEF RowsAgree, RowsStay
<1>5. \A j, k \in DOMAIN incidents' :
        /\ ActiveIncident(j)' /\ incidents'[j].class = "INSTANCE"
        /\ ActiveIncident(k)' /\ incidents'[k].class = "INSTANCE"
        /\ incidents'[j].scope = incidents'[k].scope
        => j = k
  BY DEF RowsAgree, RowsStay, NoneActivated, ActiveIncident
<1> QED BY <1>2, <1>3, <1>4, <1>5 DEF RowsAgree

LEMMA IdleHandlers ==
  ASSUME worker' = Idle \/ (worker' = worker /\ worker.at = "idle" /\ Handlers)
  PROVE  Handlers' /\ worker'.at = "idle" /\ worker'.todo = {}
BY DEF Idle, Handlers

\* Requests, faults, restarts and crashes.
LEMMA EnvironmentAccounts ==
  ASSUME IInv, Account,
         \/ RequestReset \/ FaultsChange \/ HAProxyRestarts \/ Interrupt
         \/ StartReset \/ ResetGateFails \/ ActionExists \/ UNCHANGED vars
  PROVE  Account'
<1> USE DEF IInv, Account
<1>1. UNCHANGED <<incidents, actions, desired>>
  BY DEF RequestReset, FaultsChange, HAProxyRestarts, Interrupt, StartReset,
         ResetGateFails, ActionExists, database, vars
<1>2. worker' = worker \/ worker' = Idle
  BY DEF RequestReset, FaultsChange, HAProxyRestarts, Interrupt, StartReset,
         ResetGateFails, ActionExists, vars
<1>3. /\ runtime' = runtime \/ (runtime' = [m \in Members |-> "full"] /\ used'["restart"] # 0)
      /\ used'["restart"] = 0 => used["restart"] = 0
      /\ used'["mishap"] = 0 => used["mishap"] = 0 /\ (worker' = worker \/ worker.at = "decided")
  <2>1. CASE UNCHANGED used /\ ~ActionExists
    BY <2>1 DEF RequestReset, FaultsChange, HAProxyRestarts, Interrupt, StartReset,
         ResetGateFails, Use, TypeOK, vars
  <2>2. CASE ActionExists
    BY <2>2 DEF ActionExists
  <2>3. CASE HAProxyRestarts \/ Interrupt \/ RequestReset
    BY <2>3 DEF HAProxyRestarts, Interrupt, RequestReset, Use, TypeOK
  <2> QED BY <2>1, <2>2, <2>3 DEF FaultsChange, StartReset, ResetGateFails, vars
<1>4. ResetOver' => ResetOver
  BY DEF RequestReset, FaultsChange, HAProxyRestarts, Interrupt, StartReset,
         ResetGateFails, ActionExists, database, vars, ResetOver
<1>5. RowsAgree'
  BY <1>1 DEF RowsAgree, Inc, IncidentOf, ActiveIncident
<1>6. LifecyclesTell'
  BY <1>1, <1>4 DEF LifecyclesTell, Inc, IncidentOf, ActiveIncident, InFlight, WithLifecycle
<1>7. NothingForgotten'
  <2>1. \A m \in Members : HasTraffic(m) => HasTraffic(m)'
    BY <1>3 DEF HasTraffic, InService
  <2>2. \A m \in Members : Owned(m) => Owned(m)'
    BY <1>1 DEF Owned, Covers, ActiveIncident, IncidentOf
  <2> QED BY <1>1, <2>1, <2>2 DEF NothingForgotten
<1>8. Handlers'
  <2>1. CASE worker' = worker
    BY <1>1, <2>1 DEF Handlers, ActiveIncident, IncidentOf, InFlight, WithLifecycle, ActiveRuns
  <2> QED BY <1>2, <2>1, IdleHandlers
<1>9. MitigationStands'
  BY <1>1, <1>3 DEF MitigationStands, Inc, IncidentOf, HasTraffic
<1>10. SentOrDue'
  <2> SUFFICES ASSUME used'["mishap"] = 0, used'["restart"] = 0, NEW m \in Members
               PROVE  \/ m \in worker'.todo \/ runtime'[m] = desired'[m].state
                      \/ desired'[m].source \in RolledBack'
                      \/ worker'.at = "rollback" /\ m \in actions'[worker'.subject].scope
    BY DEF SentOrDue
  <2>1. RolledBack' = RolledBack
    BY <1>1 DEF RolledBack, WithLifecycle
  <2>2. runtime' = runtime /\ used["mishap"] = 0 /\ used["restart"] = 0
    BY <1>3
  <2>3. CASE worker' = worker
    BY <1>1, <2>1, <2>2, <2>3 DEF SentOrDue
  <2>4. CASE worker.at = "decided"
    BY <1>1, <2>1, <2>2, <2>4 DEF SentOrDue, Handlers
  <2> QED BY <1>3, <2>3, <2>4
<1> QED BY <1>5, <1>6, <1>7, <1>8, <1>9, <1>10

\* Commands move a membership of the handler's subject towards what is asked
\* of it, or towards service.
LEMMA CommandAccounts ==
  ASSUME IInv, Account, CommandOk \/ CommandFails
  PROVE  Account'
<1> USE DEF IInv, Account
<1>1. UNCHANGED <<incidents, actions, desired, reset>>
  BY DEF CommandOk, CommandFails, database
<1>2. PICK m \in worker.todo, s \in States \cup {"half"} :
        /\ m \in Members
        /\ runtime' = [runtime EXCEPT ![m] = s]
        /\ s \in {runtime[m], PartlySent(runtime[m], Requested(m)), Requested(m)}
        /\ \/ worker' = Idle
           \/ /\ worker'.at = worker.at /\ worker'.subject = worker.subject
              /\ worker'.todo \subseteq worker.todo
        /\ used'["restart"] = used["restart"]
        /\ \/ used'["mishap"] # 0
           \/ /\ s = Requested(m) /\ used'["mishap"] = used["mishap"]
              /\ worker'.todo = worker.todo \ {m}
              /\ worker'.at = worker.at /\ worker'.subject = worker.subject
  <2>1. CASE CommandOk
    <3>1. PICK m \in worker.todo, down \in SUBSET Downable :
            /\ runtime' = [runtime EXCEPT ![m] = Requested(m)]
            /\ worker' = [worker EXCEPT !.todo = @ \ {m},
                            !.err = @ \/ (worker.at = "reset" /\ m \in down)]
            /\ UNCHANGED used
      BY <2>1 DEF CommandOk
    <3> DEFINE err == worker.err \/ (worker.at = "reset" /\ m \in down)
    <3>2. worker' = [worker EXCEPT !.todo = worker.todo \ {m}, !.err = err]
      BY <3>1 DEF TypeOK, Workers
    <3> HIDE DEF err
    <3>3. /\ worker'.at = worker.at /\ worker'.subject = worker.subject
          /\ worker'.todo = worker.todo \ {m}
      BY <3>2 DEF TypeOK, Workers
    <3> QED BY <3>1, <3>3, RequestedTyped
  <2>2. CASE CommandFails
    <3>1. PICK m \in worker.todo :
            /\ \E s \in {runtime[m], PartlySent(runtime[m], Requested(m)), Requested(m)} :
                 runtime' = [runtime EXCEPT ![m] = s]
            /\ \/ worker' = Idle
               \/ worker' = [worker EXCEPT !.todo = @ \ {m}, !.err = TRUE]
               \/ worker' = [worker EXCEPT !.todo = {}, !.err = TRUE]
      BY <2>2 DEF CommandFails
    <3>2. \A s \in {runtime[m], PartlySent(runtime[m], Requested(m)), Requested(m)} :
             s \in States \cup {"half"}
      BY RequestedTyped DEF TypeOK, Servers, PartlySent
    <3>3. \/ worker' = Idle
          \/ /\ worker'.at = worker.at /\ worker'.subject = worker.subject
             /\ worker'.todo \subseteq worker.todo
      <4>1. CASE worker' = [worker EXCEPT !.todo = @ \ {m}, !.err = TRUE]
        <5>1. worker'.todo = worker.todo \ {m} /\ worker'.at = worker.at
              /\ worker'.subject = worker.subject
          BY <4>1 DEF TypeOK, Workers
        <5> QED BY <5>1
      <4>2. CASE worker' = [worker EXCEPT !.todo = {}, !.err = TRUE]
        <5>1. worker'.todo = {} /\ worker'.at = worker.at /\ worker'.subject = worker.subject
          BY <4>2 DEF TypeOK, Workers
        <5> QED BY <5>1
      <4> QED BY <3>1, <4>1, <4>2
    <3>4. used'["restart"] = used["restart"] /\ used'["mishap"] # 0
      <4>1. used' = [used EXCEPT !["mishap"] = used["mishap"] + 1]
        BY <2>2 DEF CommandFails, Use
      <4>2. used \in [{"mishap", "restart", "reset"} -> Nat]
        BY DEF TypeOK
      <4> QED BY <4>1, <4>2
    <3> QED BY <3>1, <3>2, <3>3, <3>4, RequestedTyped
  <2> QED BY <2>1, <2>2
<1>3. \A p \in Members : runtime'[p] = IF p = m THEN s ELSE runtime[p]
  BY <1>2 DEF TypeOK, Servers
<1>4. /\ worker.at \in {"drain", "rollback", "restore", "advance", "reset"}
      /\ worker.at # "reset" =>
           /\ worker.subject \in DOMAIN actions /\ m \in actions[worker.subject].scope
           /\ desired[m].source = worker.subject
           /\ ActiveIncident(IncidentOf(worker.subject))
  BY <1>2 DEF Handlers, TypeOK, Workers, Points, Sagas, Jobs, LifecyclesTell, ActiveRuns, Inc,
              ActiveIncident, ActiveStatus
<1>5. RowsAgree'
  BY <1>1 DEF RowsAgree, Inc, IncidentOf, ActiveIncident
<1>6. LifecyclesTell'
  BY <1>1 DEF LifecyclesTell, Inc, IncidentOf, ActiveIncident, InFlight, WithLifecycle, ResetOver
<1>7. NothingForgotten'
  <2> SUFFICES ASSUME NEW p \in Members, desired'[p].state = "drain" \/ ~HasTraffic(p)'
               PROVE  Owned(p)'
    BY DEF NothingForgotten
  <2>1. Owned(p) => Owned(p)'
    BY <1>1 DEF Owned, Covers, ActiveIncident, IncidentOf
  <2>2. CASE p = m /\ worker.at # "reset"
    <3>1. Owned(m)
      BY <1>4, <2>2 DEF Owned, Covers
    <3> QED BY <2>1, <2>2, <3>1
  <2>3. CASE p = m /\ worker.at = "reset"
    <3>1. s \in {runtime[m], PartlySent(runtime[m], "full"), "full"}
      BY <1>2, <2>3 DEF Requested
    <3>2. HasTraffic(m) => HasTraffic(m)'
      BY <1>2, <1>3, <3>1 DEF HasTraffic, PartlySent, InService
    <3> QED BY <1>1, <2>1, <2>3, <3>2 DEF NothingForgotten
  <2>4. CASE p # m
    BY <1>1, <1>3, <2>1, <2>4 DEF NothingForgotten, HasTraffic
  <2> QED BY <2>2, <2>3, <2>4
<1>8. Handlers'
  <2>1. CASE worker' = Idle
    BY <2>1, IdleHandlers
  <2>2. CASE worker' # Idle
    BY <1>1, <1>2, <1>4, <2>2
       DEF Handlers, ActiveIncident, IncidentOf, InFlight, WithLifecycle, ActiveRuns
  <2> QED BY <2>1, <2>2
<1>9. MitigationStands'
  <2> SUFFICES ASSUME used["restart"] = 0, NEW i \in DOMAIN actions,
                      actions[i].lifecycle = "COMMITTED", Inc(i).status = "MITIGATING",
                      NEW p \in actions[i].scope, desired[p].source = i, HasTraffic(p)'
               PROVE  desired[p].state \in InService
    BY <1>1, <1>2 DEF MitigationStands, Inc, IncidentOf
  <2>1. p \in Members
    <3>1. actions[i] \in ActionRows
      BY RowsAre DEF TypeOK
    <3> QED BY <3>1 DEF ActionRows
  <2>2. CASE p = m /\ worker.at = "reset"
    BY <2>1, <2>2 DEF Handlers, InService
  <2>3. CASE p = m /\ worker.at = "restore"
    BY <1>4, <2>3 DEF Handlers, RowsAgree
  <2>4. CASE p = m /\ worker.at \in {"drain", "rollback"}
    BY <1>4, <2>4 DEF Handlers, InFlight, WithLifecycle, InFlightLifecycle
  <2>5. CASE p = m /\ worker.at = "advance"
    BY <1>4, <2>5 DEF Handlers, ActiveRuns, LifecyclesTell
  <2>6. CASE p # m
    BY <1>3, <2>1, <2>6 DEF MitigationStands, HasTraffic
  <2> QED BY <1>4, <2>2, <2>3, <2>4, <2>5, <2>6
<1>10. SentOrDue'
  <2> SUFFICES ASSUME used'["mishap"] = 0, used'["restart"] = 0, NEW p \in Members
               PROVE  \/ p \in worker'.todo \/ runtime'[p] = desired'[p].state
                      \/ desired'[p].source \in RolledBack'
                      \/ worker'.at = "rollback" /\ p \in actions'[worker'.subject].scope
    BY DEF SentOrDue
  <2>1. RolledBack' = RolledBack
    BY <1>1 DEF RolledBack, WithLifecycle
  <2>2. /\ s = Requested(m) /\ used["mishap"] = 0 /\ used["restart"] = 0
        /\ worker'.todo = worker.todo \ {m}
        /\ worker'.at = worker.at /\ worker'.subject = worker.subject
    BY <1>2
  <2>3. CASE p # m
    BY <1>1, <1>3, <2>1, <2>2, <2>3 DEF SentOrDue
  <2>4. CASE p = m /\ worker.at = "rollback"
    BY <1>1, <1>4, <2>2, <2>4
  <2>5. CASE p = m /\ worker.at # "rollback"
    <3>1. Requested(m) = desired[m].state
      <4>1. CASE worker.at = "drain"
        BY <1>4, <4>1 DEF Requested, Handlers
      <4>2. CASE worker.at = "restore"
        BY <1>4, <4>2 DEF Requested, Handlers
      <4>3. CASE worker.at = "advance"
        BY <4>3 DEF Requested
      <4>4. CASE worker.at = "reset"
        BY <1>2, <4>4 DEF Requested, Handlers
      <4> QED BY <1>4, <2>5, <4>1, <4>2, <4>3, <4>4
    <3> QED BY <1>1, <1>2, <1>3, <2>2, <2>5, <3>1
  <2> QED BY <2>3, <2>4, <2>5
<1> QED BY <1>5, <1>6, <1>7, <1>8, <1>9, <1>10

\* A decision opens an incident or finds the active one of its class, while
\* no route incident, no action in flight and no run is there.
LEMMA DecisionAccounts ==
  ASSUME IInv, Account, Decide \/ ResolveNonAction \/ ActionDenied
  PROVE  Account'
<1> USE DEF IInv, Account
<1>1. UNCHANGED <<actions, desired, reset, runtime, used>>
  BY DEF Decide, OpenIncident, UpdateIncident, ResolveNonAction, ActionDenied
<1>2. /\ DOMAIN incidents = 1..Len(incidents) /\ Len(incidents) \in Nat
      /\ \A k \in DOMAIN incidents : incidents[k] \in IncidentRows
      /\ \A i \in DOMAIN actions : actions[i].incident \in DOMAIN incidents
  BY RowsAre DEF TypeOK, Sagas, Grounded, IncidentOf
<1> DEFINE RowsOk == RowsAgree'
           \* An incident with an action keeps its class and stays active.
           Kept == /\ DOMAIN incidents \subseteq DOMAIN incidents'
                   /\ \A k \in DOMAIN incidents :
                        /\ incidents'[k].scope = incidents[k].scope
                        /\ HasAction(k) =>
                             /\ incidents'[k].class = incidents[k].class
                             /\ \/ incidents'[k].status = incidents[k].status
                                \/ /\ incidents'[k].status = "NEEDS_REVIEW" /\ ActiveIncident(k)
                                   /\ ActiveRuns = {}
           Worker == \/ worker' = worker /\ worker.at = "idle"
                     \/ worker' = Idle
                     \/ \E k \in DOMAIN incidents' :
                          /\ worker' = Sending("decided", k, {})
                          /\ ActiveIncident(k)' /\ ActiveRuns = {}
                          /\ \A j \in DOMAIN incidents' :
                               ActiveIncident(j)' /\ incidents'[j].class = "ROUTE" => j = k
<1>3. RowsOk /\ Kept /\ Worker
  <2>1. ASSUME NEW class \in Classes, NEW S \in Failures, OpenIncident(class, S)
        PROVE  RowsOk /\ Kept /\ Worker
    <3>1. PICK allowed \in BOOLEAN :
            incidents' = Append(incidents,
              [class |-> class, scope |-> S, status |-> "OPEN",
               allowed |-> allowed /\ class # "DEGRADED"])
      BY <2>1 DEF OpenIncident
    <3> DEFINE ok == allowed /\ class # "DEGRADED"
    <3>0. PICK new \in Nat : new = Len(incidents) + 1
      BY <1>2
    <3>2. /\ DOMAIN incidents' = DOMAIN incidents \cup {new} /\ new \notin DOMAIN incidents
          /\ \A k \in DOMAIN incidents : incidents'[k] = incidents[k]
          /\ incidents'[new] = [class |-> class, scope |-> S, status |-> "OPEN", allowed |-> ok]
      <4> DEFINE row == [class |-> class, scope |-> S, status |-> "OPEN", allowed |-> ok]
      <4>1. incidents' = Append(incidents, row)
        BY <3>1
      <4>2. row \in IncidentRows
        <5>1. ok \in BOOLEAN /\ S \subseteq Members
          BY FailuresTyped
        <5> HIDE DEF ok
        <5> QED BY <5>1 DEF IncidentRows, Statuses, ActiveStatus
      <4> HIDE DEF row
      <4>3. /\ DOMAIN incidents' = 1..new /\ incidents'[new] = row
            /\ \A k \in 1..Len(incidents) : incidents'[k] = incidents[k]
        BY <1>2, <3>0, <4>1, <4>2, AppendProperties, LenProperties DEF TypeOK, RowsTyped
      <4> QED BY <1>2, <3>0, <4>3 DEF row
    <3>3. /\ incidents'[new].class = class /\ incidents'[new].scope = S
          /\ incidents'[new].status = "OPEN" /\ incidents'[new].allowed = ok
      BY <3>2
    <3>4. /\ class = "INSTANCE" => \E x \in Instances : S = OfInstance(x)
          /\ class # "INSTANCE" => \E m \in Members : S = {m}
      <4>1. CASE class = "INSTANCE"
        BY <2>1, <4>1 DEF OpenIncident, Suspects
      <4>2. CASE class = "ROUTE"
        <5>1. \E m \in failing : S = {m}
          BY <2>1, <4>2 DEF OpenIncident, Suspects
        <5> QED BY <4>2, <5>1 DEF TypeOK
      <4>3. CASE class = "DEGRADED"
        BY <2>1, <4>3 DEF OpenIncident, Suspects
      <4> QED BY <4>1, <4>2, <4>3 DEF Classes
    <3>5. SameIncident(class, S) = {} /\ Classifies
      BY <2>1 DEF OpenIncident
    <3> HIDE DEF ok
    <3>6. RowsOk
      <4>1. \A i \in DOMAIN actions' :
              /\ Inc(i)'.scope = actions'[i].scope /\ Inc(i)'.class = actions'[i].kind
              /\ actions'[i].kind # "DEGRADED"
              /\ actions'[i].kind = "INSTANCE" =>
                   \A m \in actions'[i].scope : actions'[i].saved[m] \in InService
        BY <1>1, <1>2, <3>2 DEF RowsAgree, Inc, IncidentOf
      <4>2. \A i, j \in DOMAIN actions' : IncidentOf(i)' = IncidentOf(j)' => i = j
        BY <1>1 DEF RowsAgree, IncidentOf
      <4>3. \A k \in DOMAIN incidents' :
              /\ incidents'[k].allowed => incidents'[k].class # "DEGRADED"
              /\ incidents'[k].class = "INSTANCE" =>
                   \E x \in Instances : incidents'[k].scope = OfInstance(x)
              /\ incidents'[k].class # "INSTANCE" => \E m \in Members : incidents'[k].scope = {m}
        BY <3>2, <3>3, <3>4 DEF RowsAgree, ok
      <4>4. ASSUME NEW j \in DOMAIN incidents',  NEW k \in DOMAIN incidents',
                   ActiveIncident(j)', incidents'[j].class = "INSTANCE",
                   ActiveIncident(k)', incidents'[k].class = "INSTANCE",
                   incidents'[j].scope = incidents'[k].scope
            PROVE  j = k
        <5>1. \A q \in DOMAIN incidents :
                ~(ActiveIncident(q) /\ incidents[q].scope = S /\ incidents[q].class = class)
          BY <3>5 DEF SameIncident
        <5> QED BY <3>2, <3>3, <4>4, <5>1 DEF RowsAgree, ActiveIncident
      <4> QED BY <4>1, <4>2, <4>3, <4>4 DEF RowsAgree
    <3>7. Kept
      BY <3>2
    <3>8. Worker
      <4>1. worker' = Idle \/ (worker' = Sending("decided", new, {}) /\ class # "DEGRADED")
        BY <2>1, <3>0 DEF OpenIncident, Decided
      <4>2. ActiveIncident(new)' /\ ActiveRuns = {}
        BY <3>3, <3>5 DEF ActiveIncident, ActiveStatus, Classifies
      <4>3. \A j \in DOMAIN incidents' :
              ActiveIncident(j)' /\ incidents'[j].class = "ROUTE" => j = new
        BY <3>2, <3>5 DEF Classifies, ActiveIncident
      <4> QED BY <3>2, <4>1, <4>2, <4>3
    <3> QED BY <3>6, <3>7, <3>8
  <2>2. ASSUME NEW class \in Classes, NEW S \in Failures, UpdateIncident(class, S)
        PROVE  RowsOk /\ Kept /\ Worker
    <3>1. PICK k \in SameIncident(class, S) :
            /\ \/ UNCHANGED incidents
               \/ \E allowed \in BOOLEAN :
                    incidents' = [incidents EXCEPT
                      ![k].class = class, ![k].allowed = allowed /\ class # "DEGRADED"]
            /\ Decided(class, k)
      BY <2>2 DEF UpdateIncident
    <3>2. /\ k \in DOMAIN incidents /\ ActiveIncident(k) /\ Classifies
          /\ incidents[k].class = class \/ {incidents[k].class, class} = {"ROUTE", "DEGRADED"}
      BY <2>2 DEF SameIncident, UpdateIncident
    <3>3. \A j \in DOMAIN incidents : ActiveIncident(j) => incidents[j].class # "ROUTE"
      BY <3>2 DEF Classifies
    <3>4. incidents[k].class # class => incidents[k].class = "DEGRADED" /\ class = "ROUTE"
      BY <3>2, <3>3
    <3>5. incidents[k].class = "DEGRADED" => ~HasAction(k)
      BY DEF HasAction, RowsAgree, Inc
    <3> DEFINE Same(j) == /\ incidents'[j].scope = incidents[j].scope
                          /\ incidents'[j].status = incidents[j].status
               Like(j) == /\ incidents'[j].class = incidents[j].class
                          /\ incidents'[j].allowed = incidents[j].allowed
               Updated == /\ DOMAIN incidents' = DOMAIN incidents
                          /\ \A j \in DOMAIN incidents : Same(j) /\ (j # k => Like(j))
                          /\ \/ Like(k)
                             \/ incidents'[k].class = class
                                /\ (incidents'[k].allowed => class # "DEGRADED")
    <3>6. Updated
      <4>1. CASE UNCHANGED incidents
        BY <4>1
      <4>2. ASSUME NEW ok \in BOOLEAN, ok => class # "DEGRADED",
                   incidents' = [incidents EXCEPT ![k].class = class, ![k].allowed = ok]
            PROVE  Updated
        <5>1. \A j \in DOMAIN incidents : incidents'[j] =
                IF j = k THEN [incidents[k] EXCEPT !.class = class, !.allowed = ok] ELSE incidents[j]
          BY <1>2, <3>2, <4>2 DEF IncidentRows
        <5>2. DOMAIN incidents' = DOMAIN incidents
          BY <4>2
        <5>3. incidents[k] \in IncidentRows
          BY <1>2, <3>2
        <5>4. /\ incidents'[k].class = class /\ incidents'[k].allowed = ok
              /\ Same(k)
          BY <3>2, <5>1, <5>3 DEF IncidentRows
        <5> QED BY <4>2, <5>1, <5>2, <5>4
      <4>3. \A allowed \in BOOLEAN : (allowed /\ class # "DEGRADED") \in BOOLEAN
        OBVIOUS
      <4> QED BY <3>1, <4>1, <4>2, <4>3
    <3>7. /\ incidents'[k].class # incidents[k].class => ~HasAction(k)
          /\ incidents'[k].class = "INSTANCE" => incidents[k].class = "INSTANCE"
          /\ incidents[k].class = "INSTANCE" => incidents'[k].class = "INSTANCE"
          /\ \A j \in DOMAIN incidents' : ActiveIncident(j)' <=> ActiveIncident(j)
          /\ incidents'[k].class \in {incidents[k].class, class}
      BY <3>2, <3>4, <3>5, <3>6 DEF ActiveIncident
    <3>8. RowsOk
      <4>1. \A i \in DOMAIN actions' :
              /\ Inc(i)'.scope = actions'[i].scope /\ Inc(i)'.class = actions'[i].kind
              /\ actions'[i].kind # "DEGRADED"
              /\ actions'[i].kind = "INSTANCE" =>
                   \A m \in actions'[i].scope : actions'[i].saved[m] \in InService
        BY <1>1, <1>2, <3>6, <3>7 DEF RowsAgree, Inc, IncidentOf, HasAction
      <4>2. \A i, j \in DOMAIN actions' : IncidentOf(i)' = IncidentOf(j)' => i = j
        BY <1>1 DEF RowsAgree, IncidentOf
      <4>3. \A j \in DOMAIN incidents' :
              /\ incidents'[j].allowed => incidents'[j].class # "DEGRADED"
              /\ incidents'[j].class = "INSTANCE" =>
                   \E x \in Instances : incidents'[j].scope = OfInstance(x)
              /\ incidents'[j].class # "INSTANCE" => \E m \in Members : incidents'[j].scope = {m}
        BY <3>2, <3>6, <3>7 DEF RowsAgree
      <4>4. ASSUME NEW j \in DOMAIN incidents',  NEW q \in DOMAIN incidents',
                   ActiveIncident(j)', incidents'[j].class = "INSTANCE",
                   ActiveIncident(q)', incidents'[q].class = "INSTANCE",
                   incidents'[j].scope = incidents'[q].scope
            PROVE  j = q
        BY <3>6, <3>7, <4>4 DEF RowsAgree
      <4> QED BY <4>1, <4>2, <4>3, <4>4 DEF RowsAgree
    <3>9. Kept
      BY <3>6, <3>7
    <3>10. Worker
      <4>1. worker' = Idle \/ worker' = Sending("decided", k, {})
        BY <3>1 DEF Decided
      <4>2. ActiveIncident(k)' /\ ActiveRuns = {} /\ k \in DOMAIN incidents'
        BY <3>2, <3>6, <3>7 DEF Classifies
      <4>3. \A j \in DOMAIN incidents' :
              ActiveIncident(j)' /\ incidents'[j].class = "ROUTE" => j = k
        BY <3>3, <3>6, <3>7
      <4> QED BY <4>1, <4>2, <4>3
    <3> QED BY <3>8, <3>9, <3>10
  <2>3. CASE ResolveNonAction
    <3>1. incidents' = [k \in DOMAIN incidents |->
            IF ActiveIncident(k) /\ ~HasAction(k)
              THEN [incidents[k] EXCEPT !.status = "RESOLVED"] ELSE incidents[k]]
      BY <2>3 DEF ResolveNonAction
    <3>2. DOMAIN incidents' = DOMAIN incidents
      BY <3>1
    <3>3. ASSUME NEW k \in DOMAIN incidents
          PROVE  /\ incidents'[k].class = incidents[k].class
                 /\ incidents'[k].scope = incidents[k].scope
                 /\ incidents'[k].allowed = incidents[k].allowed
                 /\ incidents'[k].status \in {incidents[k].status, "RESOLVED"}
                 /\ HasAction(k) => incidents'[k].status = incidents[k].status
      BY <1>2, <3>1 DEF IncidentRows
    <3>4. RowsStay /\ NoneActivated
      BY <1>1, <3>2, <3>3 DEF RowsStay, NoneActivated, ActiveStatus
    <3>5. RowsOk
      BY <3>4, AgreementKept DEF TypeOK, Sagas
    <3>6. Worker
      BY <2>3 DEF ResolveNonAction, Classifies, NoneInFlight, TickReaches
    <3> QED BY <3>2, <3>3, <3>5, <3>6
  <2>4. CASE ActionDenied
    <3>1. /\ incidents' = [incidents EXCEPT ![worker.subject].status = "NEEDS_REVIEW"]
          /\ worker.subject \in DOMAIN incidents /\ ActiveIncident(worker.subject)
          /\ ActiveRuns = {} /\ worker' = Idle
      BY <2>4 DEF ActionDenied, Handlers, Sagas, Jobs
    <3>2. DOMAIN incidents' = DOMAIN incidents
      BY <3>1
    <3>3. ASSUME NEW k \in DOMAIN incidents
          PROVE  /\ incidents'[k].class = incidents[k].class
                 /\ incidents'[k].scope = incidents[k].scope
                 /\ incidents'[k].allowed = incidents[k].allowed
                 /\ \/ incidents'[k].status = incidents[k].status
                    \/ incidents'[k].status = "NEEDS_REVIEW" /\ ActiveIncident(k)
      BY <1>2, <3>1 DEF IncidentRows
    <3>4. RowsStay /\ NoneActivated
      BY <1>1, <3>2, <3>3 DEF RowsStay, NoneActivated, ActiveIncident
    <3>5. RowsOk
      BY <3>4, AgreementKept DEF TypeOK, Sagas
    <3> QED BY <3>1, <3>2, <3>3, <3>5
  <2> QED BY <2>1, <2>2, <2>3, <2>4 DEF Decide, Classes
<1> HIDE DEF Kept, Worker
<1>4. \A i \in DOMAIN actions :
        /\ Inc(i)'.class = Inc(i).class
        /\ ActiveIncident(IncidentOf(i)) => ActiveIncident(IncidentOf(i))'
        /\ ActiveIncident(IncidentOf(i))' => ActiveIncident(IncidentOf(i))
        /\ \/ Inc(i)'.status = Inc(i).status
           \/ Inc(i)'.status = "NEEDS_REVIEW" /\ ActiveRuns = {}
  <2> TAKE i \in DOMAIN actions
  <2>1. HasAction(IncidentOf(i)) /\ IncidentOf(i) \in DOMAIN incidents /\ IncidentOf(i)' = IncidentOf(i)
    BY <1>1, <1>2 DEF HasAction, IncidentOf
  <2> QED BY <1>3, <2>1 DEF Kept, Inc, ActiveIncident, ActiveStatus, IncidentOf
<1>5. LifecyclesTell'
  BY <1>1, <1>4 DEF LifecyclesTell, InFlight, WithLifecycle, ResetOver, ActiveRuns
<1>6. NothingForgotten'
  BY <1>1, <1>4 DEF NothingForgotten, Owned, Covers, HasTraffic
<1>7. Handlers'
  <2>1. CASE worker' = Idle \/ (worker' = worker /\ worker.at = "idle")
    BY <2>1, IdleHandlers
  <2>2. ASSUME NEW k \in DOMAIN incidents', worker' = Sending("decided", k, {}),
               ActiveIncident(k)', ActiveRuns = {},
               \A j \in DOMAIN incidents' :
                 ActiveIncident(j)' /\ incidents'[j].class = "ROUTE" => j = k
        PROVE  Handlers'
    <3>1. worker'.at = "decided" /\ worker'.subject = k /\ worker'.todo = {}
      BY <2>2 DEF Sending
    <3>2. ActiveRuns' = {}
      BY <1>1, <2>2 DEF ActiveRuns
    <3> QED BY <2>2, <3>1, <3>2 DEF Handlers
  <2> QED BY <1>3, <2>1, <2>2 DEF Worker
<1>8. MitigationStands'
  BY <1>1, <1>4 DEF MitigationStands, HasTraffic
<1>9. SentOrDue'
  <2>1. worker.at \in {"idle", "decided"} /\ worker.todo = {}
    <3>1. worker.at \in {"idle", "decided"}
      BY DEF Decide, OpenIncident, UpdateIncident, ResolveNonAction, ActionDenied, Classifies,
             NoneInFlight, TickReaches
    <3> QED BY <3>1 DEF Handlers
  <2>2. RolledBack' = RolledBack
    BY <1>1 DEF RolledBack, WithLifecycle
  <2> QED BY <1>1, <2>1, <2>2 DEF SentOrDue
<1> QED BY <1>3, <1>5, <1>6, <1>7, <1>8, <1>9

\* The scope of a decided incident is saved: nothing of an instance was meant
\* to be drained, since nobody else answers for it.
LEMMA PrepareAccounts ==
  ASSUME IInv, Account, Prepare
  PROVE  Account'
<1> USE DEF IInv, Account
<1>1. PICK k \in DOMAIN incidents : k = worker.subject
  BY DEF Prepare, Sagas, Jobs
<1>2. PICK new \in Nat : new = Len(actions) + 1
  BY RowsAre DEF TypeOK
<1> DEFINE inc == incidents[k]
           row == [incident |-> k, kind |-> inc.class, scope |-> inc.scope,
                   lifecycle |-> "PREPARED", run |-> "none",
                   saved |-> [m \in inc.scope |-> desired[m].state]]
<1>3. /\ worker.at = "decided" /\ inc.allowed /\ ~HasAction(k)
      /\ actions' = Append(actions, row)
      /\ desired' = [m \in Members |-> IF m \in inc.scope
           THEN [state |-> "drain", source |-> new] ELSE desired[m]]
      /\ worker' = Sending("drain", new, inc.scope)
      /\ UNCHANGED <<incidents, reset, runtime, used>>
  BY <1>1, <1>2 DEF Prepare
<1>4. /\ InFlight = {} /\ ActiveRuns = {} /\ ActiveIncident(k) /\ worker.todo = {}
      /\ \A j \in DOMAIN incidents :
           ActiveIncident(j) /\ incidents[j].class = "ROUTE" => j = k
  BY <1>1, <1>3 DEF Sagas, Jobs, Handlers
<1>5. inc \in IncidentRows /\ inc.scope \subseteq Members /\ inc.class \in Classes
  BY RowsAre DEF TypeOK, IncidentRows
<1>6. /\ DOMAIN actions' = DOMAIN actions \cup {new} /\ new \notin DOMAIN actions
      /\ \A i \in DOMAIN actions : actions'[i] = actions[i]
      /\ actions'[new] = row
  <2> HIDE DEF row
  <2>1. actions \in Seq(ActionRows) /\ DOMAIN actions = 1..Len(actions)
    BY RowsAre DEF TypeOK, RowsTyped
  <2>2. \A i \in 1..Len(actions) : actions'[i] = actions[i]
    BY <1>3, <2>1
  <2>3. actions'[new] = row /\ Len(actions') = new
    BY <1>2, <1>3, <2>1
  <2>4. DOMAIN actions' = 1..new
    BY <1>2, <1>3, <2>1
  <2> QED BY <1>2, <2>1, <2>2, <2>3, <2>4
<1>7. /\ actions'[new].incident = k /\ actions'[new].kind = inc.class
      /\ actions'[new].scope = inc.scope /\ actions'[new].lifecycle = "PREPARED"
      /\ actions'[new].run = "none"
      /\ \A m \in inc.scope : actions'[new].saved[m] = desired[m].state
  BY <1>6
<1>8. \A m \in Members :
        /\ m \in inc.scope => desired'[m].state = "drain" /\ desired'[m].source = new
        /\ m \notin inc.scope => desired'[m] = desired[m]
  BY <1>3
<1>9. \A i \in DOMAIN actions : actions[i].incident \in DOMAIN incidents /\ actions[i].incident # k
  BY <1>3 DEF Sagas, Grounded, HasAction, IncidentOf
<1> HIDE DEF row, inc
<1>10. inc.class # "DEGRADED"
  BY <1>3 DEF RowsAgree, inc
<1>11. inc.class = "INSTANCE" => \A m \in inc.scope : desired[m].state \in InService
  <2> SUFFICES ASSUME inc.class = "INSTANCE", NEW m \in inc.scope, desired[m].state \notin InService
               PROVE  FALSE
    OBVIOUS
  <2>1. m \in Members /\ desired[m].state = "drain"
    BY <1>5 DEF TypeOK, DesiredRows, States, InService
  <2>2. PICK i \in DOMAIN actions : m \in actions[i].scope /\ ActiveIncident(actions[i].incident)
    BY <2>1 DEF NothingForgotten, Owned, Covers, IncidentOf
  <2>3. PICK j \in DOMAIN incidents : j = actions[i].incident /\ j # k
    BY <1>9
  <2>4. /\ incidents[j].scope = actions[i].scope /\ incidents[j].class # "DEGRADED"
        /\ ActiveIncident(j)
    BY <2>2, <2>3 DEF RowsAgree, Inc, IncidentOf
  <2>5. incidents[j].class = "INSTANCE"
    <3>1. incidents[j] \in IncidentRows
      BY RowsAre DEF TypeOK
    <3> QED BY <1>4, <2>3, <2>4, <3>1 DEF IncidentRows, Classes
  <2>6. PICK x \in Instances, y \in Instances :
          incidents[j].scope = OfInstance(x) /\ incidents[k].scope = OfInstance(y)
    BY <2>5 DEF RowsAgree, inc
  <2>7. x = y
    BY <2>2, <2>4, <2>6 DEF OfInstance, inc
  <2> QED BY <1>4, <2>3, <2>4, <2>5, <2>6, <2>7 DEF RowsAgree, inc
<1>12. RowsAgree'
  <2>1. \A i \in DOMAIN actions' :
          /\ Inc(i)'.scope = actions'[i].scope /\ Inc(i)'.class = actions'[i].kind
          /\ actions'[i].kind # "DEGRADED"
          /\ actions'[i].kind = "INSTANCE" =>
               \A m \in actions'[i].scope : actions'[i].saved[m] \in InService
    BY <1>3, <1>6, <1>7, <1>9, <1>10, <1>11 DEF RowsAgree, Inc, IncidentOf, inc
  <2>2. \A i, j \in DOMAIN actions' : IncidentOf(i)' = IncidentOf(j)' => i = j
    BY <1>6, <1>7, <1>9 DEF RowsAgree, IncidentOf
  <2> QED BY <1>3, <2>1, <2>2 DEF RowsAgree, ActiveIncident
<1>13. LifecyclesTell'
  <2> SUFFICES ASSUME NEW i \in DOMAIN actions'
               PROVE  /\ i \in InFlight' =>
                           /\ ActiveIncident(IncidentOf(i))'
                           /\ \A m \in actions'[i].scope :
                                desired'[m].state = "drain" /\ desired'[m].source = i
                      /\ actions'[i].run = "ACTIVE" =>
                           /\ actions'[i].lifecycle = "COMMITTED" /\ actions'[i].kind = "ROUTE"
                           /\ Inc(i)'.status = "RECOVERING"
                      /\ actions'[i].lifecycle = "RESULT_UNKNOWN" /\ ~ActiveIncident(IncidentOf(i))' =>
                           \A m \in Members : desired'[m].source # i
    BY DEF LifecyclesTell
  <2>1. CASE i = new
    BY <1>3, <1>4, <1>5, <1>7, <1>8, <2>1 DEF ActiveIncident, IncidentOf
  <2>2. CASE i # new
    <3>1. i \in DOMAIN actions /\ actions'[i] = actions[i] /\ i \notin InFlight'
      BY <1>4, <1>6, <2>2 DEF InFlight, WithLifecycle
    <3> QED BY <1>3, <1>8, <2>2, <3>1 DEF LifecyclesTell, ActiveIncident, IncidentOf, Inc
  <2> QED BY <2>1, <2>2
<1>14. NothingForgotten'
  <2> SUFFICES ASSUME NEW m \in Members, desired'[m].state = "drain" \/ ~HasTraffic(m)'
               PROVE  Owned(m)'
    BY DEF NothingForgotten
  <2>1. CASE m \in inc.scope
    <3>1. new \in DOMAIN actions' /\ Covers(new, m)' /\ ActiveIncident(IncidentOf(new))'
      BY <1>3, <1>4, <1>6, <1>7, <2>1 DEF Covers, ActiveIncident, IncidentOf
    <3> QED BY <3>1 DEF Owned
  <2>2. CASE m \notin inc.scope
    <3>1. PICK i \in DOMAIN actions : m \in actions[i].scope /\ ActiveIncident(actions[i].incident)
      BY <1>3, <1>8, <2>2 DEF NothingForgotten, Owned, Covers, IncidentOf, HasTraffic
    <3>2. i \in DOMAIN actions' /\ Covers(i, m)' /\ ActiveIncident(IncidentOf(i))'
      BY <1>3, <1>6, <3>1 DEF Covers, ActiveIncident, IncidentOf
    <3> QED BY <3>2 DEF Owned
  <2> QED BY <2>1, <2>2
<1>15. Handlers'
  <2>1. worker'.at = "drain" /\ worker'.subject = new
    BY <1>3 DEF Sending
  <2>2. new \in InFlight'
    BY <1>6, <1>7 DEF InFlight, WithLifecycle, InFlightLifecycle
  <2> QED BY <1>5, <1>7, <1>8, <2>1, <2>2 DEF Handlers
<1>16. MitigationStands'
  <2> SUFFICES ASSUME used["restart"] = 0, NEW i \in DOMAIN actions',
                      actions'[i].lifecycle = "COMMITTED", Inc(i)'.status = "MITIGATING",
                      NEW p \in actions'[i].scope, desired'[p].source = i, HasTraffic(p)'
               PROVE  desired'[p].state \in InService
    BY <1>3 DEF MitigationStands
  <2>1. i \in DOMAIN actions /\ actions'[i] = actions[i] /\ i # new
    BY <1>6, <1>7
  <2>2. p \in Members
    <3>1. actions[i] \in ActionRows
      BY <2>1, RowsAre DEF TypeOK
    <3> QED BY <2>1, <3>1 DEF ActionRows
  <2>3. desired'[p] = desired[p] /\ HasTraffic(p)
    BY <1>3, <1>8, <2>1, <2>2 DEF HasTraffic
  <2> QED BY <1>3, <2>1, <2>3 DEF MitigationStands, Inc, IncidentOf
<1>17. SentOrDue'
  <2> SUFFICES ASSUME used["mishap"] = 0, used["restart"] = 0, NEW m \in Members
               PROVE  \/ m \in worker'.todo \/ runtime'[m] = desired'[m].state
                      \/ desired'[m].source \in RolledBack'
    BY <1>3 DEF SentOrDue
  <2>1. CASE m \in inc.scope
    BY <1>3, <2>1 DEF Sending
  <2>2. CASE m \notin inc.scope
    <3>1. RolledBack \subseteq RolledBack'
      BY <1>6 DEF RolledBack, WithLifecycle
    <3>2. runtime[m] = desired[m].state \/ desired[m].source \in RolledBack
      BY <1>3, <1>4 DEF SentOrDue
    <3> QED BY <1>3, <1>8, <2>2, <3>1, <3>2
  <2> QED BY <2>1, <2>2
<1> QED BY <1>12, <1>13, <1>14, <1>15, <1>16, <1>17

\* A verdict, or the next point of an action.
LEMMA SettleAccounts ==
  ASSUME IInv, Account, NEW i \in DOMAIN actions, NEW L, NEW status, Settle(i, L, status),
         UNCHANGED <<desired, reset, runtime, used>>,
         worker' = Idle \/ (worker' = worker /\ worker.at = "idle"),
         worker.todo = {}, actions[i].run # "ACTIVE", i \notin RolledBack,
         ActiveIncident(IncidentOf(i)) \/ status = "RESOLVED",
         L \in InFlightLifecycle => i \in InFlight,
         \/ status \in ActiveStatus
         \/ /\ status = "RESOLVED" /\ L = "COMMITTED"
            /\ \A m \in actions[i].scope : desired[m].state # "drain" /\ HasTraffic(m),
         L = "COMMITTED" /\ status = "MITIGATING" => \A m \in actions[i].scope : ~HasTraffic(m),
         worker.at = "rollback" =>
           /\ worker.subject = i /\ L \in {"ROLLED_BACK", "ROLLBACK_FAILED"}
           /\ \A m \in actions[i].scope : desired[m].source = i
  PROVE  Account'
<1> USE DEF IInv, Account
<1>1. /\ RowsStay
      /\ \A j \in DOMAIN actions :
           /\ actions'[j].lifecycle = IF j = i THEN L ELSE actions[j].lifecycle
           /\ actions'[j].run = actions[j].run
      /\ \A k \in DOMAIN incidents :
           incidents'[k].status = IF k = actions[i].incident THEN status ELSE incidents[k].status
  BY SettleRows DEF TypeOK, Sagas
<1>2. \A j \in DOMAIN actions :
        /\ actions[j].incident \in DOMAIN incidents
        /\ j # i => actions[j].incident # actions[i].incident
  BY DEF RowsAgree, Sagas, Grounded, IncidentOf
<1>3. \A j \in DOMAIN actions :
        /\ Inc(j)'.status = IF j = i THEN status ELSE Inc(j).status
        /\ IncidentOf(j)' = IncidentOf(j) /\ IncidentOf(j) \in DOMAIN incidents
        /\ j # i => (ActiveIncident(IncidentOf(j))' <=> ActiveIncident(IncidentOf(j)))
        /\ actions'[j].scope = actions[j].scope
  BY <1>1, <1>2 DEF RowsStay, Inc, IncidentOf, ActiveIncident
<1>4. ActiveIncident(IncidentOf(i))' <=> status \in ActiveStatus
  BY <1>3 DEF ActiveIncident, Inc
<1>5. DOMAIN actions' = DOMAIN actions
  BY <1>1 DEF RowsStay
<1>6. RowsAgree'
  <2>1. NoneActivated
    BY <1>1 DEF NoneActivated, ActiveIncident, IncidentOf, ActiveStatus
  <2> QED BY <1>1, <2>1, AgreementKept DEF TypeOK, Sagas
<1>7. LifecyclesTell'
  <2> SUFFICES ASSUME NEW j \in DOMAIN actions
               PROVE  /\ j \in InFlight' =>
                           /\ ActiveIncident(IncidentOf(j))'
                           /\ ResetOver' =>
                                \A m \in actions'[j].scope :
                                  desired'[m].state = "drain" /\ desired'[m].source = j
                      /\ actions'[j].run = "ACTIVE" =>
                           /\ actions'[j].lifecycle = "COMMITTED" /\ actions'[j].kind = "ROUTE"
                           /\ Inc(j)'.status = "RECOVERING"
                      /\ actions'[j].lifecycle = "RESULT_UNKNOWN" /\ ~ActiveIncident(IncidentOf(j))' =>
                           \A m \in Members : desired'[m].source # j
    BY <1>5 DEF LifecyclesTell
  <2>1. actions'[j].kind = actions[j].kind /\ (ResetOver' <=> ResetOver)
    BY <1>1 DEF RowsStay, ResetOver
  <2>2. j \in InFlight' <=> actions'[j].lifecycle \in InFlightLifecycle
    BY <1>5 DEF InFlight, WithLifecycle
  <2>3. j \in InFlight <=> actions[j].lifecycle \in InFlightLifecycle
    BY DEF InFlight, WithLifecycle
  <2>4. CASE j = i
    BY <1>1, <1>3, <1>4, <2>1, <2>2, <2>3, <2>4 DEF LifecyclesTell, InFlightLifecycle, ActiveStatus
  <2>5. CASE j # i
    BY <1>1, <1>3, <2>1, <2>2, <2>3, <2>5 DEF LifecyclesTell
  <2> QED BY <2>4, <2>5
<1>8. NothingForgotten'
  <2> SUFFICES ASSUME NEW m \in Members, desired[m].state = "drain" \/ ~HasTraffic(m)
               PROVE  Owned(m)'
    BY DEF NothingForgotten, HasTraffic
  <2>1. PICK j \in DOMAIN actions : Covers(j, m) /\ ActiveIncident(IncidentOf(j))
    BY DEF NothingForgotten, Owned
  <2>2. Covers(j, m)' /\ j \in DOMAIN actions'
    BY <1>3, <1>5, <2>1 DEF Covers
  <2>3. ActiveIncident(IncidentOf(j))'
    BY <1>3, <1>4, <2>1 DEF Covers
  <2> QED BY <2>2, <2>3 DEF Owned
<1>9. Handlers'
  BY IdleHandlers
<1>10. MitigationStands'
  <2> SUFFICES ASSUME used["restart"] = 0, NEW j \in DOMAIN actions,
                      actions'[j].lifecycle = "COMMITTED", Inc(j)'.status = "MITIGATING",
                      NEW p \in actions[j].scope, desired[p].source = j, HasTraffic(p)
               PROVE  desired[p].state \in InService
    BY <1>3, <1>5 DEF MitigationStands, HasTraffic
  <2>1. CASE j = i
    BY <1>1, <1>3, <2>1
  <2>2. CASE j # i
    BY <1>1, <1>3, <2>2 DEF MitigationStands
  <2> QED BY <2>1, <2>2
<1>11. SentOrDue'
  <2> SUFFICES ASSUME used["mishap"] = 0, used["restart"] = 0, NEW m \in Members
               PROVE  runtime[m] = desired[m].state \/ desired[m].source \in RolledBack'
    BY DEF SentOrDue
  <2>1. \A j \in RolledBack : j \in RolledBack'
    BY <1>1, <1>5 DEF RolledBack, WithLifecycle
  <2>2. CASE worker.at # "rollback"
    BY <2>1, <2>2 DEF SentOrDue
  <2>3. CASE worker.at = "rollback"
    <3>1. i \in RolledBack'
      BY <1>1, <1>5, <2>3 DEF RolledBack, WithLifecycle
    <3> QED BY <2>1, <2>3, <3>1 DEF SentOrDue
  <2> QED BY <2>2, <2>3
<1> QED BY <1>6, <1>7, <1>8, <1>9, <1>10, <1>11

\* A return goes on, or ends with its scope in service or in review.
LEMMA RunAccounts ==
  ASSUME IInv, Account, NEW i \in DOMAIN actions, NEW r, NEW status, SetRun(i, r, status),
         UNCHANGED <<desired, reset, runtime, used>>,
         worker' = Idle \/ (worker' = worker /\ worker.at = "idle"),
         worker.todo = {}, worker.at # "rollback",
         actions[i].lifecycle = "COMMITTED", ActiveIncident(IncidentOf(i)),
         r = "ACTIVE" => status = "RECOVERING" /\ actions[i].kind = "ROUTE",
         \/ status \in ActiveStatus \ {"MITIGATING"}
         \/ /\ status = "RESOLVED"
            /\ \A m \in actions[i].scope : desired[m].state # "drain" /\ HasTraffic(m)
  PROVE  Account'
<1> USE DEF IInv, Account
<1>1. /\ RowsStay
      /\ \A j \in DOMAIN actions :
           /\ actions'[j].run = IF j = i THEN r ELSE actions[j].run
           /\ actions'[j].lifecycle = actions[j].lifecycle
      /\ \A k \in DOMAIN incidents :
           incidents'[k].status = IF k = actions[i].incident THEN status ELSE incidents[k].status
  BY RunRows DEF TypeOK, Sagas
<1>2. \A j \in DOMAIN actions :
        /\ actions[j].incident \in DOMAIN incidents
        /\ j # i => actions[j].incident # actions[i].incident
  BY DEF RowsAgree, Sagas, Grounded, IncidentOf
<1>3. \A j \in DOMAIN actions :
        /\ Inc(j)'.status = IF j = i THEN status ELSE Inc(j).status
        /\ IncidentOf(j)' = IncidentOf(j) /\ IncidentOf(j) \in DOMAIN incidents
        /\ j # i => (ActiveIncident(IncidentOf(j))' <=> ActiveIncident(IncidentOf(j)))
        /\ actions'[j].scope = actions[j].scope
  BY <1>1, <1>2 DEF RowsStay, Inc, IncidentOf, ActiveIncident
<1>4. ActiveIncident(IncidentOf(i))' <=> status \in ActiveStatus
  BY <1>3 DEF ActiveIncident, Inc
<1>5. DOMAIN actions' = DOMAIN actions
  BY <1>1 DEF RowsStay
<1>6. RowsAgree'
  <2>1. NoneActivated
    BY <1>1 DEF NoneActivated, ActiveIncident, IncidentOf, ActiveStatus
  <2> QED BY <1>1, <2>1, AgreementKept DEF TypeOK, Sagas
<1>7. LifecyclesTell'
  <2> SUFFICES ASSUME NEW j \in DOMAIN actions
               PROVE  /\ j \in InFlight' =>
                           /\ ActiveIncident(IncidentOf(j))'
                           /\ ResetOver' =>
                                \A m \in actions'[j].scope :
                                  desired'[m].state = "drain" /\ desired'[m].source = j
                      /\ actions'[j].run = "ACTIVE" =>
                           /\ actions'[j].lifecycle = "COMMITTED" /\ actions'[j].kind = "ROUTE"
                           /\ Inc(j)'.status = "RECOVERING"
                      /\ actions'[j].lifecycle = "RESULT_UNKNOWN" /\ ~ActiveIncident(IncidentOf(j))' =>
                           \A m \in Members : desired'[m].source # j
    BY <1>5 DEF LifecyclesTell
  <2>1. actions'[j].kind = actions[j].kind /\ (ResetOver' <=> ResetOver)
    BY <1>1 DEF RowsStay, ResetOver
  <2>2. j \in InFlight' <=> actions'[j].lifecycle \in InFlightLifecycle
    BY <1>5 DEF InFlight, WithLifecycle
  <2>3. j \in InFlight <=> actions[j].lifecycle \in InFlightLifecycle
    BY DEF InFlight, WithLifecycle
  <2>4. CASE j = i
    BY <1>1, <1>3, <1>4, <2>1, <2>2, <2>3, <2>4 DEF LifecyclesTell, InFlightLifecycle, ActiveStatus
  <2>5. CASE j # i
    BY <1>1, <1>3, <2>1, <2>2, <2>3, <2>5 DEF LifecyclesTell
  <2> QED BY <2>4, <2>5
<1>8. NothingForgotten'
  <2> SUFFICES ASSUME NEW m \in Members, desired[m].state = "drain" \/ ~HasTraffic(m)
               PROVE  Owned(m)'
    BY DEF NothingForgotten, HasTraffic
  <2>1. PICK j \in DOMAIN actions : Covers(j, m) /\ ActiveIncident(IncidentOf(j))
    BY DEF NothingForgotten, Owned
  <2>2. Covers(j, m)' /\ j \in DOMAIN actions'
    BY <1>3, <1>5, <2>1 DEF Covers
  <2>3. ActiveIncident(IncidentOf(j))'
    BY <1>3, <1>4, <2>1 DEF Covers
  <2> QED BY <2>2, <2>3 DEF Owned
<1>9. Handlers'
  BY IdleHandlers
<1>10. MitigationStands'
  <2> SUFFICES ASSUME used["restart"] = 0, NEW j \in DOMAIN actions,
                      actions'[j].lifecycle = "COMMITTED", Inc(j)'.status = "MITIGATING",
                      NEW p \in actions[j].scope, desired[p].source = j, HasTraffic(p)
               PROVE  desired[p].state \in InService
    BY <1>3, <1>5 DEF MitigationStands, HasTraffic
  <2>1. CASE j = i
    BY <1>1, <1>3, <2>1
  <2>2. CASE j # i
    BY <1>1, <1>3, <2>2 DEF MitigationStands
  <2> QED BY <2>1, <2>2
<1>11. SentOrDue'
  <2> SUFFICES ASSUME used["mishap"] = 0, used["restart"] = 0, NEW m \in Members
               PROVE  runtime[m] = desired[m].state \/ desired[m].source \in RolledBack'
    BY DEF SentOrDue
  <2>1. \A j \in RolledBack : j \in RolledBack'
    BY <1>1, <1>5 DEF RolledBack, WithLifecycle
  <2> QED BY <2>1 DEF SentOrDue
<1> QED BY <1>6, <1>7, <1>8, <1>9, <1>10, <1>11

\* The verdicts: an instance is only resolved when it reads as it was saved,
\* and it was saved in service.
LEMMA VerdictAccounts ==
  ASSUME IInv, Account,
         \/ FinishDrain \/ FinishRollback \/ FinishRestore
         \/ \E i \in DOMAIN actions : Recover(i) \/ CommitAction(i)
  PROVE  Account'
<1> USE DEF IInv, Account
<1>1. /\ {"VERIFYING", "NEEDS_REVIEW", "MITIGATING", "RECOVERING"} \subseteq ActiveStatus
      /\ InFlightLifecycle = {"PREPARED", "VERIFYING"}
  BY DEF ActiveStatus, InFlightLifecycle
<1>2. \A i \in InFlight : /\ i \in DOMAIN actions /\ ActiveIncident(IncidentOf(i))
                          /\ actions[i].run # "ACTIVE" /\ i \notin RolledBack
  BY <1>1 DEF LifecyclesTell, InFlight, WithLifecycle, RolledBack
<1>3. CASE FinishDrain
  <2>1. worker.subject \in InFlight
    BY <1>3 DEF FinishDrain, Handlers
  <2>2. \E L \in {"VERIFYING", "RESULT_UNKNOWN", "NEEDS_REVIEW"}, status \in {"VERIFYING", "NEEDS_REVIEW"} :
          Settle(worker.subject, L, status)
    BY <1>3 DEF FinishDrain, DrainOutcome
  <2>3. /\ UNCHANGED <<desired, reset, runtime, used>> /\ worker' = Idle
        /\ worker.todo = {} /\ worker.at = "drain"
    BY <1>3 DEF FinishDrain
  <2> QED BY <1>1, <1>2, <2>1, <2>2, <2>3, SettleAccounts
<1>4. ASSUME NEW i \in DOMAIN actions, Recover(i)
      PROVE  Account'
  <2>1. i \in InFlight /\ worker.at = "idle" /\ worker.todo = {}
    BY <1>4 DEF Recover, ServesPrepared, TickReaches, Prepared, InFlight, InFlightLifecycle,
                WithLifecycle, Handlers
  <2>2. Settle(i, "VERIFYING", "VERIFYING") \/ Settle(i, "RESULT_UNKNOWN", "NEEDS_REVIEW")
    BY <1>4 DEF Recover
  <2>3. UNCHANGED <<desired, reset, runtime, used, worker>>
    BY <1>4 DEF Recover
  <2> QED BY <1>1, <1>2, <2>1, <2>2, <2>3, SettleAccounts
<1>5. ASSUME NEW i \in DOMAIN actions, CommitAction(i)
      PROVE  Account'
  <2>1. i \in InFlight /\ worker.at = "idle" /\ worker.todo = {}
    BY <1>5 DEF CommitAction, ServesVerifying, TickReaches, Verifying, InFlight,
                InFlightLifecycle, WithLifecycle, Handlers
  <2>2. Settle(i, "COMMITTED", "MITIGATING") /\ UNCHANGED <<desired, reset, runtime, used, worker>>
    BY <1>5 DEF CommitAction
  <2>3. \A m \in actions[i].scope : ~HasTraffic(m)
    BY <1>5 DEF CommitAction, AllRead, Reads, HasTraffic, InService
  <2> QED BY <1>1, <1>2, <2>1, <2>2, <2>3, SettleAccounts
<1>6. CASE FinishRollback
  <2>1. /\ worker.subject \in InFlight
        /\ \A m \in actions[worker.subject].scope : desired[m].source = worker.subject
    BY <1>6 DEF FinishRollback, Handlers
  <2>2. \E L \in {"ROLLED_BACK", "ROLLBACK_FAILED"} : Settle(worker.subject, L, "NEEDS_REVIEW")
    BY <1>6 DEF FinishRollback
  <2>3. /\ UNCHANGED <<desired, reset, runtime, used>> /\ worker' = Idle
        /\ worker.todo = {} /\ worker.at = "rollback"
    BY <1>6 DEF FinishRollback
  <2> QED BY <1>1, <1>2, <2>1, <2>2, <2>3, SettleAccounts
<1>7. CASE FinishRestore
  <2>1. PICK i \in DOMAIN actions : i = worker.subject
    BY <1>7 DEF FinishRestore, Sagas, Jobs
  <2>2. /\ actions[i].kind = "INSTANCE" /\ actions[i].lifecycle \in {"RESULT_UNKNOWN", "COMMITTED"}
        /\ ActiveIncident(IncidentOf(i)) \/ actions[i].scope = {}
        /\ \A m \in actions[i].scope : desired[m].state = actions[i].saved[m]
    BY <1>7, <2>1 DEF FinishRestore, Handlers
  <2>3. actions[i].run # "ACTIVE" /\ i \notin RolledBack
    BY <2>2 DEF LifecyclesTell, RolledBack, WithLifecycle
  <2>4. /\ UNCHANGED <<desired, reset, runtime, used>> /\ worker' = Idle
        /\ worker.todo = {} /\ worker.at = "restore"
    BY <1>7 DEF FinishRestore
  <2>5. CASE Settle(i, "COMMITTED", "RESOLVED") /\ \A m \in actions[i].scope : runtime[m] = actions[i].saved[m]
    <3>1. \A m \in actions[i].scope : desired[m].state # "drain" /\ HasTraffic(m)
      BY <2>2, <2>5 DEF RowsAgree, HasTraffic, InService
    <3> QED BY <1>1, <2>3, <2>4, <2>5, <3>1, SettleAccounts
  <2>6. CASE Settle(i, "RESULT_UNKNOWN", "NEEDS_REVIEW") /\ actions[i].scope # {}
    BY <1>1, <2>2, <2>3, <2>4, <2>6, SettleAccounts
  <2> QED BY <1>7, <2>1, <2>5, <2>6 DEF FinishRestore, Reads
<1> QED BY <1>3, <1>4, <1>5, <1>6, <1>7

LEMMA ReturnAccounts ==
  ASSUME IInv, Account,
         FinishAdvance \/ \E i \in DOMAIN actions : StartRun(i) \/ CompleteRun(i) \/ ReviewRun(i)
  PROVE  Account'
<1> USE DEF IInv, Account
<1>1. /\ {"NEEDS_REVIEW", "RECOVERING"} \subseteq ActiveStatus \ {"MITIGATING"}
      /\ \A i \in ActiveRuns : /\ i \in DOMAIN actions /\ actions[i].lifecycle = "COMMITTED"
                               /\ ActiveIncident(IncidentOf(i))
  BY DEF ActiveStatus, ActiveRuns, LifecyclesTell, ActiveIncident, Inc
<1>2. CASE FinishAdvance
  <2>1. /\ worker.subject \in ActiveRuns /\ worker.todo = {} /\ worker.at = "advance"
        /\ worker' = Idle /\ UNCHANGED <<desired, reset, runtime, used>>
    BY <1>2 DEF FinishAdvance, Handlers
  <2>2. CASE SetRun(worker.subject, "NEEDS_REVIEW", "NEEDS_REVIEW")
    BY <1>1, <2>1, <2>2, RunAccounts
  <2>3. CASE UNCHANGED <<incidents, actions>>
    <3>1. RowsAgree' /\ LifecyclesTell'
      BY <2>1, <2>3 DEF RowsAgree, LifecyclesTell, Inc, IncidentOf, ActiveIncident, InFlight,
                        WithLifecycle, ResetOver
    <3>2. NothingForgotten'
      <4>1. \A m \in Members : Owned(m) => Owned(m)'
        BY <2>3 DEF Owned, Covers, ActiveIncident, IncidentOf
      <4> QED BY <2>1, <4>1 DEF NothingForgotten, HasTraffic
    <3>3. Handlers'
      BY <2>1, IdleHandlers
    <3>4. MitigationStands'
      BY <2>1, <2>3 DEF MitigationStands, Inc, IncidentOf, HasTraffic
    <3>5. SentOrDue'
      BY <2>1, <2>3 DEF SentOrDue, RolledBack, WithLifecycle
    <3> QED BY <3>1, <3>2, <3>3, <3>4, <3>5
  <2> QED BY <1>2, <2>2, <2>3 DEF FinishAdvance
<1>3. ASSUME NEW i \in DOMAIN actions, StartRun(i)
      PROVE  Account'
  <2>1. /\ actions[i].lifecycle = "COMMITTED" /\ ActiveIncident(IncidentOf(i))
        /\ actions[i].kind = "ROUTE" /\ worker.at = "idle" /\ worker.todo = {}
    BY <1>3 DEF StartRun, ServesQuarantine, Quarantines, WithLifecycle, NoneInFlight, TickReaches,
                Handlers
  <2>2. SetRun(i, "ACTIVE", "RECOVERING") /\ UNCHANGED <<desired, reset, runtime, used, worker>>
    BY <1>3 DEF StartRun
  <2> QED BY <1>1, <2>1, <2>2, RunAccounts
<1>4. ASSUME NEW i \in DOMAIN actions, CompleteRun(i)
      PROVE  Account'
  <2>1. i \in ActiveRuns /\ worker.at = "idle" /\ worker.todo = {}
    BY <1>4 DEF CompleteRun, ServesRun, NoneInFlight, TickReaches, Handlers
  <2>2. SetRun(i, "COMPLETED", "RESOLVED") /\ UNCHANGED <<desired, reset, runtime, used, worker>>
    BY <1>4 DEF CompleteRun
  <2>3. \A m \in actions[i].scope : desired[m].state # "drain" /\ HasTraffic(m)
    BY <1>4 DEF CompleteRun, AllRead, Reads, HasTraffic, InService
  <2> QED BY <1>1, <2>1, <2>2, <2>3, RunAccounts
<1>5. ASSUME NEW i \in DOMAIN actions, ReviewRun(i)
      PROVE  Account'
  <2>1. i \in ActiveRuns /\ worker.at = "idle" /\ worker.todo = {}
    BY <1>5 DEF ReviewRun, ServesRun, NoneInFlight, TickReaches, Handlers
  <2>2. /\ SetRun(i, "NEEDS_REVIEW", "NEEDS_REVIEW")
        /\ UNCHANGED <<desired, reset, runtime, used, worker>>
    BY <1>5 DEF ReviewRun
  <2> QED BY <1>1, <2>1, <2>2, RunAccounts
<1> QED BY <1>2, <1>3, <1>4, <1>5

\* Before anything is sent, the handler knows its scope to be its own.
LEMMA BeginAccounts ==
  ASSUME IInv, Account, NEW i \in DOMAIN actions,
         \/ BeginRollback(i) \/ BeginRestore(i) \/ EnterFirstStage(i)
         \/ \E s \in States : ChangeStage(i, s)
  PROVE  Account'
<1> USE DEF IInv, Account
<1>1. /\ UNCHANGED <<incidents, actions, reset, runtime, used>>
      /\ worker.at = "idle" /\ worker.todo = {} /\ ResetOver
  BY DEF BeginRollback, BeginRestore, EnterFirstStage, ChangeStage, BeginAdvance, database,
         ServesVerifying, ServesUnknown, ServesQuarantine, ServesRun, NoneInFlight, TickReaches,
         Handlers, ResetPending, ResetOver, TypeOK
<1>2. /\ actions[i] \in ActionRows /\ actions[i].scope \subseteq Members
  BY RowsAre DEF TypeOK, ActionRows
<1>3. RowsAgree'
  BY <1>1 DEF RowsAgree, Inc, IncidentOf, ActiveIncident
<1>4. /\ \A j \in DOMAIN actions : /\ Inc(j)' = Inc(j) /\ IncidentOf(j)' = IncidentOf(j)
                                   /\ ActiveIncident(IncidentOf(j))' <=> ActiveIncident(IncidentOf(j))
      /\ InFlight' = InFlight /\ RolledBack' = RolledBack /\ ActiveRuns' = ActiveRuns
      /\ \A m \in Members : /\ Owned(m)' <=> Owned(m)
                            /\ HasTraffic(m)' <=> HasTraffic(m)
  BY <1>1 DEF Inc, IncidentOf, ActiveIncident, InFlight, RolledBack, ActiveRuns, WithLifecycle,
              Owned, Covers, HasTraffic
<1>5. \A m \in Members : used["mishap"] = 0 /\ used["restart"] = 0 =>
        runtime[m] = desired[m].state \/ desired[m].source \in RolledBack
  BY <1>1 DEF SentOrDue
<1>6. CASE BeginRollback(i)
  <2>1. /\ UNCHANGED desired /\ i \in InFlight
        /\ worker'.at = "rollback" /\ worker'.subject = i /\ worker'.todo = actions[i].scope
    BY <1>6 DEF BeginRollback, database, Sending, ServesVerifying, Verifying, InFlight,
                WithLifecycle, InFlightLifecycle
  <2>2. \A m \in actions[i].scope : desired[m].state = "drain" /\ desired[m].source = i
    BY <1>1, <2>1 DEF LifecyclesTell
  <2>3. LifecyclesTell' /\ NothingForgotten' /\ MitigationStands'
    BY <1>1, <1>4, <2>1 DEF LifecyclesTell, NothingForgotten, MitigationStands, ResetOver, HasTraffic
  <2>4. Handlers'
    BY <1>1, <1>4, <2>1, <2>2 DEF Handlers
  <2>5. SentOrDue'
    BY <1>1, <1>4, <1>5, <2>1 DEF SentOrDue
  <2> QED BY <1>3, <2>3, <2>4, <2>5
<1>7. CASE BeginRestore(i)
  <2>1. /\ InFlight = {} /\ actions[i].kind = "INSTANCE"
        /\ \/ actions[i].lifecycle = "RESULT_UNKNOWN"
           \/ actions[i].lifecycle = "COMMITTED" /\ ActiveIncident(IncidentOf(i))
        /\ \A m \in actions[i].scope : desired[m].source = i
        /\ worker'.at = "restore" /\ worker'.subject = i /\ worker'.todo = actions[i].scope
    BY <1>7 DEF BeginRestore, Sending, ServesUnknown, ServesQuarantine, UnknownInstances,
                Quarantines, NoneInFlight, Prepared, Verifying, InFlight, WithLifecycle,
                InFlightLifecycle
  <2>2. desired' = [m \in Members |-> IF m \in actions[i].scope
          THEN [desired[m] EXCEPT !.state = actions[i].saved[m]] ELSE desired[m]]
    BY <1>7 DEF BeginRestore
  <2>3. \A m \in Members :
          /\ desired'[m].source = desired[m].source
          /\ m \in actions[i].scope => desired'[m].state = actions[i].saved[m]
          /\ m \notin actions[i].scope => desired'[m] = desired[m]
    BY <2>2 DEF TypeOK, DesiredRows
  <2>4. \A m \in actions[i].scope : actions[i].saved[m] \in InService
    BY <2>1 DEF RowsAgree
  <2>5. LifecyclesTell'
    BY <1>1, <1>4, <2>1, <2>3 DEF LifecyclesTell
  <2>6. NothingForgotten'
    BY <1>4, <2>3, <2>4 DEF NothingForgotten, InService
  <2>7. Handlers'
    <3>1. ActiveIncident(IncidentOf(i)) \/ actions[i].scope = {}
      BY <1>2, <2>1 DEF LifecyclesTell
    <3> QED BY <1>1, <1>2, <1>4, <2>1, <2>3, <3>1 DEF Handlers
  <2>8. MitigationStands'
    <3> SUFFICES ASSUME used["restart"] = 0, NEW j \in DOMAIN actions,
                        actions[j].lifecycle = "COMMITTED", Inc(j).status = "MITIGATING",
                        NEW p \in actions[j].scope, desired'[p].source = j, HasTraffic(p)
                 PROVE  desired'[p].state \in InService
      BY <1>1, <1>4 DEF MitigationStands, HasTraffic
    <3>1. p \in Members
      <4>1. actions[j] \in ActionRows
        BY RowsAre DEF TypeOK
      <4> QED BY <4>1 DEF ActionRows
    <3> QED BY <2>3, <2>4, <3>1 DEF MitigationStands
  <2>9. SentOrDue'
    BY <1>1, <1>4, <1>5, <2>1, <2>3 DEF SentOrDue
  <2> QED BY <1>3, <2>5, <2>6, <2>7, <2>8, <2>9
<1>8. ASSUME NEW m \in actions[i].scope, NEW s \in States, ServesRun(i), BeginAdvance(i, m, s)
      PROVE  Account'
  <2>1. /\ InFlight = {} /\ i \in ActiveRuns
        /\ desired' = [desired EXCEPT ![m] = [state |-> s, source |-> i]]
        /\ worker'.at = "advance" /\ worker'.subject = i /\ worker'.todo = actions[i].scope
    BY <1>8 DEF BeginAdvance, Sending, ServesRun, NoneInFlight, Prepared, Verifying, InFlight,
                WithLifecycle, InFlightLifecycle
  <2>2. /\ actions[i].lifecycle = "COMMITTED" /\ actions[i].kind = "ROUTE"
        /\ Inc(i).status = "RECOVERING" /\ ActiveIncident(IncidentOf(i))
    BY <2>1 DEF ActiveRuns, LifecyclesTell, ActiveIncident, ActiveStatus, Inc
  <2>3. actions[i].scope = {m} /\ m \in Members
    <3>1. IncidentOf(i) \in DOMAIN incidents
      BY DEF Sagas, Grounded
    <3>2. \E q \in Members : actions[i].scope = {q}
      BY <2>2, <3>1 DEF RowsAgree, Inc
    <3> QED BY <3>2
  <2>4. /\ desired'[m].state = s /\ desired'[m].source = i
        /\ \A p \in Members : p # m => desired'[p] = desired[p]
    BY <2>1, <2>3 DEF TypeOK, DesiredRows
  <2>5. LifecyclesTell'
    BY <1>1, <1>4, <2>1, <2>2, <2>4 DEF LifecyclesTell
  <2>6. NothingForgotten'
    <3>1. Owned(m)
      BY <2>2 DEF Owned, Covers
    <3> QED BY <1>4, <2>4, <3>1 DEF NothingForgotten
  <2>7. Handlers'
    BY <1>1, <1>4, <2>1, <2>3, <2>4 DEF Handlers
  <2>8. MitigationStands'
    <3> SUFFICES ASSUME used["restart"] = 0, NEW j \in DOMAIN actions,
                        actions[j].lifecycle = "COMMITTED", Inc(j).status = "MITIGATING",
                        NEW p \in actions[j].scope, desired'[p].source = j, HasTraffic(p)
                 PROVE  desired'[p].state \in InService
      BY <1>1, <1>4 DEF MitigationStands, HasTraffic
    <3>1. p \in Members
      <4>1. actions[j] \in ActionRows
        BY RowsAre DEF TypeOK
      <4> QED BY <4>1 DEF ActionRows
    <3> QED BY <2>2, <2>4, <3>1 DEF MitigationStands
  <2>9. SentOrDue'
    BY <1>1, <1>4, <1>5, <2>1, <2>3, <2>4 DEF SentOrDue
  <2> QED BY <1>3, <2>5, <2>6, <2>7, <2>8, <2>9
<1> QED BY <1>6, <1>7, <1>8 DEF EnterFirstStage, ChangeStage, States

\* A lab reset answers for every membership until it is over, and then every
\* server is back.
LEMMA ResetAccounts ==
  ASSUME IInv, Account, ResetRestores \/ FinishReset \/ FinishFailedReset
  PROVE  Account'
<1> USE DEF IInv, Account
<1>1. CASE ResetRestores
  <2>1. /\ UNCHANGED <<incidents, actions, reset, runtime, used>> /\ reset = "RUNNING"
        /\ desired' = [m \in Members |-> [state |-> "full", source |-> 0]]
        /\ worker'.at = "reset" /\ worker'.todo = Members
    BY <1>1 DEF ResetRestores, Sending
  <2>2. \A m \in Members : desired'[m].state = "full" /\ desired'[m].source = 0
    BY <2>1
  <2>3. \A i \in DOMAIN actions : i # 0 /\ actions[i].scope \subseteq Members
    BY RowsAre DEF TypeOK, ActionRows
  <2>4. RowsAgree'
    BY <2>1 DEF RowsAgree, Inc, IncidentOf, ActiveIncident
  <2>5. LifecyclesTell'
    BY <2>1, <2>2, <2>3 DEF LifecyclesTell, Inc, IncidentOf, ActiveIncident, InFlight,
                            WithLifecycle, ResetOver
  <2>6. NothingForgotten'
    <3>1. \A m \in Members : Owned(m) => Owned(m)'
      BY <2>1 DEF Owned, Covers, ActiveIncident, IncidentOf
    <3> QED BY <2>1, <2>2, <3>1 DEF NothingForgotten, HasTraffic
  <2>7. Handlers'
    BY <2>1, <2>2 DEF Handlers
  <2>8. MitigationStands'
    BY <2>1, <2>2, <2>3 DEF MitigationStands, InService
  <2>9. SentOrDue'
    BY <2>1 DEF SentOrDue
  <2> QED BY <2>4, <2>5, <2>6, <2>7, <2>8, <2>9
<1>2. CASE FinishReset \/ FinishFailedReset
  <2>1. PICK L \in {"ROLLED_BACK", "NEEDS_REVIEW"}, runs \in {{"ACTIVE", "NEEDS_REVIEW"}, {"ACTIVE"}},
             r \in {"CANCELLED", "NEEDS_REVIEW"} : EndAll(L, runs, r)
    BY <1>2 DEF FinishReset, FinishFailedReset
  <2>2. /\ UNCHANGED <<desired, runtime, used>> /\ worker' = Idle
        /\ worker.at = "reset" /\ worker.todo = {}
    BY <1>2 DEF FinishReset, FinishFailedReset
  <2>3. /\ DOMAIN actions' = DOMAIN actions
        /\ \A j \in DOMAIN actions :
             /\ actions'[j].incident = actions[j].incident /\ actions'[j].kind = actions[j].kind
             /\ actions'[j].scope = actions[j].scope /\ actions'[j].saved = actions[j].saved
             /\ actions'[j].lifecycle =
                  IF actions[j].lifecycle \in InFlightLifecycle THEN L ELSE actions[j].lifecycle
             /\ actions'[j].run = IF actions[j].run \in runs THEN r ELSE actions[j].run
    BY <2>1, EndRows DEF TypeOK
  <2>4. /\ DOMAIN incidents' = DOMAIN incidents
        /\ \A k \in DOMAIN incidents :
             /\ incidents'[k].class = incidents[k].class
             /\ incidents'[k].scope = incidents[k].scope
             /\ incidents'[k].allowed = incidents[k].allowed
             /\ \/ FinishReset /\ incidents'[k].status = "RESOLVED"
                \/ FinishFailedReset /\ incidents'[k].status = incidents[k].status
    <3>1. CASE FinishReset
      <4>1. incidents' = [k \in DOMAIN incidents |-> [incidents[k] EXCEPT !.status = "RESOLVED"]]
        BY <3>1 DEF FinishReset
      <4>2. \A k \in DOMAIN incidents : incidents[k] \in IncidentRows
        BY RowsAre DEF TypeOK
      <4> QED BY <3>1, <4>1, <4>2 DEF IncidentRows
    <3>2. CASE FinishFailedReset
      BY <3>2 DEF FinishFailedReset
    <3> QED BY <1>2, <3>1, <3>2
  <2>5. /\ \A m \in Members : desired[m].state = "full" /\ desired[m].source = 0
        /\ FinishReset => \A m \in Members : runtime[m] = "full"
    BY <2>2 DEF Handlers, ResetSent, FinishReset
  <2>6. RowsAgree'
    <3>1. RowsStay
      BY <2>3, <2>4 DEF RowsStay
    <3>2. NoneActivated
      BY <2>4 DEF NoneActivated, ActiveStatus
    <3> QED BY <3>1, <3>2, AgreementKept DEF TypeOK, Sagas
  <2>7. LifecyclesTell'
    <3> SUFFICES ASSUME NEW i \in DOMAIN actions
                 PROVE  /\ actions'[i].lifecycle \notin InFlightLifecycle
                        /\ actions'[i].run # "ACTIVE"
                        /\ \A m \in Members : desired'[m].source # i
      BY <2>3 DEF LifecyclesTell, InFlight, WithLifecycle
    <3>1. actions'[i].lifecycle \notin InFlightLifecycle /\ actions'[i].run # "ACTIVE"
      BY <2>1, <2>3 DEF InFlightLifecycle
    <3>2. i # 0
      BY RowsAre DEF TypeOK
    <3> QED BY <2>2, <2>5, <3>1, <3>2
  <2>8. NothingForgotten'
    <3> SUFFICES ASSUME NEW m \in Members, desired'[m].state = "drain" \/ ~HasTraffic(m)'
                 PROVE  Owned(m)'
      BY DEF NothingForgotten
    <3>1. ~HasTraffic(m) /\ FinishFailedReset
      BY <1>2, <2>2, <2>5 DEF HasTraffic, InService
    <3>2. PICK j \in DOMAIN actions : m \in actions[j].scope /\ ActiveIncident(actions[j].incident)
      BY <3>1 DEF NothingForgotten, Owned, Covers, IncidentOf
    <3>3. incidents' = incidents
      BY <3>1 DEF FinishFailedReset
    <3>4. j \in DOMAIN actions' /\ Covers(j, m)' /\ ActiveIncident(IncidentOf(j))'
      BY <2>3, <3>2, <3>3 DEF Covers, ActiveIncident, IncidentOf
    <3> QED BY <3>4 DEF Owned
  <2>9. Handlers'
    BY <2>2, IdleHandlers
  <2>10. MitigationStands'
    <3>1. \A i \in DOMAIN actions : actions[i].scope \subseteq Members
      BY RowsAre DEF TypeOK, ActionRows
    <3> QED BY <2>2, <2>3, <2>5, <3>1 DEF MitigationStands, InService
  <2>11. SentOrDue'
    <3>1. RolledBack \subseteq RolledBack'
      BY <2>3 DEF RolledBack, WithLifecycle, InFlightLifecycle
    <3> QED BY <2>2, <3>1 DEF SentOrDue
  <2> QED BY <2>6, <2>7, <2>8, <2>9, <2>10, <2>11
<1> QED BY <1>1, <1>2

LEMMA NextAccounts == IInv /\ Account /\ [Next]_vars => Account'
<1> SUFFICES ASSUME IInv, Account, [Next]_vars PROVE Account'
  OBVIOUS
<1>1. CASE Decide
  BY <1>1, DecisionAccounts
<1>2. CASE Judge
  BY <1>2, VerdictAccounts, BeginAccounts DEF Judge
<1>3. CASE Return
  BY <1>3, ReturnAccounts, BeginAccounts DEF Return
<1>4. CASE Proceed
  BY <1>4, DecisionAccounts, EnvironmentAccounts, PrepareAccounts, CommandAccounts,
     VerdictAccounts, ReturnAccounts, BeginAccounts, ResetAccounts DEF Proceed
<1>5. CASE Environment
  BY <1>5, CommandAccounts, EnvironmentAccounts DEF Environment
<1>6. CASE UNCHANGED vars
  BY <1>6, EnvironmentAccounts
<1> QED BY <1>1, <1>2, <1>3, <1>4, <1>5, <1>6 DEF Next

LEMMA InitAccount == Init => Account
<1> SUFFICES ASSUME Init PROVE Account
  OBVIOUS
<1>1. DOMAIN actions = {} /\ DOMAIN incidents = {} /\ InFlight = {} /\ RolledBack = {}
  <2>1. <<>> \in Seq(ActionRows) /\ Len(<<>>) = 0
    BY EmptySeq
  <2>2. DOMAIN actions = {} /\ DOMAIN incidents = {}
    BY <2>1, LenProperties DEF Init
  <2> QED BY <2>2 DEF InFlight, RolledBack, WithLifecycle
<1>2. /\ worker.at = "idle" /\ worker.todo = {}
      /\ \A m \in Members : desired[m].state = "full" /\ runtime[m] = "full"
  BY DEF Init, Idle
<1> QED BY <1>1, <1>2 DEF Account, RowsAgree, LifecyclesTell, NothingForgotten, Handlers,
           MitigationStands, SentOrDue, HasTraffic, InService

-----------------------------------------------------------------------------
(* What is proved of every behaviour. *)

LEMMA AlwaysIInv == Spec => []IInv
BY InitIInv, NextKeeps, PTL DEF Spec

\* Rows, servers, requests and handlers keep their types, whatever fails
\* and in whatever order it does (the sagas of worker.py as a whole).
THEOREM TypeCorrect == Spec => []TypeOK
<1>1. IInv => TypeOK
  BY DEF IInv
<1> QED BY <1>1, AlwaysIInv, PTL

\* tick() prepares an action only while none awaits its verdict, and a
\* verdict is final, also over crashes, lost acknowledgements and lab resets.
THEOREM ActionsOneAtATime == Spec => ActionsAreSerial
<1> QED BY InitIInv, NextKeeps, AlwaysIInv, PTL DEF Spec, ActionsAreSerial, Serial!Spec, serial

\* A lab reset that completes has restored every server, although its
\* commands are sent one by one and some may have failed before.
THEOREM ResetCompletes == Spec => ResetLeavesBaseline
<1>1. ASSUME IInv, [Next]_vars, reset # "COMPLETED", reset' = "COMPLETED"
      PROVE  /\ \A m \in Members : runtime[m] = "full" /\ desired[m].state = "full"
             /\ (\A k \in DOMAIN incidents : ~ActiveIncident(k))'
             /\ InFlight' = {} /\ ActiveRuns' = {}
  <2>1. FinishReset
    BY <1>1 DEF Next, vars, database, Decide, OpenIncident, UpdateIncident, Judge, CommitAction,
         BeginRollback, Return, ChangeStage, BeginAdvance, CompleteRun, ReviewRun, Proceed,
         ResolveNonAction, ActionDenied, ActionExists, Prepare, CommandOk, FinishDrain,
         FinishRollback, FinishRestore, FinishAdvance, Recover, BeginRestore, StartRun,
         EnterFirstStage, StartReset, ResetGateFails, ResetRestores, FinishFailedReset,
         Environment, CommandFails, Interrupt, RequestReset, FaultsChange, HAProxyRestarts
  <2>2. \A m \in Members : runtime[m] = "full" /\ desired[m].state = "full"
    BY <1>1, <2>1 DEF FinishReset, IInv, ResetSent
  <2>3. incidents' = [k \in DOMAIN incidents |-> [incidents[k] EXCEPT !.status = "RESOLVED"]]
    BY <2>1 DEF FinishReset
  <2>4. \A k \in DOMAIN incidents : incidents'[k] \in IncidentRows /\ incidents'[k].status = "RESOLVED"
    BY <1>1, <2>3, RowsAre DEF IInv, TypeOK, IncidentRows, Statuses
  <2>5. (\A k \in DOMAIN incidents : ~ActiveIncident(k))'
    BY <2>3, <2>4 DEF ActiveIncident, ActiveStatus
  <2>6. incidents' \in Seq(IncidentRows) /\ DOMAIN incidents' = DOMAIN incidents
    <3>1. /\ DOMAIN incidents' = DOMAIN incidents
          /\ incidents' = [k \in DOMAIN incidents |-> incidents'[k]]
      BY <2>3
    <3> QED BY <1>1, <2>4, <3>1, SameRows DEF IInv, TypeOK, RowsTyped
  <2>7. /\ "ROLLED_BACK" \in Lifecycles \ InFlightLifecycle /\ "CANCELLED" \in RunStatuses
        /\ "CANCELLED" \notin {"ACTIVE", "NEEDS_REVIEW"}
    BY DEF Lifecycles, InFlightLifecycle, RunStatuses
  <2>8. /\ InFlight' = {}
        /\ \A i \in DOMAIN actions' : actions'[i].run \notin {"ACTIVE", "NEEDS_REVIEW"}
    BY <1>1, <2>1, <2>6, <2>7, EndStep DEF FinishReset, IInv, TypeOK, Sagas
  <2> QED BY <2>2, <2>5, <2>8 DEF ActiveRuns
<1>2. IInv /\ [Next]_vars =>
        [reset # "COMPLETED" /\ reset' = "COMPLETED" =>
           /\ \A m \in Members : runtime[m] = "full" /\ desired[m].state = "full"
           /\ (\A k \in DOMAIN incidents : ~ActiveIncident(k))'
           /\ InFlight' = {} /\ ActiveRuns' = {}]_vars
  BY <1>1
<1> QED BY <1>2, AlwaysIInv, PTL DEF Spec, ResetLeavesBaseline

LEMMA AlwaysAccounted == Spec => [](IInv /\ Account)
<1>1. IInv /\ Account /\ [Next]_vars => (IInv /\ Account)'
  BY NextKeeps, NextAccounts
<1> QED BY InitIInv, InitAccount, <1>1, PTL DEF Spec

\* No membership out of traffic is ever without an active incident and its
\* action, whichever commands failed, were half applied or cut off, in every
\* topology (the handlers of worker.py taken together).
THEOREM NothingIsForgotten == Spec => []QuarantineOwned
<1>1. Account => QuarantineOwned
  BY DEF Account, NothingForgotten, QuarantineOwned, Owned
<1> QED BY <1>1, AlwaysAccounted, PTL

\* As long as HAProxy is not restarted, a mitigated scope is out of traffic
\* until its return is durable, or a later action has taken it over.
THEOREM MitigationIsKept == Spec => []MitigationHolds
<1>1. Account => MitigationHolds
  BY DEF Account, MitigationStands, MitigationHolds, Inc
<1> QED BY <1>1, AlwaysAccounted, PTL

\* Without mishaps and restarts, the Runtime carries what is durably desired
\* whenever no handler is at work, except after a rollback.
THEOREM DesiredIsSent == Spec => []DesiredAgrees
<1>1. Account => DesiredAgrees
  BY DEF Account, SentOrDue, Handlers, DesiredAgrees, RolledBack
<1> QED BY <1>1, AlwaysAccounted, PTL

\* An incident with an action is resolved only when every membership of its
\* scope takes traffic, by whatever handler resolves it.
THEOREM ResolvedIsServed == Spec => ResolvedInService
<1> DEFINE Served == \A k \in DOMAIN incidents :
             ActiveIncident(k) /\ incidents'[k].status = "RESOLVED" /\ HasAction(k) =>
               \A m \in incidents[k].scope : HasTraffic(m)
<1>1. ASSUME IInv, Account, Next PROVE Served
  <2> USE <1>1 DEF IInv, Account
  <2> SUFFICES ASSUME NEW k \in DOMAIN incidents, ActiveIncident(k),
                      incidents'[k].status = "RESOLVED", HasAction(k),
                      NEW m \in incidents[k].scope
               PROVE  HasTraffic(m)
    OBVIOUS
  <2>1. incidents[k].status # "RESOLVED" /\ incidents[k] \in IncidentRows
    BY RowsAre DEF ActiveIncident, ActiveStatus, TypeOK
  <2>2. m \in Members
    BY <2>1 DEF IncidentRows
  <2>3. ASSUME NEW i \in DOMAIN actions, NEW L, NEW status, Settle(i, L, status),
               status = "RESOLVED" => \A p \in actions[i].scope : HasTraffic(p)
        PROVE  HasTraffic(m)
    <3>1. actions[i].incident = k /\ status = "RESOLVED"
      BY <2>1, <2>3, SettleRows DEF TypeOK, Sagas
    <3>2. incidents[k].scope = actions[i].scope
      BY <3>1 DEF RowsAgree, Inc, IncidentOf
    <3> QED BY <2>3, <3>1, <3>2
  <2>4. ASSUME NEW i \in DOMAIN actions, NEW r, NEW status, SetRun(i, r, status),
               status = "RESOLVED" => \A p \in actions[i].scope : HasTraffic(p)
        PROVE  HasTraffic(m)
    <3>1. actions[i].incident = k /\ status = "RESOLVED"
      BY <2>1, <2>4, RunRows DEF TypeOK, Sagas
    <3>2. incidents[k].scope = actions[i].scope
      BY <3>1 DEF RowsAgree, Inc, IncidentOf
    <3> QED BY <2>4, <3>1, <3>2
  <2>5. CASE FinishRestore
    <3>1. PICK i \in DOMAIN actions : i = worker.subject
      BY <2>5 DEF FinishRestore, Sagas, Jobs
    <3>2. \/ Settle(i, "RESULT_UNKNOWN", "NEEDS_REVIEW")
          \/ /\ Settle(i, "COMMITTED", "RESOLVED")
             /\ \A p \in actions[i].scope : runtime[p] = actions[i].saved[p]
      BY <2>5, <3>1 DEF FinishRestore, Reads
    <3>3. \A p \in actions[i].scope : actions[i].saved[p] \in InService
      BY <2>5, <3>1 DEF FinishRestore, Handlers, RowsAgree
    <3> QED BY <2>3, <3>2, <3>3 DEF HasTraffic
  <2>6. CASE FinishDrain \/ FinishRollback
    <3>1. PICK i \in DOMAIN actions : i = worker.subject
      BY <2>6 DEF FinishDrain, FinishRollback, Sagas, Jobs
    <3>2. \E L \in Lifecycles, status \in {"VERIFYING", "NEEDS_REVIEW"} : Settle(i, L, status)
      BY <2>6, <3>1 DEF FinishDrain, FinishRollback, DrainOutcome, Lifecycles, InFlightLifecycle
    <3> QED BY <2>3, <3>2
  <2>7. ASSUME NEW i \in DOMAIN actions, Recover(i) \/ CommitAction(i)
        PROVE  HasTraffic(m)
    <3>1. \/ Settle(i, "VERIFYING", "VERIFYING") \/ Settle(i, "RESULT_UNKNOWN", "NEEDS_REVIEW")
          \/ Settle(i, "COMMITTED", "MITIGATING")
      BY <2>7 DEF Recover, CommitAction
    <3> QED BY <2>3, <3>1
  <2>8. ASSUME NEW i \in DOMAIN actions, StartRun(i) \/ ReviewRun(i) \/ CompleteRun(i)
        PROVE  HasTraffic(m)
    <3>1. \/ SetRun(i, "ACTIVE", "RECOVERING") \/ SetRun(i, "NEEDS_REVIEW", "NEEDS_REVIEW")
          \/ /\ SetRun(i, "COMPLETED", "RESOLVED")
             /\ \A p \in actions[i].scope : HasTraffic(p)
      BY <2>8 DEF StartRun, ReviewRun, CompleteRun, AllRead, Reads, HasTraffic, InService
    <3> QED BY <2>4, <3>1
  <2>9. CASE FinishAdvance
    <3>1. PICK i \in DOMAIN actions : i = worker.subject
      BY <2>9 DEF FinishAdvance, Sagas, Jobs
    <3>2. UNCHANGED incidents \/ SetRun(i, "NEEDS_REVIEW", "NEEDS_REVIEW")
      BY <2>9, <3>1 DEF FinishAdvance
    <3> QED BY <2>1, <2>4, <3>2
  <2>10. CASE FinishReset
    BY <2>2, <2>10 DEF FinishReset, ResetSent, HasTraffic, InService
  <2>11. ASSUME NEW class \in Classes, NEW S \in Failures, OpenIncident(class, S)
         PROVE  HasTraffic(m)
    <3>1. PICK row : incidents' = Append(incidents, row)
      BY <2>11 DEF OpenIncident
    <3>2. incidents'[k] = incidents[k]
      BY <3>1, RowsAre DEF TypeOK, RowsTyped
    <3> QED BY <2>1, <3>2
  <2>12. ASSUME NEW class \in Classes, NEW S \in Failures, UpdateIncident(class, S)
         PROVE  HasTraffic(m)
    <3>1. incidents'[k].status = incidents[k].status
      BY <2>1, <2>12 DEF UpdateIncident, IncidentRows
    <3> QED BY <2>1, <3>1
  <2>13. CASE ResolveNonAction
    BY <2>1, <2>13 DEF ResolveNonAction
  <2>14. CASE ActionDenied
    BY <2>1, <2>14 DEF ActionDenied, IncidentRows
  <2>15. CASE UNCHANGED incidents
    BY <2>1, <2>15
  <2>16. \/ UNCHANGED incidents \/ Decide \/ ResolveNonAction \/ ActionDenied \/ FinishDrain
         \/ FinishRollback \/ FinishRestore \/ FinishAdvance \/ FinishReset
         \/ \E i \in DOMAIN actions : \/ Recover(i) \/ CommitAction(i) \/ StartRun(i)
                                      \/ ReviewRun(i) \/ CompleteRun(i)
    BY <1>1 DEF Next, database, Judge, BeginRollback, Return, ChangeStage, BeginAdvance, Proceed,
         ActionExists, Prepare, CommandOk, BeginRestore, EnterFirstStage, StartReset,
         ResetGateFails, ResetRestores, FinishFailedReset, Environment, CommandFails, Interrupt,
         RequestReset, FaultsChange, HAProxyRestarts
  <2> QED BY <2>5, <2>6, <2>7, <2>8, <2>9, <2>10, <2>11, <2>12, <2>13, <2>14, <2>15, <2>16
          DEF Decide, Classes
<1>2. IInv /\ Account /\ [Next]_vars => [Served]_vars
  BY <1>1
<1> QED BY <1>2, AlwaysAccounted, PTL DEF Spec, ResolvedInService
=============================================================================
