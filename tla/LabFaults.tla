------------------------------ MODULE LabFaults ------------------------------
(***************************************************************************)
(* The life of an injected LAB fault, from the request of a researcher to  *)
(* its end, across four places that share no transaction: create_fault and *)
(* clear_fault (routers/operations.py), _process_fault_commands and the    *)
(* fault part of _process_lab_reset_commands (worker.py), apply_fault and  *)
(* clear_fault (worker_io.py), and the fault held by each demo backend     *)
(* (src/demo-backend/app.py).                                              *)
(*                                                                         *)
(* Every transaction reads committed rows, keeps what it read in memory    *)
(* and writes it back later, so the reading and the writing are separate   *)
(* steps.  Writing a fault row locks it until the commit; so does the      *)
(* project row, which append_audit takes.  clear_fault takes the fault row *)
(* first, the worker the project row first: PostgreSQL breaks the deadlock *)
(* by aborting one of them.                                                *)
(***************************************************************************)
EXTENDS Naturals, Sequences, SequencesExt, FiniteSets, TLC

CONSTANTS
    Instances,   \* the demo backends
    TargetSets,  \* one of them or all, as target_instance says
    Clients,     \* concurrent requests to the API
    Keys,        \* idempotency keys the researchers use, one body each
    MaxFaults,   \* rows of lab_faults, created in this order
    MaxCommands, \* clear requests, and lab resets
    MaxMishaps   \* failed backend calls, worker crashes, backend restarts

ASSUME FaultsAssumption ==
    /\ MaxFaults \in Nat /\ MaxCommands \in Nat /\ MaxMishaps \in Nat
    /\ TargetSets \subseteq SUBSET Instances
    /\ IsFiniteSet(Instances) /\ IsFiniteSet(Clients) /\ IsFiniteSet(Keys)

VARIABLES
    faults,    \* committed rows of lab_faults
    expired,   \* the rows whose expires_at has passed
    backend,   \* the fault each backend holds, 0 for none
    client,    \* the request of each client
    worker,    \* the pass of the worker over the rows
    commands,  \* clear requests and lab resets so far
    mishaps    \* mishaps so far

vars == <<faults, expired, backend, client, worker, commands, mishaps>>

Unfinished == {"REQUESTED", "ACTIVE", "CLEAR_REQUESTED"}

Created == DOMAIN faults
UnfinishedFaults == {f \in Created : faults[f].status \in Unfinished}

\* A backend forgets a fault the moment it expires (_active_fault).
Holds(i) == IF backend[i] \in expired THEN 0 ELSE backend[i]

Resting == [at |-> "idle"]
WorkerIdle == [at |-> "idle", rows |-> <<>>, todo |-> {}, written |-> {}]

Init ==
    /\ faults = <<>>
    /\ expired = {}
    /\ backend = [i \in Instances |-> 0]
    /\ client = [c \in Clients |-> Resting]
    /\ worker = WorkerIdle
    /\ commands = [kind \in {"clear", "reset"} |-> 0]
    /\ mishaps = 0

Command(kind) == commands[kind] < MaxCommands /\ commands' = [commands EXCEPT ![kind] = @ + 1]
Mishap == mishaps < MaxMishaps /\ mishaps' = mishaps + 1

\* Row locks: a fault row is locked by who has written it, the project row by
\* who has appended an audit event, each until its transaction ends.
RowLocked(f) == f \in worker.written \/ \E c \in Clients : client[c].at = "written" /\ client[c].fault = f
ProjectLocked == worker.at = "audited" \/ worker.written # {}

-----------------------------------------------------------------------------
(* create_fault and clear_fault. *)

\* The checks of create_fault: no unfinished fault, no record of this key.
CheckCreate(c, k, targets) ==
    /\ client[c].at = "idle"
    /\ UnfinishedFaults = {}
    /\ Len(faults) + Cardinality({d \in Clients : client[d].at = "creating"}) < MaxFaults
    /\ \A f \in Created : faults[f].key # k
    /\ client' = [client EXCEPT ![c] = [at |-> "creating", key |-> k, targets |-> targets]]
    /\ UNCHANGED <<commands, faults, expired, backend, worker, mishaps>>

\* Mutant: a record of the key that is not unique.
CommitCreateAgain(c) ==
    /\ client[c].at = "creating"
    /\ ~ProjectLocked
    /\ faults' = Append(faults, [status |-> "REQUESTED", version |-> 1,
                                key |-> client[c].key, targets |-> client[c].targets])
    /\ client' = [client EXCEPT ![c] = Resting]
    /\ UNCHANGED <<commands, expired, backend, worker, mishaps>>

\* Fault, audit event, outbox row and idempotency record in one commit; the
\* record of a key is unique, and a second one aborts the transaction.
CommitCreate(c) ==
    /\ client[c].at = "creating"
    /\ ~ProjectLocked
    /\ faults' = IF \E f \in Created : faults[f].key = client[c].key THEN faults
                 ELSE Append(faults, [status |-> "REQUESTED", version |-> 1,
                                      key |-> client[c].key, targets |-> client[c].targets])
    /\ client' = [client EXCEPT ![c] = Resting]
    /\ UNCHANGED <<commands, expired, backend, worker, mishaps>>

\* clear_fault reads the row: the If-Match header names this version, and the
\* fault is not terminal.
CheckClear(c, f) ==
    /\ client[c].at = "idle"
    /\ faults[f].status \in Unfinished
    /\ Command("clear")
    /\ client' = [client EXCEPT ![c] = [at |-> "clearing", fault |-> f,
                                        version |-> faults[f].version]]
    /\ UNCHANGED <<faults, expired, backend, worker, mishaps>>

WriteClear(c) ==
    /\ client[c].at = "clearing"
    /\ ~RowLocked(client[c].fault)
    /\ client' = [client EXCEPT ![c].at = "written"]
    /\ UNCHANGED <<commands, faults, expired, backend, worker, mishaps>>

CommitClear(c) ==
    /\ client[c].at = "written"
    /\ ~ProjectLocked
    /\ faults' = [faults EXCEPT ![client[c].fault].status = "CLEAR_REQUESTED",
                                ![client[c].fault].version = client[c].version + 1]
    /\ client' = [client EXCEPT ![c] = Resting]
    /\ UNCHANGED <<commands, expired, backend, worker, mishaps>>

-----------------------------------------------------------------------------
(* The pass of the worker. *)

\* Mutant: a pass that forgets the rows whose clearing was requested.
BeginPassForgetful ==
    /\ worker.at = "idle"
    /\ UnfinishedFaults # {}
    /\ worker' = [at |-> "pass",
                  rows |-> [f \in UnfinishedFaults |-> [status |-> faults[f].status,
                                                        version |-> faults[f].version,
                                                        late |-> f \in expired]],
                  todo |-> {f \in Created : faults[f].status \in {"REQUESTED", "ACTIVE"}},
                  written |-> {}]
    /\ UNCHANGED <<commands, faults, expired, backend, client, mishaps>>

\* The unfinished rows, and what has expired by the clock read now.
BeginPass ==
    /\ worker.at = "idle"
    /\ UnfinishedFaults # {}
    /\ worker' = [at |-> "pass",
                  rows |-> [f \in UnfinishedFaults |-> [status |-> faults[f].status,
                                                        version |-> faults[f].version,
                                                        late |-> f \in expired]],
                  todo |-> UnfinishedFaults,
                  written |-> {}]
    /\ UNCHANGED <<commands, faults, expired, backend, client, mishaps>>

\* The pass takes the rows in the order they were created.
Head1 == Min(worker.todo)
Row == worker.rows[Head1]
Targets == faults[Head1].targets
ToApply == Row.status = "REQUESTED" \/ (Row.status = "ACTIVE" /\ ~Row.late)

\* The new status of the row in memory; append_audit locks the project row at
\* once, and no transaction that already holds it needs another lock.
Becomes(status) ==
    /\ worker' = [worker EXCEPT !.at = "audited",
                                !.rows[Head1].status = status,
                                !.rows[Head1].version = @ + 1]

\* The backends of S hold f.  A reached backend refuses an expired fault.
Put(S, f) == backend' = [i \in Instances |-> IF i \in S /\ f \notin expired THEN f ELSE backend[i]]
Clear(S) == backend' = [i \in Instances |-> IF i \in S THEN 0 ELSE backend[i]]

\* REQUESTED becomes ACTIVE; an ACTIVE fault is put back silently.
Apply ==
    /\ worker.at = "pass" /\ worker.todo # {} /\ ToApply
    /\ Head1 \notin expired
    /\ Put(Targets, Head1)
    /\ IF Row.status = "REQUESTED" THEN Becomes("ACTIVE")
       ELSE worker' = [worker EXCEPT !.todo = @ \ {Head1}]
    /\ UNCHANGED <<commands, faults, expired, client, mishaps>>

\* Mutant: a finish that stops at the first target.
FinishFirst ==
    /\ worker.at = "pass" /\ worker.todo # {} /\ ~ToApply
    /\ \E i \in Targets : Clear({i})
    /\ Becomes(IF Row.status = "CLEAR_REQUESTED" THEN "CLEARED" ELSE "EXPIRED")
    /\ UNCHANGED <<commands, faults, expired, client, mishaps>>

\* A clear request or the expiry ends the fault on every target.
Finish ==
    /\ worker.at = "pass" /\ worker.todo # {} /\ ~ToApply
    /\ Clear(Targets)
    /\ Becomes(IF Row.status = "CLEAR_REQUESTED" THEN "CLEARED" ELSE "EXPIRED")
    /\ UNCHANGED <<commands, faults, expired, client, mishaps>>

\* A call fails: some targets were reached, with or without an answer.  The
\* worker cleans up what it can reach and the fault is FAILED.
CallFails ==
    /\ worker.at = "pass" /\ worker.todo # {}
    /\ \E reached, cleaned \in SUBSET Targets :
       /\ IF ToApply /\ Head1 \in expired /\ cleaned = Targets THEN UNCHANGED mishaps ELSE Mishap
       /\ backend' = [i \in Instances |->
                        IF i \in cleaned THEN 0
                        ELSE IF i \notin reached THEN backend[i]
                        ELSE IF ~ToApply THEN 0
                        ELSE IF Head1 \notin expired THEN Head1 ELSE backend[i]]
    /\ Becomes("FAILED")
    /\ UNCHANGED <<commands, faults, expired, client>>

\* append_audit holds the project row and flushes the fault row.
WriteRow ==
    /\ worker.at = "audited"
    /\ ~RowLocked(Head1)
    /\ worker' = [worker EXCEPT !.at = "pass", !.written = @ \cup {Head1}, !.todo = @ \ {Head1}]
    /\ UNCHANGED <<commands, faults, expired, backend, client, mishaps>>

Written(f) == [faults[f] EXCEPT !.status = worker.rows[f].status, !.version = worker.rows[f].version]

CommitPass ==
    /\ worker.at = "pass" /\ worker.todo = {}
    /\ faults' = [f \in Created |-> IF f \in worker.written THEN Written(f) ELSE faults[f]]
    /\ worker' = WorkerIdle
    /\ UNCHANGED <<commands, expired, backend, client, mishaps>>

\* The worker dies, also between two targets; nothing of the pass is committed.
WorkerCrash ==
    /\ worker.at # "idle"
    /\ Mishap
    /\ worker' = WorkerIdle
    /\ IF worker.at = "pass" /\ worker.todo # {}
       THEN \E reached \in SUBSET Targets : IF ToApply THEN Put(reached, Head1) ELSE Clear(reached)
       ELSE UNCHANGED backend
    /\ UNCHANGED <<commands, faults, expired, client>>

-----------------------------------------------------------------------------
(* PostgreSQL ends a deadlock between a clear request and the worker by     *)
(* aborting either.                                                         *)

Deadlocked(c) ==
    /\ client[c].at = "written"
    /\ worker.at = "audited" /\ client[c].fault = Head1

AbortClear(c) ==
    /\ Deadlocked(c)
    /\ client' = [client EXCEPT ![c] = Resting]
    /\ UNCHANGED <<commands, faults, expired, backend, worker, mishaps>>

\* The aborted worker cleans the targets unless it just has, cannot record
\* anything in the dead transaction and leaves the tick by an exception.
AbortPass(c) ==
    /\ Deadlocked(c)
    /\ IF Row.status = "FAILED" THEN UNCHANGED <<backend, mishaps>>
       ELSE \E cleaned \in SUBSET Targets :
              /\ IF cleaned = Targets THEN UNCHANGED mishaps ELSE Mishap
              /\ Clear(cleaned)
    /\ worker' = WorkerIdle
    /\ UNCHANGED <<commands, faults, expired, client>>

-----------------------------------------------------------------------------
(* The lab reset clears every backend, then reads the unfinished rows and   *)
(* commits them as CLEARED, whether its later gates pass or not.            *)

BeginReset ==
    /\ worker.at = "idle"
    /\ Command("reset")
    /\ Clear(Instances)
    /\ worker' = [WorkerIdle EXCEPT
                     !.at = "reset",
                     !.rows = [f \in UnfinishedFaults |-> [status |-> "CLEARED",
                                                          version |-> faults[f].version + 1,
                                                          late |-> FALSE]],
                     !.todo = UnfinishedFaults]
    /\ UNCHANGED <<faults, expired, client, mishaps>>

\* A backend that cannot be cleared sends the reset to review, rows untouched.
ResetNeedsReview ==
    /\ worker.at = "idle"
    /\ Command("reset")
    /\ Mishap
    /\ \E cleared \in SUBSET Instances : Clear(cleared)
    /\ UNCHANGED <<faults, expired, client, worker>>

CommitReset ==
    /\ worker.at = "reset"
    /\ \A f \in worker.todo : ~RowLocked(f)
    /\ faults' = [f \in Created |-> IF f \in worker.todo THEN Written(f) ELSE faults[f]]
    /\ worker' = WorkerIdle
    /\ UNCHANGED <<commands, expired, backend, client, mishaps>>

\* A failed gate appends an audit event first, so it can be aborted as well.
AbortReset(c) ==
    /\ worker.at = "reset"
    /\ client[c].at = "written" /\ client[c].fault \in worker.todo
    /\ worker' = WorkerIdle
    /\ UNCHANGED <<commands, faults, expired, backend, client, mishaps>>

-----------------------------------------------------------------------------
\* An expiry nobody can notice any more is no step.
Expire(f) ==
    /\ f \notin expired
    /\ faults[f].status \in Unfinished \/ \E i \in Instances : backend[i] = f
    /\ expired' = expired \cup {f}
    /\ UNCHANGED <<commands, faults, backend, client, worker, mishaps>>

\* A backend process starts without a fault.
BackendRestart(i) ==
    /\ backend[i] # 0
    /\ Mishap
    /\ backend' = [backend EXCEPT ![i] = 0]
    /\ UNCHANGED <<commands, faults, expired, client, worker>>

Request(c) ==
    \/ \E k \in Keys, targets \in TargetSets : CheckCreate(c, k, targets)
    \/ \E f \in Created : CheckClear(c, f)

Answer(c) == CommitCreate(c) \/ WriteClear(c) \/ CommitClear(c)

Pass == BeginPass \/ Apply \/ Finish \/ CallFails \/ WriteRow \/ CommitPass \/ CommitReset

Abort == \E c \in Clients : AbortClear(c) \/ AbortPass(c) \/ AbortReset(c)

Next ==
    \/ \E c \in Clients : Request(c) \/ Answer(c)
    \/ Pass \/ Abort \/ WorkerCrash \/ BeginReset \/ ResetNeedsReview
    \/ \E f \in Created : Expire(f)
    \/ \E i \in Instances : BackendRestart(i)

Spec == Init /\ [][Next]_vars

\* Row locks are granted in the order they were asked for, so no transaction
\* is overtaken for ever; deadlocks are detected, the loop goes on, time passes.
FairSpec ==
    /\ Spec
    /\ \A c \in Clients : SF_vars(Answer(c))
    /\ WF_vars(Pass) /\ WF_vars(Abort)
    /\ WF_vars(\E f \in Created : Expire(f))

-----------------------------------------------------------------------------
(* Properties. *)

\* Two requests with one idempotency key never leave two faults, also when both
\* looked for the record before either had stored it (create_fault,
\* find_replay, store_record and its unique constraint).
OneFaultPerKey ==
    \A f, g \in Created : faults[f].key = faults[g].key => f = g

\* A fault recorded as CLEARED is held by no backend, whatever failed, crashed
\* or was reset on the way (_process_fault_commands, clear_fault of worker_io).
ClearedIsClean ==
    \A f \in Created, i \in Instances : faults[f].status = "CLEARED" => Holds(i) # f

\* While a fault is unfinished create_fault refuses every other.  The lab always
\* becomes free again, also when a clear request was overwritten, a row was
\* reopened, a pass was aborted in a deadlock with clear_fault (which takes the
\* fault row and the project row in the opposite order), or a call failed.
LabBecomesFree == (UnfinishedFaults # {}) ~> (UnfinishedFaults = {})

=============================================================================
