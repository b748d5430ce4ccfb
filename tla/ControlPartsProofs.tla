------------------------- MODULE ControlPartsProofs -------------------------
(***************************************************************************)
(* What is proved of the two parts of ControlParts: of the life of a lab   *)
(* fault, that an idempotency key names one fault and that a row recorded  *)
(* as CLEARED is clean, for any number of backends, requests and mishaps;  *)
(* of detection, that a decision is borne out by two windows and an action *)
(* by a certificate of its own class, for windows of any length and any    *)
(* pace of the ticks.                                                      *)
(***************************************************************************)
EXTENDS ControlParts, FiniteSetTheorems, WellFoundedInduction, TLAPS

-----------------------------------------------------------------------------
(* The life of a lab fault: the invariant.  What makes a row committed as   *)
(* CLEARED true is spread over three places: the worker cleans the targets  *)
(* of the row it has read, so a backend may only hold a fault of which it   *)
(* is a target; between the cleaning and the commit nobody else puts the    *)
(* fault back; and a row that has ended is not in a pass again.             *)

Statuses == Unfinished \cup {"CLEARED", "EXPIRED", "FAILED"}
FaultRows == [status : Statuses, version : Nat, key : Keys, targets : SUBSET Instances]
ReadRows == [status : Statuses, version : Nat, late : BOOLEAN]
RowMaps == UNION {[S -> ReadRows] : S \in SUBSET Nat}
Requests ==
    {Resting} \cup [at : {"creating"}, key : Keys, targets : SUBSET Instances]
              \cup [at : {"clearing", "written"}, fault : Nat, version : Nat]
Workers == [at : {"idle", "pass", "audited", "reset"}, rows : RowMaps, todo : SUBSET Nat, written : SUBSET Nat]

FaultsTypeOK ==
    /\ faults \in Seq(FaultRows)
    /\ backend \in [Instances -> Nat]
    /\ client \in [Clients -> Requests]
    /\ worker \in Workers

\* A backend holds a fault that exists and of which it is a target, and a clear
\* request names a fault that exists.
HeldByTargets ==
    /\ \A i \in Instances : backend[i] # 0 => backend[i] \in Created /\ i \in faults[backend[i]].targets
    /\ \A c \in Clients : client[c].at \in {"clearing", "written"} => client[c].fault \in Created

\* What the worker has read is unfinished until the worker commits.
RowsAreOpen ==
    worker.at # "idle" =>
        /\ worker.todo \subseteq DOMAIN worker.rows /\ worker.written \subseteq DOMAIN worker.rows
        /\ DOMAIN worker.rows \subseteq Created
        /\ worker.at = "audited" => worker.todo # {}
        /\ \A f \in DOMAIN worker.rows : faults[f].status \in Unfinished

\* What the worker is about to commit as CLEARED no backend holds.
WorkIsClean ==
    /\ worker.at \in {"pass", "audited"} =>
          \A f \in DOMAIN worker.rows : worker.rows[f].status = "CLEARED" => \A i \in Instances : backend[i] # f
    /\ worker.at = "reset" => \A i \in Instances : backend[i] = 0

RowsAreClean ==
    \A f \in Created, i \in Instances : faults[f].status = "CLEARED" => backend[i] # f

FaultsInv ==
    /\ FaultsTypeOK /\ OneFaultPerKey
    /\ HeldByTargets /\ RowsAreOpen /\ WorkIsClean /\ RowsAreClean

-----------------------------------------------------------------------------
(* Facts about what the steps are made of. *)

\* A number below which a set has none is its minimum.
LEMMA OldestIsOne ==
    ASSUME NEW S \in SUBSET Nat, S # {}
    PROVE  Min(S) \in S
<1>1. PICK x \in S : \A y \in S : ~(<<y, x>> \in OpToRel(<, Nat))
    BY WFMin, NatLessThanWellFounded
<1>2. \A y \in Nat : <<y, x>> \in OpToRel(<, Nat) <=> y < x
    BY DEF OpToRel
<1>3. \A y \in S : ~(y < x)
    BY Zenon, <1>1, <1>2
<1>4. \A y \in S : x <= y
    BY <1>3
<1> QED BY <1>4 DEF Min

\* The row the worker is at is one it has read.
LEMMA HeadIsRead ==
    ASSUME FaultsTypeOK, RowsAreOpen, worker.at # "idle", worker.todo # {}
    PROVE  /\ Head1 \in worker.todo /\ Head1 \in DOMAIN worker.rows /\ Head1 \in Created
           /\ faults[Head1].status \in Unfinished
           /\ Row \in ReadRows
<1>1. worker.todo \in SUBSET Nat /\ worker.rows \in RowMaps
    BY DEF FaultsTypeOK, Workers
<1>2. worker.rows \in [DOMAIN worker.rows -> ReadRows]
    BY <1>1 DEF RowMaps
<1>3. Head1 \in worker.todo
    BY <1>1, OldestIsOne DEF Head1
<1> QED BY <1>2, <1>3 DEF RowsAreOpen, Row

\* A map of rows stays one when a row is replaced.
LEMMA RowMapReplaced ==
    ASSUME NEW rows \in RowMaps, NEW f \in DOMAIN rows, NEW status \in Statuses
    PROVE  LET new == [rows EXCEPT ![f].status = status, ![f].version = @ + 1]
           IN  /\ new \in RowMaps /\ DOMAIN new = DOMAIN rows
               /\ new[f].status = status
               /\ \A g \in DOMAIN rows : g # f => new[g] = rows[g]
<1> DEFINE new == [rows EXCEPT ![f].status = status, ![f].version = @ + 1]
<1>1. PICK S \in SUBSET Nat : rows \in [S -> ReadRows]
    BY DEF RowMaps
<1>2. S = DOMAIN rows /\ rows[f] \in ReadRows
    BY <1>1
<1>3. rows[f].version + 1 \in Nat
    BY <1>2 DEF ReadRows
<1>4. [rows[f] EXCEPT !.status = status, !.version = @ + 1] \in ReadRows
    BY <1>2, <1>3 DEF ReadRows
<1>5. new = [rows EXCEPT ![f] = [rows[f] EXCEPT !.status = status, !.version = @ + 1]]
    BY <1>1, <1>2 DEF ReadRows
<1>6. new \in [S -> ReadRows]
    BY <1>1, <1>2, <1>4, <1>5
<1>7. new \in RowMaps
    BY <1>6 DEF RowMaps
<1> QED BY <1>1, <1>2, <1>5, <1>6, <1>7 DEF ReadRows

\* Nothing has been read.
LEMMA IdleIsWorker == WorkerIdle \in Workers
<1>1. <<>> \in [{} -> ReadRows]
    OBVIOUS
<1>2. <<>> \in RowMaps
    BY <1>1 DEF RowMaps
<1> QED BY <1>2 DEF WorkerIdle, Workers

\* The row the worker is at gets its new status, and nothing else changes.
LEMMA BecomesOneStatus ==
    ASSUME FaultsTypeOK, RowsAreOpen, worker.at # "idle", worker.todo # {}, NEW status \in Statuses, Becomes(status)
    PROVE  /\ worker' \in Workers /\ worker'.at = "audited"
           /\ worker'.todo = worker.todo /\ worker'.written = worker.written
           /\ DOMAIN worker'.rows = DOMAIN worker.rows
           /\ worker'.rows[Head1].status = status
           /\ \A g \in DOMAIN worker.rows : g # Head1 => worker'.rows[g] = worker.rows[g]
<1> DEFINE new == [worker.rows EXCEPT ![Head1].status = status, ![Head1].version = @ + 1]
<1>1. worker \in Workers /\ Head1 \in DOMAIN worker.rows
    BY HeadIsRead DEF FaultsTypeOK
<1>2. worker.rows \in RowMaps
    BY <1>1 DEF Workers
<1>3. /\ new \in RowMaps /\ DOMAIN new = DOMAIN worker.rows
      /\ new[Head1].status = status
      /\ \A g \in DOMAIN worker.rows : g # Head1 => new[g] = worker.rows[g]
    BY <1>1, <1>2, RowMapReplaced
<1>4. worker' = [worker EXCEPT !.at = "audited", !.rows = new]
    BY <1>1 DEF Becomes, Workers
<1> HIDE DEF new
<1> QED BY <1>1, <1>3, <1>4 DEF Workers

\* What a step does to the rows of lab_faults.
LEMMA RowsGrow ==
    ASSUME FaultsInv, [Next]_vars
    PROVE  /\ faults' \in Seq(FaultRows)
           /\ \A f \in Created : f \in Created' /\ faults'[f].targets = faults[f].targets
           /\ OneFaultPerKey'
<1> USE DEF FaultsInv
<1>0. /\ faults \in Seq(FaultRows) /\ \A f \in Created : faults[f] \in FaultRows
      /\ Created = 1..Len(faults) /\ Len(faults) \in Nat
    BY DEF FaultsTypeOK, Created
<1>1. ASSUME NEW c \in Clients, CommitCreate(c)
      PROVE  /\ faults' \in Seq(FaultRows)
             /\ \A f \in Created : f \in Created' /\ faults'[f].targets = faults[f].targets
             /\ OneFaultPerKey'
    <2> DEFINE row == [status |-> "REQUESTED", version |-> 1, key |-> client[c].key, targets |-> client[c].targets]
    <2>1. CASE \E f \in Created : faults[f].key = client[c].key
        BY <1>0, <1>1, <2>1 DEF CommitCreate, Created, OneFaultPerKey
    <2>2. CASE ~\E f \in Created : faults[f].key = client[c].key
        <3>1. row \in FaultRows
            <4>1. client[c] \in Requests /\ client[c].at = "creating"
                BY <1>1 DEF CommitCreate, FaultsTypeOK
            <4>2. client[c].key \in Keys /\ client[c].targets \in SUBSET Instances
                BY <4>1 DEF Requests, Resting
            <4>3. "REQUESTED" \in Statuses
                BY DEF Statuses, Unfinished
            <4> QED BY <4>2, <4>3 DEF FaultRows
        <3>2. row.key = client[c].key
            OBVIOUS
        <3>3. faults' = Append(faults, row)
            BY <1>1, <2>2 DEF CommitCreate
        <3> HIDE DEF row
        <3>4. /\ faults' \in Seq(FaultRows) /\ Created' = 1..(Len(faults) + 1)
              /\ \A f \in Created : faults'[f] = faults[f]
              /\ faults'[Len(faults) + 1] = row
            BY <1>0, <3>1, <3>3 DEF Created
        <3>5. \A f, g \in Created' : faults'[f].key = faults'[g].key => f = g
            BY <1>0, <2>2, <3>2, <3>4 DEF OneFaultPerKey
        <3>6. \A f \in Created : f \in Created'
            BY <1>0, <3>4
        <3> QED BY <3>4, <3>5, <3>6 DEF OneFaultPerKey
    <2> QED BY <2>1, <2>2
<1>2. ASSUME NEW c \in Clients, CommitClear(c)
      PROVE  /\ faults' \in Seq(FaultRows)
             /\ \A f \in Created : f \in Created' /\ faults'[f].targets = faults[f].targets
             /\ OneFaultPerKey'
    <2> DEFINE f0 == client[c].fault
               row == [faults[f0] EXCEPT !.status = "CLEAR_REQUESTED", !.version = client[c].version + 1]
    <2>1. f0 \in Created /\ client[c].version \in Nat
        BY <1>2 DEF CommitClear, HeldByTargets, FaultsTypeOK, Requests, Resting
    <2>2. row \in FaultRows /\ row.key = faults[f0].key /\ row.targets = faults[f0].targets
        <3>1. client[c].version + 1 \in Nat /\ "CLEAR_REQUESTED" \in Statuses /\ faults[f0] \in FaultRows
            BY <1>0, <2>1 DEF Statuses, Unfinished
        <3>2. ASSUME NEW v \in Nat, NEW r \in FaultRows
              PROVE  LET new == [r EXCEPT !.status = "CLEAR_REQUESTED", !.version = v]
                     IN  new \in FaultRows /\ new.key = r.key /\ new.targets = r.targets
            BY <3>1 DEF FaultRows
        <3> QED BY <3>1, <3>2
    <2>3. faults' = [faults EXCEPT ![f0] = row]
        BY <1>0, <1>2, <2>1 DEF CommitClear, FaultRows, Created
    <2> HIDE DEF row, f0
    <2>4. faults' \in Seq(FaultRows) /\ Created' = Created
        BY <1>0, <2>1, <2>2, <2>3 DEF Created
    <2>5. \A f \in Created : faults'[f].key = faults[f].key /\ faults'[f].targets = faults[f].targets
        BY <1>0, <2>1, <2>2, <2>3 DEF Created
    <2> QED BY <2>4, <2>5 DEF OneFaultPerKey
<1>3. ASSUME NEW S \in SUBSET DOMAIN worker.rows,
             worker.at # "idle",
             faults' = [f \in Created |-> IF f \in S THEN Written(f) ELSE faults[f]]
      PROVE  /\ faults' \in Seq(FaultRows)
             /\ \A f \in Created : f \in Created' /\ faults'[f].targets = faults[f].targets
             /\ OneFaultPerKey'
    <2>1. worker.rows \in RowMaps
        BY DEF FaultsTypeOK, Workers
    <2>2. \A f \in S : worker.rows[f] \in ReadRows
        BY <2>1 DEF RowMaps
    <2>3. \A f \in S : f \in Created => Written(f) \in FaultRows /\ Written(f).key = faults[f].key /\ Written(f).targets = faults[f].targets
        BY <1>0, <2>2 DEF Written, FaultRows, ReadRows
    <2>4. faults' \in [1..Len(faults) -> FaultRows]
        BY <1>0, <1>3, <2>3
    <2>5. faults' \in Seq(FaultRows) /\ Created' = Created
        BY <1>0, <2>4 DEF Created
    <2>6. \A f \in Created : faults'[f].key = faults[f].key /\ faults'[f].targets = faults[f].targets
        BY <1>0, <1>3, <2>3
    <2> QED BY <2>5, <2>6 DEF OneFaultPerKey
<1>4. CASE CommitPass
    BY <1>3, <1>4 DEF CommitPass, RowsAreOpen
<1>5. CASE CommitReset
    BY <1>3, <1>5 DEF CommitReset, RowsAreOpen
<1>6. CASE UNCHANGED faults
    BY <1>0, <1>6 DEF OneFaultPerKey, Created
<1> QED BY <1>1, <1>2, <1>4, <1>5, <1>6
        DEF Next, vars, Request, Answer, Pass, Abort, CheckCreate, CheckClear, WriteClear, BeginPass, Apply,
            Finish, CallFails, WriteRow, AbortClear, AbortPass, AbortReset, WorkerCrash, BeginReset,
            ResetNeedsReview, Expire, BackendRestart

\* What a step does to the worker.
LEMMA WorkerTypes ==
    ASSUME FaultsInv, [Next]_vars
    PROVE  worker' \in Workers
<1> USE DEF FaultsInv
<1>0. worker \in Workers /\ WorkerIdle \in Workers /\ worker.rows \in RowMaps
    BY IdleIsWorker DEF FaultsTypeOK, Workers
<1>1. CASE BeginPass \/ BeginReset
    <2>0. /\ UnfinishedFaults \in SUBSET Nat
          /\ \A f \in UnfinishedFaults : /\ faults[f].version \in Nat /\ faults[f].version + 1 \in Nat
                                         /\ faults[f].status \in Statuses
        <3>1. /\ \A f \in Created : f \in Nat /\ faults[f] \in FaultRows
              /\ UnfinishedFaults \subseteq Created
            BY DEF UnfinishedFaults, Created, FaultsTypeOK
        <3> QED BY <3>1 DEF FaultRows
    <2>1. CASE BeginPass
        <3> DEFINE rows == [f \in UnfinishedFaults |-> [status |-> faults[f].status, version |-> faults[f].version,
                                                        late |-> f \in expired]]
        <3>1. \A f \in UnfinishedFaults : (f \in expired) \in BOOLEAN
            OBVIOUS
        <3>2. rows \in [UnfinishedFaults -> ReadRows]
            BY <2>0, <3>1 DEF ReadRows
        <3>3. rows \in RowMaps
            BY <2>0, <3>2 DEF RowMaps
        <3>4. worker' = [at |-> "pass", rows |-> rows, todo |-> UnfinishedFaults, written |-> {}]
            BY <2>1 DEF BeginPass
        <3> HIDE DEF rows
        <3> QED BY <2>0, <3>3, <3>4 DEF Workers
    <2>2. CASE BeginReset
        <3> DEFINE rows == [f \in UnfinishedFaults |-> [status |-> "CLEARED", version |-> faults[f].version + 1,
                                                        late |-> FALSE]]
        <3>1. rows \in [UnfinishedFaults -> ReadRows]
            BY <2>0 DEF ReadRows, Statuses
        <3>2. rows \in RowMaps
            BY <2>0, <3>1 DEF RowMaps
        <3>3. worker' = [WorkerIdle EXCEPT !.at = "reset", !.rows = rows, !.todo = UnfinishedFaults]
            BY <2>2 DEF BeginReset
        <3> HIDE DEF rows
        <3> QED BY <2>0, <3>2, <3>3 DEF Workers, WorkerIdle
    <2> QED BY <1>1, <2>1, <2>2
<1>2. ASSUME worker.at = "pass", worker.todo # {}, NEW status \in Statuses, Becomes(status)
      PROVE  worker' \in Workers
    BY <1>2, BecomesOneStatus
<1>3. CASE Apply
    <2>1. CASE Row.status = "REQUESTED"
        BY <1>2, <1>3, <2>1 DEF Apply, Statuses, Unfinished
    <2>2. CASE Row.status # "REQUESTED"
        BY <1>0, <1>3, <2>2 DEF Apply, Workers
    <2> QED BY <2>1, <2>2
<1>4. CASE Finish
    BY <1>2, <1>4 DEF Finish, Statuses, Unfinished
<1>5. CASE CallFails
    BY <1>2, <1>5 DEF CallFails, Statuses, Unfinished
<1>6. CASE WriteRow
    <2>1. Head1 \in worker.todo
        BY <1>6, HeadIsRead DEF WriteRow, RowsAreOpen
    <2> QED BY <1>0, <1>6, <2>1 DEF WriteRow, Workers
<1>7. CASE worker' = WorkerIdle \/ UNCHANGED worker
    BY <1>0, <1>7
<1> QED BY <1>1, <1>3, <1>4, <1>5, <1>6, <1>7
        DEF Next, vars, Request, Answer, Pass, Abort, CheckCreate, CommitCreate, CheckClear, WriteClear, CommitClear,
            CommitPass, CommitReset, AbortClear, AbortPass, AbortReset, WorkerCrash, ResetNeedsReview, Expire,
            BackendRestart

\* What a step does to the requests and to the backends.
LEMMA OtherTypes ==
    ASSUME FaultsInv, [Next]_vars
    PROVE  client' \in [Clients -> Requests] /\ backend' \in [Instances -> Nat]
<1> USE DEF FaultsInv
<1>1. client' \in [Clients -> Requests]
    <2>1. ASSUME NEW c \in Clients, NEW k \in Keys, NEW targets \in TargetSets, CheckCreate(c, k, targets)
          PROVE  client' \in [Clients -> Requests]
        BY <2>1, FaultsAssumption DEF CheckCreate, FaultsTypeOK, Requests
    <2>2. ASSUME NEW c \in Clients, NEW f \in Created, CheckClear(c, f)
          PROVE  client' \in [Clients -> Requests]
        <3>1. f \in Nat /\ faults[f].version \in Nat
            <4>1. f \in Nat /\ faults[f] \in FaultRows
                BY DEF FaultsTypeOK, Created
            <4> QED BY <4>1 DEF FaultRows
        <3> QED BY <2>2, <3>1 DEF CheckClear, FaultsTypeOK, Requests
    <2>3. ASSUME NEW c \in Clients, WriteClear(c)
          PROVE  client' \in [Clients -> Requests]
        <3>1. client[c] \in [at : {"clearing", "written"}, fault : Nat, version : Nat]
            BY <2>3 DEF WriteClear, FaultsTypeOK, Requests, Resting
        <3>2. client' = [client EXCEPT ![c] = [client[c] EXCEPT !.at = "written"]]
            BY <2>3 DEF WriteClear
        <3>3. [client[c] EXCEPT !.at = "written"] \in Requests
            BY <3>1 DEF Requests
        <3> QED BY <3>2, <3>3 DEF FaultsTypeOK
    <2>4. ASSUME NEW c \in Clients, client' = [client EXCEPT ![c] = Resting]
          PROVE  client' \in [Clients -> Requests]
        BY <2>4 DEF FaultsTypeOK, Requests
    <2>5. CASE UNCHANGED client
        BY <2>5 DEF FaultsTypeOK
    <2> QED BY <2>1, <2>2, <2>3, <2>4, <2>5
            DEF Next, vars, Request, Answer, Pass, Abort, CommitCreate, CommitClear, BeginPass, Apply, Finish,
                CallFails, WriteRow, CommitPass, CommitReset, AbortClear, AbortPass, AbortReset, WorkerCrash,
                BeginReset, ResetNeedsReview, Expire, BackendRestart
<1>2. backend' \in [Instances -> Nat]
    <2> DEFINE Held == backend' \in [Instances -> Nat]
    <2>0. backend \in [Instances -> Nat]
        BY DEF FaultsTypeOK
    <2>1. ASSUME NEW S, Clear(S) PROVE Held
        BY <2>0, <2>1 DEF Clear
    <2>2. ASSUME NEW S, Put(S, Head1), worker.at = "pass", worker.todo # {} PROVE Held
        BY <2>0, <2>2, HeadIsRead DEF Put, FaultsTypeOK, Workers
    <2>3. CASE Apply
        BY <2>2, <2>3 DEF Apply
    <2>4. CASE Finish
        BY <2>1, <2>4 DEF Finish
    <2>5. CASE CallFails
        BY <2>0, <2>5, HeadIsRead DEF CallFails, FaultsTypeOK, Workers, RowsAreOpen
    <2>6. CASE WorkerCrash
        BY <2>0, <2>1, <2>2, <2>6 DEF WorkerCrash
    <2>7. ASSUME NEW c \in Clients, AbortPass(c) PROVE Held
        BY <2>0, <2>1, <2>7 DEF AbortPass
    <2>8. CASE BeginReset \/ ResetNeedsReview
        BY <2>1, <2>8 DEF BeginReset, ResetNeedsReview
    <2>9. ASSUME NEW i \in Instances, BackendRestart(i) PROVE Held
        BY <2>0, <2>9 DEF BackendRestart
    <2>10. CASE UNCHANGED backend
        BY <2>0, <2>10
    <2> QED BY <2>3, <2>4, <2>5, <2>6, <2>7, <2>8, <2>9, <2>10
            DEF Next, vars, Request, Answer, Pass, Abort, CheckCreate, CommitCreate, CheckClear, WriteClear,
                CommitClear, BeginPass, WriteRow, CommitPass, CommitReset, AbortClear, AbortReset, Expire
<1> QED BY <1>1, <1>2

\* The backends a step fills hold the fault the worker is at, and are its targets.
LEMMA BackendsFilled ==
    ASSUME FaultsInv, [Next]_vars, NEW i \in Instances, backend'[i] # backend[i], backend'[i] # 0
    PROVE  /\ worker.at = "pass" /\ worker.todo # {} /\ ToApply
           /\ backend'[i] = Head1 /\ i \in Targets
<1> USE DEF FaultsInv
<1>0. backend \in [Instances -> Nat]
    BY DEF FaultsTypeOK
<1>1. ~ \E S : Clear(S)
    BY <1>0 DEF Clear
<1>2. UNCHANGED backend => FALSE
    OBVIOUS
<1>3. ASSUME NEW S \in SUBSET Targets, Put(S, Head1) PROVE backend'[i] = Head1 /\ i \in Targets
    BY <1>0, <1>3 DEF Put
<1>4. CASE Apply
    BY <1>3, <1>4 DEF Apply
<1>5. CASE CallFails
    BY <1>0, <1>5 DEF CallFails
<1>6. CASE WorkerCrash
    BY <1>1, <1>2, <1>3, <1>6 DEF WorkerCrash
<1>7. ASSUME NEW c \in Clients, AbortPass(c) PROVE FALSE
    BY <1>1, <1>2, <1>7 DEF AbortPass
<1>8. ASSUME NEW j \in Instances, BackendRestart(j) PROVE FALSE
    BY <1>0, <1>8 DEF BackendRestart
<1> QED BY <1>1, <1>2, <1>4, <1>5, <1>6, <1>7, <1>8
        DEF Next, vars, Request, Answer, Pass, Abort, CheckCreate, CommitCreate, CheckClear, WriteClear, CommitClear,
            BeginPass, Finish, WriteRow, CommitPass, CommitReset, AbortClear, AbortReset, Expire, BeginReset,
            ResetNeedsReview

\* Backends go on holding what they are targets of.
LEMMA TargetsGoOn ==
    ASSUME FaultsInv, [Next]_vars
    PROVE  HeldByTargets'
<1> USE DEF FaultsInv
<1>1. \A f \in Created : f \in Created' /\ faults'[f].targets = faults[f].targets
    BY RowsGrow
<1>2. ASSUME NEW i \in Instances, backend'[i] # 0
      PROVE  backend'[i] \in Created' /\ i \in faults'[backend'[i]].targets
    <2>1. CASE backend'[i] = backend[i]
        BY <1>1, <1>2, <2>1 DEF HeldByTargets
    <2>2. CASE backend'[i] # backend[i]
        <3>1. worker.at = "pass" /\ worker.todo # {} /\ backend'[i] = Head1 /\ i \in Targets
            BY <1>2, <2>2, BackendsFilled
        <3>2. Head1 \in Created
            BY <3>1, HeadIsRead
        <3> QED BY <1>1, <3>1, <3>2 DEF Targets
    <2> QED BY <2>1, <2>2
<1>3. ASSUME NEW c \in Clients, client'[c].at \in {"clearing", "written"}
      PROVE  client'[c].fault \in Created'
    <2> DEFINE Named == client'[c].fault \in Created
    <2>0. client \in [Clients -> Requests] /\ (client'[c] = client[c] => Named)
        BY <1>3 DEF HeldByTargets, FaultsTypeOK
    <2>1. ASSUME NEW d \in Clients, Request(d) PROVE Named
        <3>1. ASSUME NEW k \in Keys, NEW targets \in TargetSets, CheckCreate(d, k, targets) PROVE Named
            BY <1>3, <2>0, <3>1 DEF CheckCreate
        <3>2. ASSUME NEW f \in Created, CheckClear(d, f) PROVE Named
            <4>1. client'[d].fault = f /\ (c # d => client'[c] = client[c])
                BY <2>0, <3>2 DEF CheckClear
            <4> QED BY <2>0, <4>1
        <3> QED BY <2>1, <3>1, <3>2 DEF Request
    <2>2. ASSUME NEW d \in Clients, WriteClear(d) PROVE Named
        <3>1. client[d] \in [at : {"clearing", "written"}, fault : Nat, version : Nat] /\ client[d].fault \in Created
            BY <2>0, <2>2 DEF WriteClear, Requests, Resting, HeldByTargets
        <3>2. client' = [client EXCEPT ![d] = [client[d] EXCEPT !.at = "written"]]
            BY <2>2 DEF WriteClear
        <3>3. [client[d] EXCEPT !.at = "written"].fault = client[d].fault
            BY <3>1
        <3> QED BY <2>0, <3>1, <3>2, <3>3
    <2>3. ASSUME NEW d \in Clients, client' = [client EXCEPT ![d] = Resting] PROVE Named
        BY <1>3, <2>0, <2>3 DEF Resting
    <2>4. Named
        BY <2>0, <2>1, <2>2, <2>3
           DEF Next, vars, Answer, Pass, Abort, CommitCreate, CommitClear, BeginPass, Apply, Finish,
               CallFails, WriteRow, CommitPass, CommitReset, AbortClear, AbortPass, AbortReset, WorkerCrash,
               BeginReset, ResetNeedsReview, Expire, BackendRestart
    <2> QED BY <1>1, <2>4
<1> QED BY <1>2, <1>3 DEF HeldByTargets

\* Only the commits of the worker end a row.
LEMMA OpenUntilCommitted ==
    ASSUME FaultsInv, [Next]_vars, NEW f \in Created, faults[f].status \in Unfinished, ~CommitPass, ~CommitReset
    PROVE  faults'[f].status \in Unfinished
<1> USE DEF FaultsInv
<1>0. faults \in Seq(FaultRows) /\ Created = 1..Len(faults) /\ Len(faults) \in Nat /\ \A g \in Created : faults[g] \in FaultRows
    BY DEF FaultsTypeOK, Created
<1>1. ASSUME NEW c \in Clients, CommitCreate(c) PROVE faults'[f] = faults[f]
    <2>1. ASSUME NEW row, faults' = Append(faults, row) PROVE faults'[f] = faults[f]
        BY <1>0, <2>1
    <2> QED BY <1>1, <2>1 DEF CommitCreate
<1>2. ASSUME NEW c \in Clients, CommitClear(c) PROVE faults'[f].status \in Unfinished
    <2>1. client[c].fault \in Created
        BY <1>2 DEF CommitClear, HeldByTargets
    <2>2. faults'[client[c].fault].status = "CLEAR_REQUESTED"
        BY <1>0, <1>2, <2>1 DEF CommitClear, FaultRows, Created
    <2>3. f # client[c].fault => faults'[f] = faults[f]
        BY <1>0, <1>2, <2>1 DEF CommitClear, Created
    <2> QED BY <2>2, <2>3 DEF Unfinished
<1>3. CASE UNCHANGED faults
    BY <1>3
<1> QED BY <1>1, <1>2, <1>3
        DEF Next, vars, Request, Answer, Pass, Abort, CheckCreate, CheckClear, WriteClear, BeginPass, Apply,
            Finish, CallFails, WriteRow, AbortClear, AbortPass, AbortReset, WorkerCrash, BeginReset,
            ResetNeedsReview, Expire, BackendRestart

\* What the worker has read stays unfinished while it works on it.
LEMMA ReadRowsStayOpen ==
    ASSUME FaultsInv, [Next]_vars
    PROVE  RowsAreOpen'
<1> USE DEF FaultsInv
<1> SUFFICES ASSUME worker'.at # "idle" PROVE RowsAreOpen'
    BY DEF RowsAreOpen
<1>0. /\ ~CommitPass /\ ~CommitReset
      /\ \A f \in Created : f \in Created' /\ (faults[f].status \in Unfinished => faults'[f].status \in Unfinished)
    <2>1. ~CommitPass /\ ~CommitReset
        BY DEF CommitPass, CommitReset, WorkerIdle
    <2> QED BY <2>1, RowsGrow, OpenUntilCommitted
<1>1. CASE BeginPass \/ BeginReset
    <2>1. /\ worker'.todo = UnfinishedFaults /\ DOMAIN worker'.rows = UnfinishedFaults /\ worker'.written = {}
          /\ worker'.at \in {"pass", "reset"}
        <3>1. CASE BeginPass
            BY <3>1 DEF BeginPass
        <3>2. CASE BeginReset
            BY <3>2 DEF BeginReset, WorkerIdle
        <3> QED BY <1>1, <3>1, <3>2
    <2>2. \A f \in UnfinishedFaults : f \in Created /\ faults[f].status \in Unfinished
        BY DEF UnfinishedFaults
    <2> QED BY <1>0, <2>1, <2>2 DEF RowsAreOpen
<1>2. ASSUME worker.at # "idle", worker'.at # "audited" \/ worker'.todo # {},
             worker'.todo \subseteq DOMAIN worker.rows, worker'.written \subseteq DOMAIN worker.rows,
             DOMAIN worker'.rows = DOMAIN worker.rows
      PROVE  RowsAreOpen'
    BY <1>0, <1>2 DEF RowsAreOpen
<1>3. ASSUME worker.at = "pass", worker.todo # {}, NEW status \in Statuses, Becomes(status)
      PROVE  RowsAreOpen'
    BY <1>2, <1>3, BecomesOneStatus DEF RowsAreOpen
<1>4. CASE Apply
    <2>1. CASE Row.status = "REQUESTED"
        BY <1>3, <1>4, <2>1 DEF Apply, Statuses, Unfinished
    <2>2. CASE Row.status # "REQUESTED"
        BY <1>2, <1>4, <2>2 DEF Apply, RowsAreOpen, FaultsTypeOK, Workers
    <2> QED BY <2>1, <2>2
<1>5. CASE Finish
    BY <1>3, <1>5 DEF Finish, Statuses, Unfinished
<1>6. CASE CallFails
    BY <1>3, <1>6 DEF CallFails, Statuses, Unfinished
<1>7. CASE WriteRow
    <2>1. Head1 \in DOMAIN worker.rows
        BY <1>7, HeadIsRead DEF WriteRow, RowsAreOpen
    <2> QED BY <1>2, <1>7, <2>1 DEF WriteRow, RowsAreOpen, FaultsTypeOK, Workers
<1>8. CASE worker' = WorkerIdle
    BY <1>8 DEF WorkerIdle
<1>9. CASE UNCHANGED worker
    BY <1>2, <1>9 DEF RowsAreOpen
<1> QED BY <1>1, <1>4, <1>5, <1>6, <1>7, <1>8, <1>9
        DEF Next, vars, Request, Answer, Pass, Abort, CheckCreate, CommitCreate, CheckClear, WriteClear, CommitClear,
            CommitPass, CommitReset, AbortClear, AbortPass, AbortReset, WorkerCrash, ResetNeedsReview, Expire,
            BackendRestart

\* What a pass is about to record as CLEARED stays clean until it commits.
LEMMA WorkStaysClean ==
    ASSUME FaultsInv, [Next]_vars
    PROVE  WorkIsClean'
<1> USE DEF FaultsInv
<1>0. backend \in [Instances -> Nat]
    BY DEF FaultsTypeOK
<1>1. CASE BeginPass
    <2>1. worker'.at = "pass" /\ \A f \in DOMAIN worker'.rows : worker'.rows[f].status \in Unfinished
        BY <1>1 DEF BeginPass, UnfinishedFaults
    <2> QED BY <2>1 DEF WorkIsClean, Unfinished
<1>2. CASE BeginReset
    BY <1>2 DEF BeginReset, WorkerIdle, WorkIsClean, Clear
<1>3. CASE worker' = WorkerIdle
    BY <1>3 DEF WorkerIdle, WorkIsClean
<1>4. ASSUME worker.at \in {"pass", "audited"}, worker'.at \in {"pass", "audited"},
             worker'.rows = worker.rows,
             \A i \in Instances : backend'[i] \in {backend[i], 0} \/
                                  (ToApply /\ backend'[i] = Head1 /\ worker.todo # {})
      PROVE  WorkIsClean'
    <2> SUFFICES ASSUME NEW f \in DOMAIN worker.rows, worker.rows[f].status = "CLEARED", NEW i \in Instances
                 PROVE  backend'[i] # f
        BY <1>4 DEF WorkIsClean
    <2>1. backend[i] # f /\ f # 0
        BY <1>4 DEF WorkIsClean, RowsAreOpen, Created, FaultsTypeOK
    <2>2. ToApply => f # Head1
        BY DEF ToApply, Row
    <2> QED BY <1>4, <2>1, <2>2
<1>5. ASSUME worker.at = "pass", worker.todo # {}, NEW status \in Statuses, Becomes(status),
             \A i \in Instances : backend'[i] \in {backend[i], 0} \/ (ToApply /\ backend'[i] = Head1),
             status = "CLEARED" => \A i \in Instances : backend'[i] # Head1
      PROVE  WorkIsClean'
    <2> SUFFICES ASSUME NEW f \in DOMAIN worker.rows, worker'.rows[f].status = "CLEARED", NEW i \in Instances
                 PROVE  backend'[i] # f
        BY <1>5, BecomesOneStatus DEF WorkIsClean
    <2>1. CASE f = Head1
        BY <1>5, <2>1, BecomesOneStatus
    <2>2. CASE f # Head1
        <3>1. worker.rows[f].status = "CLEARED"
            BY <1>5, <2>2, BecomesOneStatus
        <3>2. backend[i] # f /\ f # 0
            BY <1>5, <3>1 DEF WorkIsClean, RowsAreOpen, Created, FaultsTypeOK
        <3> QED BY <1>5, <2>2, <3>2
    <2> QED BY <2>1, <2>2
<1>6. CASE Apply
    <2>1. \A i \in Instances : backend'[i] \in {backend[i], 0} \/ (ToApply /\ backend'[i] = Head1)
        BY <1>0, <1>6 DEF Apply, Put
    <2>2. CASE Row.status = "REQUESTED"
        BY <1>5, <1>6, <2>1, <2>2 DEF Apply, Statuses, Unfinished
    <2>3. CASE Row.status # "REQUESTED"
        <3>1. worker'.at = "pass" /\ worker'.rows = worker.rows
            BY <1>6, <2>3 DEF Apply, FaultsTypeOK, Workers
        <3> QED BY <1>4, <1>6, <2>1, <3>1 DEF Apply
    <2> QED BY <2>2, <2>3
<1>7. CASE Finish
    <2>1. \A i \in Instances : backend'[i] = IF i \in Targets THEN 0 ELSE backend[i]
        BY <1>7 DEF Finish, Clear
    <2>2. Head1 \in Created /\ Head1 # 0
        BY <1>7, HeadIsRead DEF Finish, Created, FaultsTypeOK
    <2>3. \A i \in Instances : backend'[i] # Head1
        BY <2>1, <2>2 DEF HeldByTargets, Targets
    <2> QED BY <1>5, <1>7, <2>1, <2>3 DEF Finish, Statuses, Unfinished
<1>8. CASE CallFails
    <2>1. \A i \in Instances : backend'[i] \in {backend[i], 0} \/ (ToApply /\ backend'[i] = Head1)
        BY <1>0, <1>8 DEF CallFails
    <2> QED BY <1>5, <1>8, <2>1 DEF CallFails, Statuses, Unfinished
<1>9. CASE WriteRow
    <2>1. worker'.at = "pass" /\ worker'.rows = worker.rows
        BY <1>9 DEF WriteRow, FaultsTypeOK, Workers
    <2> QED BY <1>4, <1>9, <2>1 DEF WriteRow
<1>10. CASE UNCHANGED worker /\ \A i \in Instances : backend'[i] \in {backend[i], 0}
    <2>1. CASE worker.at \in {"pass", "audited"}
        BY <1>4, <1>10, <2>1
    <2>2. CASE worker.at \notin {"pass", "audited"}
        BY <1>10, <2>2 DEF WorkIsClean
    <2> QED BY <2>1, <2>2
<1>11. ASSUME NEW i \in Instances, BackendRestart(i)
       PROVE  UNCHANGED worker /\ \A j \in Instances : backend'[j] \in {backend[j], 0}
    BY <1>0, <1>11 DEF BackendRestart
<1>12. CASE ResetNeedsReview
    BY <1>10, <1>12 DEF ResetNeedsReview, Clear
<1>13. CASE UNCHANGED <<worker, backend>>
    BY <1>10, <1>13
<1> QED BY <1>1, <1>2, <1>3, <1>6, <1>7, <1>8, <1>9, <1>10, <1>11, <1>12, <1>13
        DEF Next, vars, Request, Answer, Pass, Abort, CheckCreate, CommitCreate, CheckClear, WriteClear, CommitClear,
            CommitPass, CommitReset, AbortClear, AbortPass, AbortReset, WorkerCrash, Expire

\* A row is committed as CLEARED when it is clean, and no pass reads it again.
LEMMA RowsStayClean ==
    ASSUME FaultsInv, [Next]_vars
    PROVE  RowsAreClean'
<1> USE DEF FaultsInv
<1> SUFFICES ASSUME NEW f \in Created', NEW i \in Instances, faults'[f].status = "CLEARED"
             PROVE  backend'[i] # f
    BY DEF RowsAreClean
<1>0. /\ faults \in Seq(FaultRows) /\ Created = 1..Len(faults) /\ Len(faults) \in Nat
      /\ \A g \in Created : faults[g] \in FaultRows
      /\ f # 0
    BY RowsGrow DEF FaultsTypeOK, Created
<1>1. CASE CommitPass
    <2>1. /\ f \in Created /\ backend' = backend
          /\ faults'[f] = IF f \in worker.written THEN Written(f) ELSE faults[f]
        BY <1>1 DEF CommitPass, Created
    <2>2. CASE f \in worker.written
        <3>1. worker.rows[f].status = "CLEARED"
            BY <1>0, <2>1, <2>2 DEF Written, FaultRows
        <3> QED BY <1>1, <2>1, <2>2, <3>1 DEF CommitPass, WorkIsClean, RowsAreOpen
    <2>3. CASE f \notin worker.written
        BY <2>1, <2>3 DEF RowsAreClean
    <2> QED BY <2>2, <2>3
<1>2. CASE CommitReset
    BY <1>0, <1>2 DEF CommitReset, WorkIsClean
<1>3. CASE ~CommitPass /\ ~CommitReset
    <2>1. f \in Created /\ faults[f].status = "CLEARED"
        <3>1. ASSUME NEW c \in Clients, CommitCreate(c) PROVE f \in Created /\ faults[f] = faults'[f]
            <4> DEFINE row == [status |-> "REQUESTED", version |-> 1, key |-> client[c].key, targets |-> client[c].targets]
            <4>1. row.status # "CLEARED"
                OBVIOUS
            <4>2. faults' = faults \/ faults' = Append(faults, row)
                BY <3>1 DEF CommitCreate
            <4> HIDE DEF row
            <4> QED BY <1>0, <4>1, <4>2 DEF Created
        <3>2. ASSUME NEW c \in Clients, CommitClear(c) PROVE f \in Created /\ faults[f] = faults'[f]
            <4>1. client[c].fault \in Created
                BY <3>2 DEF CommitClear, HeldByTargets
            <4>2. faults'[client[c].fault].status = "CLEAR_REQUESTED"
                BY <1>0, <3>2, <4>1 DEF CommitClear, FaultRows, Created
            <4> QED BY <1>0, <3>2, <4>1, <4>2 DEF CommitClear, Created
        <3>3. CASE UNCHANGED faults
            BY <3>3 DEF Created
        <3> QED BY <1>3, <3>1, <3>2, <3>3
                DEF Next, vars, Request, Answer, Pass, Abort, CheckCreate, CheckClear, WriteClear, BeginPass, Apply,
                    Finish, CallFails, WriteRow, AbortClear, AbortPass, AbortReset, WorkerCrash, BeginReset,
                    ResetNeedsReview, Expire, BackendRestart
    <2>2. CASE backend'[i] = backend[i]
        BY <2>1, <2>2 DEF RowsAreClean
    <2>3. CASE backend'[i] # backend[i] /\ backend'[i] # 0
        <3>1. worker.at = "pass" /\ worker.todo # {} /\ backend'[i] = Head1
            BY <2>3, BackendsFilled
        <3>2. faults[Head1].status \in Unfinished
            BY <3>1, HeadIsRead
        <3> QED BY <2>1, <3>1, <3>2 DEF Unfinished
    <2> QED BY <1>0, <2>2, <2>3
<1> QED BY <1>1, <1>2, <1>3

\* It holds before anything has happened.
LEMMA FaultsStart == Init => FaultsInv
<1> SUFFICES ASSUME Init PROVE FaultsInv
    OBVIOUS
<1>1. FaultsTypeOK
    BY IdleIsWorker DEF Init, FaultsTypeOK, Requests
<1>2. Created = {}
    BY DEF Init, Created
<1>3. RowsAreOpen /\ WorkIsClean
    BY DEF Init, WorkerIdle, RowsAreOpen, WorkIsClean
<1>4. HeldByTargets
    BY DEF Init, HeldByTargets, Resting
<1> QED BY <1>1, <1>2, <1>3, <1>4 DEF FaultsInv, OneFaultPerKey, RowsAreClean

\* It holds throughout.
LEMMA FaultsInvariant == Spec => []FaultsInv
<1>1. FaultsInv /\ [Next]_vars => FaultsInv'
    <2> SUFFICES ASSUME FaultsInv, [Next]_vars PROVE FaultsInv'
        OBVIOUS
    <2>1. FaultsTypeOK'
        BY RowsGrow, WorkerTypes, OtherTypes DEF FaultsTypeOK
    <2> QED BY <2>1, RowsGrow, TargetsGoOn, ReadRowsStayOpen, WorkStaysClean, RowsStayClean DEF FaultsInv
<1> QED BY FaultsStart, <1>1, PTL DEF Spec

\* Two requests with one idempotency key never leave two faults (create_fault,
\* store_record), for any number of clients, keys and faults.
THEOREM KeysNameOneFault == Spec => []OneFaultPerKey
<1>1. FaultsInv => OneFaultPerKey
    BY DEF FaultsInv
<1> QED BY <1>1, FaultsInvariant, PTL

\* A fault recorded as CLEARED is held by no backend (_process_fault_commands,
\* _process_lab_reset_commands, clear_fault), for any number of backends,
\* targets, faults, failed calls, crashes and deadlocks.
THEOREM ClearedRowsAreClean == Spec => []ClearedIsClean
<1>1. FaultsInv => ClearedIsClean
    <2> SUFFICES ASSUME FaultsInv, NEW f \in Created, NEW i \in Instances, faults[f].status = "CLEARED"
                 PROVE  Holds(i) # f
        BY DEF ClearedIsClean
    <2>1. backend[i] # f /\ f # 0
        BY DEF FaultsInv, RowsAreClean, FaultsTypeOK, Created
    <2> QED BY <2>1 DEF Holds
<1> QED BY <1>1, FaultsInvariant, PTL

-----------------------------------------------------------------------------
(* Detection: the invariant. *)

Classes == {"healthy", "degraded", "failure", "down", "unknown", "conflict"}
Proofs == [class : Classes, age : Nat, allowed : BOOLEAN]
Incidents == [status : {"none", "OPEN", "VERIFYING", "NEEDS_REVIEW"}, class : Classes, proof : Proofs]

DetectionTypeOK ==
    /\ cell \in CellConditions
    /\ past \in [History -> BOOLEAN]
    /\ windows \in [Ages -> Classes \cup {"none"}]
    /\ incidents \in [CellKinds -> Incidents]
    /\ saga \in [CellKinds -> {"none", "running", "held", "unknown", "returning", "over"}]
    /\ since \in Nat

\* What a window was recorded as is what its answers were.
WindowsAreTrue ==
    \A a \in Ages : /\ windows[a] = "failure" => Failing(a)
                    /\ windows[a] = "healthy" => WithinBound(a)

\* The latest certificate of an incident is of the incident's class, and an
\* action has an incident, unless a lab reset has left it behind.
ProofsFit ==
    \A k \in CellKinds :
        /\ saga[k] \notin {"none", "unknown"} => Is(k)
        /\ Is(k) => /\ incidents[k].proof.class = incidents[k].class
                    /\ Kind(incidents[k].class) = k

DetectionInv == DetectionTypeOK /\ WindowsAreTrue /\ ProofsFit

\* DetectionSpec without its fairness.
DetectionSafety == DetectionInit /\ [][DetectionNext]_detectionVars

-----------------------------------------------------------------------------
(* Time shifts what a window reaches back to. *)

\* As many of the units a window covers are marked after a shift by one.
LEMMA Shifted ==
    ASSUME NEW f, NEW g, NEW a \in Nat, NEW w \in Nat,
           \A u \in (a + 1)..(a + w) : g[u + 1] = f[u]
    PROVE  Cardinality({u \in (a + 2)..(a + 1 + w) : g[u]}) = Cardinality({u \in (a + 1)..(a + w) : f[u]})
<1> DEFINE S == {u \in (a + 1)..(a + w) : f[u]}
           T == {u \in (a + 2)..(a + 1 + w) : g[u]}
           h == [u \in S |-> u + 1]
<1>1. IsFiniteSet(S)
    <2>1. a + 1 \in Int /\ a + w \in Int
        OBVIOUS
    <2>2. IsFiniteSet((a + 1)..(a + w))
        BY <2>1, FS_Interval
    <2> QED BY <2>2, FS_Subset
<1>2. h \in [S -> T]
    OBVIOUS
<1>3. \A u, v \in S : h[u] = h[v] => u = v
    OBVIOUS
<1>4. \A t \in T : \E u \in S : h[u] = t
    <2> SUFFICES ASSUME NEW t \in T PROVE \E u \in S : h[u] = t
        OBVIOUS
    <2>1. t - 1 \in (a + 1)..(a + w) /\ (t - 1) + 1 = t
        OBVIOUS
    <2>2. t - 1 \in S
        BY <2>1
    <2> QED BY <2>1, <2>2
<1>5. h \in Bijection(S, T)
    BY <1>2, <1>3, <1>4 DEF Bijection, Injection, IsInjective, Surjection
<1> QED BY <1>1, <1>5, FS_Bijection DEF ExistsBijection

\* The answers a window of a certain age covers stay the same as it ages.
LEMMA WindowKeepsItsErrors ==
    ASSUME DetectionTypeOK, TimePasses, NEW a \in Ages, a # 0
    PROVE  a - 1 \in Ages /\ Errors(a)' = Errors(a - 1)
<1>1. PICK b \in Nat : a = b + 1
    <2>1. a - 1 \in Nat /\ a = (a - 1) + 1
        BY DEF Ages
    <2> QED BY <2>1
<1>2. b \in Ages /\ a - 1 = b /\ Window \in Nat /\ Reach \in Nat
    BY <1>1, DetectionAssumption DEF Ages
<1>3. \A u \in (b + 1)..(b + Window) : past'[u + 1] = past[u]
    BY <1>1, <1>2, DetectionAssumption DEF TimePasses, History, Ages
<1>4. Cardinality({u \in (b + 2)..(b + 1 + Window) : past'[u]})
      = Cardinality({u \in (b + 1)..(b + Window) : past[u]})
    <2> SUFFICES ASSUME NEW f, NEW g, \A u \in (b + 1)..(b + Window) : g[u + 1] = f[u]
                 PROVE  Cardinality({u \in (b + 2)..(b + 1 + Window) : g[u]})
                        = Cardinality({u \in (b + 1)..(b + Window) : f[u]})
        BY <1>3
    <2> QED BY <1>2, Shifted
<1>5. b + 2 = a + 1 /\ b + 1 + Window = a + Window
    BY <1>1, <1>2
<1> QED BY <1>1, <1>2, <1>4, <1>5 DEF Errors

-----------------------------------------------------------------------------
(* What a decision makes of an incident. *)

\* What is persisted fits: it was made of this window, or of one that overlaps it.
LEMMA PersistedFits ==
    ASSUME DetectionTypeOK, ProofsFit, NEW class \in Classes, NEW allowed \in BOOLEAN
    PROVE  LET p == Persisted(class, allowed) IN
           /\ p \in Incidents /\ p.status # "none"
           /\ p.proof.class = p.class /\ Kind(p.class) = Kind(class) /\ p.proof.age < Window
           /\ p.class = class \/ (Is(Kind(class)) /\ p.class = incidents[Kind(class)].class)
<1> DEFINE k == Kind(class)
           proof == [class |-> class, age |-> 0, allowed |-> allowed]
           p == Persisted(class, allowed)
<1>1. k \in CellKinds /\ proof \in Proofs /\ proof.age < Window /\ proof.class = class
    BY DetectionAssumption DEF Kind, CellKinds, Proofs
<1>2. incidents[k] \in Incidents
    BY <1>1 DEF DetectionTypeOK
<1>3. CASE ~Is(k)
    <2>1. p = [status |-> IF k = "unknown" THEN "NEEDS_REVIEW" ELSE "OPEN", class |-> class, proof |-> proof]
        BY <1>3 DEF Persisted
    <2> QED BY <2>1, <1>1 DEF Incidents
<1>4. CASE Is(k) /\ incidents[k].proof.age < Window
    <2>1. p = incidents[k]
        BY <1>4 DEF Persisted
    <2> QED BY <2>1, <1>1, <1>2, <1>4 DEF ProofsFit, Is
<1>5. CASE Is(k) /\ ~(incidents[k].proof.age < Window)
    <2>1. p = [incidents[k] EXCEPT !.class = class, !.proof = proof]
        BY <1>5 DEF Persisted
    <2> QED BY <2>1, <1>1, <1>2, <1>5 DEF Is, Incidents
<1> QED BY <1>3, <1>4, <1>5

\* Acting changes the incident of the decision, by what was persisted; what is
\* drained has been allowed.
LEMMA ActKeeps ==
    ASSUME DetectionTypeOK, ProofsFit, NEW class \in Classes, NEW allowed \in BOOLEAN,
           Act(class, Persisted(class, allowed))
    PROVE  LET p == Persisted(class, allowed) IN
           /\ \E q \in Incidents : /\ q.status # "none" /\ q.class = p.class /\ q.proof = p.proof
                                  /\ incidents' = [incidents EXCEPT ![Kind(class)] = q]
           /\ \A k \in CellKinds : saga[k] = "none" /\ saga'[k] = "running" =>
                                       k = Kind(class) /\ p.proof.allowed
           /\ \A k \in CellKinds \ {Kind(class)} : saga'[k] = saga[k]
<1> DEFINE k == Kind(class)
           p == Persisted(class, allowed)
<1>1. k \in CellKinds
    BY DEF Kind, CellKinds
<1>2. p \in Incidents /\ p.status # "none"
    BY PersistedFits
<1> HIDE DEF p
<1>3. Act(class, p)
    BY DEF p
<1>4. \A s \in {"NEEDS_REVIEW", "VERIFYING"} :
         LET q == [p EXCEPT !.status = s]
         IN q \in Incidents /\ q.status # "none" /\ q.class = p.class /\ q.proof = p.proof
    BY <1>2 DEF Incidents
<1>5. \E q \in Incidents : /\ q.status # "none" /\ q.class = p.class /\ q.proof = p.proof
                           /\ incidents' = [incidents EXCEPT ![k] = q]
    BY <1>2, <1>3, <1>4 DEF Act
<1>6. \A j \in CellKinds : saga[j] = "none" /\ saga'[j] = "running" => j = k /\ p.proof.allowed
    BY <1>1, <1>3 DEF Act, DetectionTypeOK
<1>7. \A j \in CellKinds \ {k} : saga'[j] = saga[j]
    BY <1>1, <1>3 DEF Act, DetectionTypeOK
<1> QED BY <1>5, <1>6, <1>7 DEF p

-----------------------------------------------------------------------------
(* What a tick may do. *)

\* A class is read off the evidence of this window.
LEMMA ClassesAreTrue ==
    ASSUME NEW class \in ClassesNow
    PROVE  /\ class \in Classes \ {"conflict"}
           /\ class = "failure" => Failing(0)
           /\ class = "healthy" => WithinBound(0)
<1>1. CASE cell = "down"
    BY <1>1 DEF ClassesNow, Classes
<1>2. CASE cell # "down" /\ Drained
    BY <1>2 DEF ClassesNow, Classes
<1>3. CASE cell = "bad" /\ ~Drained
    BY <1>3 DEF ClassesNow, Classes
<1>4. CASE cell # "down" /\ cell # "bad" /\ ~Drained
    BY <1>4 DEF ClassesNow, Classes
<1> QED BY <1>1, <1>2, <1>3, <1>4

\* What confirms a class is an earlier window with the errors of that class.
LEMMA ConfirmedByErrors ==
    ASSUME WindowsAreTrue
    PROVE  /\ Confirmed("failure") => \E a \in Window..(Window + Reach) : Failing(a)
           /\ Confirmed("healthy") => \E a \in Window..(Window + Reach) : WithinBound(a)
<1>1. Window..(Window + Reach) \subseteq Ages
    BY DetectionAssumption DEF Ages
<1> QED BY <1>1 DEF Confirmed, WindowsAreTrue

\* A tick leaves the incidents alone, resolves them, or acts on a class.
LEMMA TickCases ==
    ASSUME Tick
    PROVE  \/ UNCHANGED <<incidents, saga>>
           \/ Resolve /\ fault = "none" /\ WithinBound(0) /\ Confirmed("healthy")
           \/ \E c \in Classes, allowed \in BOOLEAN :
                 /\ Act(c, Persisted(c, allowed))
                 /\ c = "failure" => Failing(0) /\ Confirmed(c)
<1>1. PICK class \in ClassesNow :
         IF Busy THEN UNCHANGED <<incidents, saga, spent>>
         ELSE Conclude(IF fault = "conflict" THEN "conflict" ELSE class)
    BY DEF Tick
<1> DEFINE c == IF fault = "conflict" THEN "conflict" ELSE class
<1>2. /\ c \in Classes
      /\ c = "failure" => Failing(0)
      /\ c = "healthy" => WithinBound(0)
    BY ClassesAreTrue DEF Classes
<1>3. CASE Busy
    BY <1>1, <1>3
<1>4. CASE ~Busy
    <2>1. Conclude(c)
        BY <1>1, <1>4
    <2> HIDE DEF c
    <2>2. CASE c = "healthy" /\ fault = "none" /\ Confirmed(c) /\ Resolve
        BY <1>2, <2>2
    <2>3. CASE /\ Incidental(c) /\ (c = "conflict" \/ Confirmed(c))
               /\ \E allowed \in IF c \in {"failure", "down"} THEN BOOLEAN ELSE {FALSE} :
                     Act(c, Persisted(c, allowed))
        <3>1. PICK allowed \in BOOLEAN : Act(c, Persisted(c, allowed))
            BY <2>3
        <3>2. c = "failure" => Failing(0) /\ Confirmed(c)
            BY <1>2, <2>3
        <3> QED BY <1>2, <3>1, <3>2
    <2>4. CASE UNCHANGED <<incidents, saga, spent>>
        BY <2>4
    <2> QED BY <2>1, <2>2, <2>3, <2>4 DEF Conclude
<1> QED BY <1>3, <1>4

-----------------------------------------------------------------------------
(* The invariant. *)

\* It holds before anything has happened.
LEMMA DetectionStarts == DetectionInit => DetectionInv
<1> SUFFICES ASSUME DetectionInit PROVE DetectionInv
    OBVIOUS
<1>1. NoIncident \in Incidents
    BY DEF NoIncident, NoProof, Incidents, Proofs, Classes
<1>2. DetectionTypeOK
    BY <1>1 DEF DetectionInit, DetectionTypeOK, CellConditions, Classes
<1>3. WindowsAreTrue
    BY DEF DetectionInit, WindowsAreTrue
<1>4. ProofsFit
    BY DEF DetectionInit, ProofsFit, Is, NoIncident
<1> QED BY <1>2, <1>3, <1>4 DEF DetectionInv

\* Types are kept.
LEMMA DetectionTypes ==
    ASSUME DetectionInv, [DetectionNext]_detectionVars
    PROVE  DetectionTypeOK'
<1> USE DEF DetectionInv
<1>0. NoIncident \in Incidents
    BY DEF NoIncident, NoProof, Incidents, Proofs, Classes
<1>1. CASE CellTurns \/ ConflictTurns
    BY <1>1 DEF CellTurns, ConflictTurns, DetectionTypeOK
<1>2. CASE LabReset
    BY <1>0, <1>2 DEF LabReset, DetectionTypeOK, CellConditions
<1>7. CASE LabResetFails
    BY <1>7 DEF LabResetFails, DetectionTypeOK, CellConditions
<1>3. CASE TimePasses
    <2>1. \A k \in CellKinds : [incidents[k] EXCEPT !.proof.age = @ + 1] \in Incidents
        BY DEF DetectionTypeOK, Incidents, Proofs
    <2>2. incidents' \in [CellKinds -> Incidents]
        BY <1>3, <2>1 DEF TimePasses, DetectionTypeOK
    <2>3. windows' \in [Ages -> Classes \cup {"none"}]
        <3>1. \A a \in Ages : a # 0 => a - 1 \in Ages
            BY DetectionAssumption DEF Ages
        <3> QED BY <1>3, <3>1 DEF TimePasses, DetectionTypeOK
    <2>4. past' \in [History -> BOOLEAN]
        <3>1. \A u \in History : u # 1 => u - 1 \in History
            BY DetectionAssumption DEF History
        <3> QED BY <1>3, <3>1 DEF TimePasses, DetectionTypeOK
    <2>5. UNCHANGED <<cell, saga>> /\ since' \in Nat
        BY <1>3 DEF TimePasses, DetectionTypeOK
    <2> QED BY <2>2, <2>3, <2>4, <2>5 DEF DetectionTypeOK
<1>4. CASE Tick
    <2>1. windows' \in [Ages -> Classes \cup {"none"}]
        BY <1>4, ClassesAreTrue DEF Tick, DetectionTypeOK
    <2>2. cell' \in CellConditions /\ past' \in [History -> BOOLEAN] /\ since' \in Nat
        BY <1>4 DEF Tick, DetectionTypeOK
    <2>3. incidents' \in [CellKinds -> Incidents]
        <3>1. CASE UNCHANGED <<incidents, saga>>
            BY <3>1 DEF DetectionTypeOK
        <3>2. CASE Resolve
            BY <1>0, <3>2 DEF Resolve, DetectionTypeOK
        <3>3. ASSUME NEW c \in Classes, NEW allowed \in BOOLEAN, Act(c, Persisted(c, allowed))
              PROVE  incidents' \in [CellKinds -> Incidents]
            BY <3>3, ActKeeps DEF DetectionTypeOK
        <3> QED BY <1>4, <3>1, <3>2, <3>3, TickCases
    <2>4. saga' \in [CellKinds -> {"none", "running", "held", "unknown", "returning", "over"}]
        BY <1>4 DEF Tick, Conclude, Resolve, Act, DetectionTypeOK
    <2> QED BY <2>1, <2>2, <2>3, <2>4 DEF DetectionTypeOK
<1>5. ASSUME NEW k \in CellKinds, Verified(k) \/ Return(k) \/ Returned(k)
      PROVE  DetectionTypeOK'
    <2>1. [incidents[k] EXCEPT !.status = "NEEDS_REVIEW"] \in Incidents
        BY DEF DetectionTypeOK, Incidents
    <2>2. incidents' \in [CellKinds -> Incidents]
        BY <1>0, <1>5, <2>1 DEF Verified, Return, Returned, Left, Ended, DetectionTypeOK
    <2> QED BY <1>5, <2>2 DEF Verified, Return, Returned, Left, Ended, DetectionTypeOK
<1>6. CASE UNCHANGED detectionVars
    BY <1>6 DEF detectionVars, DetectionTypeOK
<1> QED BY <1>1, <1>2, <1>3, <1>4, <1>5, <1>6, <1>7 DEF DetectionNext

\* Windows stay what their answers were.
LEMMA WindowsStayTrue ==
    ASSUME DetectionInv, [DetectionNext]_detectionVars
    PROVE  WindowsAreTrue'
<1> USE DEF DetectionInv
<1>1. CASE TimePasses
    <2> SUFFICES ASSUME NEW a \in Ages
                 PROVE  /\ windows'[a] = "failure" => Failing(a)'
                        /\ windows'[a] = "healthy" => WithinBound(a)'
        BY DEF WindowsAreTrue
    <2>1. CASE a = 0
        BY <1>1, <2>1 DEF TimePasses
    <2>2. CASE a # 0
        <3>1. a - 1 \in Ages /\ Errors(a)' = Errors(a - 1) /\ windows'[a] = windows[a - 1]
            BY <1>1, <2>2, WindowKeepsItsErrors DEF TimePasses
        <3> QED BY <3>1 DEF WindowsAreTrue, Failing, WithinBound
    <2> QED BY <2>1, <2>2
<1>2. CASE Tick
    <2>1. PICK class \in ClassesNow : windows' = [windows EXCEPT ![0] = class]
        BY <1>2 DEF Tick
    <2>2. past' = past
        BY <1>2 DEF Tick
    <2>3. \A a \in Ages : windows'[a] = IF a = 0 THEN class ELSE windows[a]
        BY <2>1 DEF DetectionTypeOK
    <2> QED BY <2>2, <2>3, ClassesAreTrue DEF WindowsAreTrue, Failing, WithinBound, Errors
<1>3. CASE UNCHANGED <<past, windows>>
    BY <1>3 DEF WindowsAreTrue, Failing, WithinBound, Errors
<1> QED BY <1>1, <1>2, <1>3
        DEF DetectionNext, detectionVars, CellTurns, ConflictTurns, LabReset, LabResetFails, Verified, Return, Returned

\* Certificates go on fitting their incidents.
LEMMA ProofsGoOnFitting ==
    ASSUME DetectionInv, [DetectionNext]_detectionVars
    PROVE  ProofsFit'
<1> USE DEF DetectionInv
<1>1. CASE TimePasses
    BY <1>1 DEF TimePasses, ProofsFit, Is, DetectionTypeOK, Incidents, Proofs
<1>2. CASE Tick
    <2>1. CASE UNCHANGED <<incidents, saga>>
        BY <2>1 DEF ProofsFit, Is
    <2>2. CASE Resolve
        BY <2>2 DEF Resolve, ProofsFit, Is, NoIncident
    <2>3. ASSUME NEW c \in Classes, NEW allowed \in BOOLEAN, Act(c, Persisted(c, allowed))
          PROVE  ProofsFit'
        <3>1. PICK q \in Incidents :
                 /\ q.status # "none" /\ q.class = Persisted(c, allowed).class /\ q.proof = Persisted(c, allowed).proof
                 /\ incidents' = [incidents EXCEPT ![Kind(c)] = q]
            BY <2>3, ActKeeps
        <3>2. q.proof.class = q.class /\ Kind(q.class) = Kind(c)
            BY <3>1, PersistedFits
        <3>3. \A k \in CellKinds \ {Kind(c)} : saga'[k] = saga[k]
            BY <2>3, ActKeeps
        <3> QED BY <3>1, <3>2, <3>3 DEF ProofsFit, Is, DetectionTypeOK
    <2> QED BY <1>2, <2>1, <2>2, <2>3, TickCases
<1>3. CASE LabReset
    BY <1>3 DEF LabReset, ProofsFit, Is, NoIncident
<1>6. CASE LabResetFails
    BY <1>6 DEF LabResetFails, ProofsFit, Is, DetectionTypeOK
<1>4. ASSUME NEW k \in CellKinds, Verified(k) \/ Return(k) \/ Returned(k)
      PROVE  ProofsFit'
    BY <1>4 DEF Verified, Return, Returned, Left, Ended, ProofsFit, Is, NoIncident, DetectionTypeOK, Incidents
<1>5. CASE UNCHANGED <<incidents, saga>>
    BY <1>5 DEF ProofsFit, Is
<1> QED BY <1>1, <1>2, <1>3, <1>4, <1>5, <1>6 DEF DetectionNext, detectionVars, CellTurns, ConflictTurns

\* The invariant holds throughout.
LEMMA DetectionInvariant == DetectionSafety => []DetectionInv
<1>1. DetectionInv /\ [DetectionNext]_detectionVars => DetectionInv'
    BY DetectionTypes, WindowsStayTrue, ProofsGoOnFitting DEF DetectionInv
<1> QED BY DetectionStarts, <1>1, PTL DEF DetectionSafety

-----------------------------------------------------------------------------
(* The theorems. *)

\* An incident ends in a tick only when resolved, and a cell fails only by a
\* decision of this tick.
LEMMA StepIsConfirmed ==
    ASSUME DetectionInv, [DetectionNext]_detectionVars
    PROVE  /\ incidents'["cell"].class = "failure" /\ incidents["cell"].class # "failure" => Both(Failing)
           /\ since > since' /\ (\E k \in CellKinds : Is(k) /\ ~Is(k)') =>
                 fault = "none" /\ Both(WithinBound)
<1> USE DEF DetectionInv
<1>0. "cell" \in CellKinds
    BY DEF CellKinds
<1>1. CASE Tick
    <2>1. CASE UNCHANGED <<incidents, saga>>
        BY <2>1 DEF Is
    <2>2. CASE Resolve /\ fault = "none" /\ WithinBound(0) /\ Confirmed("healthy")
        <3>1. incidents'["cell"].class = "failure" => incidents["cell"].class = "failure"
            BY <1>0, <2>2 DEF Resolve, NoIncident
        <3>2. Both(WithinBound)
            BY <2>2, ConfirmedByErrors DEF Both
        <3> QED BY <2>2, <3>1, <3>2
    <2>3. ASSUME NEW c \in Classes, NEW allowed \in BOOLEAN, Act(c, Persisted(c, allowed)),
                 c = "failure" => Failing(0) /\ Confirmed(c)
          PROVE  /\ incidents'["cell"].class = "failure" /\ incidents["cell"].class # "failure" => Both(Failing)
                 /\ \A k \in CellKinds : Is(k) => Is(k)'
        <3>1. PICK q \in Incidents :
                 /\ q.status # "none" /\ q.class = Persisted(c, allowed).class
                 /\ incidents' = [incidents EXCEPT ![Kind(c)] = q]
            BY <2>3, ActKeeps
        <3>2. q.class = c \/ q.class = incidents[Kind(c)].class
            BY <3>1, PersistedFits
        <3>3. c = "failure" => Both(Failing)
            BY <2>3, ConfirmedByErrors DEF Both
        <3>4. \A k \in CellKinds : incidents'[k] = IF k = Kind(c) THEN q ELSE incidents[k]
            BY <3>1 DEF DetectionTypeOK
        <3>5. \A k \in CellKinds : Is(k) => Is(k)'
            BY <3>1, <3>4 DEF Is
        <3> HIDE DEF DetectionInv
        <3> QED BY <1>0, <3>2, <3>3, <3>4, <3>5
    <2> QED BY <1>1, <2>1, <2>2, <2>3, TickCases
<1>2. CASE ~Tick
    <2>1. since' \in Nat /\ ~(since > since')
        BY <1>2 DEF DetectionNext, detectionVars, CellTurns, ConflictTurns, LabReset, LabResetFails, TimePasses,
                    Verified, Return, Returned, Left, Ended, DetectionTypeOK
    <2>2. incidents'["cell"].class = "failure" => incidents["cell"].class = "failure"
        <3>1. CASE TimePasses
            BY <1>0, <3>1 DEF TimePasses, DetectionTypeOK, Incidents
        <3>2. CASE LabReset
            BY <1>0, <3>2 DEF LabReset, NoIncident
        <3>3. ASSUME NEW k \in CellKinds, Verified(k) \/ Return(k) \/ Returned(k)
              PROVE  incidents'["cell"].class = "failure" => incidents["cell"].class = "failure"
            BY <1>0, <3>3 DEF Verified, Return, Returned, Left, Ended, NoIncident, DetectionTypeOK, Incidents
        <3>4. CASE UNCHANGED incidents
            BY <3>4
        <3> QED BY <1>2, <3>1, <3>2, <3>3, <3>4 DEF DetectionNext, detectionVars, CellTurns, ConflictTurns, LabResetFails
    <2> QED BY <2>1, <2>2
<1> QED BY <1>1, <1>2

\* Two windows that do not overlap bear out every failure that is recorded and
\* every incident that a tick resolves (_incident_signal_confirmed), for
\* windows of any length.
THEOREM BorneOutTwice == DetectionSafety => ConfirmedTwice
<1>1. DetectionInv /\ [DetectionNext]_detectionVars =>
        [/\ incidents'["cell"].class = "failure" /\ incidents["cell"].class # "failure" => Both(Failing)
         /\ since > since' /\ (\E k \in CellKinds : Is(k) /\ ~Is(k)') => fault = "none" /\ Both(WithinBound)
        ]_detectionVars
    BY StepIsConfirmed
<1> QED BY <1>1, DetectionInvariant, PTL DEF DetectionSafety, ConfirmedTwice

\* What is drained is drained on a certificate of the incident's class and
\* scope that allows it and overlaps the present window (_persist_decision),
\* also after any number of deaths.
THEOREM ProofIsFresh == DetectionSafety => ActsOnFreshProof
<1>1. ASSUME DetectionInv, [DetectionNext]_detectionVars
      PROVE  [\A k \in CellKinds : saga[k] = "none" /\ saga'[k] = "running" =>
                LET proof == incidents'[k].proof
                IN proof.allowed /\ proof.class = incidents'[k].class /\ Kind(proof.class) = k /\ proof.age < Window
             ]_detectionVars
    <2> USE <1>1 DEF DetectionInv
    <2>1. SUFFICES ASSUME NEW k \in CellKinds, saga[k] = "none", saga'[k] = "running"
                   PROVE  /\ incidents'[k].proof.allowed
                          /\ incidents'[k].proof.class = incidents'[k].class
                          /\ Kind(incidents'[k].proof.class) = k
                          /\ incidents'[k].proof.age < Window
        OBVIOUS
    <2>2. Tick
        BY <2>1 DEF DetectionNext, detectionVars, CellTurns, ConflictTurns, LabReset, LabResetFails, TimePasses,
                    Verified, Return, Returned, Left, Ended, DetectionTypeOK
    <2>3. PICK c \in Classes, allowed \in BOOLEAN : Act(c, Persisted(c, allowed))
        BY <2>1, <2>2, TickCases DEF Resolve
    <2>4. PICK q \in Incidents :
             /\ q.class = Persisted(c, allowed).class /\ q.proof = Persisted(c, allowed).proof
             /\ incidents' = [incidents EXCEPT ![Kind(c)] = q]
        BY <2>3, ActKeeps
    <2>5. k = Kind(c) /\ q.proof.allowed
        BY <2>1, <2>3, <2>4, ActKeeps
    <2>6. q.proof.class = q.class /\ Kind(q.class) = k /\ q.proof.age < Window
        BY <2>4, <2>5, PersistedFits
    <2>7. incidents'[k] = q
        BY <2>1, <2>4, <2>5 DEF DetectionTypeOK
    <2> QED BY <2>5, <2>6, <2>7
<1> QED BY <1>1, DetectionInvariant, PTL DEF DetectionSafety, ActsOnFreshProof

-----------------------------------------------------------------------------
(* The two parts together. *)

\* The composition takes the steps of each part and no others.
LEMMA PartsAreTheirSpecs == PartsSpec => Spec /\ DetectionSafety
<1>1. PartsInit => Init /\ DetectionInit
    BY DEF PartsInit
<1>2. [PartsNext]_partsVars => [Next]_vars /\ [DetectionNext]_detectionVars
    BY DEF PartsNext, FaultsPart, DetectionPart, partsVars, faultsVars
<1> QED BY <1>1, <1>2, PTL DEF PartsSpec, Spec, DetectionSafety

\* What is proved of each part holds of the composition that is model-checked.
THEOREM PartsKeepTheirPromises ==
    PartsSpec => /\ []OneFaultPerKey /\ []ClearedIsClean
                 /\ ConfirmedTwice /\ ActsOnFreshProof
BY PartsAreTheirSpecs, KeysNameOneFault, ClearedRowsAreClean, BorneOutTwice, ProofIsFresh, PTL
=============================================================================
