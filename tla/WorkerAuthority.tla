--------------------------- MODULE WorkerAuthority ---------------------------
(***************************************************************************)
(* How a control worker gains, keeps and loses the right to command        *)
(* HAProxy: ControlWorker.start, _maintain_authority, _acquire_authority,  *)
(* _acquire_lease, _lease_owner_is_stale, _start_generation,               *)
(* _refresh_lease and the first lines of tick, in                          *)
(* src/control-api/src/shlb_api/worker.py.                                 *)
(*                                                                         *)
(* Three stores decide: the PostgreSQL advisory lock, held by a connection *)
(* the worker never looks at again; the Redis lease, renewed by a          *)
(* heartbeat thread; and the controller generation row.  The main loop     *)
(* looks at lease and generation before a tick and not within it, while    *)
(* the commands of the tick go to a socket that checks nothing.            *)
(*                                                                         *)
(* A member of Workers is one process: every launch draws a fresh          *)
(* worker_id, so a dead process's name is used again only once no store    *)
(* has a trace of it.  A launch that finds the lock taken exits and leaves *)
(* no trace; it is not a step.                                             *)
(***************************************************************************)
EXTENDS Naturals

CONSTANTS Workers, NoWorker, MaxMishaps

ASSUME AuthorityAssumption == MaxMishaps \in Nat /\ NoWorker \notin Workers

VARIABLES
    pc,          \* where the main thread of each process is
    existing,    \* the lease owner a starting worker has judged stale
    seen,        \* the generation a starting worker has read
    lost,        \* _authority_lost, set when the heartbeat thread gives up
    lock,        \* the holder of the advisory lock
    lease,       \* the value of worker:authority:lease
    generation,  \* Environment.controller_generation
    rows,        \* ControllerGeneration of each worker
    writer,      \* the generation whose command HAProxy obeyed last
    mishaps      \* how often each mishap happened, at most MaxMishaps in all

vars == <<pc, existing, seen, lost, lock, lease, generation, rows, writer, mishaps>>

Phases == {"off", "locked", "reclaiming", "leased", "counting", "idle", "ticking", "dead"}
\* The lock is lost before or after its holder has a generation; the lease or
\* the heartbeat of a live owner is; a process dies.
Mishaps == {"early", "lock", "lease", "crash"}
NoRow == [status |-> "none", number |-> 0, fresh |-> FALSE]

Beating(w) == pc[w] \in {"idle", "ticking"} /\ ~lost[w]
Alive(w) == pc[w] \notin {"off", "dead"}

\* _lease_owner_is_stale: without a row, not ACTIVE, or not heard of for long.
LeaseOwnerIsStale(w) == rows[w].status # "ACTIVE" \/ ~rows[w].fresh

Spent == mishaps["early"] + mishaps["lock"] + mishaps["lease"] + mishaps["crash"]
Mishap(kind) == Spent < MaxMishaps /\ mishaps' = [mishaps EXCEPT ![kind] = @ + 1]

Init ==
    /\ pc = [w \in Workers |-> "off"]
    /\ existing = [w \in Workers |-> NoWorker]
    /\ seen = [w \in Workers |-> 0]
    /\ lost = [w \in Workers |-> FALSE]
    /\ lock = NoWorker
    /\ lease = NoWorker
    /\ generation = 0
    /\ rows = [w \in Workers |-> NoRow]
    /\ writer = 0
    /\ mishaps = [k \in Mishaps |-> 0]

-----------------------------------------------------------------------------
(* Starting: lock, lease, generation. *)

\* Mutant: a start that ignores what pg_try_advisory_lock returned.
AcquireAuthorityAnyway(w) ==
    /\ pc[w] = "off"
    /\ lock' = IF lock = NoWorker THEN w ELSE lock
    /\ pc' = [pc EXCEPT ![w] = "locked"]
    /\ UNCHANGED <<existing, seen, lost, lease, generation, rows, writer, mishaps>>

AcquireAuthority(w) ==
    /\ pc[w] = "off"
    /\ lock = NoWorker
    /\ lock' = w
    /\ pc' = [pc EXCEPT ![w] = "locked"]
    /\ UNCHANGED <<existing, seen, lost, lease, generation, rows, writer, mishaps>>

\* SET NX on a free lease.
AcquireLease(w) ==
    /\ pc[w] = "locked"
    /\ lease = NoWorker
    /\ lease' = w
    /\ pc' = [pc EXCEPT ![w] = "leased"]
    /\ UNCHANGED <<existing, seen, lost, lock, generation, rows, writer, mishaps>>

\* Mutant: a successor that trusts the advisory lock alone.
JudgeLeaseTaken(w) ==
    /\ pc[w] = "locked"
    /\ lease \notin {NoWorker, w}
    /\ existing' = [existing EXCEPT ![w] = lease]
    /\ pc' = [pc EXCEPT ![w] = "reclaiming"]
    /\ UNCHANGED <<seen, lost, lock, lease, generation, rows, writer, mishaps>>

\* The owner's row is read in a transaction of its own; what it says may be
\* out of date when the reclaim script runs.
JudgeLease(w) ==
    /\ pc[w] = "locked"
    /\ lease \notin {NoWorker, w}
    /\ LeaseOwnerIsStale(lease)
    /\ existing' = [existing EXCEPT ![w] = lease]
    /\ pc' = [pc EXCEPT ![w] = "reclaiming"]
    /\ UNCHANGED <<seen, lost, lock, lease, generation, rows, writer, mishaps>>

Reclaim(w) ==
    /\ pc[w] = "reclaiming"
    /\ IF lease = existing[w]
       THEN lease' = w /\ pc' = [pc EXCEPT ![w] = "leased"]
       ELSE pc' = [pc EXCEPT ![w] = "locked"] /\ UNCHANGED lease
    /\ existing' = [existing EXCEPT ![w] = NoWorker]
    /\ UNCHANGED <<seen, lost, lock, generation, rows, writer, mishaps>>

\* The environment row is read before it is locked, and the lock reads nothing.
ReadGeneration(w) ==
    /\ pc[w] = "leased"
    /\ seen' = [seen EXCEPT ![w] = generation]
    /\ pc' = [pc EXCEPT ![w] = "counting"]
    /\ UNCHANGED <<existing, lost, lock, lease, generation, rows, writer, mishaps>>

Registered(w) == [status |-> "ACTIVE", number |-> seen[w] + 1, fresh |-> TRUE]

\* What the transaction of _start_generation writes.
Registers(w, older) ==
    /\ rows' = [x \in Workers |->
                  IF x = w THEN Registered(w)
                  ELSE IF rows[x].status = "ACTIVE" THEN [rows[x] EXCEPT !.status = older]
                  ELSE rows[x]]
    /\ seen' = [seen EXCEPT ![w] = 0]
    /\ pc' = [pc EXCEPT ![w] = "idle"]
    /\ UNCHANGED <<existing, lost, lock, lease, writer, mishaps>>

\* Mutant: a start that leaves the older generations as they are.
StartGenerationBeside(w) ==
    /\ pc[w] = "counting" /\ seen[w] = generation
    /\ generation' = seen[w] + 1
    /\ Registers(w, "ACTIVE")

StartGeneration(w) ==
    /\ pc[w] = "counting" /\ seen[w] = generation
    /\ generation' = seen[w] + 1
    /\ Registers(w, "STALE")

\* SystemExit closes the connection that holds the lock; the lease stays.
Release(w) == lock' = IF lock = w THEN NoWorker ELSE lock

\* Another worker has registered the number in between: the unique constraint
\* aborts the transaction, and the exception ends the process.
StartRefused(w) ==
    /\ pc[w] = "counting" /\ seen[w] # generation
    /\ seen' = [seen EXCEPT ![w] = 0]
    /\ pc' = [pc EXCEPT ![w] = "dead"]
    /\ Release(w)
    /\ UNCHANGED <<existing, lost, lease, generation, rows, writer, mishaps>>

-----------------------------------------------------------------------------
(* The main loop and the heartbeat thread. *)

BeginTick(w) ==
    /\ pc[w] = "idle"
    /\ ~lost[w]
    /\ lease = w
    /\ rows[w].status = "ACTIVE"
    /\ rows' = [rows EXCEPT ![w].fresh = TRUE]
    /\ pc' = [pc EXCEPT ![w] = "ticking"]
    /\ UNCHANGED <<existing, seen, lost, lock, lease, generation, writer, mishaps>>

Command(w) ==
    /\ pc[w] = "ticking"
    /\ writer' = rows[w].number
    /\ UNCHANGED <<pc, existing, seen, lost, lock, lease, generation, rows, mishaps>>

EndTick(w) ==
    /\ pc[w] = "ticking"
    /\ pc' = [pc EXCEPT ![w] = "idle"]
    /\ UNCHANGED <<existing, seen, lost, lock, lease, generation, rows, writer, mishaps>>

\* Mutant: a loop that reports the exception and goes on.
ExitReported(w) ==
    /\ pc[w] = "idle"
    /\ lost[w] \/ lease # w
    /\ UNCHANGED vars

Exit(w) ==
    /\ pc[w] = "idle"
    /\ lost[w] \/ lease # w
    /\ pc' = [pc EXCEPT ![w] = "dead"]
    /\ Release(w)
    /\ UNCHANGED <<existing, seen, lost, lease, generation, rows, writer, mishaps>>

MaintainAuthority(w) ==
    /\ Beating(w)
    /\ IF lease = w /\ rows[w].status = "ACTIVE"
       THEN rows' = [rows EXCEPT ![w].fresh = TRUE] /\ UNCHANGED lost
       ELSE lost' = [lost EXCEPT ![w] = TRUE] /\ UNCHANGED rows
    /\ UNCHANGED <<pc, existing, seen, lock, lease, generation, writer, mishaps>>

-----------------------------------------------------------------------------
(* Time.  While the heartbeat thread of a worker beats, only lateness lets *)
(* its lease or its heartbeat run out; after that nothing renews them.     *)

MayRunOut(w) ==
    IF Beating(w) \/ pc[w] \in {"leased", "counting"} THEN Mishap("lease")
    ELSE UNCHANGED mishaps

LeaseExpires ==
    /\ lease # NoWorker
    /\ MayRunOut(lease)
    /\ lease' = NoWorker
    /\ UNCHANGED <<pc, existing, seen, lost, lock, generation, rows, writer>>

HeartbeatAges(w) ==
    /\ rows[w].fresh
    /\ MayRunOut(w)
    /\ rows' = [rows EXCEPT ![w].fresh = FALSE]
    /\ UNCHANGED <<pc, existing, seen, lost, lock, lease, generation, writer>>

(* Mishaps. *)

\* The connection of the lock ends: nothing tells the worker.
LockLost ==
    /\ lock # NoWorker
    /\ Mishap(IF rows[lock].status = "none" THEN "early" ELSE "lock")
    /\ lock' = NoWorker
    /\ UNCHANGED <<pc, existing, seen, lost, lease, generation, rows, writer>>

\* Redis restarts without its keys.
LeaseLost ==
    /\ lease # NoWorker
    /\ Mishap("lease")
    /\ lease' = NoWorker
    /\ UNCHANGED <<pc, existing, seen, lost, lock, generation, rows, writer>>

\* A store does not answer the heartbeat thread, which gives up for good.
HeartbeatFails(w) ==
    /\ Beating(w)
    /\ Mishap("lease")
    /\ lost' = [lost EXCEPT ![w] = TRUE]
    /\ UNCHANGED <<pc, existing, seen, lock, lease, generation, rows, writer>>

Crash(w) ==
    /\ Alive(w)
    /\ Mishap("crash")
    /\ pc' = [pc EXCEPT ![w] = "dead"]
    /\ existing' = [existing EXCEPT ![w] = NoWorker]
    /\ seen' = [seen EXCEPT ![w] = 0]
    /\ Release(w)
    /\ UNCHANGED <<lost, lease, generation, rows, writer>>

\* The container starts again, under a worker_id no store knows.
Restart(w) ==
    /\ pc[w] = "dead"
    /\ rows[w].status # "ACTIVE"
    /\ lease # w
    /\ \A x \in Workers : existing[x] # w
    /\ pc' = [pc EXCEPT ![w] = "off"]
    /\ lost' = [lost EXCEPT ![w] = FALSE]
    /\ rows' = [rows EXCEPT ![w] = NoRow]
    /\ UNCHANGED <<existing, seen, lock, lease, generation, writer, mishaps>>

Main(w) ==
    \/ AcquireAuthority(w) \/ AcquireLease(w) \/ JudgeLease(w) \/ Reclaim(w)
    \/ ReadGeneration(w) \/ StartGeneration(w) \/ StartRefused(w)
    \/ BeginTick(w) \/ EndTick(w) \/ Exit(w) \/ Restart(w)

Next ==
    \/ \E w \in Workers : Main(w) \/ Command(w) \/ MaintainAuthority(w)
                          \/ HeartbeatAges(w) \/ HeartbeatFails(w) \/ Crash(w)
    \/ LeaseExpires \/ LockLost \/ LeaseLost

Spec == Init /\ [][Next]_vars

\* Threads of a live process run, containers restart, clocks go on.
FairSpec ==
    /\ Spec
    /\ \A w \in Workers : WF_vars(Main(w)) /\ WF_vars(MaintainAuthority(w))
    /\ \A w \in Workers : WF_vars(HeartbeatAges(w) /\ ~Beating(w))
    /\ WF_vars(LeaseExpires /\ ~Beating(lease))

-----------------------------------------------------------------------------
(* Properties. *)

TypeOK ==
    /\ pc \in [Workers -> Phases]
    /\ existing \in [Workers -> Workers \cup {NoWorker}]
    /\ seen \in [Workers -> Nat]
    /\ lost \in [Workers -> BOOLEAN]
    /\ lock \in Workers \cup {NoWorker}
    /\ lease \in Workers \cup {NoWorker}
    /\ generation \in Nat
    /\ rows \in [Workers -> [status : {"none", "ACTIVE", "STALE"}, number : Nat,
                             fresh : BOOLEAN]]
    /\ writer \in 0..generation
    /\ mishaps \in [Mishaps -> Nat]

\* At most one generation is ACTIVE and it is the newest, whatever happens to
\* the lock, the lease and the workers: a worker that lost its authority can
\* always be told from its successor (_start_generation).
NewestGenerationActive ==
    \A w \in Workers : rows[w].status = "ACTIVE" => rows[w].number = generation

Excused ==
    \/ mishaps["early"] > 0
    \/ mishaps["lock"] > 0 /\ mishaps["lease"] > 0

\* Two workers are inside a tick only after two losses, of the advisory lock
\* and of a lease or heartbeat, or after the lock was lost during a start: no
\* crash, lateness, outage or lost connection of a started worker alone lets
\* two workers command HAProxy (start, _acquire_lease, tick).
OverlapNeedsTwoLosses ==
    \A w, x \in Workers : pc[w] = "ticking" /\ pc[x] = "ticking" /\ w # x => Excused

\* HAProxy obeys an older generation after a newer one only after such losses:
\* the socket itself compares nothing (_start_generation, tick).
CommandsInOrder == [][writer' >= writer \/ Excused]_vars

\* After any bounded series of mishaps some worker ticks again and again: no
\* stale lease, dead owner or half-started worker keeps the others out for ever
\* (_acquire_lease, _lease_owner_is_stale, the container's restart policy).
AuthorityReturns == []<>(\E w \in Workers : pc[w] = "ticking")

=============================================================================
