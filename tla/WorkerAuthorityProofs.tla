------------------------ MODULE WorkerAuthorityProofs ------------------------
(***************************************************************************)
(* For every set of worker processes and any number of mishaps: types, one *)
(* newest ACTIVE generation, and, unless the lock was lost during a start  *)
(* or both guards were lost, neither two workers inside a tick nor a       *)
(* command of an older generation after one of a newer.                    *)
(*                                                                         *)
(* The argument has two halves.  As long as no lock was lost, every live   *)
(* worker holds it, so there is one (LockGuards).  As long as no lease and *)
(* no heartbeat was lost, every started worker holds the lease and the     *)
(* ACTIVE generation with a fresh heartbeat, and whoever is being replaced *)
(* is dead, so there is one as well (LeaseGuards).                         *)
(***************************************************************************)
EXTENDS WorkerAuthority, TLAPS

Starting(w) == pc[w] \in {"locked", "reclaiming", "leased", "counting"}
Running(w) == pc[w] \in {"idle", "ticking"}

NoEarly == mishaps["early"] = 0
LockKept == NoEarly /\ mishaps["lock"] = 0
LeaseKept == NoEarly /\ mishaps["lease"] = 0

\* A process that has not started its generation has no row and is not lost.
Unregistered ==
    \A w \in Workers : Starting(w) \/ pc[w] = "off" => rows[w] = NoRow /\ ~lost[w]

Numbers ==
    \A w \in Workers : rows[w].status = "ACTIVE" => rows[w].number = generation

\* Every row has a number some generation had.
Bounded == \A w \in Workers : rows[w].number <= generation

LeaseOwner ==
    \A w \in Workers : lease = w => pc[w] \in {"leased", "counting", "idle", "ticking", "dead"}

StartsAlone == NoEarly => \A w \in Workers : Starting(w) => lock = w

LockGuards ==
    LockKept => \A w \in Workers : /\ Alive(w) => lock = w
                                   /\ Running(w) => rows[w].status = "ACTIVE"

LeaseGuards ==
    LeaseKept => \A w \in Workers :
        /\ Running(w) => ~lost[w] /\ lease = w /\ rows[w].status = "ACTIVE" /\ rows[w].fresh
        /\ pc[w] \in {"leased", "counting"} => lease = w
        /\ existing[w] # NoWorker => pc[existing[w]] = "dead"

IInv ==
    /\ TypeOK /\ Numbers /\ Bounded
    /\ Unregistered /\ LeaseOwner /\ StartsAlone /\ LockGuards /\ LeaseGuards

-----------------------------------------------------------------------------
\* The first state.
LEMMA InitInv == Init => IInv
BY AuthorityAssumption
DEF Init, IInv, TypeOK, Phases, Mishaps, NoRow, Numbers, Bounded, Unregistered, LeaseOwner,
    StartsAlone, LockGuards, LeaseGuards, Starting, Running, Alive, NoEarly, LockKept, LeaseKept

LEMMA AcquireAuthorityKeeps == ASSUME IInv, NEW w \in Workers, AcquireAuthority(w) PROVE IInv'
<1>1. TypeOK'
  BY DEF IInv, AcquireAuthority, TypeOK, Phases, Mishaps, Bounded
<1>2. Numbers' /\ Bounded'
  BY DEF IInv, AcquireAuthority, TypeOK, Numbers, Bounded
<1>3. Unregistered' /\ LeaseOwner' /\ StartsAlone'
  BY AuthorityAssumption DEF IInv, AcquireAuthority, TypeOK, Unregistered, LeaseOwner,
     StartsAlone, Starting, NoEarly
<1>4. LockGuards'
  BY AuthorityAssumption DEF IInv, AcquireAuthority, TypeOK, LockGuards, Running, Alive,
     NoEarly, LockKept
<1>5. LeaseGuards'
  BY DEF IInv, AcquireAuthority, TypeOK, LeaseGuards, Running, NoEarly, LeaseKept
<1> QED BY <1>1, <1>2, <1>3, <1>4, <1>5 DEF IInv

LEMMA AcquireLeaseKeeps == ASSUME IInv, NEW w \in Workers, AcquireLease(w) PROVE IInv'
<1>1. TypeOK'
  BY DEF IInv, AcquireLease, TypeOK, Phases, Mishaps, Bounded
<1>2. Numbers' /\ Bounded'
  BY DEF IInv, AcquireLease, TypeOK, Numbers, Bounded
<1>3. Unregistered' /\ LeaseOwner' /\ StartsAlone'
  BY DEF IInv, AcquireLease, TypeOK, Unregistered, LeaseOwner, StartsAlone, Starting,
     NoEarly
<1>4. LockGuards'
  BY DEF IInv, AcquireLease, TypeOK, LockGuards, Running, Alive, NoEarly, LockKept
<1>5. LeaseGuards'
  BY AuthorityAssumption DEF IInv, AcquireLease, TypeOK, LeaseGuards, Running, NoEarly,
     LeaseKept
<1> QED BY <1>1, <1>2, <1>3, <1>4, <1>5 DEF IInv

LEMMA JudgeLeaseKeeps == ASSUME IInv, NEW w \in Workers, JudgeLease(w) PROVE IInv'
<1>1. TypeOK'
  BY DEF IInv, JudgeLease, LeaseOwnerIsStale, TypeOK, Phases, Mishaps, Bounded
<1>2. Numbers' /\ Bounded'
  BY DEF IInv, JudgeLease, LeaseOwnerIsStale, TypeOK, Numbers, Bounded
<1>3. Unregistered' /\ LeaseOwner' /\ StartsAlone'
  BY DEF IInv, JudgeLease, LeaseOwnerIsStale, TypeOK, Unregistered, LeaseOwner,
     StartsAlone, Starting, NoEarly
<1>4. LockGuards'
  BY DEF IInv, JudgeLease, LeaseOwnerIsStale, TypeOK, LockGuards, Running, Alive,
     NoEarly, LockKept
<1>5. LeaseGuards'
  BY DEF IInv, JudgeLease, LeaseOwnerIsStale, TypeOK, LeaseGuards, LeaseOwner,
     StartsAlone, Starting, Running, NoEarly, LeaseKept
<1> QED BY <1>1, <1>2, <1>3, <1>4, <1>5 DEF IInv

LEMMA ReclaimKeeps == ASSUME IInv, NEW w \in Workers, Reclaim(w) PROVE IInv'
<1>1. TypeOK'
  BY DEF IInv, Reclaim, TypeOK, Phases, Mishaps, Bounded
<1>2. Numbers' /\ Bounded'
  BY DEF IInv, Reclaim, TypeOK, Numbers, Bounded
<1>3. Unregistered' /\ LeaseOwner' /\ StartsAlone'
  BY DEF IInv, Reclaim, TypeOK, Mishaps, Unregistered, LeaseOwner, StartsAlone,
     Starting, NoEarly
<1>4. LockGuards'
  BY DEF IInv, Reclaim, TypeOK, LockGuards, Running, Alive, NoEarly, LockKept
<1>5. LeaseGuards'
  BY AuthorityAssumption DEF IInv, Reclaim, TypeOK, LeaseGuards, Running, NoEarly,
     LeaseKept
<1> QED BY <1>1, <1>2, <1>3, <1>4, <1>5 DEF IInv

LEMMA ReadGenerationKeeps == ASSUME IInv, NEW w \in Workers, ReadGeneration(w) PROVE IInv'
<1>1. TypeOK'
  BY DEF IInv, ReadGeneration, TypeOK, Phases, Mishaps, Bounded
<1>2. Numbers' /\ Bounded'
  BY DEF IInv, ReadGeneration, TypeOK, Numbers, Bounded
<1>3. Unregistered' /\ LeaseOwner' /\ StartsAlone'
  BY DEF IInv, ReadGeneration, TypeOK, Unregistered, LeaseOwner, StartsAlone, Starting,
     NoEarly
<1>4. LockGuards'
  BY DEF IInv, ReadGeneration, TypeOK, LockGuards, Running, Alive, NoEarly, LockKept
<1>5. LeaseGuards'
  BY DEF IInv, ReadGeneration, TypeOK, Mishaps, LeaseGuards, LeaseOwner, StartsAlone,
     Unregistered, Starting, Running, NoEarly, LeaseKept
<1> QED BY <1>1, <1>2, <1>3, <1>4, <1>5 DEF IInv

LEMMA StartGenerationKeeps == ASSUME IInv, NEW w \in Workers, StartGeneration(w) PROVE IInv'
<1>1. TypeOK'
  BY DEF IInv, StartGeneration, Registers, Registered, TypeOK, Phases, Mishaps, Bounded
<1>2. Numbers' /\ Bounded'
  BY DEF IInv, StartGeneration, Registers, Registered, TypeOK, Numbers, Bounded
<1>3. Unregistered' /\ LeaseOwner' /\ StartsAlone'
  <2>1. ASSUME NEW x \in Workers, Starting(x)' \/ pc'[x] = "off"
        PROVE  rows'[x] = NoRow /\ ~lost'[x]
    <3>1. x # w /\ (Starting(x) \/ pc[x] = "off")
      BY <2>1 DEF IInv, TypeOK, StartGeneration, Registers, Registered, Starting
    <3>2. rows[x] = NoRow /\ ~lost[x]
      BY <3>1 DEF IInv, Unregistered
    <3> QED BY <3>1, <3>2 DEF StartGeneration, Registers, Registered, NoRow
  <2>2. LeaseOwner' /\ StartsAlone'
    BY DEF IInv, StartGeneration, Registers, Registered, TypeOK, LeaseOwner,
       StartsAlone, Starting, NoEarly
  <2> QED BY <2>1, <2>2 DEF Unregistered
<1>4. LockGuards'
  BY DEF IInv, StartGeneration, Registers, Registered, TypeOK, LockGuards, Running,
     Alive, NoEarly, LockKept
<1>5. LeaseGuards'
  BY DEF IInv, StartGeneration, Registers, Registered, TypeOK, LeaseGuards,
     Unregistered, Starting, Running, NoEarly, LeaseKept
<1> QED BY <1>1, <1>2, <1>3, <1>4, <1>5 DEF IInv

LEMMA StartRefusedKeeps == ASSUME IInv, NEW w \in Workers, StartRefused(w) PROVE IInv'
<1>1. TypeOK'
  BY DEF IInv, StartRefused, Release, TypeOK, Phases, Mishaps, Bounded
<1>2. Numbers' /\ Bounded'
  BY DEF IInv, StartRefused, Release, TypeOK, Numbers, Bounded
<1>3. Unregistered' /\ LeaseOwner' /\ StartsAlone'
  BY DEF IInv, StartRefused, TypeOK, Unregistered, LeaseOwner, StartsAlone, Starting,
     NoEarly
<1>4. LockGuards'
  BY DEF IInv, StartRefused, TypeOK, LockGuards, Running, Alive, NoEarly, LockKept
<1>5. LeaseGuards'
  BY DEF IInv, StartRefused, TypeOK, LeaseGuards, Running, NoEarly, LeaseKept
<1> QED BY <1>1, <1>2, <1>3, <1>4, <1>5 DEF IInv

LEMMA BeginTickKeeps == ASSUME IInv, NEW w \in Workers, BeginTick(w) PROVE IInv'
<1>1. TypeOK'
  BY DEF IInv, BeginTick, TypeOK, Phases, Mishaps, Bounded
<1>2. Numbers' /\ Bounded'
  BY DEF IInv, BeginTick, TypeOK, Numbers, Bounded
<1>3. Unregistered' /\ LeaseOwner' /\ StartsAlone'
  BY DEF IInv, BeginTick, TypeOK, Mishaps, Unregistered, LeaseOwner, StartsAlone,
     Starting, NoEarly
<1>4. LockGuards'
  BY DEF IInv, BeginTick, TypeOK, LockGuards, Running, Alive, NoEarly, LockKept
<1>5. LeaseGuards'
  BY DEF IInv, BeginTick, TypeOK, LeaseGuards, Running, NoEarly, LeaseKept
<1> QED BY <1>1, <1>2, <1>3, <1>4, <1>5 DEF IInv

LEMMA EndTickKeeps == ASSUME IInv, NEW w \in Workers, EndTick(w) PROVE IInv'
<1>1. TypeOK'
  BY DEF IInv, EndTick, TypeOK, Phases, Mishaps, Bounded
<1>2. Numbers' /\ Bounded'
  BY DEF IInv, EndTick, TypeOK, Numbers, Bounded
<1>3. Unregistered' /\ LeaseOwner' /\ StartsAlone'
  BY DEF IInv, EndTick, TypeOK, Mishaps, Unregistered, LeaseOwner, StartsAlone,
     Starting, NoEarly
<1>4. LockGuards'
  BY DEF IInv, EndTick, TypeOK, LockGuards, Running, Alive, NoEarly, LockKept
<1>5. LeaseGuards'
  BY DEF IInv, EndTick, TypeOK, LeaseGuards, Running, NoEarly, LeaseKept
<1> QED BY <1>1, <1>2, <1>3, <1>4, <1>5 DEF IInv

LEMMA ExitKeeps == ASSUME IInv, NEW w \in Workers, Exit(w) PROVE IInv'
<1>1. TypeOK'
  BY DEF IInv, Exit, Release, TypeOK, Phases, Mishaps, Bounded
<1>2. Numbers' /\ Bounded'
  BY DEF IInv, Exit, Release, TypeOK, Numbers, Bounded
<1>3. Unregistered' /\ LeaseOwner' /\ StartsAlone'
  BY DEF IInv, Exit, Release, TypeOK, Unregistered, LeaseOwner, StartsAlone, Starting,
     NoEarly
<1>4. LockGuards'
  BY DEF IInv, Exit, TypeOK, LockGuards, Running, Alive, NoEarly, LockKept
<1>5. LeaseGuards'
  BY DEF IInv, Exit, TypeOK, LeaseGuards, Running, NoEarly, LeaseKept
<1> QED BY <1>1, <1>2, <1>3, <1>4, <1>5 DEF IInv

LEMMA RestartKeeps == ASSUME IInv, NEW w \in Workers, Restart(w) PROVE IInv'
<1>1. TypeOK'
  BY DEF IInv, Restart, TypeOK, Phases, Mishaps, NoRow, Bounded
<1>2. Numbers' /\ Bounded'
  BY DEF IInv, Restart, TypeOK, NoRow, Numbers, Bounded
<1>3. Unregistered' /\ LeaseOwner' /\ StartsAlone'
  BY DEF IInv, Restart, TypeOK, Mishaps, Unregistered, LeaseOwner, StartsAlone,
     Starting, NoEarly
<1>4. LockGuards'
  BY DEF IInv, Restart, TypeOK, LockGuards, Running, Alive, NoEarly, LockKept
<1>5. LeaseGuards'
  BY DEF IInv, Restart, TypeOK, LeaseGuards, Running, NoEarly, LeaseKept
<1> QED BY <1>1, <1>2, <1>3, <1>4, <1>5 DEF IInv

LEMMA CommandKeeps == ASSUME IInv, NEW w \in Workers, Command(w) PROVE IInv'
<1>1. TypeOK'
  BY DEF IInv, Command, TypeOK, Phases, Mishaps, Bounded
<1>2. Numbers' /\ Bounded'
  BY DEF IInv, Command, TypeOK, Numbers, Bounded
<1>3. Unregistered' /\ LeaseOwner' /\ StartsAlone'
  BY DEF IInv, Command, TypeOK, Mishaps, Unregistered, LeaseOwner, StartsAlone,
     Starting, NoEarly
<1>4. LockGuards'
  BY DEF IInv, Command, TypeOK, LockGuards, Running, Alive, NoEarly, LockKept
<1>5. LeaseGuards'
  BY DEF IInv, Command, TypeOK, LeaseGuards, Running, NoEarly, LeaseKept
<1> QED BY <1>1, <1>2, <1>3, <1>4, <1>5 DEF IInv

LEMMA MaintainAuthorityKeeps == ASSUME IInv, NEW w \in Workers, MaintainAuthority(w) PROVE IInv'
<1>1. TypeOK'
  <2>1. rows' \in [Workers -> [status : {"none", "ACTIVE", "STALE"}, number : Nat,
                             fresh : BOOLEAN]]
    <3>1. CASE lease = w /\ rows[w].status = "ACTIVE"
      <4>1. rows' = [rows EXCEPT ![w].fresh = TRUE]
        BY <3>1 DEF MaintainAuthority
      <4> QED BY <4>1 DEF IInv, TypeOK
    <3>2. CASE ~(lease = w /\ rows[w].status = "ACTIVE")
      BY <3>2 DEF IInv, MaintainAuthority, TypeOK
    <3> QED BY <3>1, <3>2
  <2>2. lost' \in [Workers -> BOOLEAN]
    BY Zenon DEF IInv, MaintainAuthority, TypeOK
  <2> QED BY <2>1, <2>2 DEF IInv, MaintainAuthority, TypeOK
<1>2. Numbers' /\ Bounded'
  BY DEF IInv, MaintainAuthority, Beating, TypeOK, Numbers, Bounded
<1>3. Unregistered' /\ LeaseOwner' /\ StartsAlone'
  BY DEF IInv, MaintainAuthority, Beating, TypeOK, Unregistered, LeaseOwner,
     StartsAlone, Starting, NoEarly
<1>4. LockGuards'
  BY DEF IInv, MaintainAuthority, TypeOK, LockGuards, Running, Alive, NoEarly, LockKept
<1>5. LeaseGuards'
  BY DEF IInv, MaintainAuthority, TypeOK, LeaseGuards, Running, NoEarly, LeaseKept
<1> QED BY <1>1, <1>2, <1>3, <1>4, <1>5 DEF IInv

LEMMA HeartbeatAgesKeeps == ASSUME IInv, NEW w \in Workers, HeartbeatAges(w) PROVE IInv'
<1>1. TypeOK'
  <2>1. rows' \in [Workers -> [status : {"none", "ACTIVE", "STALE"}, number : Nat,
                             fresh : BOOLEAN]]
    BY DEF IInv, HeartbeatAges, TypeOK
  <2>2. mishaps' \in [Mishaps -> Nat]
    BY DEF IInv, HeartbeatAges, MayRunOut, Mishap, TypeOK, Mishaps
  <2> QED BY <2>1, <2>2 DEF IInv, HeartbeatAges, TypeOK
<1>2. Numbers' /\ Bounded'
  BY DEF IInv, HeartbeatAges, MayRunOut, Mishap, Beating, TypeOK, Numbers, Bounded
<1>3. Unregistered' /\ LeaseOwner' /\ StartsAlone'
  <2>1. rows[w] # NoRow /\ \A x \in Workers : x # w => rows'[x] = rows[x]
    BY DEF IInv, HeartbeatAges, TypeOK, NoRow
  <2>2. Unregistered'
    BY <2>1 DEF IInv, HeartbeatAges, Unregistered, Starting
  <2>3. NoEarly' => NoEarly
    BY DEF IInv, HeartbeatAges, MayRunOut, Mishap, TypeOK, Mishaps, NoEarly
  <2> QED BY <2>2, <2>3 DEF IInv, HeartbeatAges, LeaseOwner, StartsAlone, Starting
<1>4. LockGuards'
  BY DEF IInv, HeartbeatAges, MayRunOut, Mishap, TypeOK, Mishaps, LockGuards, Running,
     Alive, NoEarly, LockKept
<1>5. LeaseGuards'
  BY DEF IInv, HeartbeatAges, MayRunOut, Mishap, Beating, TypeOK, Mishaps, LeaseGuards,
     Running, NoEarly, LeaseKept
<1> QED BY <1>1, <1>2, <1>3, <1>4, <1>5 DEF IInv

LEMMA HeartbeatFailsKeeps == ASSUME IInv, NEW w \in Workers, HeartbeatFails(w) PROVE IInv'
<1>1. TypeOK'
  BY DEF IInv, HeartbeatFails, Mishap, Beating, TypeOK, Phases, Mishaps, Bounded
<1>2. Numbers' /\ Bounded'
  BY DEF IInv, HeartbeatFails, Mishap, Beating, TypeOK, Numbers, Bounded
<1>3. Unregistered' /\ LeaseOwner' /\ StartsAlone'
  BY DEF IInv, HeartbeatFails, Mishap, Beating, TypeOK, Unregistered, LeaseOwner,
     StartsAlone, Starting, NoEarly
<1>4. LockGuards'
  BY DEF IInv, HeartbeatFails, Mishap, TypeOK, LockGuards, Running, Alive, NoEarly,
     LockKept
<1>5. LeaseGuards'
  BY DEF IInv, HeartbeatFails, Mishap, TypeOK, Mishaps, LeaseGuards, LeaseKept
<1> QED BY <1>1, <1>2, <1>3, <1>4, <1>5 DEF IInv

LEMMA CrashKeeps == ASSUME IInv, NEW w \in Workers, Crash(w) PROVE IInv'
<1>1. TypeOK'
  BY DEF IInv, Crash, Release, Mishap, TypeOK, Phases, Mishaps, Bounded
<1>2. Numbers' /\ Bounded'
  BY DEF IInv, Crash, Release, Mishap, TypeOK, Numbers, Bounded
<1>3. Unregistered' /\ LeaseOwner' /\ StartsAlone'
  BY DEF IInv, Crash, Release, Mishap, TypeOK, Unregistered, LeaseOwner, StartsAlone,
     Starting, NoEarly
<1>4. LockGuards'
  BY DEF IInv, Crash, Mishap, TypeOK, LockGuards, Running, Alive, NoEarly, LockKept
<1>5. LeaseGuards'
  BY DEF IInv, Crash, Mishap, TypeOK, LeaseGuards, Running, NoEarly, LeaseKept
<1> QED BY <1>1, <1>2, <1>3, <1>4, <1>5 DEF IInv

LEMMA LeaseExpiresKeeps == ASSUME IInv, LeaseExpires PROVE IInv'
<1>1. TypeOK'
  BY DEF IInv, LeaseExpires, MayRunOut, Mishap, Beating, TypeOK, Phases, Mishaps, Bounded
<1>2. Numbers' /\ Bounded'
  BY DEF IInv, LeaseExpires, MayRunOut, Mishap, Beating, TypeOK, Numbers, Bounded
<1>3. Unregistered' /\ LeaseOwner' /\ StartsAlone'
  BY AuthorityAssumption DEF IInv, LeaseExpires, MayRunOut, Mishap, TypeOK, Mishaps,
     Unregistered, LeaseOwner, StartsAlone, Starting, NoEarly
<1>4. LockGuards'
  BY DEF IInv, LeaseExpires, MayRunOut, Mishap, TypeOK, Mishaps, LockGuards, Running,
     Alive, NoEarly, LockKept
<1>5. LeaseGuards'
  BY DEF IInv, LeaseExpires, MayRunOut, Mishap, Beating, TypeOK, Mishaps, LeaseGuards,
     Running, NoEarly, LeaseKept
<1> QED BY <1>1, <1>2, <1>3, <1>4, <1>5 DEF IInv

LEMMA LockLostKeeps == ASSUME IInv, LockLost PROVE IInv'
<1>1. TypeOK'
  BY DEF IInv, LockLost, Mishap, TypeOK, Phases, Mishaps, Bounded
<1>2. Numbers' /\ Bounded'
  BY DEF IInv, LockLost, Mishap, TypeOK, Numbers, Bounded
<1>3. Unregistered' /\ LeaseOwner' /\ StartsAlone'
  BY DEF IInv, LockLost, Mishap, TypeOK, Mishaps, NoRow, Unregistered, LeaseOwner,
     StartsAlone, Starting, NoEarly
<1>4. LockGuards'
  BY DEF IInv, LockLost, Mishap, TypeOK, Mishaps, LockGuards, NoEarly, LockKept
<1>5. LeaseGuards'
  BY DEF IInv, LockLost, Mishap, TypeOK, LeaseGuards, Running, NoEarly, LeaseKept
<1> QED BY <1>1, <1>2, <1>3, <1>4, <1>5 DEF IInv

LEMMA LeaseLostKeeps == ASSUME IInv, LeaseLost PROVE IInv'
<1>1. TypeOK'
  BY DEF IInv, LeaseLost, Mishap, TypeOK, Phases, Mishaps, Bounded
<1>2. Numbers' /\ Bounded'
  BY DEF IInv, LeaseLost, Mishap, TypeOK, Numbers, Bounded
<1>3. Unregistered' /\ LeaseOwner' /\ StartsAlone'
  BY AuthorityAssumption DEF IInv, LeaseLost, Mishap, TypeOK, Unregistered, LeaseOwner,
     StartsAlone, Starting, NoEarly
<1>4. LockGuards'
  BY DEF IInv, LeaseLost, Mishap, TypeOK, LockGuards, Running, Alive, NoEarly, LockKept
<1>5. LeaseGuards'
  BY DEF IInv, LeaseLost, Mishap, TypeOK, Mishaps, LeaseGuards, LeaseKept
<1> QED BY <1>1, <1>2, <1>3, <1>4, <1>5 DEF IInv

\* Every step keeps the invariant.
THEOREM Inductive == IInv /\ [Next]_vars => IInv'
<1> SUFFICES ASSUME IInv, [Next]_vars PROVE IInv'
  OBVIOUS
<1>1. ASSUME NEW w \in Workers, Main(w) PROVE IInv'
  BY <1>1, AcquireAuthorityKeeps, AcquireLeaseKeeps, JudgeLeaseKeeps, ReclaimKeeps,
     ReadGenerationKeeps, StartGenerationKeeps, StartRefusedKeeps, BeginTickKeeps,
     EndTickKeeps, ExitKeeps, RestartKeeps DEF Main
<1>2. ASSUME NEW w \in Workers,
             Command(w) \/ MaintainAuthority(w) \/ HeartbeatAges(w) \/ HeartbeatFails(w) \/ Crash(w)
      PROVE  IInv'
  BY <1>2, CommandKeeps, MaintainAuthorityKeeps, HeartbeatAgesKeeps,
     HeartbeatFailsKeeps, CrashKeeps
<1>3. CASE LeaseExpires \/ LockLost \/ LeaseLost
  BY <1>3, LeaseExpiresKeeps, LockLostKeeps, LeaseLostKeeps
<1>4. CASE UNCHANGED vars
  BY <1>4 DEF vars, IInv, TypeOK, Numbers, Bounded, Unregistered, LeaseOwner, StartsAlone,
     LockGuards, LeaseGuards, Starting, Running, Alive, NoEarly, LockKept, LeaseKept
<1> QED BY <1>1, <1>2, <1>3, <1>4 DEF Next

LEMMA Invariant == Spec => []IInv
BY InitInv, Inductive, PTL DEF Spec

\* Types, whatever happens to the stores and the workers.
THEOREM TypeCorrect == Spec => []TypeOK
<1>1. IInv => TypeOK
  BY DEF IInv
<1> QED BY <1>1, Invariant, PTL

\* A worker that lost its authority can always be told from its successor.
THEOREM NewestActive == Spec => []NewestGenerationActive
<1>1. IInv => NewestGenerationActive
  BY DEF IInv, Numbers, NewestGenerationActive
<1> QED BY <1>1, Invariant, PTL

\* Without the excuse one of the two guards is complete.
LEMMA OneGuardHolds == ASSUME IInv, ~Excused PROVE LockKept \/ LeaseKept
<1>1. mishaps \in [Mishaps -> Nat]
  BY DEF IInv, TypeOK
<1> QED BY <1>1 DEF Excused, LockKept, LeaseKept, NoEarly, Mishaps

\* No two workers inside a tick, for any number of workers and mishaps.
THEOREM NoOverlap == Spec => []OverlapNeedsTwoLosses
<1>1. ASSUME IInv PROVE OverlapNeedsTwoLosses
  <2> SUFFICES ASSUME NEW w \in Workers, NEW x \in Workers,
                      pc[w] = "ticking", pc[x] = "ticking", ~Excused
               PROVE  w = x
    BY DEF OverlapNeedsTwoLosses
  <2>1. CASE LockKept
    BY <1>1, <2>1 DEF IInv, LockGuards, Alive
  <2>2. CASE LeaseKept
    BY <1>1, <2>2 DEF IInv, LeaseGuards, Running
  <2> QED BY <1>1, <2>1, <2>2, OneGuardHolds
<1> QED BY <1>1, Invariant, PTL

\* HAProxy obeys the newest generation last, for any number of workers.
THEOREM InOrder == Spec => CommandsInOrder
<1>1. ASSUME IInv, [Next]_vars PROVE [writer' >= writer \/ Excused]_vars
  <2> SUFFICES ASSUME ~Excused PROVE writer' >= writer
    OBVIOUS
  <2>1. writer \in Nat /\ writer <= generation
    BY <1>1 DEF IInv, TypeOK
  <2>2. ASSUME NEW w \in Workers, Command(w) PROVE writer' >= writer
    <3>1. Running(w)
      BY <2>2 DEF Command, Running
    <3>2. rows[w].status = "ACTIVE"
      BY <1>1, <3>1, OneGuardHolds DEF IInv, LockGuards, LeaseGuards
    <3>3. writer' = generation
      BY <1>1, <2>2, <3>2 DEF IInv, Numbers, Command
    <3> QED BY <2>1, <3>3, <1>1 DEF IInv, TypeOK
  <2>3. ASSUME ~\E w \in Workers : Command(w) PROVE writer' = writer
    BY <1>1, <2>3 DEF Next, Main, vars, AcquireAuthority, AcquireLease, JudgeLease,
       Reclaim,
       ReadGeneration, StartGeneration, Registers, StartRefused, BeginTick, EndTick, Exit,
       Restart, MaintainAuthority, HeartbeatAges,
       HeartbeatFails, Crash, LeaseExpires, LockLost, LeaseLost
  <2> QED BY <2>1, <2>2, <2>3
<1>2. IInv /\ [Next]_vars => [writer' >= writer \/ Excused]_vars
  BY <1>1
<1> QED BY <1>2, Invariant, PTL DEF Spec, CommandsInOrder

=============================================================================
