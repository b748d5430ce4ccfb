---------------------------- MODULE FaultLabPage ----------------------------
(***************************************************************************)
(* The live fault lab of the console: LiveFaultLab (features/lab), the two *)
(* cached queries it decides by and its three mutations                    *)
(* (lib/api/operations.ts), against a server that goes on by itself.       *)
(*                                                                         *)
(* The page never sees the server, only answers.  A query is read again    *)
(* when its interval comes round, when an event arrives and after a        *)
(* mutation; the last two replace a read that is under way.  A mutation is *)
(* pending until the reads that follow its success have ended.  Leaving    *)
(* the page forgets its mutations, not their requests, and keeps the       *)
(* cache.  Mutations of a page are told apart by its visit.                *)
(*                                                                         *)
(* The server's side is what list_faults, create_fault, clear_fault and    *)
(* reset_lab (routers/operations.py) answer: one step each, but two for a  *)
(* clear, whose check the worker can overtake.  LabFaults has their        *)
(* transactions.                                                           *)
(***************************************************************************)
EXTENDS Naturals, FiniteSets

CONSTANTS
    MaxFaults,   \* faults ever created
    MaxIncidents,\* incidents ever opened
    MaxCommands, \* buttons pressed
    MaxVisits,   \* times the page is opened
    MaxMishaps,  \* failed reads, lost answers, conflicts with other operators
    Authorized   \* the operator may command the lab

ASSUME FaultLabAssumption ==
    /\ MaxFaults \in Nat /\ MaxIncidents \in Nat /\ MaxCommands \in Nat /\ MaxVisits \in Nat \ {0}
    /\ MaxMishaps \in Nat /\ Authorized \in BOOLEAN

VARIABLES
    server,    \* the newest fault, the revision of the fault list, the incident, the reset
    visit,     \* [on, number]: whether the page is open, and for which time
    cache,     \* what the page shows, per query
    fetch,     \* the read under way, per query
    mutation,  \* the mutations of the open page
    requests,  \* the commands on their way to or from the server
    owed,      \* the newest creation this page waits to see, 0 for none
    used       \* incidents, commands and mishaps so far

vars == <<server, visit, cache, fetch, mutation, requests, owed, used>>

Queries == {"faults", "summary"}
Kinds == {"create", "clear", "reset"}
Visits == 1..MaxVisits
\* The newest fault of the list; CLEARED, EXPIRED and FAILED are one here, and
\* so is a list without a fault.
Statuses == {"REQUESTED", "ACTIVE", "CLEAR_REQUESTED", "ENDED"}
Unfinished(status) == status # "ENDED"

\* What a read of the fault list or of the summary carries away.  Only the
\* newest fault changes: the revision of the list stands for its identity and
\* its version.
Snapshot(q) == IF q = "faults" THEN [rev |-> server.rev, status |-> server.status]
               ELSE [rev |-> 1, incident |-> server.incident]
Unread(q) == IF q = "faults" THEN [rev |-> 0, status |-> "ENDED"] ELSE [rev |-> 0, incident |-> FALSE]

Idle == [at |-> "idle", waits |-> {}]
NoRead(q) == [at |-> "idle", got |-> Unread(q)]

Init ==
    /\ server = [faults |-> 0, status |-> "ENDED", rev |-> 1, incident |-> FALSE, reset |-> FALSE]
    /\ visit = [on |-> TRUE, number |-> 1]
    /\ cache = [q \in Queries |-> [data |-> Unread(q), error |-> FALSE]]
    /\ fetch = [q \in Queries |-> NoRead(q)]
    /\ mutation = [k \in Kinds |-> Idle]
    /\ requests = {}
    /\ owed = 0
    /\ used = [incidents |-> 0, commands |-> 0, mishaps |-> 0]

Mishap == used.mishaps < MaxMishaps /\ used' = [used EXCEPT !.mishaps = @ + 1]

Data(q) == cache[q].data
Loaded(q) == Data(q).rev # 0
\* The shell always observes the summary, only the page the fault list.
Observed == IF visit.on THEN Queries ELSE {"summary"}

-----------------------------------------------------------------------------
(* The page. *)

OnScreen == visit.on /\ Loaded("faults") /\ ~cache["faults"].error

\* The first fault of the list that is not terminal.
ActiveShown == Unfinished(Data("faults").status)
IncidentShown == Data("summary").incident
IsPending(k) == mutation[k].at # "idle"

Blocked ==
    \/ ~Authorized \/ ~Loaded("summary")
    \/ ActiveShown \/ IncidentShown
    \/ IsPending("create") \/ IsPending("reset")

InjectEnabled == OnScreen /\ ~Blocked
ClearEnabled == OnScreen /\ ActiveShown /\ ~IsPending("clear") /\ Data("faults").status # "CLEAR_REQUESTED"
ResetEnabled == OnScreen /\ IncidentShown /\ Authorized /\ ~IsPending("reset")

-----------------------------------------------------------------------------
(* Reads. *)

Send(q) == [at |-> "sent", got |-> Unread(q)]

\* The interval of an observed query, or its mount; a read under way is kept.
Poll(q) ==
    /\ q \in Observed /\ fetch[q].at = "idle"
    /\ fetch' = [fetch EXCEPT ![q] = Send(q)]
    /\ UNCHANGED <<server, visit, cache, mutation, requests, owed, used>>

Read(q) ==
    /\ fetch[q].at = "sent"
    /\ \/ fetch' = [fetch EXCEPT ![q] = [at |-> "answered", got |-> Snapshot(q)]] /\ UNCHANGED used
       \/ Mishap /\ fetch' = [fetch EXCEPT ![q].at = "failed"]   \* the retry failed as well
    /\ UNCHANGED <<server, visit, cache, mutation, requests, owed>>

\* Mutations stop waiting for the reads of Q, and end when none is left.
Released(Q) ==
    [k \in Kinds |-> IF mutation[k].at = "refreshing" /\ mutation[k].waits \subseteq Q THEN Idle
                     ELSE [mutation[k] EXCEPT !.waits = @ \ Q]]

\* Mutant: a failed read empties the cache.
SettleForgets(q) ==
    /\ fetch[q].at \in {"answered", "failed"}
    /\ fetch' = [fetch EXCEPT ![q] = NoRead(q)]
    /\ cache' = [cache EXCEPT ![q] = [data |-> fetch[q].got, error |-> fetch[q].at = "failed" /\ q = "faults"]]
    /\ mutation' = Released({q})
    /\ UNCHANGED <<server, visit, requests, owed, used>>

\* Mutant: a failed read leaves the list on screen as if it had succeeded.
SettleQuietly(q) ==
    /\ fetch[q].at \in {"answered", "failed"}
    /\ fetch' = [fetch EXCEPT ![q] = NoRead(q)]
    /\ cache' = IF fetch[q].at = "answered" THEN [cache EXCEPT ![q] = [data |-> fetch[q].got, error |-> FALSE]]
                ELSE cache
    /\ mutation' = Released({q})
    /\ UNCHANGED <<server, visit, requests, owed, used>>

\* A failed read keeps the data and marks the query; the page asks only the
\* fault list for its mark.
Settle(q) ==
    /\ fetch[q].at \in {"answered", "failed"}
    /\ fetch' = [fetch EXCEPT ![q] = NoRead(q)]
    /\ cache' = IF fetch[q].at = "answered" THEN [cache EXCEPT ![q] = [data |-> fetch[q].got, error |-> FALSE]]
                ELSE [cache EXCEPT ![q].error = q = "faults"]
    /\ mutation' = Released({q})
    /\ UNCHANGED <<server, visit, requests, owed, used>>

\* Invalidation reads every observed query again.  A read under way is given
\* up when the query has data already, and is taken as it is when it has not.
Replaced == {q \in Observed : fetch[q].at # "idle" /\ Loaded(q)}
Refetched == [q \in Queries |-> IF q \in Observed /\ (fetch[q].at = "idle" \/ Loaded(q)) THEN Send(q) ELSE fetch[q]]

\* Whether who waited for a read that was given up waits for the new one or
\* for nothing is the query library's affair.
Invalidate ==
    /\ fetch' = Refetched
    /\ \E told \in {{}, Replaced} :
       /\ mutation' = Released(told)
       /\ owed' = IF told # {} /\ mutation["create"].at = "refreshing" THEN 0 ELSE owed

\* An event the page listens to arrives with its change or, lost, not at all:
\* a late one does what the next one does.
Hear(heard) == (heard /\ Invalidate) \/ UNCHANGED <<fetch, mutation, owed>>

-----------------------------------------------------------------------------
(* Commands. *)

Request(k) == [kind |-> k, visit |-> visit.number, at |-> "sent",
               rev |-> IF k = "clear" THEN Data("faults").rev ELSE 0]

Enabled(k) == (k = "create" /\ InjectEnabled) \/ (k = "clear" /\ ClearEnabled) \/ (k = "reset" /\ ResetEnabled)

\* The faults there may still be, creations on their way included.
Room == server.faults + Cardinality({r \in requests : r.kind = "create" /\ r.at = "sent"}) < MaxFaults

Click(k) ==
    /\ Enabled(k)
    /\ used.commands < MaxCommands /\ (k = "create" => Room)
    /\ used' = [used EXCEPT !.commands = @ + 1]
    /\ requests' = requests \cup {Request(k)}
    /\ mutation' = [mutation EXCEPT ![k] = [at |-> "pending", waits |-> {}]]
    /\ UNCHANGED <<server, visit, cache, fetch, owed>>

\* A change of the fault list makes a new revision of it.
Server(change) == server' = [change EXCEPT !.rev = IF change.status = server.status THEN @ ELSE @ + 1]

Accept(r) == requests' = (requests \ {r}) \cup {[r EXCEPT !.at = "accepted"]}

Own(r) == visit.on /\ r.visit = visit.number

\* Mutant: the mutation is left pending by an error.
FailPending(r) ==
    /\ requests' = requests \ {r}
    /\ UNCHANGED <<server, visit, cache, fetch, mutation, owed>>

\* The error is shown, nothing is invalidated, nothing is tried again.  What
\* the server refuses changes nothing there, so a refusal needs no way back.
Fail(r) ==
    /\ requests' = requests \ {r}
    /\ mutation' = IF Own(r) THEN [mutation EXCEPT ![r.kind] = Idle] ELSE mutation
    /\ UNCHANGED <<server, visit, cache, fetch, owed>>

\* Bound: no fault is created between the check and the write of a clear.  A
\* clear that reopens an older fault beside a newer one is left to LabFaults.
NoClearHeld == \A r \in requests : r.at # "checked"

\* create_fault refuses while a fault is unfinished; the page does not listen
\* to lab_fault_requested.
HandleCreate(r) ==
    /\ r.kind = "create" /\ r.at = "sent"
    /\ ~Unfinished(server.status) /\ NoClearHeld
    /\ Server([server EXCEPT !.faults = @ + 1, !.status = "REQUESTED"])
    /\ requests' = (requests \ {r}) \cup {[r EXCEPT !.at = "accepted", !.rev = server.rev + 1]}
    /\ UNCHANGED <<visit, cache, fetch, mutation, owed, used>>

\* clear_fault refuses another version than the one the page has shown, and a
\* terminal fault, as its transaction read the row.  The worker's pass may
\* change the row until it is written.
CheckClear(r) ==
    /\ r.kind = "clear" /\ r.at = "sent"
    /\ r.rev = server.rev /\ Unfinished(server.status)
    /\ requests' = (requests \ {r}) \cup {[r EXCEPT !.at = "checked"]}
    /\ UNCHANGED <<server, visit, cache, fetch, mutation, owed, used>>

\* The write is not told what changed: it overwrites an activation, and reopens
\* a fault that has ended.  Nor does the page listen to
\* lab_fault_clear_requested.
WriteClear(r) ==
    /\ r.kind = "clear" /\ r.at = "checked"
    /\ Server([server EXCEPT !.status = "CLEAR_REQUESTED"])
    /\ Accept(r)
    /\ UNCHANGED <<visit, cache, fetch, mutation, owed, used>>

HandleReset(r) ==
    /\ r.kind = "reset" /\ r.at = "sent" /\ ~server.reset
    /\ Server([server EXCEPT !.reset = TRUE])
    /\ Accept(r)
    /\ Hear(TRUE)
    /\ UNCHANGED <<visit, cache, used>>

Refuse(r) ==
    /\ r.at = "sent"
    /\ CASE r.kind = "create" -> Unfinished(server.status)
         [] r.kind = "clear" -> r.rev # server.rev \/ ~Unfinished(server.status)
         [] r.kind = "reset" -> server.reset
    /\ Fail(r) /\ UNCHANGED used

\* The request or its answer is lost; the server may have carried it out.
Lose(r) == r.at # "checked" /\ Mishap /\ Fail(r)

\* onSuccess awaits invalidateQueries(["environment", id]); a mutation whose
\* page is gone still invalidates.
Succeed(r) ==
    /\ r.at = "accepted"
    /\ requests' = requests \ {r}
    /\ fetch' = Refetched
    /\ \E told \in {{}, Replaced} :
       LET others == Released(told) IN
       /\ mutation' = IF Own(r) THEN [others EXCEPT ![r.kind] = [at |-> "refreshing", waits |-> Observed]]
                      ELSE others
       /\ owed' = IF Own(r) /\ r.kind = "create" THEN r.rev
                  ELSE IF told # {} /\ mutation["create"].at = "refreshing" THEN 0 ELSE owed
    /\ UNCHANGED <<server, visit, cache, used>>

Leave ==
    /\ visit.on
    /\ visit' = [visit EXCEPT !.on = FALSE]
    /\ mutation' = [k \in Kinds |-> Idle]
    /\ owed' = 0
    /\ UNCHANGED <<server, cache, fetch, requests, used>>

Return ==
    /\ ~visit.on /\ visit.number < MaxVisits
    /\ visit' = [on |-> TRUE, number |-> visit.number + 1]
    /\ UNCHANGED <<server, cache, fetch, mutation, requests, owed, used>>

-----------------------------------------------------------------------------
(* The server goes on by itself. *)

World(change, heard) ==
    /\ Server(change) /\ Hear(heard)
    /\ UNCHANGED <<visit, cache, requests>>

\* The worker applies or ends the fault; lab_fault_failed is not listened to.
FaultMoves ==
    /\ \/ server.status = "REQUESTED" /\ World([server EXCEPT !.status = "ACTIVE"], TRUE)
       \/ Unfinished(server.status) /\ \E heard \in BOOLEAN : World([server EXCEPT !.status = "ENDED"], heard)
    /\ UNCHANGED used

IncidentOpens ==
    /\ used.incidents < MaxIncidents /\ ~server.incident
    /\ used' = [used EXCEPT !.incidents = @ + 1]
    /\ World([server EXCEPT !.incident = TRUE], TRUE)

IncidentResolves ==
    /\ server.incident
    /\ World([server EXCEPT !.incident = FALSE], TRUE) /\ UNCHANGED used

\* The reset clears the fault and resolves the incident, or goes to review
\* with or without having cleared the fault.
ResetEnds ==
    /\ server.reset
    /\ \E done, cleared \in BOOLEAN :
          /\ done => cleared
          /\ World([server EXCEPT !.reset = FALSE,
                                  !.incident = @ /\ ~done,
                                  !.status = IF cleared THEN "ENDED" ELSE @], TRUE)
    /\ UNCHANGED used

\* Another operator creates a fault.
OthersCreate ==
    /\ ~Unfinished(server.status) /\ Room /\ NoClearHeld /\ Mishap
    /\ World([server EXCEPT !.faults = @ + 1, !.status = "REQUESTED"], FALSE)

Refresh(q) == Poll(q) \/ Read(q) \/ Settle(q)
Handle(r) == HandleCreate(r) \/ CheckClear(r) \/ WriteClear(r) \/ HandleReset(r) \/ Refuse(r)
Commands == \E r \in requests : Handle(r) \/ Succeed(r) \/ Lose(r)
Worker == FaultMoves \/ IncidentResolves \/ ResetEnds

Next ==
    \/ \E q \in Queries : Refresh(q)
    \/ \E k \in Kinds : Click(k)
    \/ Commands
    \/ Leave \/ Return
    \/ Worker \/ IncidentOpens \/ OthersCreate

\* Intervals fire and reads and commands are answered; clicks, visits, events,
\* mishaps and the worker are not promised.
Fairness ==
    /\ \A q \in Queries : WF_vars(Refresh(q))
    /\ WF_vars(Commands)

Spec == Init /\ [][Next]_vars /\ Fairness

-----------------------------------------------------------------------------
(* Properties. *)

TypeOK ==
    /\ server.status \in Statuses /\ server.faults \in 0..MaxFaults /\ server.rev \in Nat
    /\ {server.incident, server.reset, visit.on} \subseteq BOOLEAN /\ visit.number \in Visits
    /\ \A q \in Queries : /\ cache[q].error \in BOOLEAN
                          /\ fetch[q].at \in {"idle", "sent", "answered", "failed"}
    /\ \A k \in Kinds : /\ mutation[k].at \in {"idle", "pending", "refreshing"}
                        /\ mutation[k].waits \subseteq Queries
                        /\ mutation[k].at = "refreshing" <=> mutation[k].waits # {}
    /\ \A r \in requests : /\ r.kind \in Kinds /\ r.visit \in Visits
                           /\ r.at \in {"sent", "checked", "accepted"}
    /\ owed \in Nat

\* The list never shows an older state than it has shown: a read that was
\* given up cannot overwrite what a later one brought.
FaultList == INSTANCE MonotoneView WITH now <- server.rev, shown <- Data("faults").rev
ListIsMonotone == FaultList!Safety

\* A creation this page was told of is in the list before the button is
\* enabled again, whatever reads fail meanwhile, as long as nothing cut the
\* waiting short.
InjectWaits == InjectEnabled => Data("faults").rev >= owed

\* Lost events, failed reads and replaced reads delay the page, but once the
\* lab is quiet an open page that may inject can do so again.
Quiet == ~Unfinished(server.status) /\ ~server.incident
InjectReturns == visit.on /\ Quiet /\ Authorized ~> InjectEnabled \/ ~Quiet \/ ~visit.on
=============================================================================
