------------------------- MODULE FaultLabPageProofs -------------------------
(***************************************************************************)
(* For any number of faults, incidents, commands, visits and mishaps: the  *)
(* list of faults never goes back, and a creation is seen before the next  *)
(* one can be asked for.                                                   *)
(*                                                                         *)
(* The list does not go back because a read that is under way carries a    *)
(* revision between the one that is shown and the one of the server        *)
(* (Revisions), and a read that is given up is never used.  A creation is  *)
(* waited for because every read that is answered after the page was told  *)
(* of it has it (Waiting), and because the mutation that was pending is    *)
(* the only one of its visit (OneCreate).                                  *)
(***************************************************************************)
EXTENDS FaultLabPage, TLAPS

Servers == [faults : Nat, status : Statuses, rev : Nat, incident : BOOLEAN, reset : BOOLEAN]
Reads == [rev : Nat, status : Statuses] \cup [rev : Nat, incident : BOOLEAN]
Caches == [Queries -> [data : Reads, error : BOOLEAN]]
Fetches == [Queries -> [at : {"idle", "sent", "answered", "failed"}, got : Reads]]
Mutations == [Kinds -> [at : {"idle", "pending", "refreshing"}, waits : SUBSET Queries]]
Requests == [kind : Kinds, visit : Nat, at : {"sent", "checked", "accepted"}, rev : Nat]

Typed ==
    /\ server \in Servers /\ visit \in [on : BOOLEAN, number : Nat]
    /\ cache \in Caches /\ fetch \in Fetches /\ mutation \in Mutations
    /\ requests \subseteq Requests /\ owed \in Nat

Listed == Data("faults").rev
Fetched == fetch["faults"].got.rev

Revisions ==
    /\ Listed <= server.rev
    /\ fetch["faults"].at = "answered" => Listed <= Fetched /\ Fetched <= server.rev

-----------------------------------------------------------------------------
(* What the steps are made of. *)

LEMMA InitTyped == Init => Typed /\ Revisions
BY FaultLabAssumption
DEF Init, Typed, Revisions, Servers, Reads, Caches, Fetches, Mutations, Requests, Statuses, Queries, Kinds,
    Unread, Idle, NoRead, Listed, Fetched, Data

\* A change of the server keeps its type and makes at most one new revision.
LEMMA ServerStep ==
    ASSUME Typed, NEW change \in Servers, change.rev = server.rev, Server(change)
    PROVE  server' \in Servers /\ server'.rev \in {server.rev, server.rev + 1}
BY DEF Typed, Server, Servers

\* Invalidation sends reads or leaves them as they are.
LEMMA RefetchedTyped ==
    ASSUME Typed
    PROVE  /\ Refetched \in Fetches
           /\ \A q \in Queries : Refetched[q] = fetch[q] \/ Refetched[q].at = "sent"
<1>1. \A q \in Queries : Send(q) \in [at : {"idle", "sent", "answered", "failed"}, got : Reads] /\ Send(q).at = "sent"
  BY DEF Send, Unread, Reads, Statuses, Queries
<1> QED
  BY <1>1 DEF Typed, Refetched, Fetches

LEMMA ReleasedTyped ==
    ASSUME Typed, NEW Q \in SUBSET Queries
    PROVE  Released(Q) \in Mutations
BY DEF Typed, Released, Mutations, Idle

LEMMA InvalidateTyped ==
    ASSUME Typed, NEW heard, Hear(heard)
    PROVE  /\ fetch' \in Fetches /\ mutation' \in Mutations /\ owed' \in Nat
           /\ \A q \in Queries : fetch'[q] = fetch[q] \/ fetch'[q].at = "sent"
<1>1. CASE Invalidate
  <2>1. PICK told \in {{}, Replaced} :
          mutation' = Released(told) /\ owed' = IF told # {} /\ mutation["create"].at = "refreshing" THEN 0 ELSE owed
    BY <1>1 DEF Invalidate
  <2>2. told \in SUBSET Queries
    BY DEF Replaced, Observed, Queries
  <2> QED
    BY <1>1, <2>1, <2>2, RefetchedTyped, ReleasedTyped DEF Invalidate, Typed
<1>2. CASE UNCHANGED <<fetch, mutation, owed>>
  BY <1>2 DEF Typed
<1> QED
  BY <1>1, <1>2 DEF Hear

-----------------------------------------------------------------------------
(* Types, revisions and what the list shows. *)

\* A step of the list: a new revision, a newer one shown, or neither.
ListStep ==
    \/ server'.rev = server.rev + 1 /\ Listed' = Listed
    \/ server'.rev = server.rev /\ Listed <= Listed' /\ Listed' <= server.rev

Good == Typed /\ Revisions

LEMMA Numbers ==
    ASSUME Good
    PROVE  server.rev \in Nat /\ Listed \in Nat /\ Fetched \in Nat
BY DEF Good, Typed, Servers, Listed, Fetched, Data, Caches, Fetches, Reads, Queries

LEMMA ReadsKeep ==
    ASSUME Good, NEW q \in Queries, Refresh(q)
    PROVE  Good' /\ ListStep
<1>0. Typed /\ Revisions
  BY DEF Good
<1>1. CASE Poll(q)
  <2>1. Send(q) \in [at : {"idle", "sent", "answered", "failed"}, got : Reads] /\ Send(q).at = "sent"
    BY DEF Send, Unread, Reads, Statuses, Queries
  <2>2. fetch' \in Fetches /\ (fetch'["faults"] = fetch["faults"] \/ fetch'["faults"].at = "sent")
    BY <1>0, <1>1, <2>1 DEF Poll, Typed, Fetches
  <2> QED
    BY <1>0, <1>1, <2>2, Numbers DEF Poll, Good, Typed, Revisions, Listed, Fetched, Data, ListStep
<1>2. CASE Read(q)
  <2>1. Snapshot(q) \in Reads /\ (q = "faults" => Snapshot(q).rev = server.rev)
    BY <1>0 DEF Snapshot, Reads, Typed, Servers, Queries
  <2>2. /\ fetch' \in Fetches
        /\ \/ fetch'["faults"] = fetch["faults"]
           \/ fetch'["faults"].at = "failed"
           \/ fetch'["faults"].got.rev = server.rev
    BY <1>0, <1>2, <2>1 DEF Read, Typed, Fetches, Queries
  <2> QED
    BY <1>0, <1>2, <2>2, Numbers DEF Read, Good, Typed, Revisions, Listed, Fetched, Data, ListStep
<1>3. CASE Settle(q)
  <2>1. NoRead(q) \in [at : {"idle", "sent", "answered", "failed"}, got : Reads] /\ NoRead(q).at = "idle"
    BY DEF NoRead, Unread, Reads, Statuses, Queries
  <2>2. fetch' \in Fetches /\ (fetch'["faults"] = fetch["faults"] \/ fetch'["faults"].at = "idle")
    BY <1>0, <1>3, <2>1 DEF Settle, Typed, Fetches
  <2>3. mutation' \in Mutations
    BY <1>0, <1>3, ReleasedTyped DEF Settle
  <2>4. fetch[q].got \in Reads /\ fetch[q].at \in {"answered", "failed"}
    BY <1>0, <1>3 DEF Typed, Fetches, Settle
  <2>5. /\ cache' \in Caches
        /\ \/ Listed' = Listed
           \/ fetch["faults"].at = "answered" /\ Listed' = Fetched
    BY <1>0, <1>3, <2>4 DEF Settle, Typed, Caches, Listed, Fetched, Data, Queries
  <2>6. q # "faults" => Listed' = Listed
    BY <1>0, <1>3 DEF Settle, Typed, Caches, Listed, Data, Queries
  <2>7. q = "faults" => fetch'["faults"].at = "idle"
    BY <1>0, <1>3, <2>1 DEF Settle, Typed, Fetches
  <2>8. q # "faults" => fetch'["faults"] = fetch["faults"]
    BY <1>0, <1>3 DEF Settle, Typed, Fetches
  <2>9. Typed'
    BY <1>0, <1>3, <2>2, <2>3, <2>5 DEF Settle, Typed
  <2>10. Revisions' /\ ListStep
    BY <1>0, <1>3, <2>5, <2>6, <2>7, <2>8, Numbers DEF Settle, Revisions, Fetched, ListStep
  <2> QED
    BY <2>9, <2>10 DEF Good
<1> QED
  BY <1>1, <1>2, <1>3 DEF Refresh

\* The steps that leave the cache alone.
LEMMA QuietKeep ==
    ASSUME Good, Typed', cache' = cache, server' = server,
           fetch'["faults"] = fetch["faults"] \/ fetch'["faults"].at = "sent"
    PROVE  Good' /\ ListStep
BY Numbers DEF Good, Revisions, Listed, Fetched, Data, ListStep

\* The steps that change the server, and with it the revision by one at most.
LEMMA ServerKeep ==
    ASSUME Good, Typed', cache' = cache, server'.rev \in {server.rev, server.rev + 1},
           fetch'["faults"] = fetch["faults"] \/ fetch'["faults"].at = "sent"
    PROVE  Good' /\ ListStep
BY Numbers DEF Good, Revisions, Listed, Fetched, Data, ListStep

\* What the world does: a change of the server, heard of or not.
LEMMA WorldKeep ==
    ASSUME Good, NEW change \in Servers, change.rev = server.rev, NEW heard, World(change, heard)
    PROVE  Good' /\ ListStep
<1>0. Typed
  BY DEF Good
<1>1. server' \in Servers /\ server'.rev \in {server.rev, server.rev + 1}
  BY <1>0, ServerStep DEF World
<1>2. /\ fetch' \in Fetches /\ mutation' \in Mutations /\ owed' \in Nat
      /\ fetch'["faults"] = fetch["faults"] \/ fetch'["faults"].at = "sent"
  BY <1>0, InvalidateTyped DEF World, Queries
<1>3. Typed'
  BY <1>0, <1>1, <1>2 DEF World, Typed
<1> QED
  BY <1>1, <1>2, <1>3, ServerKeep DEF World

LEMMA CreatedTyped ==
    ASSUME server \in Servers
    PROVE  /\ [server EXCEPT !.faults = @ + 1, !.status = "REQUESTED"] \in Servers
           /\ [server EXCEPT !.faults = @ + 1, !.status = "REQUESTED"].rev = server.rev
<1>1. \A n \in Nat : [server EXCEPT !.faults = n, !.status = "REQUESTED"] \in Servers
  BY DEF Servers, Statuses
<1>2. server.faults + 1 \in Nat
  BY DEF Servers
<1>3. [server EXCEPT !.faults = @ + 1, !.status = "REQUESTED"].rev = server.rev
  BY DEF Servers
<1> QED
  BY <1>1, <1>2, <1>3

LEMMA WorkerKeeps ==
    ASSUME Good, Worker \/ IncidentOpens \/ OthersCreate
    PROVE  Good' /\ ListStep
<1>0. server \in Servers
  BY DEF Good, Typed
<1>1. CASE FaultMoves
  <2>1. /\ [server EXCEPT !.status = "ACTIVE"] \in Servers /\ [server EXCEPT !.status = "ACTIVE"].rev = server.rev
        /\ [server EXCEPT !.status = "ENDED"] \in Servers /\ [server EXCEPT !.status = "ENDED"].rev = server.rev
    BY <1>0 DEF Servers, Statuses
  <2> QED
    BY <1>1, <2>1, WorldKeep DEF FaultMoves
<1>2. CASE IncidentOpens
  <2>1. [server EXCEPT !.incident = TRUE] \in Servers /\ [server EXCEPT !.incident = TRUE].rev = server.rev
    BY <1>0 DEF Servers
  <2> QED
    BY <1>2, <2>1, WorldKeep DEF IncidentOpens
<1>3. CASE IncidentResolves
  <2>1. [server EXCEPT !.incident = FALSE] \in Servers /\ [server EXCEPT !.incident = FALSE].rev = server.rev
    BY <1>0 DEF Servers
  <2> QED
    BY <1>3, <2>1, WorldKeep DEF IncidentResolves
<1>4. CASE ResetEnds
  <2>1. PICK done \in BOOLEAN, cleared \in BOOLEAN :
          World([server EXCEPT !.reset = FALSE, !.incident = @ /\ ~done,
                               !.status = IF cleared THEN "ENDED" ELSE @], TRUE)
    BY <1>4 DEF ResetEnds
  <2> DEFINE change == [server EXCEPT !.reset = FALSE, !.incident = @ /\ ~done,
                                      !.status = IF cleared THEN "ENDED" ELSE @]
  <2>2. change \in Servers /\ change.rev = server.rev
    BY <1>0 DEF Servers, Statuses
  <2> QED
    BY <2>1, <2>2, WorldKeep
<1>5. CASE OthersCreate
  BY <1>0, <1>5, CreatedTyped, WorldKeep DEF OthersCreate
<1> QED
  BY <1>1, <1>2, <1>3, <1>4, <1>5 DEF Worker

LEMMA CommandsKeep ==
    ASSUME Good, NEW r \in requests, Handle(r) \/ Succeed(r) \/ Lose(r)
    PROVE  Good' /\ ListStep
<1>0. Typed /\ r \in Requests /\ server \in Servers
  BY DEF Good, Typed
<1>1. CASE HandleCreate(r)
  <2> DEFINE change == [server EXCEPT !.faults = @ + 1, !.status = "REQUESTED"]
  <2>1. change \in Servers /\ change.rev = server.rev
    BY <1>0, CreatedTyped
  <2>2. server' \in Servers /\ server'.rev \in {server.rev, server.rev + 1}
    BY <1>0, <1>1, <2>1, ServerStep DEF HandleCreate
  <2>3. [r EXCEPT !.at = "accepted", !.rev = server.rev + 1] \in Requests
    <3>1. \A n \in Nat : [r EXCEPT !.at = "accepted", !.rev = n] \in Requests
      BY <1>0 DEF Requests
    <3>2. server.rev + 1 \in Nat
      BY Numbers
    <3> QED
      BY <3>1, <3>2
  <2>4. Typed'
    BY <1>0, <1>1, <2>2, <2>3 DEF HandleCreate, Typed
  <2> QED
    BY <1>1, <2>2, <2>4, ServerKeep DEF HandleCreate
<1>a. [r EXCEPT !.at = "accepted"] \in Requests
  BY <1>0 DEF Requests
<1>b. CASE CheckClear(r)
  <2>1. [r EXCEPT !.at = "checked"] \in Requests
    BY <1>0 DEF Requests
  <2>2. Typed'
    BY <1>0, <1>b, <2>1 DEF CheckClear, Typed
  <2> QED
    BY <1>b, <2>2, QuietKeep DEF CheckClear
<1>2. CASE WriteClear(r)
  <2> DEFINE change == [server EXCEPT !.status = "CLEAR_REQUESTED"]
  <2>1. change \in Servers /\ change.rev = server.rev
    BY <1>0 DEF Servers, Statuses
  <2>2. server' \in Servers /\ server'.rev \in {server.rev, server.rev + 1}
    BY <1>0, <1>2, <2>1, ServerStep DEF WriteClear
  <2>3. Typed'
    BY <1>0, <1>2, <1>a, <2>2 DEF WriteClear, Accept, Typed
  <2> QED
    BY <1>2, <2>2, <2>3, ServerKeep DEF WriteClear
<1>3. CASE HandleReset(r)
  <2> DEFINE change == [server EXCEPT !.reset = TRUE]
  <2>1. change \in Servers /\ change.rev = server.rev
    BY <1>0 DEF Servers
  <2>2. server' \in Servers /\ server'.rev \in {server.rev, server.rev + 1}
    BY <1>0, <1>3, <2>1, ServerStep DEF HandleReset
  <2>3. /\ fetch' \in Fetches /\ mutation' \in Mutations /\ owed' \in Nat
        /\ fetch'["faults"] = fetch["faults"] \/ fetch'["faults"].at = "sent"
    BY <1>0, <1>3, InvalidateTyped DEF HandleReset, Queries
  <2>4. Typed'
    BY <1>0, <1>3, <1>a, <2>2, <2>3 DEF HandleReset, Accept, Typed
  <2> QED
    BY <1>3, <2>2, <2>3, <2>4, ServerKeep DEF HandleReset
<1>4. ASSUME Fail(r) PROVE Good' /\ ListStep
  <2>1. mutation' \in Mutations
    BY <1>0, <1>4 DEF Fail, Typed, Mutations, Idle, Requests
  <2>2. Typed'
    BY <1>0, <1>4, <2>1 DEF Fail, Typed
  <2> QED
    BY <1>4, <2>2, QuietKeep DEF Fail
<1>5. CASE Succeed(r)
  <2>1. PICK told \in {{}, Replaced} :
          /\ mutation' = IF Own(r) THEN [Released(told) EXCEPT ![r.kind] = [at |-> "refreshing", waits |-> Observed]]
                         ELSE Released(told)
          /\ owed' = IF Own(r) /\ r.kind = "create" THEN r.rev
                     ELSE IF told # {} /\ mutation["create"].at = "refreshing" THEN 0 ELSE owed
    BY <1>5 DEF Succeed
  <2>2. told \in SUBSET Queries /\ Observed \in SUBSET Queries
    BY DEF Replaced, Observed, Queries
  <2>3. Released(told) \in Mutations
    BY <1>0, <2>2, ReleasedTyped
  <2>4. mutation' \in Mutations
    BY <1>0, <2>1, <2>2, <2>3 DEF Mutations, Requests
  <2>5. owed' \in Nat
    BY <1>0, <2>1 DEF Typed, Requests
  <2>6. fetch' \in Fetches /\ (fetch'["faults"] = fetch["faults"] \/ fetch'["faults"].at = "sent")
    BY <1>0, <1>5, RefetchedTyped DEF Succeed, Queries
  <2>7. Typed'
    BY <1>0, <1>5, <2>4, <2>5, <2>6 DEF Succeed, Typed
  <2> QED
    BY <1>5, <2>6, <2>7, QuietKeep DEF Succeed
<1> QED
  BY <1>1, <1>b, <1>2, <1>3, <1>4, <1>5 DEF Handle, Refuse, Lose

LEMMA PageKeeps ==
    ASSUME Good, (\E k \in Kinds : Click(k)) \/ Leave \/ Return
    PROVE  Good' /\ ListStep
<1>0. Typed
  BY DEF Good
<1>1. CASE \E k \in Kinds : Click(k)
  <2>1. PICK k \in Kinds : Click(k)
    BY <1>1
  <2>2. Request(k) \in Requests
    BY <1>0, Numbers DEF Request, Requests, Typed, Listed
  <2>3. mutation' \in Mutations
    BY <1>0, <2>1 DEF Click, Typed, Mutations
  <2>4. Typed'
    BY <1>0, <2>1, <2>2, <2>3 DEF Click, Typed
  <2> QED
    BY <2>1, <2>4, QuietKeep DEF Click
<1>2. CASE Leave
  <2>1. mutation' \in Mutations
    BY <1>2 DEF Leave, Mutations, Idle
  <2>2. Typed'
    BY <1>0, <1>2, <2>1 DEF Leave, Typed
  <2> QED
    BY <1>2, <2>2, QuietKeep DEF Leave
<1>3. CASE Return
  <2>1. Typed'
    BY <1>0, <1>3 DEF Return, Typed
  <2> QED
    BY <1>3, <2>1, QuietKeep DEF Return
<1> QED
  BY <1>1, <1>2, <1>3

LEMMA Step ==
    ASSUME Good, [Next]_vars
    PROVE  Good' /\ ListStep
<1>1. CASE UNCHANGED vars
  <2>1. Typed'
    BY <1>1 DEF vars, Good, Typed
  <2> QED
    BY <1>1, <2>1, QuietKeep DEF vars
<1>2. CASE Next
  BY <1>2, ReadsKeep, CommandsKeep, PageKeeps, WorkerKeeps DEF Next, Commands
<1> QED
  BY <1>1, <1>2

-----------------------------------------------------------------------------
(* Waiting for a creation. *)

\* A creation of the open page that is on its way.
Asking(r) == r.kind = "create" /\ Own(r)
AwaitsList == mutation["create"].at = "refreshing" /\ "faults" \in mutation["create"].waits

Waiting ==
    /\ owed <= server.rev
    /\ fetch["faults"].at = "answered" => owed <= Fetched
    /\ owed <= Listed \/ cache["faults"].error \/ AwaitsList

OneCreate ==
    /\ \A r \in requests : r.visit <= visit.number /\ (r.kind = "create" => r.rev <= server.rev)
    /\ \A r \in requests : Asking(r) => mutation["create"].at = "pending" /\ Loaded("faults")
    /\ \A r, s \in requests : Asking(r) /\ Asking(s) => r = s

\* What every step keeps.
Onward == Good /\ Good' /\ ListStep

LEMMA OnwardNumbers ==
    ASSUME Onward
    PROVE  /\ {server.rev, server'.rev, Listed, Listed', Fetched, Fetched', owed, owed', visit.number, visit'.number} \subseteq Nat
           /\ Listed <= Listed' /\ server.rev <= server'.rev
           /\ Loaded("faults") => Loaded("faults")'
<1>1. {server.rev, Listed, Fetched, owed, visit.number} \subseteq Nat
  BY Numbers DEF Onward, Good, Typed
<1>2. server'.rev \in Nat /\ Listed' \in Nat /\ Fetched' \in Nat
  BY DEF Onward, Good, Typed, Servers, Listed, Fetched, Data, Caches, Fetches, Reads, Queries
<1>3. owed' \in Nat /\ visit'.number \in Nat
  BY DEF Onward, Good, Typed
<1>4. Listed <= Listed' /\ server.rev <= server'.rev
  BY <1>1, <1>2 DEF Onward, ListStep
<1> QED
  BY <1>1, <1>2, <1>3, <1>4 DEF Loaded, Listed

\* Being released from some reads ends no pending mutation, nor one that waits for another read.
LEMMA ReleasedCreate ==
    ASSUME Typed, NEW Q
    PROVE  /\ mutation["create"].at = "pending" => Released(Q)["create"].at = "pending"
           /\ AwaitsList /\ "faults" \notin Q =>
                Released(Q)["create"].at = "refreshing" /\ "faults" \in Released(Q)["create"].waits
           /\ Released(Q)["create"].at = "refreshing" => mutation["create"].at = "refreshing"
BY DEF Typed, Released, Mutations, AwaitsList, Kinds, Idle

LEMMA HeardWaits ==
    ASSUME Onward, Waiting, NEW heard, Hear(heard), cache' = cache
    PROVE  Waiting' /\ (mutation["create"].at = "pending" => mutation'["create"].at = "pending")
<1>0. Typed
  BY DEF Onward, Good
<1>1. Listed' = Listed
  BY DEF Listed, Data
<1>2. CASE UNCHANGED <<fetch, mutation, owed>>
  BY <1>1, <1>2, OnwardNumbers DEF Waiting, AwaitsList, Fetched
<1>3. CASE Invalidate
  <2>1. PICK told \in {{}, Replaced} :
          mutation' = Released(told) /\ owed' = IF told # {} /\ mutation["create"].at = "refreshing" THEN 0 ELSE owed
    BY <1>3 DEF Invalidate
  <2>2. fetch'["faults"] = fetch["faults"] \/ fetch'["faults"].at = "sent"
    BY <1>0, <1>3, RefetchedTyped DEF Invalidate, Queries
  <2>3. owed' \in {0, owed}
    BY <2>1
  <2>4. owed' <= server'.rev /\ (fetch'["faults"].at = "answered" => owed' <= Fetched')
    BY <2>2, <2>3, OnwardNumbers DEF Waiting, Fetched
  <2>5. AwaitsList => owed' = 0 \/ AwaitsList'
    <3>1. CASE told = {}
      BY <1>0, <2>1, <3>1, ReleasedCreate DEF AwaitsList
    <3>2. CASE told # {}
      BY <2>1, <3>2 DEF AwaitsList
    <3> QED
      BY <3>1, <3>2
  <2>6. owed' <= Listed' \/ cache'["faults"].error \/ AwaitsList'
    BY <1>1, <2>3, <2>5, OnwardNumbers DEF Waiting
  <2>7. mutation["create"].at = "pending" => mutation'["create"].at = "pending"
    BY <1>0, <2>1, ReleasedCreate
  <2> QED
    BY <2>4, <2>6, <2>7 DEF Waiting
<1> QED
  BY <1>2, <1>3 DEF Hear

\* Requests that stay, and one that is answered, are still those of OneCreate.
LEMMA StillOne ==
    ASSUME Onward, OneCreate, requests' \subseteq requests, visit' = visit,
           mutation["create"].at = "pending" => mutation'["create"].at = "pending"
    PROVE  OneCreate'
<1>1. \A r \in requests : r.kind = "create" => r.rev \in Nat
  BY DEF Onward, Good, Typed, Requests
<1> QED
  BY <1>1, OnwardNumbers DEF OneCreate, Asking, Own

LEMMA AnsweredOne ==
    ASSUME Onward, OneCreate, NEW r \in requests, NEW a, requests' = (requests \ {r}) \cup {a}, visit' = visit,
           a.kind = r.kind, a.visit = r.visit, r.kind = "create" => a.rev <= server'.rev,
           mutation["create"].at = "pending" => mutation'["create"].at = "pending"
    PROVE  OneCreate'
<1>0. \A s \in requests : s.rev \in Nat
  BY DEF Onward, Good, Typed, Requests
<1>1. \A s \in requests' : s.visit <= visit'.number /\ (s.kind = "create" => s.rev <= server'.rev)
  BY <1>0, OnwardNumbers DEF OneCreate
<1>2. \A s \in requests' : Asking(s)' => mutation'["create"].at = "pending" /\ Loaded("faults")'
  BY OnwardNumbers DEF OneCreate, Asking, Own
<1>3. \A s, t \in requests' : Asking(s)' /\ Asking(t)' => s = t
  BY DEF OneCreate, Asking, Own
<1> QED
  BY <1>1, <1>2, <1>3 DEF OneCreate

LEMMA ReadsWait ==
    ASSUME Onward, Waiting, OneCreate, NEW q \in Queries, Refresh(q)
    PROVE  Waiting' /\ OneCreate'
<1>0. Typed /\ fetch \in Fetches /\ cache \in Caches
  BY DEF Onward, Good, Typed
<1>1. CASE Poll(q)
  <2>1. fetch'["faults"] = fetch["faults"] \/ fetch'["faults"].at = "sent"
    BY <1>0, <1>1 DEF Poll, Send, Fetches
  <2>2. Waiting'
    BY <1>1, <2>1, OnwardNumbers DEF Poll, Waiting, AwaitsList, Fetched, Listed, Data
  <2> QED
    BY <1>1, <2>2, StillOne DEF Poll
<1>2. CASE Read(q)
  <2>1. \/ fetch'["faults"] = fetch["faults"]
        \/ fetch'["faults"].at = "failed"
        \/ fetch'["faults"].got.rev = server.rev
    BY <1>0, <1>2 DEF Read, Snapshot, Fetches, Queries
  <2>2. Waiting'
    BY <1>2, <2>1, OnwardNumbers DEF Read, Waiting, AwaitsList, Fetched, Listed, Data
  <2> QED
    BY <1>2, <2>2, StillOne DEF Read
<1>3. CASE Settle(q)
  <2>1. mutation["create"].at = "pending" => mutation'["create"].at = "pending"
    BY <1>0, <1>3, ReleasedCreate DEF Settle
  <2>2. OneCreate'
    BY <1>3, <2>1, StillOne DEF Settle
  <2>3. CASE q = "faults"
    <3>1. fetch'["faults"].at = "idle"
      BY <1>0, <1>3, <2>3 DEF Settle, NoRead, Fetches
    <3>2. CASE fetch["faults"].at = "answered"
      <4>1. Listed' = Fetched
        BY <1>0, <1>3, <2>3, <3>2 DEF Settle, Caches, Listed, Fetched, Data
      <4> QED
        BY <1>3, <2>2, <3>1, <3>2, <4>1, OnwardNumbers DEF Settle, Waiting
    <3>3. CASE fetch["faults"].at # "answered"
      <4>1. cache'["faults"].error = TRUE
        BY <1>0, <1>3, <2>3, <3>3 DEF Settle, Caches
      <4> QED
        BY <1>3, <2>2, <3>1, <4>1, OnwardNumbers DEF Settle, Waiting
    <3> QED
      BY <3>2, <3>3
  <2>4. CASE q = "summary"
    <3>1. fetch'["faults"] = fetch["faults"] /\ cache'["faults"] = cache["faults"]
      BY <1>0, <1>3, <2>4 DEF Settle, Fetches, Caches, Queries
    <3>2. AwaitsList => AwaitsList'
      BY <1>0, <1>3, <2>4, ReleasedCreate DEF Settle, AwaitsList
    <3>3. Waiting'
      BY <1>3, <3>1, <3>2, OnwardNumbers DEF Settle, Waiting, Fetched, Listed, Data
    <3> QED
      BY <2>2, <3>3
  <2> QED
    BY <2>2, <2>3, <2>4 DEF Queries
<1> QED
  BY <1>1, <1>2, <1>3 DEF Refresh

LEMMA WorldWaits ==
    ASSUME Onward, Waiting, OneCreate, Worker \/ IncidentOpens \/ OthersCreate
    PROVE  Waiting' /\ OneCreate'
<1>1. PICK heard \in BOOLEAN : Hear(heard) /\ UNCHANGED <<visit, cache, requests>>
  BY DEF Worker, IncidentOpens, OthersCreate, FaultMoves, IncidentResolves, ResetEnds, World
<1> QED
  BY <1>1, HeardWaits, StillOne

LEMMA HandleWaits ==
    ASSUME Onward, Waiting, OneCreate, NEW r \in requests, HandleCreate(r) \/ CheckClear(r) \/ WriteClear(r) \/ HandleReset(r)
    PROVE  Waiting' /\ OneCreate'
<1>0. r \in Requests /\ server \in Servers
  BY DEF Onward, Good, Typed
<1>1. CASE HandleCreate(r)
  <2> DEFINE a == [r EXCEPT !.at = "accepted", !.rev = server.rev + 1]
  <2>1. a.kind = r.kind /\ a.visit = r.visit /\ a.rev = server.rev + 1
    BY <1>0 DEF Requests
  <2>2. server'.rev = server.rev + 1
    BY <1>0, <1>1 DEF HandleCreate, Server, Servers, Unfinished
  <2>3. Waiting'
    BY <1>1, OnwardNumbers DEF HandleCreate, Waiting, AwaitsList, Fetched, Listed, Data
  <2>4. a.rev <= server'.rev
    BY <2>1, <2>2, OnwardNumbers
  <2> QED
    BY <1>1, <2>1, <2>3, <2>4, AnsweredOne DEF HandleCreate
<1> DEFINE b == [r EXCEPT !.at = "accepted"]
<1>2. b.kind = r.kind /\ b.visit = r.visit
  BY <1>0 DEF Requests
<1> DEFINE c == [r EXCEPT !.at = "checked"]
<1>a. c.kind = r.kind /\ c.visit = r.visit /\ c.rev = r.rev
  BY <1>0 DEF Requests
<1>b. CASE CheckClear(r)
  <2>1. Waiting'
    BY <1>b, OnwardNumbers DEF CheckClear, Waiting, AwaitsList, Fetched, Listed, Data
  <2>2. c.kind # "create"
    BY <1>a, <1>b DEF CheckClear
  <2> QED
    BY <1>a, <1>b, <2>1, <2>2, AnsweredOne DEF CheckClear
<1>3. CASE WriteClear(r)
  <2>1. Waiting'
    BY <1>3, OnwardNumbers DEF WriteClear, Waiting, AwaitsList, Fetched, Listed, Data
  <2> QED
    BY <1>2, <1>3, <2>1, AnsweredOne DEF WriteClear, Accept
<1>4. CASE HandleReset(r)
  <2>1. Waiting' /\ (mutation["create"].at = "pending" => mutation'["create"].at = "pending")
    BY <1>4, HeardWaits DEF HandleReset
  <2> QED
    BY <1>2, <1>4, <2>1, AnsweredOne DEF HandleReset, Accept
<1> QED
  BY <1>1, <1>b, <1>3, <1>4

LEMMA FailWaits ==
    ASSUME Onward, Waiting, OneCreate, NEW r \in requests, Fail(r)
    PROVE  Waiting' /\ OneCreate'
<1>0. Typed /\ r \in Requests
  BY DEF Onward, Good, Typed
<1>1. mutation'["create"] = mutation["create"] \/ (Asking(r) /\ mutation'["create"] = Idle)
  <2>1. CASE Asking(r)
    BY <1>0, <2>1 DEF Fail, Asking, Typed, Mutations, Kinds
  <2>2. CASE ~Own(r)
    BY <2>2 DEF Fail, Own
  <2>3. CASE Own(r) /\ r.kind # "create"
    BY <1>0, <2>3 DEF Fail, Own, Typed, Mutations
  <2> QED
    BY <2>1, <2>2, <2>3 DEF Asking
<1>2. Asking(r) => mutation["create"].at = "pending"
  BY DEF OneCreate
<1>3. AwaitsList => AwaitsList'
  BY <1>1, <1>2 DEF AwaitsList
<1>4. Waiting'
  BY <1>3, OnwardNumbers DEF Fail, Waiting, Fetched, Listed, Data
<1>5. CASE Asking(r)
  <2>1. \A s \in requests' : ~Asking(s)'
    BY <1>5 DEF Fail, OneCreate, Asking, Own
  <2> QED
    BY <1>4, <2>1 DEF Fail, OneCreate
<1>6. CASE ~Asking(r)
  BY <1>1, <1>4, <1>6, StillOne DEF Fail
<1> QED
  BY <1>5, <1>6

LEMMA SucceedWaits ==
    ASSUME Onward, Waiting, OneCreate, NEW r \in requests, Succeed(r)
    PROVE  Waiting' /\ OneCreate'
<1>0. Typed /\ r \in Requests
  BY DEF Onward, Good, Typed
<1>1. PICK told \in {{}, Replaced} :
        /\ mutation' = IF Own(r) THEN [Released(told) EXCEPT ![r.kind] = [at |-> "refreshing", waits |-> Observed]]
                       ELSE Released(told)
        /\ owed' = IF Own(r) /\ r.kind = "create" THEN r.rev
                   ELSE IF told # {} /\ mutation["create"].at = "refreshing" THEN 0 ELSE owed
  BY DEF Succeed
<1>2. Listed' = Listed
  BY DEF Succeed, Listed, Data
<1>3. CASE Asking(r)
  <2>1. fetch'["faults"].at = "sent"
    BY <1>3 DEF Succeed, OneCreate, Refetched, Asking, Own, Observed, Queries, Send
  <2>2. owed' = r.rev /\ r.rev <= server.rev
    BY <1>1, <1>3 DEF Asking, OneCreate
  <2>3. mutation'["create"] = [at |-> "refreshing", waits |-> Observed]
    BY <1>1, <1>3 DEF Asking, Released, Kinds
  <2>4. AwaitsList'
    BY <1>3, <2>3 DEF AwaitsList, Asking, Own, Observed, Queries
  <2>5. Waiting'
    BY <2>1, <2>2, <2>4 DEF Succeed, Waiting
  <2>6. \A s \in requests' : ~Asking(s)'
    BY <1>3 DEF Succeed, OneCreate, Asking, Own
  <2> QED
    BY <2>5, <2>6 DEF Succeed, OneCreate
<1>4. CASE ~Asking(r)
  <2>1. mutation'["create"] = Released(told)["create"]
    BY <1>0, <1>1, <1>4 DEF Asking, Released, Kinds, Requests
  <2>2. owed' = IF told # {} /\ mutation["create"].at = "refreshing" THEN 0 ELSE owed
    BY <1>1, <1>4 DEF Asking
  <2>3. fetch'["faults"] = fetch["faults"] \/ fetch'["faults"].at = "sent"
    BY <1>0, RefetchedTyped DEF Succeed, Queries
  <2>4. owed' <= server'.rev /\ (fetch'["faults"].at = "answered" => owed' <= Fetched')
    BY <2>2, <2>3, OnwardNumbers DEF Succeed, Waiting, Fetched
  <2>5. AwaitsList => owed' = 0 \/ AwaitsList'
    <3>1. CASE told = {}
      BY <1>0, <2>1, <3>1, ReleasedCreate DEF AwaitsList
    <3>2. CASE told # {}
      BY <2>2, <3>2 DEF AwaitsList
    <3> QED
      BY <3>1, <3>2
  <2>6. Waiting'
    BY <1>2, <2>2, <2>4, <2>5, OnwardNumbers DEF Succeed, Waiting
  <2>7. mutation["create"].at = "pending" => mutation'["create"].at = "pending"
    BY <1>0, <2>1, ReleasedCreate
  <2>8. OneCreate'
    BY <2>7, StillOne DEF Succeed
  <2> QED
    BY <2>6, <2>8
<1> QED
  BY <1>3, <1>4

LEMMA PageWaits ==
    ASSUME Onward, Waiting, OneCreate, (\E k \in Kinds : Click(k)) \/ Leave \/ Return
    PROVE  Waiting' /\ OneCreate'
<1>0. Typed /\ \A r \in requests : r.rev \in Nat /\ r.visit \in Nat
  BY DEF Onward, Good, Typed, Requests
<1>1. ASSUME NEW k \in Kinds, Click(k)  PROVE Waiting' /\ OneCreate'
  <2>1. CASE k = "create"
    <3>1. ~IsPending("create") /\ ~cache["faults"].error /\ Loaded("faults")
      BY <1>1, <2>1 DEF Click, Enabled, InjectEnabled, Blocked, OnScreen
    <3>2. owed <= Listed
      BY <3>1 DEF Waiting, IsPending, AwaitsList
    <3>3. Waiting'
      BY <1>1, <3>2 DEF Click, Waiting, Fetched, Listed, Data
    <3>4. mutation'["create"].at = "pending"
      BY <1>0, <1>1, <2>1 DEF Click, Typed, Mutations
    <3>5. \A s \in requests : ~Asking(s)
      BY <3>1 DEF OneCreate, IsPending
    <3>6. Request(k).visit = visit.number /\ Request(k).rev <= server.rev
      BY <2>1, OnwardNumbers DEF Request
    <3>7. requests' = requests \cup {Request(k)} /\ visit' = visit /\ server' = server
      BY <1>1 DEF Click
    <3>8. \A s \in requests' : s.visit <= visit'.number /\ (s.kind = "create" => s.rev <= server'.rev)
      BY <3>6, <3>7, OnwardNumbers DEF OneCreate
    <3>9. \A s \in requests' : Asking(s)' => s = Request(k)
      BY <3>5, <3>7 DEF Asking, Own
    <3> QED
      BY <3>1, <3>3, <3>4, <3>8, <3>9, OnwardNumbers DEF OneCreate
  <2>2. CASE k # "create"
    <3>1. mutation'["create"] = mutation["create"]
      BY <1>0, <1>1, <2>2 DEF Click, Typed, Mutations
    <3>2. Waiting'
      BY <1>1, <3>1 DEF Click, Waiting, AwaitsList, Fetched, Listed, Data
    <3>3. Request(k).visit = visit.number /\ Request(k).kind # "create"
      BY <2>2 DEF Request
    <3>4. requests' = requests \cup {Request(k)} /\ visit' = visit /\ server' = server /\ cache' = cache
      BY <1>1 DEF Click
    <3> QED
      BY <3>1, <3>2, <3>3, <3>4, OnwardNumbers DEF OneCreate, Asking, Own, Loaded, Data
  <2> QED
    BY <2>1, <2>2
<1>2. CASE Leave
  <2>1. Waiting'
    BY <1>2, OnwardNumbers DEF Leave, Waiting
  <2>2. ~visit'.on /\ visit'.number = visit.number
    BY <1>0, <1>2 DEF Leave, Typed
  <2> QED
    BY <1>2, <2>1, <2>2 DEF Leave, OneCreate, Asking, Own
<1>3. CASE Return
  <2>1. Waiting'
    BY <1>3 DEF Return, Waiting, AwaitsList, Fetched, Listed, Data
  <2>2. visit'.number = visit.number + 1
    BY <1>3 DEF Return
  <2>3. \A s \in requests : s.visit < visit'.number
    BY <1>0, <2>2, OnwardNumbers DEF OneCreate
  <2>4. \A s \in requests : ~Asking(s)'
    BY <1>0, <2>3, OnwardNumbers DEF Asking, Own
  <2> QED
    BY <1>0, <1>3, <2>1, <2>3, <2>4, OnwardNumbers DEF Return, OneCreate
<1> QED
  BY <1>1, <1>2, <1>3

LEMMA StepWaits ==
    ASSUME Good, Waiting, OneCreate, [Next]_vars
    PROVE  Waiting' /\ OneCreate'
<1>1. Onward
  BY Step DEF Onward
<1>2. CASE UNCHANGED vars
  BY <1>2 DEF vars, Waiting, OneCreate, AwaitsList, Asking, Own, Loaded, Fetched, Listed, Data
<1>3. CASE Next
  BY <1>1, <1>3, ReadsWait, HandleWaits, FailWaits, SucceedWaits, PageWaits, WorldWaits
  DEF Next, Commands, Handle, Refuse, Lose
<1> QED
  BY <1>2, <1>3

-----------------------------------------------------------------------------
(* The theorems. *)

LEMMA ListStepIsAStep ==
    ASSUME Good, Good', ListStep
    PROVE  [FaultList!Next]_<<server.rev, Data("faults").rev>>
<1>1. Listed' \in Nat
  BY DEF Good, Typed, Listed, Data, Caches, Reads, Queries
<1>2. CASE server'.rev = server.rev + 1 /\ Listed' = Listed
  BY <1>2 DEF Listed, FaultList!Next, FaultList!Advance
<1>3. CASE server'.rev = server.rev /\ Listed' = Listed
  BY <1>3 DEF Listed
<1>4. CASE server'.rev = server.rev /\ Listed < Listed' /\ Listed' <= server.rev
  <2>1. Listed < server.rev /\ Listed' \in (Listed + 1)..server.rev
    BY <1>1, <1>4, Numbers
  <2> QED
    BY <1>4, <2>1 DEF Listed, FaultList!Next, FaultList!Show
<1> QED
  BY <1>1, <1>2, <1>3, <1>4, Numbers DEF ListStep

\* The list of faults the page shows is at every moment a list the server had,
\* and never an older one than it has shown: whatever reads fail, are given up
\* or answered late, and however many faults, visits and mishaps there are.
THEOREM ListNeverGoesBack == Spec => ListIsMonotone
<1>1. Init => Good /\ FaultList!Init
  BY InitTyped DEF Good, Init, FaultList!Init, Data, Unread, Queries
<1>2. Good /\ [Next]_vars => Good' /\ [FaultList!Next]_<<server.rev, Data("faults").rev>>
  BY Step, ListStepIsAStep
<1> QED
  BY <1>1, <1>2, PTL DEF Spec, ListIsMonotone, FaultList!Safety

\* However many operators, mishaps and lost events there are, the button that
\* injects a fault is not enabled over a list that lacks the creation it has
\* waited for, so a fault is not injected twice by one page unaware of the first.
THEOREM CreationIsAwaited == Spec => []InjectWaits
<1>1. Init => Good /\ Waiting /\ OneCreate
  BY InitTyped DEF Init, Good, Waiting, OneCreate, NoRead, Queries, Listed, Data, Unread
<1>2. Good /\ Waiting /\ OneCreate /\ [Next]_vars => (Good /\ Waiting /\ OneCreate)'
  BY Step, StepWaits
<1>3. Good /\ Waiting => InjectWaits
  <2>1. SUFFICES ASSUME Good, Waiting, InjectEnabled PROVE Listed >= owed
    BY DEF InjectWaits, Listed
  <2>2. owed <= Listed
    BY <2>1 DEF Waiting, AwaitsList, InjectEnabled, OnScreen, Blocked, IsPending
  <2>3. owed \in Nat /\ Listed \in Nat
    BY <2>1, Numbers DEF Good, Typed
  <2> QED
    BY <2>2, <2>3
<1> QED
  BY <1>1, <1>2, <1>3, PTL DEF Spec
=============================================================================
