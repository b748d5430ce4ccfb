---------------------------- MODULE EventStream ----------------------------
(***************************************************************************)
(* The way of an event from the transaction that wrote it to the console:  *)
(* the outbox (audit.py), the stream of the project and its cursor keys in *)
(* Redis, the endpoint that reads the stream (routers/events.py) and the   *)
(* EventSource of one console, which comes back with the last id it got.   *)
(*                                                                         *)
(* Events are numbered in the order of created_at, which is the start of   *)
(* their transactions; these may commit in any order.  Whoever has         *)
(* committed publishes, and so does a process that starts: a publisher     *)
(* may be at it whenever there is something to publish.  The stream keeps  *)
(* its history here, "first" is where it begins to be retained.            *)
(***************************************************************************)
EXTENDS Naturals, Sequences, FiniteSets

CONSTANTS
    Publishers,  \* processes that publish
    MaxEvents,   \* BOUND: events written
    Limit,       \* rows one publication takes, 50 in the code
    MaxLength,   \* entries the stream is trimmed to, approximately
    MaxFailures, \* BOUND: publications cut short
    MaxDrops     \* BOUND: connections lost

ASSUME EventStreamAssumption ==
    /\ {Limit, MaxLength} \subseteq Nat \ {0}
    /\ {MaxEvents, MaxFailures, MaxDrops} \subseteq Nat

VARIABLES
    row,     \* the row of an event: "open" until its transaction commits
    batch,   \* what a publisher has read and not yet marked
    log,     \* the stream
    first,   \* the oldest entry it retains
    cursors, \* the cursor key of an event: its entry, 0 for none
    source,  \* the EventSource and the request that serves it
    used     \* failures and drops

streamVars == <<row, batch, log, first, cursors, source, used>>

Events == 1..MaxEvents
NoEvent == 0                \* no Last-Event-ID yet
ResyncId == MaxEvents + 1   \* the id of a resync_required, which has no key
Logged == {log[i] : i \in 1..Len(log)}

\* todo: rows read and not yet sent; at: entry added whose key is not yet set.
Idle == [todo |-> {}, done |-> {}, at |-> 0]

\* base: the first entry got since the page loaded or was told to resync.
StreamInit ==
    /\ row = [e \in Events |-> "open"]
    /\ batch = [p \in Publishers |-> Idle]
    /\ log = <<>> /\ first = 1
    /\ cursors = [e \in Events |-> 0]
    /\ source = [phase |-> "away", last |-> NoEvent, pos |-> 0, base |-> 0, seen |-> {}]
    /\ used = [failures |-> 0, drops |-> 0]

-----------------------------------------------------------------------------
(* publish_pending_outbox. *)

Commit(e) ==
    /\ row[e] = "open"
    /\ row' = [row EXCEPT ![e] = "pending"]
    /\ UNCHANGED <<batch, log, first, cursors, source, used>>

\* The oldest rows not marked, whoever else has read them.
ReadOutbox(p) ==
    LET pending == {e \in Events : row[e] = "pending"} IN
    /\ batch[p] = Idle /\ pending # {}
    /\ \E rows \in SUBSET pending :
          /\ Cardinality(rows) = IF Cardinality(pending) < Limit THEN Cardinality(pending) ELSE Limit
          /\ \A e \in rows, other \in pending \ rows : e < other
          /\ batch' = [batch EXCEPT ![p] = [Idle EXCEPT !.todo = rows]]
    /\ UNCHANGED <<row, log, first, cursors, source, used>>

\* XADD with an approximate MAXLEN.
Add(p) ==
    /\ batch[p].at = 0
    /\ \E e \in batch[p].todo :
          /\ \A other \in batch[p].todo : e <= other
          /\ log' = Append(log, e)
    /\ batch' = [batch EXCEPT ![p] = [@ EXCEPT !.at = Len(log) + 1]]
    /\ first' \in {first} \cup {i \in first..(Len(log) + 1) : Len(log) + 1 - i >= MaxLength - 1}
    /\ UNCHANGED <<row, cursors, source, used>>

\* SETEX, overwriting the key of an earlier copy.
SetKey(p) ==
    LET at == batch[p].at IN
    /\ at # 0
    /\ cursors' = [cursors EXCEPT ![log[at]] = at]
    /\ batch' = [batch EXCEPT ![p] = [todo |-> @.todo \ {log[at]}, done |-> @.done \cup {log[at]}, at |-> 0]]
    /\ UNCHANGED <<row, log, first, source, used>>

\* Mutant: what was read is marked, sent or not.
MarkRead(p) ==
    /\ batch[p] # Idle
    /\ row' = [e \in Events |-> IF e \in batch[p].todo \cup batch[p].done THEN "published" ELSE row[e]]
    /\ batch' = [batch EXCEPT ![p] = Idle]
    /\ UNCHANGED <<log, first, cursors, source, used>>

\* One commit marks the whole batch.
Mark(p) ==
    /\ batch[p].todo = {} /\ batch[p].done # {}
    /\ row' = [e \in Events |-> IF e \in batch[p].done THEN "published" ELSE row[e]]
    /\ batch' = [batch EXCEPT ![p] = Idle]
    /\ UNCHANGED <<log, first, cursors, source, used>>

\* Redis, the database or the process fails: nothing of the batch is marked.
PublisherFails(p) ==
    /\ batch[p] # Idle
    /\ used.failures < MaxFailures /\ used' = [used EXCEPT !.failures = @ + 1]
    /\ batch' = [batch EXCEPT ![p] = Idle]
    /\ UNCHANGED <<row, log, first, cursors, source>>

\* A key lives for a day; the console may be asleep for longer.  (It is read
\* by a Connect only, so that its end matters only before one.)
KeyExpires(e) ==
    /\ cursors[e] # 0 /\ source.phase = "away"
    /\ cursors' = [cursors EXCEPT ![e] = 0]
    /\ UNCHANGED <<row, batch, log, first, source, used>>

-----------------------------------------------------------------------------
(* The endpoint and the EventSource. *)

\* Mutant: an id without a key starts at the end like no id at all.
ConnectQuietly ==
    /\ source.phase = "away"
    /\ source' = IF source.last \in Events /\ cursors[source.last] # 0
                 THEN [source EXCEPT !.phase = "reading", !.pos = cursors[source.last]]
                 ELSE [source EXCEPT !.phase = "starting"]
    /\ UNCHANGED <<row, batch, log, first, cursors, used>>

\* Resume after the entry the key of the last id names; without a key tell
\* the console to read everything anew; without an id begin at the end.
Connect ==
    /\ source.phase = "away"
    /\ source' = CASE source.last = NoEvent -> [source EXCEPT !.phase = "starting"]
                   [] source.last \in Events /\ cursors[source.last] # 0 ->
                        [source EXCEPT !.phase = "reading", !.pos = cursors[source.last]]
                   [] OTHER -> [source EXCEPT !.phase = "starting", !.last = ResyncId, !.base = 0]
    /\ UNCHANGED <<row, batch, log, first, cursors, used>>

\* XREAD from "$": the end of the stream at this moment.
ReadFromEnd ==
    /\ source.phase = "starting"
    /\ source' = [source EXCEPT !.phase = "waiting", !.pos = Len(log)]
    /\ UNCHANGED <<row, batch, log, first, cursors, used>>

\* Nothing came until the heartbeat: the next XREAD says "$" again.
Heartbeat ==
    /\ source.phase = "waiting" /\ source.pos = Len(log)
    /\ source' = [source EXCEPT !.phase = "starting"]
    /\ UNCHANGED <<row, batch, log, first, cursors, used>>

\* The next entry that is still there.
Deliver ==
    /\ source.phase \in {"waiting", "reading"} /\ source.pos < Len(log)
    /\ LET next == IF source.pos + 1 < first THEN first ELSE source.pos + 1 IN
       source' = [source EXCEPT !.phase = "reading", !.pos = next, !.last = log[next],
                                !.base = IF @ = 0 THEN next ELSE @, !.seen = @ \cup {log[next]}]
    /\ UNCHANGED <<row, batch, log, first, cursors, used>>

\* The connection is lost; an EventSource comes back with its last id.
Drop ==
    /\ source.phase # "away"
    /\ used.drops < MaxDrops /\ used' = [used EXCEPT !.drops = @ + 1]
    /\ source' = [source EXCEPT !.phase = "away"]
    /\ UNCHANGED <<row, batch, log, first, cursors>>

StreamNext ==
    \/ \E e \in Events : Commit(e) \/ KeyExpires(e)
    \/ \E p \in Publishers : ReadOutbox(p) \/ Add(p) \/ SetKey(p) \/ Mark(p) \/ PublisherFails(p)
    \/ Connect \/ ReadFromEnd \/ Heartbeat \/ Deliver \/ Drop

StreamSpec == StreamInit /\ [][StreamNext]_streamVars

-----------------------------------------------------------------------------
(* Properties. *)

\* No event is marked as published that the stream has never held: whatever
\* fails, and whoever publishes the same rows at the same time, an event is
\* sent once or more, never not at all.
PublishedIsStreamed == \A e \in Events : row[e] = "published" => e \in Logged

\* What a console has passed over without being told to resync, and which the
\* stream still holds, lies between two copies of one event: the key of an
\* event that was published twice names the later copy.
GapNeedsACopy ==
    source.base # 0 =>
    \A i \in source.base..source.pos :
        i >= first /\ log[i] \notin source.seen =>
        \E j \in 1..Len(log), k \in 1..Len(log) : j < i /\ i < k /\ log[j] = log[k]
=============================================================================
