-------------------------- MODULE ConsolePagesProofs --------------------------
(***************************************************************************)
(* The parts of ConsolePages, each proved on its own, and then that the    *)
(* composition has what its parts have: no part writes what another one    *)
(* keeps, and a part at rest shows nothing.                                *)
(*                                                                         *)
(* The incident and its pages are in IncidentViewsProofs; here are the     *)
(* reading of the evidence, the stream of events, the live matrix, the     *)
(* payloads of the fault lab, the shell and the pages of the demo.         *)
(***************************************************************************)
EXTENDS ConsolePages, IncidentViewsProofs, FiniteSetTheorems, SequenceTheorems

-----------------------------------------------------------------------------
(* The reading of the evidence.  The worker asks two broader rules before  *)
(* the one for a membership.  They cannot hide a membership that the page  *)
(* calls eligible, because its peers and its siblings, of which it has at  *)
(* least one each, pass their probes: some instance of every route passes  *)
(* and some route of every instance does.                                  *)

\* What the worker reads into a window.
Windows == [samples : Nat, errors : Nat, rate : Nat \cup {NoRate}]

ReadingTypeOK ==
    /\ evidence \in [Memberships -> Windows]
    /\ probes \in [Memberships -> {"none", "pass", "fail", "unreachable"}]
    /\ conflicts \in BOOLEAN

\* What the page asks of a comparison is what the worker asks of a control.
LEMMA ComparisonIsControl ==
    ASSUME ReadingTypeOK, NEW m \in Memberships
    PROVE  ComparisonHealthy(m) <=> Healthy(m, ControlMinimum) /\ ProbePasses(m)
<1>1. evidence[m] \in Windows
  BY DEF ReadingTypeOK
<1> QED
  BY <1>1 DEF Windows, ComparisonHealthy, Healthy, ControlMinimum, HealthyRate, RateOr, NoRate

\* The five conditions and an answer make exactly the worker's rule.
LEMMA EligibleIsRule ==
    ASSUME ReadingTypeOK, NEW m \in Memberships
    PROVE  m \in RouteInstances <=> EligibleToConsider(m) /\ Reachable(m)
<1>1. evidence[m] \in Windows
  BY DEF ReadingTypeOK
<1>2. Failing(m, TargetMinimum) <=> Conditions(m).threshold /\ Conditions(m).samples
  <2>1. Failing(m, TargetMinimum) <=> RateReached(m) /\ SamplesSuffice(m)
    BY <1>1 DEF Windows, Failing, TargetMinimum, FailureRate, RateReached, SamplesSuffice, RateOr, NoRate
  <2>2. (Conditions(m).threshold <=> RateReached(m)) /\ (Conditions(m).samples <=> SamplesSuffice(m))
    BY DEF Conditions
  <2> QED
    BY <2>1, <2>2
<1>3. Peers(m) \subseteq Memberships /\ Siblings(m) \subseteq Memberships
  BY DEF Peers, Siblings
<1>4. (\A n \in Peers(m) \cup Siblings(m) : Healthy(n, ControlMinimum) /\ ProbePasses(n))
        <=> Conditions(m).peers /\ Conditions(m).siblings
  <2>1. Conditions(m).peers <=> \A n \in Peers(m) : ComparisonHealthy(n)
    BY DEF Conditions
  <2>2. Conditions(m).siblings <=> \A n \in Siblings(m) : ComparisonHealthy(n)
    BY DEF Conditions
  <2> QED
    BY <1>3, <2>1, <2>2, ComparisonIsControl
<1>5. Conditions(m).probe <=> ProbeFails(m)
  BY DEF Conditions
<1> QED
  BY <1>2, <1>4, <1>5 DEF RouteInstances, EligibleToConsider

\* A membership under the rule leaves no route and no instance that fails as a
\* whole: the broader rules do not apply.
LEMMA RuleIsAlone ==
    ASSUME NEW m \in RouteInstances
    PROVE  SharedRoutes = {} /\ InstancesDown = {}
<1>1. m \in Memberships /\ \A n \in Peers(m) \cup Siblings(m) : ProbePasses(n)
  BY DEF RouteInstances
<1>2. PICK r \in Routes, i \in Instances : m = <<r, i>>
  BY <1>1 DEF Memberships
<1>3. \A n \in Memberships : ProbePasses(n) => ~ProbeFails(n)
  BY DEF ProbePasses, ProbeFails
<1>4. ASSUME NEW s \in Routes PROVE s \notin SharedRoutes
  <2>1. CASE s = r
    <3>1. PICK j \in Instances : j # i
      BY ReadingAssumption
    <3>2. <<r, j>> \in Peers(m)
      BY <1>2, <3>1 DEF Peers, Memberships
    <3> QED
      BY <1>1, <1>3, <2>1, <3>2 DEF SharedRoutes, Memberships, Peers
  <2>2. CASE s # r
    <3>1. <<s, i>> \in Siblings(m)
      BY <1>2, <2>2 DEF Siblings, Memberships
    <3> QED
      BY <1>1, <1>3, <3>1 DEF SharedRoutes, Memberships, Siblings
  <2> QED
    BY <2>1, <2>2
<1>5. ASSUME NEW j \in Instances PROVE j \notin InstancesDown
  <2>1. CASE j = i
    <3>1. PICK s \in Routes : s # r
      BY ReadingAssumption
    <3>2. <<s, i>> \in Siblings(m)
      BY <1>2, <3>1 DEF Siblings, Memberships
    <3> QED
      BY <1>1, <1>3, <2>1, <3>2 DEF InstancesDown, Memberships, Siblings
  <2>2. CASE j # i
    <3>1. <<r, j>> \in Peers(m)
      BY <1>2, <2>2 DEF Peers, Memberships
    <3> QED
      BY <1>1, <1>3, <3>1 DEF InstancesDown, Memberships, Peers
  <2> QED
    BY <2>1, <2>2
<1> QED
  BY <1>4, <1>5 DEF SharedRoutes, InstancesDown

\* The two readings agree in every state that has its types.
LEMMA TypesAgree == ReadingTypeOK => ReadingAgrees
<1> SUFFICES ASSUME ReadingTypeOK, ~conflicts, NEW m \in Memberships
             PROVE  (Classify.class = "ROUTE_INSTANCE_FAILURE" /\ m \in Classify.scopes)
                        <=> (EligibleToConsider(m) /\ Reachable(m))
  BY DEF ReadingAgrees
<1>1. CASE m \in RouteInstances
  <2>1. Classify = [class |-> "ROUTE_INSTANCE_FAILURE", scopes |-> RouteInstances]
    BY <1>1, RuleIsAlone DEF Classify
  <2> QED
    BY <1>1, <2>1, EligibleIsRule
<1>2. CASE m \notin RouteInstances
  <2>1. Classify.class = "ROUTE_INSTANCE_FAILURE" => Classify.scopes = RouteInstances
    BY DEF Classify
  <2> QED
    BY <1>2, <2>1, EligibleIsRule
<1> QED
  BY <1>1, <1>2

\* A window that is empty has its types.
LEMMA ReadingStarts == ReadingInit => ReadingTypeOK
BY DEF ReadingInit, ReadingTypeOK, Windows, OfOneWindow, NoRate

\* Every window that follows has them.
LEMMA ReadingStays == ReadingTypeOK /\ [ReadingNext]_readingVars => ReadingTypeOK'
<1> SUFFICES ASSUME ReadingTypeOK, [ReadingNext]_readingVars PROVE ReadingTypeOK'
  OBVIOUS
<1>1. CASE ObserveWindow
  <2>1. PICK m \in Memberships, e \in Evidence, p \in Probes :
          evidence' = [evidence EXCEPT ![m] = e] /\ probes' = [probes EXCEPT ![m] = p]
    BY <1>1 DEF ObserveWindow
  <2>2. e \in Windows /\ p \in {"none", "pass", "fail", "unreachable"}
    BY ReadingAssumption DEF Windows, NoRate
  <2> QED
    BY <1>1, <2>1, <2>2 DEF ReadingTypeOK, ObserveWindow
<1>2. CASE Conflict
  BY <1>2 DEF ReadingTypeOK, Conflict
<1>3. CASE UNCHANGED readingVars
  BY <1>3 DEF ReadingTypeOK, readingVars
<1> QED
  BY <1>1, <1>2, <1>3 DEF ReadingNext

\* The page marks a membership as eligible for isolation exactly when the
\* worker's rule isolates it (or would, among several), for any number of
\* routes and instances.
THEOREM ReadingAgreement == ReadingSpec => []ReadingAgrees
BY ReadingStarts, ReadingStays, TypesAgree, PTL DEF ReadingSpec

-----------------------------------------------------------------------------
(* The stream: an event is never marked without having been sent, and a    *)
(* console misses a retained event only between two copies of another.     *)

Batches == [todo : SUBSET Events, done : SUBSET Events, at : Nat]
Clients == [phase : {"away", "starting", "waiting", "reading"}, last : Nat, pos : Nat, base : Nat,
            seen : SUBSET Events]

StreamTypeOK ==
    /\ row \in [Events -> {"open", "pending", "published"}]
    /\ batch \in [Publishers -> Batches]
    /\ log \in Seq(Events)
    /\ first \in Nat \ {0}
    /\ cursors \in [Events -> Nat]
    /\ source \in Clients

\* A publisher and a key know an entry by its place in the stream, which
\* always retains its last entry.
EntriesAreKnown ==
    /\ first = 1 \/ first <= Len(log)
    /\ \A p \in Publishers : batch[p].done \subseteq Logged /\ batch[p].at \in 0..Len(log)
    /\ \A e \in Events : cursors[e] # 0 => cursors[e] \in 1..Len(log) /\ log[cursors[e]] = e

\* An EventSource that has had an event holds its id and its place; one that
\* waits for "$" has none it could resume from.
PlaceIsKnown ==
    /\ source.pos \in 0..Len(log)
    /\ source.base # 0 => source.last \in Events
    /\ source.last \in Events =>
          source.pos # 0 /\ log[source.pos] = source.last /\ source.last \in source.seen
    /\ source.phase \in {"starting", "waiting"} => source.last \notin Events

StreamInv == StreamTypeOK /\ EntriesAreKnown /\ PublishedIsStreamed /\ PlaceIsKnown /\ GapNeedsACopy

-----------------------------------------------------------------------------
(* What an append does to a sequence. *)

\* An append adds one entry at the end and leaves the others where they are.
LEMMA Appended ==
    ASSUME NEW S, NEW s \in Seq(S), NEW x \in S
    PROVE  /\ Append(s, x) \in Seq(S)
           /\ Len(Append(s, x)) = Len(s) + 1
           /\ \A i \in 1..Len(s) : Append(s, x)[i] = s[i]
           /\ Append(s, x)[Len(s) + 1] = x
BY SMT

-----------------------------------------------------------------------------
(* The initial state. *)

\* The invariant holds before anything is written.
LEMMA StreamStarts == StreamInit => StreamInv
<1> SUFFICES ASSUME StreamInit PROVE StreamInv
    OBVIOUS
<1>1. log = <<>> /\ Len(log) = 0 /\ log \in Seq(Events)
    BY DEF StreamInit
<1>2. StreamTypeOK
    BY <1>1, EventStreamAssumption DEF StreamInit, StreamTypeOK, Batches, Clients, Idle, NoEvent
<1>3. EntriesAreKnown
    BY <1>1 DEF StreamInit, EntriesAreKnown, Idle
<1>4. PublishedIsStreamed
    BY DEF StreamInit, PublishedIsStreamed
<1>5. PlaceIsKnown
    BY <1>1, EventStreamAssumption DEF StreamInit, PlaceIsKnown, NoEvent, Events
<1>6. GapNeedsACopy
    BY DEF StreamInit, GapNeedsACopy
<1> QED
    BY <1>2, <1>3, <1>4, <1>5, <1>6 DEF StreamInv
-----------------------------------------------------------------------------
(* Types. *)

\* Every step keeps the types.
LEMMA StreamTypes == StreamTypeOK /\ EntriesAreKnown /\ [StreamNext]_streamVars => StreamTypeOK'
<1> SUFFICES ASSUME StreamTypeOK, EntriesAreKnown, [StreamNext]_streamVars PROVE StreamTypeOK'
    OBVIOUS
<1> USE DEF StreamTypeOK
<1>1. ASSUME NEW e \in Events, Commit(e) PROVE StreamTypeOK'
    BY <1>1 DEF Commit
<1>2. ASSUME NEW e \in Events, KeyExpires(e) PROVE StreamTypeOK'
    BY <1>2 DEF KeyExpires
<1>3. ASSUME NEW p \in Publishers, ReadOutbox(p) PROVE StreamTypeOK'
    <2>1. PICK taken \in SUBSET Events : batch' = [batch EXCEPT ![p] = [Idle EXCEPT !.todo = taken]]
        BY <1>3 DEF ReadOutbox
    <2>2. [Idle EXCEPT !.todo = taken] \in Batches
        BY DEF Idle, Batches
    <2>3. batch' \in [Publishers -> Batches]
        BY <2>1, <2>2
    <2> QED BY <1>3, <2>3 DEF ReadOutbox
<1>4. ASSUME NEW p \in Publishers, Add(p) PROVE StreamTypeOK'
    <2>1. PICK e \in Events : log' = Append(log, e)
        BY <1>4 DEF Add, Batches
    <2>2. log' \in Seq(Events)
        BY <2>1, Appended
    <2>3. first' \in Nat \ {0}
        BY <1>4 DEF Add
    <2>4. \A n \in Nat : [batch[p] EXCEPT !.at = n] \in Batches
        BY DEF Batches
    <2>5. Len(log) + 1 \in Nat
        OBVIOUS
    <2>6. batch' \in [Publishers -> Batches]
        BY <1>4, <2>4, <2>5 DEF Add
    <2> QED BY <1>4, <2>2, <2>3, <2>6 DEF Add
<1>5. ASSUME NEW p \in Publishers, SetKey(p) PROVE StreamTypeOK'
    <2>1. batch[p].at \in 1..Len(log)
        BY <1>5 DEF SetKey, EntriesAreKnown
    <2>2. log[batch[p].at] \in Events
        BY <2>1
    <2>3. cursors' \in [Events -> Nat]
        BY <1>5, <2>1, <2>2 DEF SetKey
    <2>4. [todo |-> batch[p].todo \ {log[batch[p].at]}, done |-> batch[p].done \cup {log[batch[p].at]}, at |-> 0]
            \in Batches
        BY <2>2 DEF Batches
    <2>5. batch' \in [Publishers -> Batches]
        BY <1>5, <2>4 DEF SetKey
    <2> QED BY <1>5, <2>3, <2>5 DEF SetKey
<1>6. Idle \in Batches
    BY DEF Idle, Batches
<1>7. ASSUME NEW p \in Publishers, Mark(p) PROVE StreamTypeOK'
    BY <1>6, <1>7 DEF Mark
<1>8. ASSUME NEW p \in Publishers, PublisherFails(p) PROVE StreamTypeOK'
    BY <1>6, <1>8 DEF PublisherFails
<1>9. CASE Connect
    <2>1. \A n \in Nat : [source EXCEPT !.phase = "reading", !.pos = n] \in Clients
        BY DEF Clients
    <2>2. [source EXCEPT !.phase = "starting"] \in Clients
        BY DEF Clients
    <2>3. [source EXCEPT !.phase = "starting", !.last = ResyncId, !.base = 0] \in Clients
        <3>1. ResyncId \in Nat
            BY EventStreamAssumption DEF ResyncId
        <3> QED BY <3>1 DEF Clients
    <2>4. source' \in Clients
        BY <1>9, <2>1, <2>2, <2>3 DEF Connect
    <2> QED BY <1>9, <2>4 DEF Connect
<1>10. CASE ReadFromEnd
    <2>1. \A n \in Nat : [source EXCEPT !.phase = "waiting", !.pos = n] \in Clients
        BY DEF Clients
    <2>2. Len(log) \in Nat
        OBVIOUS
    <2> QED BY <1>10, <2>1, <2>2 DEF ReadFromEnd
<1>11. CASE Heartbeat
    BY <1>11 DEF Heartbeat, Clients
<1>12. CASE Deliver
    <2> DEFINE next == IF source.pos + 1 < first THEN first ELSE source.pos + 1
    <2>1. source.pos \in Nat /\ source.base \in Nat /\ source.seen \subseteq Events
        BY DEF Clients
    <2>2. next \in Nat
        BY <2>1
    <2>3. next \in 1..Len(log) /\ log[next] \in Events
        BY <1>12, <2>1 DEF Deliver, EntriesAreKnown
    <2>4. log[next] \in Nat
        BY <2>3 DEF Events
    <2>5. \A n, e, b \in Nat, had \in SUBSET Events :
             [source EXCEPT !.phase = "reading", !.pos = n, !.last = e, !.base = b, !.seen = had] \in Clients
        BY DEF Clients
    <2>6. (IF source.base = 0 THEN next ELSE source.base) \in Nat
        BY <2>1, <2>2
    <2>7. source.seen \cup {log[next]} \in SUBSET Events
        BY <2>1, <2>3
    <2>8. source' = [source EXCEPT !.phase = "reading", !.pos = next, !.last = log[next],
                                   !.base = IF source.base = 0 THEN next ELSE source.base,
                                   !.seen = source.seen \cup {log[next]}]
        BY <1>12 DEF Deliver
    <2> HIDE DEF next
    <2>9. source' \in Clients
        BY <2>2, <2>4, <2>5, <2>6, <2>7, <2>8
    <2> QED BY <1>12, <2>9 DEF Deliver
<1>13. CASE Drop
    BY <1>13 DEF Drop, Clients
<1>14. CASE UNCHANGED streamVars
    BY <1>14 DEF streamVars
<1> QED
    BY <1>1, <1>2, <1>3, <1>4, <1>5, <1>7, <1>8, <1>9, <1>10, <1>11, <1>12, <1>13, <1>14 DEF StreamNext
-----------------------------------------------------------------------------
(* The stream only grows, and only an Add makes it grow. *)

\* What is in the stream stays where it is.
LEMMA LogGrows ==
    ASSUME StreamTypeOK, [StreamNext]_streamVars
    PROVE  /\ Len(log) <= Len(log')
           /\ \A i \in 1..Len(log) : log'[i] = log[i]
           /\ Logged \subseteq Logged'
           /\ first <= first'
           /\ first' = first \/ first' <= Len(log')
<1> USE DEF StreamTypeOK
<1>1. CASE UNCHANGED <<log, first>>
    BY <1>1 DEF Logged
<1>2. ASSUME NEW p \in Publishers, Add(p)
      PROVE  /\ Len(log) <= Len(log')
             /\ \A i \in 1..Len(log) : log'[i] = log[i]
             /\ Logged \subseteq Logged'
             /\ first <= first'
             /\ first' = first \/ first' <= Len(log')
    <2>1. PICK e \in Events : log' = Append(log, e)
        BY <1>2 DEF Add, Batches
    <2>2. Len(log') = Len(log) + 1 /\ \A i \in 1..Len(log) : log'[i] = log[i]
        BY <2>1, Appended
    <2>3. Logged \subseteq Logged'
        BY <2>2 DEF Logged
    <2>4. first <= first' /\ (first' = first \/ first' <= Len(log) + 1)
        BY <1>2 DEF Add
    <2> QED BY <2>2, <2>3, <2>4
<1>3. (\E p \in Publishers : Add(p)) \/ UNCHANGED <<log, first>>
    BY DEF StreamNext, streamVars, Commit, KeyExpires, ReadOutbox, SetKey, Mark, PublisherFails,
           Connect, ReadFromEnd, Heartbeat, Deliver, Drop
<1> QED
    BY <1>1, <1>2, <1>3

-----------------------------------------------------------------------------
(* Entries. *)

\* Every step keeps what publishers and keys know of entries.
LEMMA EntriesStayKnown ==
    ASSUME StreamTypeOK, EntriesAreKnown, [StreamNext]_streamVars
    PROVE  EntriesAreKnown'
<1> DEFINE Known(p) == batch[p].done \subseteq Logged /\ batch[p].at \in 0..Len(log)
           Keyed(e) == cursors[e] # 0 => cursors[e] \in 1..Len(log) /\ log[cursors[e]] = e
<1>2. first' = 1 \/ first' <= Len(log')
    BY LogGrows DEF EntriesAreKnown, StreamTypeOK
<1>3. ASSUME NEW p \in Publishers, batch'[p] = batch[p] PROVE Known(p)'
    BY <1>3, LogGrows DEF EntriesAreKnown, StreamTypeOK
<1>4. ASSUME NEW e \in Events, cursors'[e] = cursors[e] PROVE Keyed(e)'
    BY <1>4, LogGrows DEF EntriesAreKnown, StreamTypeOK
<1>5. ASSUME NEW p \in Publishers PROVE Known(p)'
    <2> USE DEF StreamTypeOK
    <2>1. CASE ReadOutbox(p)
        BY <2>1 DEF ReadOutbox, Idle
    <2>2. CASE Add(p)
        <3>1. PICK e \in Events : log' = Append(log, e)
            BY <2>2 DEF Add, Batches
        <3>2. Len(log') = Len(log) + 1
            BY <3>1, Appended
        <3>3. batch'[p].at = Len(log) + 1 /\ batch'[p].done = batch[p].done
            BY <2>2 DEF Add, Batches
        <3> QED BY <3>2, <3>3, LogGrows DEF EntriesAreKnown
    <2>3. CASE SetKey(p)
        <3>1. batch[p].at \in 1..Len(log)
            BY <2>3 DEF SetKey, EntriesAreKnown
        <3>2. batch'[p].at = 0 /\ batch'[p].done = batch[p].done \cup {log[batch[p].at]} /\ log' = log
            BY <2>3 DEF SetKey
        <3> QED BY <3>1, <3>2 DEF EntriesAreKnown, Logged
    <2>4. CASE Mark(p) \/ PublisherFails(p)
        BY <2>4 DEF Mark, PublisherFails, Idle
    <2>5. CASE batch'[p] = batch[p]
        BY <1>3, <2>5
    <2>6. ASSUME NEW q \in Publishers \ {p}, ReadOutbox(q) \/ Add(q) \/ SetKey(q) \/ Mark(q) \/ PublisherFails(q)
          PROVE batch'[p] = batch[p]
        BY <2>6 DEF ReadOutbox, Add, SetKey, Mark, PublisherFails
    <2>7. \/ \E q \in Publishers : ReadOutbox(q) \/ Add(q) \/ SetKey(q) \/ Mark(q) \/ PublisherFails(q)
          \/ batch' = batch
        BY DEF StreamNext, streamVars, Commit, KeyExpires, Connect, ReadFromEnd, Heartbeat, Deliver, Drop
    <2> QED BY <2>1, <2>2, <2>3, <2>4, <2>5, <2>6, <2>7
<1>6. ASSUME NEW e \in Events PROVE Keyed(e)'
    <2> USE DEF StreamTypeOK
    <2>1. CASE KeyExpires(e)
        BY <2>1 DEF KeyExpires
    <2>2. ASSUME NEW p \in Publishers, SetKey(p), cursors'[e] # cursors[e] PROVE Keyed(e)'
        <3>1. batch[p].at \in 1..Len(log) /\ log' = log
            BY <2>2 DEF SetKey, EntriesAreKnown
        <3>2. log[batch[p].at] = e /\ cursors'[e] = batch[p].at
            BY <2>2, <3>1 DEF SetKey
        <3> QED BY <3>1, <3>2
    <2>3. CASE \E other \in Events \ {e} : KeyExpires(other)
        BY <1>4, <2>3 DEF KeyExpires
    <2>4. \/ \E other \in Events : KeyExpires(other)
          \/ \E p \in Publishers : SetKey(p)
          \/ cursors' = cursors
        BY DEF StreamNext, streamVars, Commit, ReadOutbox, Add, Mark, PublisherFails,
               Connect, ReadFromEnd, Heartbeat, Deliver, Drop
    <2> QED BY <1>4, <2>1, <2>2, <2>3, <2>4
<1> QED
    BY <1>2, <1>5, <1>6 DEF EntriesAreKnown
-----------------------------------------------------------------------------
(* Publication. *)

\* Every step marks only what the stream holds.
LEMMA MarksWhatWasSent ==
    ASSUME StreamTypeOK, EntriesAreKnown, PublishedIsStreamed, [StreamNext]_streamVars
    PROVE  PublishedIsStreamed'
<1> SUFFICES ASSUME NEW e \in Events, row'[e] = "published" PROVE e \in Logged'
    BY DEF PublishedIsStreamed
<1> USE DEF StreamTypeOK
<1>1. CASE row[e] = "published"
    BY <1>1, LogGrows DEF PublishedIsStreamed
<1>2. CASE row[e] # "published"
    <2>1. PICK p \in Publishers : Mark(p)
        <3>1. ASSUME NEW x \in Events, Commit(x) PROVE row'[e] # "published"
            BY <1>2, <3>1 DEF Commit
        <3>2. CASE UNCHANGED row
            BY <1>2, <3>2
        <3> QED BY <3>1, <3>2 DEF StreamNext, streamVars, KeyExpires, ReadOutbox, Add, SetKey, PublisherFails,
                   Connect, ReadFromEnd, Heartbeat, Deliver, Drop
    <2>2. e \in batch[p].done
        BY <1>2, <2>1 DEF Mark
    <2> QED BY <2>2, LogGrows DEF EntriesAreKnown
<1> QED
    BY <1>1, <1>2

-----------------------------------------------------------------------------
(* The console. *)

\* The entry a delivery takes is in the stream, behind the last one, and
\* nothing it passes over is retained.
LEMMA NextEntry ==
    ASSUME StreamTypeOK, EntriesAreKnown, Deliver
    PROVE  /\ source'.pos \in 1..Len(log) /\ source.pos < source'.pos
           /\ source'.last = log[source'.pos] /\ source'.last \in source'.seen
           /\ source'.seen = source.seen \cup {log[source'.pos]}
           /\ source'.base = IF source.base = 0 THEN source'.pos ELSE source.base
           /\ source'.phase = "reading"
           /\ \A i \in Nat : source.pos < i /\ i < source'.pos => i < first
           /\ UNCHANGED <<log, first>>
<1> USE DEF StreamTypeOK
<1> DEFINE next == IF source.pos + 1 < first THEN first ELSE source.pos + 1
<1>1. source.pos \in Nat /\ source.pos < Len(log) /\ first \in Nat \ {0}
    BY DEF Deliver, Clients
<1>2. next \in 1..Len(log) /\ source.pos < next /\ \A i \in Nat : source.pos < i /\ i < next => i < first
    BY <1>1 DEF EntriesAreKnown
<1>3. source' = [source EXCEPT !.phase = "reading", !.pos = next, !.last = log[next],
                               !.base = IF source.base = 0 THEN next ELSE source.base,
                               !.seen = source.seen \cup {log[next]}]
    BY DEF Deliver
<1> HIDE DEF next
<1>4. /\ source'.phase = "reading" /\ source'.pos = next /\ source'.last = log[next]
      /\ source'.base = IF source.base = 0 THEN next ELSE source.base
      /\ source'.seen = source.seen \cup {log[next]}
    BY <1>3 DEF Clients
<1> QED
    BY <1>2, <1>4 DEF Deliver

\* Every step leaves an EventSource at the entry whose id it holds.
LEMMA PlaceStaysKnown ==
    ASSUME StreamTypeOK, EntriesAreKnown, PlaceIsKnown, [StreamNext]_streamVars
    PROVE  PlaceIsKnown'
<1> USE DEF StreamTypeOK
<1>1. CASE UNCHANGED source
    BY <1>1, LogGrows DEF PlaceIsKnown, Clients
<1>2. CASE Connect
    <2>1. CASE source.last = NoEvent
        BY <1>2, <2>1 DEF Connect, PlaceIsKnown, Clients, Events, NoEvent
    <2>2. CASE source.last \in Events /\ cursors[source.last] # 0
        <3>1. source' = [source EXCEPT !.phase = "reading", !.pos = cursors[source.last]] /\ log' = log
            BY <1>2, <2>2 DEF Connect, Events, NoEvent
        <3>2. cursors[source.last] \in 1..Len(log) /\ log[cursors[source.last]] = source.last
            BY <2>2 DEF EntriesAreKnown
        <3>3. /\ source'.phase = "reading" /\ source'.pos = cursors[source.last] /\ source'.last = source.last
              /\ source'.base = source.base /\ source'.seen = source.seen
            BY <3>1 DEF Clients
        <3> QED BY <2>2, <3>1, <3>2, <3>3 DEF PlaceIsKnown
    <2>3. CASE ~(source.last = NoEvent) /\ ~(source.last \in Events /\ cursors[source.last] # 0)
        <3>1. source' = [source EXCEPT !.phase = "starting", !.last = ResyncId, !.base = 0] /\ log' = log
            BY <1>2, <2>3 DEF Connect
        <3>2. /\ source'.phase = "starting" /\ source'.pos = source.pos /\ source'.last = ResyncId
              /\ source'.base = 0
            BY <3>1 DEF Clients
        <3>3. ResyncId \notin Events
            BY EventStreamAssumption DEF ResyncId, Events
        <3> QED BY <3>1, <3>2, <3>3 DEF PlaceIsKnown
    <2> QED BY <2>1, <2>2, <2>3
<1>3. CASE ReadFromEnd
    <2>1. /\ source'.phase = "waiting" /\ source'.pos = Len(log) /\ source'.last = source.last
          /\ source'.base = source.base /\ log' = log
        BY <1>3 DEF ReadFromEnd, Clients
    <2>2. source.last \notin Events
        BY <1>3 DEF ReadFromEnd, PlaceIsKnown
    <2> QED BY <2>1, <2>2 DEF PlaceIsKnown
<1>4. CASE Heartbeat
    BY <1>4 DEF Heartbeat, PlaceIsKnown, Clients
<1>5. CASE Deliver
    <2>1. log[source'.pos] \in Events /\ source'.pos # 0
        BY <1>5, NextEntry
    <2> QED BY <1>5, <2>1, NextEntry DEF PlaceIsKnown
<1>6. CASE Drop
    BY <1>6 DEF Drop, PlaceIsKnown, Clients
<1> QED
    BY <1>1, <1>2, <1>3, <1>4, <1>5, <1>6
    DEF StreamNext, streamVars, Commit, KeyExpires, ReadOutbox, Add, SetKey, Mark, PublisherFails
\* Every step explains what it makes a console pass over.
LEMMA GapsStayExplained ==
    ASSUME StreamInv, [StreamNext]_streamVars
    PROVE  GapNeedsACopy'
<1> DEFINE Explained(i) == \E j \in 1..Len(log), k \in 1..Len(log) : j < i /\ i < k /\ log[j] = log[k]
           Missed(i) == i >= first /\ log[i] \notin source.seen
<1> USE DEF StreamInv
<1>1. source.pos \in 0..Len(log) /\ source.base \in Nat /\ first \in Nat
    BY DEF PlaceIsKnown, StreamTypeOK, Clients
<1>2. ASSUME NEW i \in Nat, i <= Len(log), i > 0, Explained(i) PROVE Explained(i)'
    <2>1. PICK j \in 1..Len(log), k \in 1..Len(log) : j < i /\ i < k /\ log[j] = log[k]
        BY <1>2
    <2>2. Len(log) \in Nat /\ Len(log') \in Nat
        BY StreamTypes DEF StreamTypeOK
    <2>3. Len(log) <= Len(log') /\ log'[j] = log[j] /\ log'[k] = log[k]
        BY <2>1, LogGrows
    <2> QED BY <2>1, <2>2, <2>3
<1>3. SUFFICES ASSUME source'.base # 0, NEW i \in source'.base..source'.pos, Missed(i)' PROVE Explained(i)'
    BY DEF GapNeedsACopy
<1>4. CASE UNCHANGED <<source.pos, source.base, source.seen>>
    <2>1. i \in source.base..source.pos /\ source.base # 0 /\ i \in 1..Len(log)
        BY <1>1, <1>3, <1>4
    <2>2. log'[i] = log[i] /\ first <= first'
        BY <2>1, LogGrows
    <2>3. Missed(i)
        BY <1>1, <1>3, <1>4, <2>1, <2>2, StreamTypes DEF StreamTypeOK
    <2>4. Explained(i)
        BY <2>1, <2>3 DEF GapNeedsACopy
    <2> QED BY <1>2, <2>1, <2>4
<1>5. CASE Deliver
    <2>1. source'.pos \in 1..Len(log) /\ source.pos < source'.pos /\ log' = log /\ first' = first
        BY <1>5, NextEntry
    <2>2. source'.seen = source.seen \cup {log[source'.pos]}
        BY <1>5, NextEntry
    <2>3. source'.base = IF source.base = 0 THEN source'.pos ELSE source.base
        BY <1>5, NextEntry
    <2>4. i # source'.pos
        BY <1>3, <2>1, <2>2
    <2>5. source.base # 0 /\ source'.base = source.base /\ i < source'.pos
        BY <1>1, <1>3, <2>1, <2>3, <2>4
    <2>6. i <= source.pos
        <3>1. ~(source.pos < i /\ i < source'.pos)
            BY <1>1, <1>3, <1>5, <2>1, <2>5, NextEntry
        <3> QED BY <1>1, <1>3, <2>1, <2>5, <3>1
    <2>7. Missed(i)
        BY <1>3, <2>1, <2>2
    <2>8. Explained(i)
        BY <1>1, <1>3, <2>5, <2>6, <2>7 DEF GapNeedsACopy
    <2> QED BY <2>1, <2>8
<1>6. CASE Connect /\ source.last \in Events /\ cursors[source.last] # 0
    <2> DEFINE place == cursors[source.last]
    <2>1. source' = [source EXCEPT !.phase = "reading", !.pos = place] /\ log' = log /\ first' = first
        BY <1>6 DEF Connect, Events, NoEvent
    <2>2. source'.pos = place /\ source'.base = source.base /\ source'.seen = source.seen
        BY <2>1 DEF StreamTypeOK, Clients
    <2>3. place \in 1..Len(log) /\ log[place] = source.last
        BY <1>6 DEF EntriesAreKnown
    <2>4. source.pos \in 1..Len(log) /\ log[source.pos] = source.last /\ source.last \in source.seen
        BY <1>1, <1>6 DEF PlaceIsKnown
    <2>5. i # place /\ i <= place /\ i >= source.base /\ i >= first /\ log[i] \notin source.seen
        BY <1>1, <1>3, <2>1, <2>2, <2>3, <2>4
    <2>6. CASE i <= source.pos
        <3>1. Explained(i)
            BY <1>1, <1>3, <2>2, <2>5, <2>6 DEF GapNeedsACopy
        <3> QED BY <2>1, <3>1
    <2>7. CASE source.pos < i
        <3>1. source.pos < i /\ i < place /\ log[source.pos] = log[place]
            BY <1>3, <2>2, <2>3, <2>4, <2>5, <2>7
        <3> QED BY <2>1, <2>3, <2>4, <3>1
    <2> QED BY <1>1, <1>3, <2>3, <2>6, <2>7
<1>7. CASE Connect /\ ~(source.last \in Events /\ cursors[source.last] # 0)
    <2>1. source.last # NoEvent => source'.base = 0
        BY <1>7 DEF Connect, StreamTypeOK, Clients
    <2>2. source.last = NoEvent
        BY <1>3, <2>1
    <2> QED BY <1>4, <1>7, <2>2 DEF Connect, StreamTypeOK, Clients
<1>8. CASE ReadFromEnd
    <2>1. source'.base = source.base /\ source.last \notin Events
        BY <1>8 DEF ReadFromEnd, PlaceIsKnown, StreamTypeOK, Clients
    <2> QED BY <1>3, <2>1 DEF PlaceIsKnown
<1>9. CASE Heartbeat \/ Drop
    BY <1>4, <1>9 DEF Heartbeat, Drop, StreamTypeOK, Clients
<1>10. CASE UNCHANGED source
    BY <1>4, <1>10
<1> QED
    BY <1>5, <1>6, <1>7, <1>8, <1>9, <1>10
    DEF StreamNext, streamVars, Commit, KeyExpires, ReadOutbox, Add, SetKey, Mark, PublisherFails

-----------------------------------------------------------------------------
\* The invariant is inductive.
LEMMA StreamStays == StreamInv /\ [StreamNext]_streamVars => StreamInv'
<1> SUFFICES ASSUME StreamInv, [StreamNext]_streamVars PROVE StreamInv'
    OBVIOUS
<1> QED
    BY StreamTypes, EntriesStayKnown, MarksWhatWasSent, PlaceStaysKnown, GapsStayExplained DEF StreamInv

\* An event that is marked as published has been sent, with any number of
\* publishers and failures (publish_pending_outbox, audit.py).
THEOREM EveryMarkedEventWasSent == StreamSpec => []PublishedIsStreamed
<1>1. StreamInv => PublishedIsStreamed
    BY DEF StreamInv
<1> QED
    BY <1>1, StreamStarts, StreamStays, PTL DEF StreamSpec

\* A console misses a retained event only between two copies of another
\* (events, routers/events.py).
THEOREM OnlyCopiesHideEvents == StreamSpec => []GapNeedsACopy
<1>1. StreamInv => GapNeedsACopy
    BY DEF StreamInv
<1> QED
    BY <1>1, StreamStarts, StreamStays, PTL DEF StreamSpec

-----------------------------------------------------------------------------
(* The live matrix. *)

\* The cell that opened the sheet is that of the sheet, however often the table
\* behind it is read again.
LiveInv ==
    /\ DOMAIN query = {"data", "failed"}
    /\ DOMAIN sheet = {"at", "record", "held"}
    /\ shown => trigger = sheet.at

\* Nothing is open yet.
LEMMA LiveStarts == LiveInit => LiveInv
BY DEF LiveInit, LiveInv, NoSheet

\* Every step keeps the trigger and the sheet together.
LEMMA LiveStays == LiveInv /\ [LiveNext]_liveVars => LiveInv'
<1> SUFFICES ASSUME LiveInv, [LiveNext]_liveVars PROVE LiveInv'
    OBVIOUS
<1> USE DEF LiveInv
<1>1. CASE ApiChanges \/ Enter \/ LiveMove
    BY <1>1 DEF ApiChanges, Enter, LiveMove
<1>2. CASE Fetched
    <2>1. DOMAIN query' = {"data", "failed"}
        BY <1>2 DEF Fetched
    <2>2. sheet'.at = sheet.at /\ DOMAIN sheet' = DOMAIN sheet
        BY <1>2 DEF Fetched, StillHeld
    <2> QED BY <1>2, <2>1, <2>2 DEF Fetched
<1>3. CASE FetchFailed
    BY <1>3 DEF FetchFailed
<1>4. CASE CloseDetails
    BY <1>4 DEF CloseDetails, NoSheet
<1>5. ASSUME NEW c \in Coordinates, OpenDetails(c) PROVE LiveInv'
    <2>1. CASE sheet.at = c /\ sheet.held
        BY <1>5, <2>1 DEF OpenDetails
    <2>2. CASE ~(sheet.at = c /\ sheet.held)
        BY <1>5, <2>2 DEF OpenDetails
    <2> QED BY <2>1, <2>2
<1>6. CASE UNCHANGED liveVars
    BY <1>6 DEF liveVars
<1> QED BY <1>1, <1>2, <1>3, <1>4, <1>5, <1>6 DEF LiveNext

\* A sheet that closes over a table that is there gives the focus back.
FocusReturns == shown /\ ~shown' /\ ~query'.failed => liveFocus' = sheet.at

\* Only a click and the closing of the sheet touch what is shown: every step of
\* the live matrix returns the focus when it closes the sheet.
LEMMA FocusStepReturns == LiveInv /\ [LiveNext]_liveVars => FocusReturns
<1> SUFFICES ASSUME LiveInv, [LiveNext]_liveVars, shown, ~shown', ~query'.failed PROVE liveFocus' = sheet.at
    BY DEF FocusReturns
<1>1. ~FetchFailed
    BY DEF FetchFailed, LiveInv
<1>2. CloseDetails
    BY <1>1 DEF LiveNext, ApiChanges, Fetched, Enter, LiveMove, OpenDetails, liveVars
<1> QED BY <1>2 DEF CloseDetails, LiveInv

\* The tag of a sheet is that of its record: by the order of the labels.
LEMMA TagsAreSound == SheetTagIsSound
<1> SUFFICES ASSUME NEW r
             PROVE  /\ r.drift => SheetText(r).tone # "success"
                    /\ SheetText(r).tag = "Quarantined" => r.readback /\ ~r.drift /\ r.weight = 0
    BY DEF SheetTagIsSound
<1>1. r.drift => CellState(r).className \notin {"healthy", "failing"}
    BY DEF CellState
<1>2. CellState(r).label = "Quarantined" => r.readback /\ ~r.drift /\ r.weight = 0
    BY DEF CellState
<1> QED BY <1>1, <1>2 DEF SheetText

-----------------------------------------------------------------------------
(* The payloads of the fault lab. *)

\* The kinds that name no route.
Targetless == {"instance_down", "gray_failure"}

\* What the payloads ask for.
LEMMA PayloadsAre ==
    ASSUME NEW p \in Payloads
    PROVE  LET q == payloads[p] IN
           /\ q.kind \in {"route_failure", "instance_down", "gray_failure", "unknown_conflict"}
           /\ q.kind \in Targetless => q.route = "*" /\ q.instance \in LabInstances
           /\ q.kind = "route_failure" => q.route \in LabRoutes /\ q.instance \in LabInstances \cup {"all"}
           /\ q.kind = "unknown_conflict" <=> p = "UNKNOWN_CONFLICT"
           /\ q.told = CASE q.kind = "unknown_conflict" -> "UNKNOWN"
                         [] q.kind = "gray_failure" -> "HEALTHY"
                         [] q.kind = "instance_down" -> "INSTANCE_DOWN"
                         [] q.kind = "route_failure" /\ q.instance = "all" -> "SHARED_ROUTE_FAILURE"
                         [] OTHER -> "ROUTE_INSTANCE_FAILURE"
BY DEF Payloads, payloads, Payload, Targetless, LabRoutes, LabInstances

\* The cells of the lab; whether requests and probes of one find a fault; and
\* what a window says of it.
Hit(m) == fault_affects(m[1], held[m[2]])
Cells == LabRoutes \X LabInstances
Broken(m, minimum) == window[m].samples >= minimum /\ window[m].rate # -1 /\ window[m].rate >= 5000
Sound(m) == window[m].samples >= 3 /\ window[m].rate # -1 /\ window[m].rate <= 1000
Neighbours(m) == {n \in Cells : (n[1] = m[1] /\ n[2] # m[2]) \/ (n[2] = m[2] /\ n[1] # m[1])}

\* The worker's rules, of the probes that the faults leave.
LEMMA RulesOfTheLab ==
    ASSUME NEW c \in BOOLEAN
    PROVE  /\ Reading(c)!SharedRoutes =
                {r \in LabRoutes : \A i \in LabInstances : Broken(<<r, i>>, 3) /\ Hit(<<r, i>>)}
           /\ Reading(c)!InstancesDown = {i \in LabInstances : \A r \in LabRoutes : Hit(<<r, i>>)}
           /\ Reading(c)!RouteInstances =
                {m \in Cells : Broken(m, 6) /\ Hit(m) /\ \A n \in Neighbours(m) : Sound(n) /\ ~Hit(n)}
<1>1. \A m \in Cells : /\ Reading(c)!ProbeFails(m) <=> Hit(m)
                       /\ Reading(c)!ProbePasses(m) <=> ~Hit(m)
                       /\ Reading(c)!Reachable(m)
    BY DEF Reading!ProbeFails, Reading!ProbePasses, Reading!Reachable, ProbeOf, Hit, Cells
<1>2. Reading(c)!Memberships = Cells
    BY DEF Reading!Memberships, Cells
<1>3. \A m : /\ Reading(c)!Failing(m, 3) <=> Broken(m, 3)
             /\ Reading(c)!Failing(m, 6) <=> Broken(m, 6)
             /\ Reading(c)!Healthy(m, 3) <=> Sound(m)
    BY DEF Reading!Failing, Reading!Healthy, Reading!NoRate, Reading!FailureRate, Reading!HealthyRate, Broken, Sound
<1>4. \A m : Reading(c)!Peers(m) \cup Reading(c)!Siblings(m) = Neighbours(m)
    BY <1>2 DEF Reading!Peers, Reading!Siblings, Neighbours
<1>5. \A r \in LabRoutes, i \in LabInstances : <<r, i>> \in Cells
    BY DEF Cells
<1>6. Reading(c)!TargetMinimum = 6 /\ Reading(c)!ControlMinimum = 3
    BY DEF Reading!TargetMinimum, Reading!ControlMinimum
<1>7. \A m : Neighbours(m) \subseteq Cells
    BY DEF Neighbours
<1>8. Reading(c)!SharedRoutes = {r \in LabRoutes : \A i \in LabInstances : Broken(<<r, i>>, 3) /\ Hit(<<r, i>>)}
    BY <1>1, <1>3, <1>5, <1>6 DEF Reading!SharedRoutes
<1>9. Reading(c)!InstancesDown = {i \in LabInstances : \A r \in LabRoutes : Hit(<<r, i>>)}
    BY <1>1, <1>5 DEF Reading!InstancesDown
<1>10. Reading(c)!RouteInstances =
          {m \in Cells : Broken(m, 6) /\ Hit(m) /\ \A n \in Neighbours(m) : Sound(n) /\ ~Hit(n)}
    BY <1>1, <1>2, <1>3, <1>4, <1>6, <1>7 DEF Reading!RouteInstances
<1> QED BY <1>8, <1>9, <1>10

\* What the backends hold is the fault of the payload, and once it is applied
\* the window holds what such a fault may leave.
LabInv ==
    /\ chosen \in Payloads /\ applied \in Payloads \cup {"none"} /\ covered \in {"part", "whole"}
    /\ held = [i \in LabInstances |->
                  IF applied # "none" /\ i \in Targets(payloads[applied].instance)
                  THEN [kind |-> payloads[applied].kind, route |-> payloads[applied].route] ELSE NoFault]
    /\ applied # "none" => \A m \in Cells : window[m] \in MayHold(m, held[m[2]], covered)

\* No payload is "none".
LEMMA NoneIsNoPayload == "none" \notin Payloads
BY DEF Payloads, payloads

\* The window is filled with what the faults may leave.
LEMMA FilledWindow ==
    ASSUME NEW faults, NEW k, Fill(faults, k)
    PROVE  \A m \in Cells : window'[m] \in MayHold(m, faults[m[2]], k)
<1> DEFINE touched == {m \in Cells : MayHold(m, faults[m[2]], k) # {AllServed}}
<1>1. PICK f : /\ \A m \in touched : f[m] \in MayHold(m, faults[m[2]], k)
               /\ window' = [m \in Cells |-> IF m \in touched THEN f[m] ELSE AllServed]
    BY DEF Fill, Cells
<1> QED BY <1>1

\* No fault is applied yet.
LEMMA LabStarts == LabInit => LabInv
<1> SUFFICES ASSUME LabInit PROVE LabInv
    OBVIOUS
<1>1. "P01_CHECKOUT_B" \in Payloads
    BY DEF Payloads, payloads
<1> QED BY <1>1 DEF LabInit, LabInv

\* Every step keeps the faults those of the payload.
LEMMA LabStays == LabInv /\ [LabNext]_labVars => LabInv'
<1> SUFFICES ASSUME LabInv, [LabNext]_labVars PROVE LabInv'
    OBVIOUS
<1> USE DEF LabInv
<1>1. ASSUME NEW p \in Payloads, Choose(p) PROVE LabInv'
    BY <1>1 DEF Choose, MayHold
<1>2. CASE Inject
    <2>1. applied' = chosen /\ covered' = "part" /\ chosen' = chosen /\ applied' # "none"
        BY <1>2, NoneIsNoPayload DEF Inject
    <2>2. held' = [i \in LabInstances |->
                      IF i \in Targets(payloads[chosen].instance)
                      THEN [kind |-> payloads[chosen].kind, route |-> payloads[chosen].route] ELSE NoFault]
        BY <1>2 DEF Inject, requestBody
    <2>3. PICK h : h = held' /\ Fill(h, "part")
        BY <1>2 DEF Inject
    <2>4. \A m \in Cells : window'[m] \in MayHold(m, h[m[2]], "part")
        BY <2>3, FilledWindow
    <2> QED BY <2>1, <2>2, <2>3, <2>4
<1>3. CASE Observe
    <2>1. Fill(held, "whole") /\ covered' = "whole" /\ UNCHANGED <<chosen, applied, held>>
        BY <1>3 DEF Observe
    <2>2. \A m \in Cells : window'[m] \in MayHold(m, held[m[2]], "whole")
        BY <2>1, FilledWindow
    <2> QED BY <2>1, <2>2
<1>4. CASE ClearFault
    BY <1>4 DEF ClearFault
<1>5. CASE ObserveAfter
    BY <1>5 DEF ObserveAfter
<1>6. CASE UNCHANGED labVars
    BY <1>6 DEF labVars
<1> QED BY <1>1, <1>2, <1>3, <1>4, <1>5, <1>6 DEF LabNext

\* The rates of eight requests.
LEMMA RatesOfEight ==
    /\ Served(8, 0) = [samples |-> 8, errors |-> 0, rate |-> 0]
    /\ Served(8, 8) = [samples |-> 8, errors |-> 8, rate |-> 10000]
BY DEF Served

\* What the window tells of a cell, while a fault is applied.
LEMMA WindowsTell ==
    ASSUME LabInv, applied # "none", payloads[applied].kind # "gray_failure", NEW m \in Cells
    PROVE  /\ ~Hit(m) => Sound(m) /\ ~Broken(m, 3) /\ ~Broken(m, 6)
           /\ Hit(m) /\ covered = "whole" /\ payloads[applied].kind = "route_failure" => Broken(m, 3) /\ Broken(m, 6)
<1>1. m[1] \in LabRoutes /\ m[2] \in LabInstances
    BY DEF Cells
<1>2. held[m[2]].kind \in {"none", payloads[applied].kind}
    BY <1>1 DEF LabInv, NoFault
<1>3. ~Gray(held[m[2]])
    BY <1>2 DEF Gray
<1>4. window[m] \in MayHold(m, held[m[2]], covered)
    BY DEF LabInv
<1>5. ASSUME ~Hit(m) PROVE window[m] = Served(8, 0)
    <2>1. ~fault_affects(m[1], held[m[2]])
        BY <1>5 DEF Hit
    <2>2. MayHold(m, held[m[2]], covered) = {AllServed}
        BY <1>3, <2>1 DEF MayHold
    <2> QED BY <1>4, <2>2 DEF AllServed
<1>6. ASSUME Hit(m), covered = "whole", payloads[applied].kind = "route_failure" PROVE window[m] = Served(8, 8)
    <2>1. held[m[2]].kind = "route_failure"
        BY <1>2, <1>6 DEF Hit, fault_affects
    <2> QED BY <1>3, <1>4, <1>6, <2>1 DEF MayHold, Hit
<1> QED BY <1>5, <1>6, RatesOfEight DEF Sound, Broken

\* A membership that the worker's rule names is marked on every count.
LEMMA NamedIsEligible ==
    ASSUME NEW c \in BOOLEAN, NEW b \in BOOLEAN, NEW m \in Reading(c)!RouteInstances
    PROVE  Reading(b)!EligibleToConsider(m)
<1>1. m \in Cells /\ Broken(m, 6) /\ Hit(m) /\ \A n \in Neighbours(m) : Sound(n) /\ ~Hit(n)
    BY RulesOfTheLab
<1>2. \A n \in Cells : /\ Reading(b)!ProbeFails(n) <=> Hit(n)
                       /\ Reading(b)!ProbePasses(n) <=> ~Hit(n)
    BY DEF Reading!ProbeFails, Reading!ProbePasses, ProbeOf, Hit, Cells
<1>3. Reading(b)!RateReached(m) /\ Reading(b)!SamplesSuffice(m)
    BY <1>1 DEF Reading!RateReached, Reading!SamplesSuffice, Reading!RateOr, Reading!NoRate, Broken
<1>4. \A n \in Neighbours(m) : n \in Cells /\ Reading(b)!ComparisonHealthy(n)
    <2>1. TAKE n \in Neighbours(m)
    <2>2. n \in Cells /\ Sound(n) /\ Reading(b)!ProbePasses(n)
        BY <1>1, <1>2 DEF Neighbours
    <2>3. Reading(b)!RateOr(n, 10000) = window[n].rate
        BY <2>2 DEF Reading!RateOr, Reading!NoRate, Sound
    <2>4. window[n].samples >= 3 /\ Reading(b)!RateOr(n, 10000) <= 1000
        BY <2>2, <2>3 DEF Sound
    <2>5. Reading(b)!ComparisonHealthy(n)
        BY <2>2, <2>4 DEF Reading!ComparisonHealthy
    <2> QED BY <2>2, <2>5
<1>5. Reading(b)!Peers(m) \cup Reading(b)!Siblings(m) = Neighbours(m)
    BY DEF Reading!Peers, Reading!Siblings, Reading!Memberships, Neighbours, Cells
<1>6. LET marks == Reading(b)!Conditions(m) IN
      marks.threshold /\ marks.samples /\ marks.probe /\ marks.peers /\ marks.siblings
    BY <1>1, <1>2, <1>3, <1>4, <1>5 DEF Reading!Conditions
<1> QED BY <1>6 DEF Reading!EligibleToConsider

\* Which rule a payload can meet, and which cells are hit.
LEMMA RulesOfPayload ==
    ASSUME LabInv, applied # "none", NEW c \in BOOLEAN
    PROVE  LET p == payloads[applied] IN
           /\ p.kind \in {"gray_failure", "unknown_conflict"} => \A m \in Cells : ~Hit(m)
           /\ p.kind = "instance_down" =>
                 /\ Reading(c)!SharedRoutes = {} /\ Reading(c)!InstancesDown = {p.instance}
           /\ p.kind = "route_failure" /\ p.instance = "all" =>
                 /\ Reading(c)!InstancesDown = {} /\ Reading(c)!RouteInstances = {}
                 /\ covered = "whole" => Reading(c)!SharedRoutes # {}
           /\ p.kind = "route_failure" /\ p.instance # "all" =>
                 /\ Reading(c)!SharedRoutes = {} /\ Reading(c)!InstancesDown = {}
                 /\ Reading(c)!RouteInstances \subseteq {<<p.route, p.instance>>}
                 /\ covered = "whole" => Reading(c)!RouteInstances = {<<p.route, p.instance>>}
<1> DEFINE p == payloads[applied]
<1>1. applied \in Payloads /\ \A i \in LabInstances :
          held[i] = IF i \in Targets(p.instance) THEN [kind |-> p.kind, route |-> p.route] ELSE NoFault
    BY DEF LabInv
<1>2. \A r \in LabRoutes, i \in LabInstances :
          /\ <<r, i>> \in Cells
          /\ Hit(<<r, i>>) <=> /\ i \in Targets(p.instance)
                               /\ p.kind = "instance_down" \/ (p.kind = "route_failure" /\ p.route = r)
    BY <1>1 DEF Hit, fault_affects, NoFault, Cells
<1>3. \A m \in Cells : m[1] \in LabRoutes /\ m[2] \in LabInstances /\ m = <<m[1], m[2]>>
    BY DEF Cells
<1>4. /\ \A r \in LabRoutes : \E s \in LabRoutes : s # r
      /\ \A i \in LabInstances : \E j \in LabInstances : j # i
      /\ "all" \notin LabInstances
    BY DEF LabRoutes, LabInstances
<1>5. CASE p.kind \in {"gray_failure", "unknown_conflict"}
    BY <1>2, <1>3, <1>5
<1>6. CASE p.kind = "instance_down"
    <2>1. p.instance \in LabInstances
        BY <1>1, <1>6, PayloadsAre DEF Targetless
    <2>2. \A r \in LabRoutes, i \in LabInstances : Hit(<<r, i>>) <=> i = p.instance
        BY <1>2, <1>4, <1>6, <2>1 DEF Targets
    <2>3. Reading(c)!SharedRoutes = {}
        <3>1. PICK j \in LabInstances : j # p.instance
            BY <1>4, <2>1
        <3>2. \A r \in LabRoutes : ~Hit(<<r, j>>)
            BY <2>2, <3>1
        <3> QED BY <3>1, <3>2, RulesOfTheLab
    <2>4. Reading(c)!InstancesDown = {p.instance}
        <3>1. PICK s \in LabRoutes : TRUE
            BY DEF LabRoutes
        <3>2. \A i \in LabInstances : (\A r \in LabRoutes : Hit(<<r, i>>)) <=> i = p.instance
            BY <2>2, <3>1
        <3> QED BY <2>1, <3>2, RulesOfTheLab
    <2> QED BY <1>6, <2>3, <2>4
<1>7. CASE p.kind = "route_failure" /\ p.instance = "all"
    <2>1. p.route \in LabRoutes
        BY <1>1, <1>7, PayloadsAre
    <2>2. \A r \in LabRoutes, i \in LabInstances : Hit(<<r, i>>) <=> r = p.route
        BY <1>2, <1>7 DEF Targets
    <2>3. Reading(c)!InstancesDown = {}
        <3>1. PICK s \in LabRoutes : s # p.route
            BY <1>4, <2>1
        <3>2. \A i \in LabInstances : ~Hit(<<s, i>>)
            BY <2>2, <3>1
        <3> QED BY <3>1, <3>2, RulesOfTheLab
    <2>4. Reading(c)!RouteInstances = {}
        <3>1. SUFFICES ASSUME NEW m \in Cells, Hit(m), \A n \in Neighbours(m) : ~Hit(n) PROVE FALSE
            BY RulesOfTheLab
        <3>2. PICK j \in LabInstances : j # m[2]
            BY <1>3, <1>4
        <3>3. <<m[1], j>> \in Neighbours(m)
            BY <1>2, <1>3, <3>2 DEF Neighbours
        <3>4. m[1] = p.route
            BY <1>3, <2>2, <3>1
        <3> QED BY <1>3, <2>2, <3>1, <3>3, <3>4
    <2>5. ASSUME covered = "whole" PROVE Reading(c)!SharedRoutes # {}
        <3>1. \A i \in LabInstances : Hit(<<p.route, i>>) /\ Broken(<<p.route, i>>, 3)
            BY <1>2, <1>7, <2>1, <2>2, <2>5, WindowsTell
        <3> QED BY <2>1, <3>1, RulesOfTheLab
    <2> QED BY <1>7, <2>3, <2>4, <2>5
<1>8. CASE p.kind = "route_failure" /\ p.instance # "all"
    <2>1. p.route \in LabRoutes /\ p.instance \in LabInstances
        BY <1>1, <1>8, PayloadsAre
    <2> DEFINE t == <<p.route, p.instance>>
    <2>2. /\ \A r \in LabRoutes, i \in LabInstances : Hit(<<r, i>>) <=> r = p.route /\ i = p.instance
          /\ \A m \in Cells : Hit(m) <=> m = t
        BY <1>2, <1>3, <1>8, <2>1 DEF Targets
    <2>3. Reading(c)!SharedRoutes = {}
        <3>1. PICK j \in LabInstances : j # p.instance
            BY <1>4, <2>1
        <3>2. \A r \in LabRoutes : ~Hit(<<r, j>>)
            BY <2>2, <3>1
        <3> QED BY <3>1, <3>2, RulesOfTheLab
    <2>4. Reading(c)!InstancesDown = {}
        <3>1. PICK s \in LabRoutes : s # p.route
            BY <1>4, <2>1
        <3>2. \A i \in LabInstances : ~Hit(<<s, i>>)
            BY <2>2, <3>1
        <3> QED BY <3>1, <3>2, RulesOfTheLab
    <2>5. Reading(c)!RouteInstances \subseteq {t}
        BY <2>2, RulesOfTheLab
    <2>6. ASSUME covered = "whole" PROVE t \in Reading(c)!RouteInstances
        <3>1. t \in Cells /\ Hit(t) /\ Broken(t, 6)
            BY <1>2, <1>8, <2>1, <2>2, <2>6, WindowsTell
        <3>2. \A n \in Neighbours(t) : n \in Cells /\ ~Hit(n)
            BY <2>2 DEF Neighbours
        <3>3. \A n \in Neighbours(t) : Sound(n)
            BY <1>8, <3>2, WindowsTell
        <3> QED BY <3>1, <3>2, <3>3, RulesOfTheLab
    <2> QED BY <1>8, <2>3, <2>4, <2>5, <2>6
<1>9. p.kind \in {"route_failure", "instance_down", "gray_failure", "unknown_conflict"}
    BY <1>1, PayloadsAre
<1> QED BY <1>5, <1>6, <1>7, <1>8, <1>9

\* The first rule that applies.
LEMMA ClassOfTheLab ==
    ASSUME NEW c \in BOOLEAN
    PROVE  LET d == Reading(c)!Classify IN
           /\ c => d.class = "UNKNOWN"
           /\ ~c /\ Reading(c)!SharedRoutes # {} => d.class = "SHARED_ROUTE_FAILURE"
           /\ ~c /\ Reading(c)!SharedRoutes = {} /\ Reading(c)!InstancesDown # {} =>
                 d.class = "INSTANCE_DOWN" /\ d.scopes = Reading(c)!InstancesDown
           /\ ~c /\ Reading(c)!SharedRoutes = {} /\ Reading(c)!InstancesDown = {} /\ Reading(c)!RouteInstances # {} =>
                 d.class = "ROUTE_INSTANCE_FAILURE" /\ d.scopes = Reading(c)!RouteInstances
           /\ Reading(c)!InstancesDown = {} => d.class # "INSTANCE_DOWN"
           /\ Reading(c)!RouteInstances = {} => d.class # "ROUTE_INSTANCE_FAILURE"
           /\ d.class = "ROUTE_INSTANCE_FAILURE" => d.scopes = Reading(c)!RouteInstances
BY DEF Reading!Classify

\* What a payload provokes is what the page says of it.
LEMMA LabInvTells == LabInv => PayloadsBehaveAsTold
<1> SUFFICES ASSUME LabInv PROVE PayloadsBehaveAsTold
    OBVIOUS
<1>1. PICK c \in BOOLEAN : c = (applied = "UNKNOWN_CONFLICT")
    OBVIOUS
<1>2. Decision = Reading(c)!Classify /\ Isolates = Reading(c)!Actionable
    BY <1>1 DEF Decision, Isolates
<1>3. Isolates <=> Decision.class \in {"INSTANCE_DOWN", "ROUTE_INSTANCE_FAILURE"}
    BY <1>2 DEF Reading!Actionable
<1>4. ASSUME Decision.class = "ROUTE_INSTANCE_FAILURE", NEW m \in Isolated
      PROVE  Reading(FALSE)!EligibleToConsider(m)
    <2>1. m \in Reading(c)!RouteInstances
        BY <1>2, <1>4, ClassOfTheLab DEF Isolated
    <2> QED BY <2>1, NamedIsEligible
<1> DEFINE p == payloads[applied]
<1>5. CASE applied = "none"
    <2>1. \A m \in Cells : ~Hit(m)
        BY <1>5 DEF LabInv, Hit, fault_affects, NoFault, Cells
    <2>2. Reading(c)!InstancesDown = {} /\ Reading(c)!RouteInstances = {}
        BY <2>1, RulesOfTheLab DEF Cells, LabRoutes
    <2>3. ~Isolates
        BY <1>2, <1>3, <2>2, ClassOfTheLab
    <2> QED BY <1>4, <1>5, <2>3 DEF PayloadsBehaveAsTold
<1>6. CASE applied # "none"
    <2>1. applied \in Payloads
        BY <1>6 DEF LabInv
    <2>2. /\ covered = "whole" /\ p.kind # "gray_failure" => Decision.class = p.told
          /\ Isolates => Decision.class = p.told /\ Isolated = ToldTarget(applied)
        <3>1. c <=> p.kind = "unknown_conflict"
            BY <1>1, <2>1, PayloadsAre
        <3>2. CASE p.kind \in {"gray_failure", "unknown_conflict"}
            <4>1. Reading(c)!InstancesDown = {} /\ Reading(c)!RouteInstances = {}
                BY <1>6, <3>2, RulesOfPayload, RulesOfTheLab DEF Cells, LabRoutes
            <4>2. ~Isolates
                BY <1>2, <1>3, <4>1, ClassOfTheLab
            <4>3. p.kind # "gray_failure" => Decision.class = "UNKNOWN" /\ p.told = "UNKNOWN"
                BY <1>2, <2>1, <3>1, <3>2, ClassOfTheLab, PayloadsAre
            <4> QED BY <4>2, <4>3
        <3>3. CASE p.kind = "instance_down"
            <4>1. Decision.class = "INSTANCE_DOWN" /\ Decision.scopes = {p.instance}
                BY <1>2, <1>6, <3>1, <3>3, RulesOfPayload, ClassOfTheLab
            <4>2. p.told = "INSTANCE_DOWN" /\ p.route = "*" /\ p.instance \in LabInstances
                BY <2>1, <3>3, PayloadsAre DEF Targetless
            <4>3. Isolated = LabRoutes \X {p.instance}
                BY <4>1 DEF Isolated
            <4>4. ToldTarget(applied) = LabRoutes \X {p.instance}
                BY <4>2 DEF ToldTarget, LabInstances
            <4> QED BY <4>1, <4>2, <4>3, <4>4
        <3>4. CASE p.kind = "route_failure" /\ p.instance = "all"
            <4>1. Reading(c)!InstancesDown = {} /\ Reading(c)!RouteInstances = {}
                BY <1>6, <3>4, RulesOfPayload
            <4>2. ~Isolates
                BY <1>2, <1>3, <4>1, ClassOfTheLab
            <4>3. p.told = "SHARED_ROUTE_FAILURE"
                BY <2>1, <3>4, PayloadsAre
            <4>4. covered = "whole" => Decision.class = "SHARED_ROUTE_FAILURE"
                BY <1>2, <1>6, <3>1, <3>4, RulesOfPayload, ClassOfTheLab
            <4> QED BY <4>2, <4>3, <4>4
        <3>5. CASE p.kind = "route_failure" /\ p.instance # "all"
            <4> DEFINE t == <<p.route, p.instance>>
            <4>1. p.told = "ROUTE_INSTANCE_FAILURE" /\ p.route \in LabRoutes /\ p.instance \in LabInstances
                BY <2>1, <3>5, PayloadsAre
            <4>2. ToldTarget(applied) = {t}
                BY <4>1 DEF ToldTarget, LabRoutes, LabInstances
            <4>3. /\ Reading(c)!SharedRoutes = {} /\ Reading(c)!InstancesDown = {}
                  /\ Reading(c)!RouteInstances \subseteq {t}
                  /\ covered = "whole" => Reading(c)!RouteInstances = {t}
                BY <1>6, <3>5, RulesOfPayload
            <4>4. covered = "whole" => Decision.class = "ROUTE_INSTANCE_FAILURE"
                BY <1>2, <3>1, <3>5, <4>3, ClassOfTheLab
            <4>5. Isolates => Decision.class = "ROUTE_INSTANCE_FAILURE" /\ Reading(c)!RouteInstances = {t}
                BY <1>2, <1>3, <4>3, ClassOfTheLab
            <4>6. Isolates => Isolated = {t}
                BY <1>2, <4>5, ClassOfTheLab DEF Isolated
            <4> QED BY <4>1, <4>2, <4>4, <4>5, <4>6
        <3> QED BY <2>1, <3>2, <3>3, <3>4, <3>5, PayloadsAre
    <2> QED BY <1>4, <1>6, <2>2 DEF PayloadsBehaveAsTold
<1> QED BY <1>5, <1>6

-----------------------------------------------------------------------------
(* The shell: it knows five states of the control plane, and it stands at  *)
(* an address that it has offered.                                         *)

\* What the provider can tell the shell, and the labels of the pages.
States == {"checking", "demo", "unavailable", "unauthenticated", "live"}
PrimaryLabels == {"Overview", "Traffic", "Incidents", "Actions", "Recovery", "Lab", "System"}
RouteLabels == {"/public", "/auth", "/catalog", "/checkout", "/recommendations"}
InstanceLabels == {"Backend A", "Backend B", "Backend C"}

Listed == PrimaryLabels \cup RouteLabels \cup InstanceLabels \cup {"inc-1042"}

\* The entities the palette lists, as sets.
LEMMA EntitiesAre ==
    /\ ToSet(RouteEntities) = RouteLabels
    /\ ToSet(InstanceEntities) = InstanceLabels
    /\ ToSet(IncidentEntities) = {"inc-1042"}
<1>1. ToSet(RouteEntities) = RouteLabels
  <2>1. DOMAIN RouteEntities = 1..5
    BY DEF RouteEntities
  <2> QED
    BY <2>1 DEF RouteEntities, ToSet, RouteLabels
<1>2. ToSet(InstanceEntities) = InstanceLabels
  <2>1. DOMAIN InstanceEntities = 1..3
    BY DEF InstanceEntities
  <2> QED
    <3>1. InstanceEntities[1] = "Backend A" /\ InstanceEntities[2] = "Backend B" /\ InstanceEntities[3] = "Backend C"
      BY DEF InstanceEntities
    <3>2. ToSet(InstanceEntities) = {InstanceEntities[1], InstanceEntities[2], InstanceEntities[3]}
      BY <2>1 DEF ToSet
    <3> QED
      BY <3>1, <3>2 DEF InstanceLabels
<1>3. ToSet(IncidentEntities) = {"inc-1042"}
  <2>1. DOMAIN IncidentEntities = 1..1
    BY DEF IncidentEntities
  <2> QED
    BY <2>1 DEF IncidentEntities, ToSet
<1> QED
  BY <1>1, <1>2, <1>3

\* The primary routes: their labels, and which of them a small screen has.
LEMMA RoutesAre ==
    /\ DOMAIN PrimaryRoutes = 1..7
    /\ ToSet(Labels) = PrimaryLabels
    /\ \A i \in 1..7 : PrimaryRoutes[i].label = Labels[i]
    /\ \A i \in 1..7 : PrimaryRoutes[i].mobile => Labels[i] \in {"Overview", "Incidents"}
    /\ Labels \in Seq(Listed)
<1>1. DOMAIN PrimaryRoutes = 1..7
  BY DEF PrimaryRoutes
<1>2. \A i \in 1..7 : PrimaryRoutes[i].label = Labels[i]
  BY <1>1 DEF Labels
<1>3. DOMAIN Labels = 1..7
  BY <1>1 DEF Labels
<1>4. /\ Labels[1] = "Overview" /\ Labels[2] = "Traffic" /\ Labels[3] = "Incidents" /\ Labels[4] = "Actions"
      /\ Labels[5] = "Recovery" /\ Labels[6] = "Lab" /\ Labels[7] = "System"
  BY <1>1 DEF Labels, PrimaryRoutes, Route
<1>5. ToSet(Labels) = PrimaryLabels
  BY <1>3, <1>4 DEF ToSet, PrimaryLabels
<1>6. \A i \in 1..7 : PrimaryRoutes[i].mobile => Labels[i] \in {"Overview", "Incidents"}
  <2>2. \A i \in {2, 4, 5, 6, 7} : PrimaryRoutes[i].mobile = FALSE
    BY <1>1 DEF PrimaryRoutes, Route
  <2> QED
    BY <1>4, <2>2
<1>7. Labels \in Seq(Listed)
  <2>1. \A i \in 1..7 : Labels[i] \in Listed
    BY <1>3, <1>5 DEF ToSet, Listed
  <2>2. Labels = [i \in 1..7 |-> Labels[i]]
    BY <1>1 DEF Labels
  <2>3. Labels \in [1..7 -> Listed]
    BY <2>1, <2>2
  <2> QED
    BY <2>3, SeqDef
<1> QED
  BY <1>1, <1>2, <1>5, <1>6, <1>7

\* What is in a list made of two lists.
LEMMA BothParts ==
    ASSUME NEW S, NEW s \in Seq(S), NEW t \in Seq(S)
    PROVE  s \o t \in Seq(S) /\ ToSet(s) \cup ToSet(t) = ToSet(s \o t)
<1>1. /\ s \o t \in Seq(S)
      /\ Len(s \o t) = Len(s) + Len(t)
      /\ \A i \in 1..Len(s) : (s \o t)[i] = s[i]
      /\ \A i \in 1..Len(t) : (s \o t)[Len(s) + i] = t[i]
  OBVIOUS
<1>2. \A i \in 1..Len(s) + Len(t) : i \in 1..Len(s) \/ \E j \in 1..Len(t) : i = Len(s) + j
  <2> TAKE i \in 1..Len(s) + Len(t)
  <2>1. i > Len(s) => i - Len(s) \in 1..Len(t) /\ i = Len(s) + (i - Len(s))
    OBVIOUS
  <2> QED
    BY <2>1
<1>3. \A i \in 1..Len(s) : i \in 1..Len(s) + Len(t)
  OBVIOUS
<1>4. \A i \in 1..Len(t) : Len(s) + i \in 1..Len(s) + Len(t)
  OBVIOUS
<1>5. DOMAIN s = 1..Len(s) /\ DOMAIN t = 1..Len(t) /\ DOMAIN (s \o t) = 1..Len(s) + Len(t)
  BY <1>1
<1> DEFINE u == s \o t
<1>6. ASSUME NEW x \in ToSet(s) \cup ToSet(t) PROVE x \in ToSet(u)
  BY <1>1, <1>3, <1>4, <1>5, <1>6 DEF ToSet
<1>7. ASSUME NEW x \in ToSet(u) PROVE x \in ToSet(s) \cup ToSet(t)
  <2>1. PICK i \in 1..Len(s) + Len(t) : x = u[i]
    BY <1>5, <1>7 DEF ToSet
  <2>2. CASE i \in 1..Len(s)
    BY <1>1, <1>5, <2>1, <2>2 DEF ToSet
  <2>3. ASSUME NEW j \in 1..Len(t), i = Len(s) + j PROVE x \in ToSet(t)
    BY <1>1, <1>5, <2>1, <2>3 DEF ToSet
  <2> QED
    BY <1>2, <2>2, <2>3
<1> QED
  BY <1>1, <1>6, <1>7

\* The catalogue lists every label.
LEMMA CatalogueHasAll == PrimaryLabels \cup Entities = ToSet(Catalogue)
<1>1. RouteEntities \in Seq(Listed) /\ InstanceEntities \in Seq(Listed) /\ IncidentEntities \in Seq(Listed)
  <2>1. RouteEntities \in Seq(RouteLabels) /\ RouteLabels \subseteq Listed
    BY DEF RouteEntities, RouteLabels, Listed
  <2>2. InstanceEntities \in Seq(InstanceLabels) /\ InstanceLabels \subseteq Listed
    BY DEF InstanceEntities, InstanceLabels, Listed
  <2>3. IncidentEntities \in Seq({"inc-1042"}) /\ {"inc-1042"} \subseteq Listed
    BY DEF IncidentEntities, Listed
  <2> QED
    BY <2>1, <2>2, <2>3, SeqMonotonic
<1> DEFINE one == Labels \o RouteEntities
           two == one \o InstanceEntities
<1>2. one \in Seq(Listed) /\ ToSet(Labels) \cup ToSet(RouteEntities) = ToSet(one)
  <2>1. Labels \in Seq(Listed)
    BY RoutesAre
  <2> QED
    BY <1>1, <2>1, BothParts
<1>3. two \in Seq(Listed) /\ ToSet(one) \cup ToSet(InstanceEntities) = ToSet(two)
  <2>1. one \in Seq(Listed)
    BY <1>2
  <2> HIDE DEF one
  <2> QED
    BY <1>1, <2>1, BothParts
<1>4. ToSet(two) \cup ToSet(IncidentEntities) = ToSet(two \o IncidentEntities)
  <2>1. two \in Seq(Listed)
    BY <1>3
  <2> HIDE DEF two
  <2> QED
    BY <1>1, <2>1, BothParts
<1>5. Catalogue = two \o IncidentEntities
  BY DEF Catalogue
<1> HIDE DEF one, two
<1> QED
  BY <1>2, <1>3, <1>4, <1>5, RoutesAre DEF Entities

\* The place of a label is where the catalogue has it.
LEMMA PlacesAreOf == \A label \in PrimaryLabels \cup Entities : Catalogue[Place[label]] = label
<1> TAKE label \in PrimaryLabels \cup Entities
<1>1. label \in ToSet(Catalogue) /\ \E i \in DOMAIN Catalogue : Catalogue[i] = label
  BY CatalogueHasAll DEF ToSet
<1>2. Place[label] = CHOOSE i \in DOMAIN Catalogue : Catalogue[i] = label
  BY <1>1 DEF Place
<1> QED
  BY <1>1, <1>2

\* The rail links to primary routes, on a small screen to two of them.
LEMMA LinksAre == Links \subseteq PrimaryLabels /\ (small => Links \subseteq {"Overview", "Incidents"})
<1> SUFFICES ASSUME NEW l \in Links PROVE l \in PrimaryLabels /\ (small => l \in {"Overview", "Incidents"})
  OBVIOUS
<1>1. PICK i \in 1..7 : l = PrimaryRoutes[i].label /\ Offers(PrimaryRoutes[i])
  BY RoutesAre DEF Links, AvailableRoutes, ToSet
<1>2. l = Labels[i] /\ Labels[i] \in ToSet(Labels)
  <2>1. DOMAIN Labels = 1..7
    BY RoutesAre DEF Labels
  <2> QED
    BY <1>1, <2>1, RoutesAre DEF ToSet
<1>3. small => PrimaryRoutes[i].mobile
  BY <1>1 DEF Offers
<1> QED
  BY <1>2, <1>3, RoutesAre

\* What the palette lists.
LEMMA OptionsAre ==
    ASSUME NEW q, NEW i \in Options(q)
    PROVE  \/ Catalogue[i] \in Links
           \/ /\ control.state = "demo" /\ Catalogue[i] \in Entities
              /\ small => Catalogue[i] \in ToSet(IncidentEntities)
<1>1. ToSet(IncidentEntities) \subseteq Entities
  BY DEF Entities
<1>2. PICK l : i = Place[l] /\ (l \in Links \/ (l \in Entities /\ control.state = "demo" /\ (small => l \in ToSet(IncidentEntities))))
  BY <1>1 DEF Options
<1>3. l \in PrimaryLabels \cup Entities
  BY <1>2, LinksAre
<1> QED
  BY <1>2, <1>3, PlacesAreOf

\* The environments that the shell can be told of.
Environments == {Fixtures[1]} \cup LiveEnvironments
ShellInv == control \in [state : States, environment : Environments] /\ path \in PrimaryLabels \cup Entities

\* The shell starts by checking the session, at the overview.
LEMMA ShellStarts == ShellInit => ShellInv
BY DEF ShellInit, ShellInv, States, PrimaryLabels, Environments

\* The palette and the rail only lead to addresses that they list.
LEMMA ShellStays == ShellInv /\ [ShellNext]_shellVars => ShellInv'
<1> SUFFICES ASSUME ShellInv, [ShellNext]_shellVars PROVE ShellInv'
  OBVIOUS
<1>1. CASE control' = control /\ path' = path
  BY <1>1 DEF ShellInv
<1>2. CASE OpenByButton \/ ToggleByKey \/ Escape \/ CloseByButton \/ Highlight \/ TabToOption
  BY <1>1, <1>2 DEF OpenByButton, ToggleByKey, Escape, CloseByButton, Highlight, TabToOption
<1>3. CASE \E q \in Queries : Type(q)
  BY <1>1, <1>3 DEF Type
<1>4. CASE Select
  <2>1. PICK i \in Options(palette.query) : path' = Catalogue[i]
    BY <1>4 DEF Select, PaletteList
  <2>2. path' \in PrimaryLabels \cup Entities
    BY <2>1, OptionsAre, LinksAre
  <2> QED
    BY <1>4, <2>2 DEF Select, ShellInv
<1>5. CASE FollowLink
  BY <1>5, LinksAre DEF FollowLink, ShellInv
<1>6. CASE CollapseRail \/ ToggleNav \/ ChooseEnvironment \/ ToggleMenu("theme") \/ ToggleMenu("user") \/ ChooseTheme
  BY <1>1, <1>6 DEF CollapseRail, ToggleNav, ChooseEnvironment, ToggleMenu, ChooseTheme, Shell
<1>7. CASE ControlChanges
  <2>1. control' \in [state : States, environment : Environments]
    <3>1. CASE \E s \in {"demo", "unavailable", "unauthenticated"} : control' = [control EXCEPT !.state = s]
      BY <3>1 DEF ShellInv, States
    <3>2. CASE \E e \in LiveEnvironments : control' = [state |-> "live", environment |-> e]
      BY <3>2 DEF States, Environments
    <3>3. CASE control' = [control EXCEPT !.state = "unauthenticated"]
      BY <3>3 DEF ShellInv, States
    <3> QED
      BY <1>7, <3>1, <3>2, <3>3 DEF ControlChanges
  <2> QED
    BY <1>7, <2>1 DEF ControlChanges, ShellInv
<1>8. CASE SyncViewport
  BY <1>1, <1>8 DEF SyncViewport
<1>9. CASE UNCHANGED shellVars
  BY <1>1, <1>9 DEF shellVars
<1> QED
  BY <1>2, <1>3, <1>4, <1>5, <1>6, <1>7, <1>8, <1>9 DEF ShellNext

\* Whatever is offered, in any of the five states, has its page.
LEMMA OffersHavePages == ShellInv => OfferedPagesExist
<1> SUFFICES ASSUME ShellInv, NEW label \in Links \cup (IF palette.open THEN PaletteList(palette) ELSE {})
    PROVE /\ Body(control.state, label) # "Planned, not simulated"
          /\ Body(control.state, label) = "IncidentListPage" => label = "Incidents"
          /\ small => label \in {"Overview", "Incidents"} \cup ToSet(IncidentEntities)
  BY DEF OfferedPagesExist
<1>1. \/ label \in Links
      \/ /\ control.state = "demo" /\ label \in Entities
         /\ small => label \in ToSet(IncidentEntities)
  BY OptionsAre DEF PaletteList
<1>2. \/ label \in PrimaryLabels
      \/ control.state = "demo" /\ label \in RouteLabels \cup InstanceLabels \cup {"inc-1042"}
  BY <1>1, LinksAre, EntitiesAre DEF Entities
<1>3. CASE control.state = "demo"
  <2>1. Body(control.state, label) = DemoPage(label)
    BY <1>3 DEF Body
  <2>2. DemoPage(label) # "Planned, not simulated" /\ (DemoPage(label) = "IncidentListPage" => label = "Incidents")
    BY <1>2, EntitiesAre DEF DemoPage, PrimaryLabels, RouteLabels, InstanceLabels
  <2> QED
    BY <1>1, <2>1, <2>2, LinksAre
<1>4. CASE control.state = "live"
  <2>1. Body(control.state, label) = LivePage(label)
    BY <1>4 DEF Body
  <2>2. LivePage(label) # "Planned, not simulated" /\ LivePage(label) # "IncidentListPage"
    BY <1>2, <1>4, EntitiesAre DEF LivePage, PrimaryLabels, RouteLabels
  <2> QED
    BY <1>1, <2>1, <2>2, LinksAre
<1>5. CASE control.state \in {"checking", "unauthenticated", "unavailable"}
  BY <1>1, <1>5, LinksAre DEF Body
<1> QED
  BY <1>3, <1>4, <1>5 DEF ShellInv, States

\* What the header says of the age of what it shows.
LEMMA FreshnessOfHeader ==
    /\ Live => Header.freshness = "Telemetry live"
    /\ ~Live /\ control.state # "checking" => Header.freshness = "Simulated, offline"
<1>1. Header.freshness = CASE Live -> "Telemetry live"
                           [] control.state = "checking" -> "Session, checking"
                           [] OTHER -> "Simulated, offline"
  BY Zenon DEF Header
<1> QED
  BY <1>1 DEF Live

\* The rail, the header and the strips follow the one state.
LEMMA SourcesAreNamed == ShellInv => SourceIsNamed
<1> SUFFICES ASSUME ShellInv PROVE SourceIsNamed
  OBVIOUS
<1>1. CASE control.state = "live"
  <2>1. Live /\ CurrentEnvironment = control.environment /\ EnvironmentOptions = {control.environment} /\ RailTag = "RULES-ONLY LIVE"
    BY <1>1 DEF Live, CurrentEnvironment, EnvironmentOptions, RailTag
  <2>2. Body(control.state, path) \in LivePages
    BY <1>1 DEF Body, LivePage, LivePages
  <2>3. /\ Header.environment = control.environment.id /\ Header.mode = control.environment.mode
        /\ Header.options = {control.environment} /\ Header.freshness = "Telemetry live"
    <3>1. /\ Header.environment = CurrentEnvironment.id /\ Header.mode = CurrentEnvironment.mode
          /\ Header.options = EnvironmentOptions
      BY Zenon DEF Header
    <3> QED
      BY <2>1, <3>1, FreshnessOfHeader
  <2>4. Rail.tag = "RULES-ONLY LIVE"
    BY <2>1 DEF Rail
  <2>5. "Simulated data" \notin Strips /\ (control.environment.mode = "SAFE_MODE" <=> "SAFE_MODE" \in Strips)
    BY <1>1, <2>1 DEF Strips
  <2>6. PaletteList(palette) \cap Entities = {}
    <3>1. \A i \in Options(palette.query) : Catalogue[i] \in PrimaryLabels
      BY <1>1, OptionsAre, LinksAre
    <3>2. PrimaryLabels \cap Entities = {}
      BY EntitiesAre DEF PrimaryLabels, Entities, RouteLabels, InstanceLabels
    <3> QED
      BY <3>1, <3>2 DEF PaletteList
  <2> QED
    BY <2>2, <2>3, <2>4, <2>5, <2>6 DEF SourceIsNamed
<1>2. CASE control.state = "demo"
  <2>1. ~Live /\ RailTag = "SIMULATED DATA"
    BY <1>2 DEF Live, RailTag
  <2>2. Body(control.state, path) \notin LivePages
    BY <1>2, EntitiesAre DEF ShellInv, Body, DemoPage, LivePages, PrimaryLabels, Entities, RouteLabels, InstanceLabels
  <2>3. Rail.tag = "SIMULATED DATA" /\ "Simulated data" \in Strips
    BY <1>2, <2>1 DEF Rail, Strips
  <2>4. Header.freshness = "Simulated, offline"
    BY <1>2, <2>1, FreshnessOfHeader
  <2>5. ~Header.signOut
    <3>1. UserMenu = FALSE
      BY <2>1 DEF UserMenu
    <3> QED
      BY <3>1, Zenon DEF Header
  <2> QED
    BY <2>2, <2>3, <2>4, <2>5 DEF SourceIsNamed
<1>3. CASE control.state \in {"checking", "unauthenticated", "unavailable"}
  <2>1. Body(control.state, path) \in {"Connecting", "Unavailable"}
    BY <1>3 DEF Body
  <2> QED
    BY <2>1 DEF SourceIsNamed, LivePages
<1> QED
  BY <1>1, <1>2, <1>3 DEF ShellInv, States

-----------------------------------------------------------------------------
(* The demo matrix: where the one membership that drifts is to be seen, and *)
(* where the tab stop is.                                                   *)

\* An element of a list has fewer elements before it than the list is long.
LEMMA PlacesCount ==
    ASSUME NEW S, IsFiniteSet(S), S \subseteq Int, NEW i \in S
    PROVE  Before(S, i) \in Nat /\ Before(S, i) + 1 <= Cardinality(S)
<1> DEFINE under == {j \in S : j < i}
<1>1. IsFiniteSet(under) /\ Cardinality(under) \in Nat
  BY FS_Subset, FS_CardinalityType
<1>2. i \notin under
  OBVIOUS
<1>3. Cardinality(under \cup {i}) = Cardinality(under) + 1
  BY <1>1, <1>2, FS_AddElement
<1>4. Cardinality(under \cup {i}) <= Cardinality(S)
  <2>1. under \cup {i} \subseteq S
    OBVIOUS
  <2> QED
    BY <2>1, FS_Subset
<1> QED
  BY <1>1, <1>3, <1>4 DEF Before

\* A later element has more elements before it.
LEMMA PlacesGrow ==
    ASSUME NEW S, IsFiniteSet(S), S \subseteq Int, NEW i \in S, NEW k \in S, k < i
    PROVE  Before(S, k) < Before(S, i)
<1> DEFINE under == {j \in S : j < i}
<1>1. IsFiniteSet(under)
  BY FS_Subset
<1>2. under \subseteq Int /\ k \in under
  <2>1. under \subseteq S
    OBVIOUS
  <2> QED
    BY <2>1
<1>3. Before(under, k) \in Nat /\ Before(under, k) + 1 <= Cardinality(under)
  <2> HIDE DEF under
  <2> QED
    BY <1>1, <1>2, PlacesCount
<1>4. {j \in under : j < k} = {j \in S : j < k}
  <2>1. \A j \in S : j < k => j < i
    OBVIOUS
  <2> QED
    BY <2>1
<1>5. Before(under, k) = Before(S, k) /\ Before(S, i) = Cardinality(under)
  BY <1>4 DEF Before
<1>6. Cardinality(under) \in Nat
  BY <1>1, FS_CardinalityType
<1> QED
  BY <1>3, <1>5, <1>6

\* The index of an element leads back to it.
LEMMA PlacesAreFound ==
    ASSUME NEW S, IsFiniteSet(S), S \subseteq Int, NEW i \in S
    PROVE  Before(S, i) \in 0..Cardinality(S) - 1 /\ Nth(S, Before(S, i)) = i
<1>1. Before(S, i) \in Nat /\ Before(S, i) + 1 <= Cardinality(S)
  BY PlacesCount
<1>2. Cardinality(S) \in Nat
  BY FS_CardinalityType
<1>3. ASSUME NEW k \in S, Before(S, k) = Before(S, i) PROVE k = i
  <2>1. Before(S, k) \in Nat
    BY PlacesCount
  <2>2. ~(k < i)
    <3>1. k < i => Before(S, k) < Before(S, i)
      BY PlacesGrow
    <3> QED
      BY <1>1, <1>3, <3>1
  <2>3. ~(i < k)
    <3>1. i < k => Before(S, i) < Before(S, k)
      BY PlacesGrow
    <3> QED
      BY <1>1, <1>3, <3>1
  <2> QED
    BY <2>2, <2>3
<1>4. Nth(S, Before(S, i)) \in S /\ Before(S, Nth(S, Before(S, i))) = Before(S, i)
  BY DEF Nth
<1>5. Before(S, i) \in 0..Cardinality(S) - 1
  BY <1>1, <1>2
<1> QED
  BY <1>3, <1>4, <1>5

\* The rows and the columns of the snapshot.
LEMMA TableIs ==
    /\ DOMAIN Rows = 1..5 /\ DOMAIN Columns = 1..3
    /\ Rows[1].id = "public" /\ Rows[2].id = "auth" /\ Rows[3].id = "catalog"
    /\ Rows[4].id = "checkout" /\ Rows[5].id = "recommendations"
    /\ Columns[1].id = "inst-a" /\ Columns[2].id = "inst-b" /\ Columns[3].id = "inst-c"
<1>1. DOMAIN Rows = 1..5 /\ DOMAIN Columns = 1..3
  BY DEF Rows, Columns
<1>2. /\ Rows[1].id = "public" /\ Rows[2].id = "auth" /\ Rows[3].id = "catalog"
      /\ Rows[4].id = "checkout" /\ Rows[5].id = "recommendations"
  BY DEF Rows, Row
<1>3. Columns[1].id = "inst-a" /\ Columns[2].id = "inst-b" /\ Columns[3].id = "inst-c"
  BY DEF Columns
<1> QED
  BY <1>1, <1>2, <1>3

\* There are five routes and three instances to filter.
LEMMA VisibleAreFinite ==
    /\ VisibleRoutes \subseteq 1..5 /\ IsFiniteSet(VisibleRoutes) /\ Cardinality(VisibleRoutes) \in Nat
    /\ VisibleInstances \subseteq 1..3 /\ IsFiniteSet(VisibleInstances) /\ Cardinality(VisibleInstances) \in Nat
<1>1. VisibleRoutes \subseteq 1..5 /\ VisibleInstances \subseteq 1..3
  BY TableIs DEF VisibleRoutes, VisibleInstances
<1>2. IsFiniteSet(1..5) /\ IsFiniteSet(1..3)
  BY FS_Interval, 1 \in Int, 3 \in Int, 5 \in Int
<1>3. IsFiniteSet(VisibleRoutes) /\ IsFiniteSet(VisibleInstances)
  BY <1>1, <1>2, FS_Subset
<1> QED
  BY <1>1, <1>3, FS_CardinalityType

\* The membership whose observed weight is not the desired one.
Drifted == <<"catalog", "inst-c">>

\* One membership of the snapshot drifts, and its cell is marked so.
LEMMA OneDrifts ==
    /\ \A m \in DemoMemberships : Differs(At(m)) => m = Drifted
    /\ At(Drifted).state = "reintegrating" /\ At(Drifted).marker = "drift" /\ Differs(At(Drifted))
<1>1. ASSUME NEW m \in DemoMemberships, m # Drifted PROVE ~Differs(At(m))
  <2>1. PICK r \in {x.id : x \in ToSet(Rows)}, i \in {x.id : x \in ToSet(Columns)} : m = <<r, i>>
    BY DEF DemoMemberships
  <2>2. At(m) = MatrixCells(r, i)
    BY <2>1 DEF At
  <2>3. ~(r = "catalog" /\ i = "inst-c")
    BY <1>1, <2>1 DEF Drifted
  <2>4. Cell.desired = Cell.observed
    BY DEF Cell
  <2>5. CASE r = "auth" /\ i = "inst-c"
    <3>1. At(m) = [Cell EXCEPT !.state = "unknown", !.evidence = "stale"]
      BY <2>2, <2>5 DEF MatrixCells
    <3> QED
      BY <3>1 DEF Cell, Differs
  <2>6. CASE r = "checkout" /\ i = "inst-b"
    <3>1. At(m) = [Cell EXCEPT !.state = "quarantined", !.desired = Drained, !.observed = Drained,
                        !.marker = "quarantine", !.incident = "inc-1042"]
      BY <2>2, <2>6 DEF MatrixCells
    <3> QED
      BY <3>1 DEF Cell, Differs
  <2>7. CASE r = "recommendations" /\ i = "inst-c"
    <3>1. At(m) = [Cell EXCEPT !.state = "no-membership", !.desired = NotInPool, !.observed = NotInPool,
                        !.evidence = "missing"]
      BY <2>2, <2>7 DEF MatrixCells
    <3> QED
      BY <3>1 DEF Cell, Differs
  <2>8. CASE ~(r = "auth" /\ i = "inst-c") /\ ~(r = "checkout" /\ i = "inst-b") /\ ~(r = "recommendations" /\ i = "inst-c")
    <3>1. At(m) = Cell
      BY <2>2, <2>3, <2>8 DEF MatrixCells
    <3> QED
      BY <2>4, <3>1 DEF Differs
  <2> QED
    BY <2>5, <2>6, <2>7, <2>8
<1>2. At(Drifted) = [Cell EXCEPT !.state = "reintegrating", !.desired = Ready(20), !.observed = Ready(5),
                        !.evidence = "partial", !.marker = "drift"]
  BY DEF At, Drifted, MatrixCells
<1>3. At(Drifted).state = "reintegrating" /\ At(Drifted).marker = "drift"
  BY <1>2 DEF Cell
<1>4. Differs(At(Drifted))
  <2>1. At(Drifted).desired = Ready(20) /\ At(Drifted).observed = Ready(5)
    BY <1>2 DEF Cell
  <2>2. Ready(20).weight = 20 /\ Ready(5).weight = 5
    BY DEF Ready
  <2> QED
    BY <2>1, <2>2 DEF Differs
<1> QED
  BY <1>1, <1>3, <1>4

\* The filters of the page, and the types of what it holds.
FilterKeys == {"route", "state", "version", "criticality", "freshness"}
MatrixTypeOK ==
    /\ matrix \in [compact : BOOLEAN, mode : {"matrix", "table"}, incidentOnly : BOOLEAN,
                   density : {"overview", "operational", "forensic"}]
    /\ filters = [k \in FilterKeys |-> filters[k]]

\* The cells of the page, rendered or not.
Corners == (0..Cardinality(VisibleRoutes) - 1) \X (0..Cardinality(VisibleInstances) - 1)

\* The cells of the compact matrix and, below them, the route it leaves out.
CompactCorners == (0..4) \X (0..Cardinality(VisibleInstances) - 1)

\* The compact matrix is a grid of all columns, and its tab stop is at most one
\* row below; on the page the tab stop is among the cells, if there are any.
MatrixInv ==
    /\ MatrixTypeOK
    /\ matrix.compact => matrix.mode = "matrix" /\ filters["version"] = "all" /\ active \in CompactCorners
    /\ ~matrix.compact /\ VisibleRoutes # {} /\ VisibleInstances # {} => active \in Corners

\* The compact matrix has columns, and four rows.
LEMMA CompactIsFull ==
    ASSUME filters["version"] = "all"
    PROVE  Cardinality(VisibleInstances) \in Nat \ {0}
<1>1. 3 \in VisibleInstances
  BY TableIs DEF VisibleInstances, InstanceShown
<1>2. Cardinality(VisibleInstances) # 0
  BY <1>1, VisibleAreFinite, FS_EmptySet
<1> QED
  BY <1>2, VisibleAreFinite

\* Four of five routes.
LEMMA FourRows ==
    /\ Cardinality(CompactRows) = 4
    /\ matrix.compact => Cardinality(TableRows) = 4
    /\ Cardinality(VisibleRoutes) \in 0..5
<1>1. Cardinality(1..4) = 4 /\ Cardinality(1..5) = 5 /\ IsFiniteSet(1..5)
  <2>1. Cardinality(1..4) = (IF 1 > 4 THEN 0 ELSE 4 - 1 + 1)
    BY FS_Interval, 1 \in Int, 4 \in Int, Zenon
  <2>2. Cardinality(1..5) = (IF 1 > 5 THEN 0 ELSE 5 - 1 + 1) /\ IsFiniteSet(1..5)
    BY FS_Interval, 1 \in Int, 5 \in Int, Zenon
  <2> QED
    BY <2>1, <2>2
<1>2. Cardinality(VisibleRoutes) <= 5
  BY <1>1, VisibleAreFinite, FS_Subset
<1> QED
  BY <1>1, <1>2, VisibleAreFinite DEF CompactRows, TableRows

\* That membership is in the grid, in the table or in the notice.
LEMMA DriftShows == MatrixInv => DriftIsSeen
<1> SUFFICES ASSUME MatrixInv
    PROVE \/ Drifted \in Shown /\ matrix.mode = "table" /\ TableRow(Drifted).icon = "Compare"
          \/ \E c \in Grid : CellAt(c) = Drifted /\ MatrixCell(c).drift
          \/ ~matrix.compact /\ Drifted \in HiddenCritical
  BY OneDrifts DEF DriftIsSeen
<1>1. StateIcon(At(Drifted)) = "Compare"
  BY OneDrifts DEF StateIcon
<1>2. TableRow(Drifted).icon = "Compare"
  BY <1>1 DEF TableRow
<1>3. Rows[3].id = Drifted[1] /\ Columns[3].id = Drifted[2]
  BY TableIs DEF Drifted
<1>4. TableRows \subseteq 1..5 /\ IsFiniteSet(TableRows)
  <2>1. IsFiniteSet(1..4)
    BY FS_Interval, 1 \in Int, 4 \in Int
  <2>2. 1..4 \subseteq 1..5
    OBVIOUS
  <2> QED
    BY <2>1, <2>2, VisibleAreFinite DEF TableRows, CompactRows
<1>5. CASE 3 \in TableRows /\ 3 \in VisibleInstances
  <2>1. CASE matrix.mode = "table"
    <3>1. <<Rows[3].id, Columns[3].id>> = Drifted
      BY <1>3 DEF Drifted
    <3>2. Drifted \in Shown
      BY <1>5, <3>1 DEF Shown
    <3> QED
      BY <1>2, <2>1, <3>2
  <2>2. CASE matrix.mode # "table"
    <3> DEFINE r == Before(TableRows, 3)
               i == Before(VisibleInstances, 3)
    <3>1. r \in 0..Cardinality(TableRows) - 1 /\ Nth(TableRows, r) = 3
      <4>1. TableRows \subseteq Int
        BY <1>4
      <4> QED
        BY <1>4, <1>5, <4>1, PlacesAreFound
    <3>2. i \in 0..Cardinality(VisibleInstances) - 1 /\ Nth(VisibleInstances, i) = 3
      <4>1. VisibleInstances \subseteq Int /\ IsFiniteSet(VisibleInstances)
        BY VisibleAreFinite
      <4> QED
        BY <1>5, <4>1, PlacesAreFound
    <3> HIDE DEF r, i
    <3>3. <<r, i>> \in Grid
      BY <2>2, <3>1, <3>2 DEF Grid
    <3>4. CellAt(<<r, i>>) = Drifted
      BY <1>3, <3>1, <3>2 DEF CellAt, Drifted
    <3>5. MatrixCell(<<r, i>>).drift
      <4>1. MatrixCell(<<r, i>>).drift = Differs(At(CellAt(<<r, i>>)))
        BY Zenon DEF MatrixCell
      <4> QED
        BY <3>4, <4>1, OneDrifts, Zenon
    <3> QED
      BY <3>3, <3>4, <3>5
  <2> QED
    BY <2>1, <2>2
<1>6. CASE ~(3 \in TableRows /\ 3 \in VisibleInstances)
  <2>1. ~matrix.compact
    <3>1. SUFFICES ASSUME matrix.compact PROVE FALSE
      OBVIOUS
    <3>2. 3 \in TableRows
      BY <3>1 DEF TableRows, CompactRows
    <3>3. 3 \in VisibleInstances
      BY <3>1, TableIs DEF MatrixInv, VisibleInstances, InstanceShown
    <3> QED
      BY <1>6, <3>2, <3>3
  <2>2. 3 \notin VisibleRoutes \/ 3 \notin VisibleInstances
    BY <1>6, <2>1 DEF TableRows
  <2>3. Drifted \in DemoMemberships
    <3>1. Rows[3] \in ToSet(Rows) /\ Columns[3] \in ToSet(Columns)
      BY TableIs DEF ToSet
    <3> QED
      BY <3>1, TableIs DEF DemoMemberships, Drifted
  <2>4. \/ \A i \in VisibleRoutes : Rows[i].id # Drifted[1]
        \/ \A i \in VisibleInstances : Columns[i].id # Drifted[2]
    BY <2>2, TableIs, VisibleAreFinite DEF Drifted
  <2>5. Drifted \in HiddenCritical
    BY <2>3, <2>4, OneDrifts DEF HiddenCritical
  <2> QED
    BY <2>1, <2>5
<1> QED
  BY <1>5, <1>6

\* Of the cells one is the tab stop, wherever it went, but for the route that
\* the compact matrix leaves out.
LEMMA TabStopIsOne == MatrixInv => OneTabStop
<1> SUFFICES ASSUME MatrixInv, Grid # {}
    PROVE Cardinality({c \in Grid : MatrixCell(c).tabIndex = 0}) =
            IF matrix.compact /\ active[1] = Cardinality(CompactRows) THEN 0 ELSE 1
  BY DEF OneTabStop
<1>1. \A c \in Grid : MatrixCell(c).tabIndex = IF active = c THEN 0 ELSE -1
  BY Zenon DEF MatrixCell
<1>2. ASSUME active \in Grid PROVE Cardinality({c \in Grid : MatrixCell(c).tabIndex = 0}) = 1
  <2>1. {c \in Grid : MatrixCell(c).tabIndex = 0} = {active}
    BY <1>1, <1>2
  <2> QED
    BY <2>1, FS_Singleton
<1>3. CASE ~matrix.compact
  <2>1. Grid = Corners
    BY <1>3 DEF Grid, Corners, TableRows
  <2>2. VisibleRoutes # {} /\ VisibleInstances # {}
    <3>1. Cardinality(VisibleRoutes) # 0 /\ Cardinality(VisibleInstances) # 0
      BY <2>1 DEF Corners
    <3> QED
      BY <3>1, FS_EmptySet
  <2>3. active \in Grid
    BY <1>3, <2>1, <2>2 DEF MatrixInv
  <2> QED
    BY <1>2, <1>3, <2>3
<1>4. CASE matrix.compact
  <2>1. Grid = (0..3) \X (0..Cardinality(VisibleInstances) - 1)
    BY <1>4, FourRows DEF Grid, MatrixInv
  <2>2. active \in (0..4) \X (0..Cardinality(VisibleInstances) - 1)
    BY <1>4 DEF MatrixInv, CompactCorners
  <2>3. CASE active[1] = 4
    <3>1. active \notin Grid
      BY <2>1, <2>3
    <3>2. {c \in Grid : MatrixCell(c).tabIndex = 0} = {}
      BY <1>1, <3>1
    <3> QED
      BY <1>4, <2>3, <3>2, FourRows, FS_EmptySet
  <2>4. CASE active[1] # 4
    <3>1. active[1] \in 0..3 /\ active[2] \in 0..Cardinality(VisibleInstances) - 1
          /\ active = <<active[1], active[2]>>
      BY <2>2, <2>4
    <3>2. active \in Grid
      BY <2>1, <3>1
    <3> QED
      BY <1>2, <2>4, <3>2, FourRows
  <2> QED
    BY <2>3, <2>4
<1> QED
  BY <1>3, <1>4

\* The corner is a cell of every grid that has one.
LEMMA CornerIsThere == VisibleRoutes # {} /\ VisibleInstances # {} => <<0, 0>> \in Corners
<1> SUFFICES ASSUME VisibleRoutes # {}, VisibleInstances # {} PROVE <<0, 0>> \in Corners
  OBVIOUS
<1>1. Cardinality(VisibleRoutes) # 0 /\ Cardinality(VisibleInstances) # 0
  BY VisibleAreFinite, FS_EmptySet
<1>2. 0 \in 0..Cardinality(VisibleRoutes) - 1 /\ 0 \in 0..Cardinality(VisibleInstances) - 1
  BY <1>1, VisibleAreFinite
<1> QED
  BY <1>2 DEF Corners

\* The five filters.
LEMMA FilterKeysAre == DOMAIN FilterValues = FilterKeys /\ DOMAIN NoFilters = FilterKeys
BY DEF FilterValues, FilterKeys, NoFilters

\* The tab stop starts in the corner.
LEMMA MatrixStarts == MatrixInit => MatrixInv
<1> SUFFICES ASSUME MatrixInit PROVE MatrixInv
  OBVIOUS
<1>1. MatrixTypeOK
  <2>1. PICK compact \in BOOLEAN :
          matrix = [compact |-> compact, mode |-> "matrix", incidentOnly |-> FALSE,
                    density |-> IF compact THEN "overview" ELSE "operational"]
    BY MatrixAssumption DEF MatrixInit
  <2>2. matrix \in [compact : BOOLEAN, mode : {"matrix", "table"}, incidentOnly : BOOLEAN,
                    density : {"overview", "operational", "forensic"}]
    BY <2>1
  <2>3. filters = [k \in FilterKeys |-> filters[k]]
    BY FilterKeysAre DEF MatrixInit, NoFilters
  <2> QED
    BY <2>2, <2>3 DEF MatrixTypeOK
<1>2. matrix.mode = "matrix" /\ filters["version"] = "all"
  <2>1. matrix.mode = "matrix"
    BY DEF MatrixInit
  <2>2. filters["version"] = "all"
    BY FilterKeysAre DEF MatrixInit, NoFilters, FilterKeys
  <2> QED
    BY <2>1, <2>2
<1>3. active = <<0, 0>>
  BY DEF MatrixInit
<1>4. active \in CompactCorners
  BY <1>2, <1>3, CompactIsFull DEF CompactCorners
<1> QED
  BY <1>1, <1>2, <1>3, <1>4, CornerIsThere DEF MatrixInv

\* Nothing that the rows and columns depend on has changed.
LEMMA SameCorners ==
    ASSUME filters' = filters, matrix'.incidentOnly = matrix.incidentOnly
    PROVE  /\ VisibleRoutes' = VisibleRoutes /\ VisibleInstances' = VisibleInstances
           /\ Corners' = Corners /\ CompactCorners' = CompactCorners
<1>1. VisibleRoutes' = VisibleRoutes
  <2>1. ASSUME NEW i \in DOMAIN Rows PROVE RouteShown(Rows[i])' <=> RouteShown(Rows[i])
    BY DEF RouteShown
  <2> QED
    BY <2>1 DEF VisibleRoutes
<1>2. VisibleInstances' = VisibleInstances
  BY DEF VisibleInstances, InstanceShown
<1> QED
  BY <1>1, <1>2 DEF Corners, CompactCorners

\* Any step that resets the tab stop, and any that keeps it and the filters.
LEMMA ResetKeeps ==
    ASSUME MatrixInv, ~matrix.compact, MatrixTypeOK', matrix'.compact = matrix.compact, active' = <<0, 0>>
    PROVE  MatrixInv'
<1>1. (VisibleRoutes # {} /\ VisibleInstances # {} => <<0, 0>> \in Corners)'
  <2>1. VisibleRoutes # {} /\ VisibleInstances # {} => <<0, 0>> \in Corners
    BY CornerIsThere
  <2> QED
    BY <2>1, CornerIsThere, PTL
<1> QED
  BY <1>1 DEF MatrixInv

\* A step that changes no row or column keeps the tab stop.
LEMMA SameTable ==
    ASSUME MatrixInv, matrix' = matrix, filters' = filters,
           \/ active' = active
           \/ ~matrix.compact /\ active' \in Corners
           \/ matrix.compact /\ active' \in CompactCorners
    PROVE  MatrixInv'
<1>1. MatrixTypeOK'
  BY DEF MatrixInv, MatrixTypeOK
<1>2. VisibleRoutes' = VisibleRoutes /\ VisibleInstances' = VisibleInstances /\ Corners' = Corners
  BY SameCorners
<1>3. CompactCorners' = CompactCorners
  BY <1>2 DEF CompactCorners
<1> QED
  BY <1>1, <1>2, <1>3 DEF MatrixInv

\* Every filter resets the tab stop, and every move stays among the cells.
LEMMA MatrixStays == MatrixInv /\ [MatrixNext]_matrixVars => MatrixInv'
<1> SUFFICES ASSUME MatrixInv, [MatrixNext]_matrixVars PROVE MatrixInv'
  OBVIOUS
<1> USE DEF MatrixInv
<1>1. ASSUME NEW k \in DOMAIN filters, NEW v \in FilterValues[k], ChangeFilter(k, v) PROVE MatrixInv'
  <2>1. MatrixTypeOK'
    <3>1. filters' = [filters EXCEPT ![k] = v] /\ matrix' = matrix /\ DOMAIN filters = FilterKeys
      BY <1>1 DEF ChangeFilter, MatrixTypeOK
    <3>2. filters' = [n \in FilterKeys |-> filters'[n]]
      BY <3>1
    <3> QED
      BY <3>1, <3>2 DEF MatrixTypeOK
  <2> QED
    BY <1>1, <2>1, ResetKeeps DEF ChangeFilter, OnPage, ResetActive
<1>2. CASE ToggleIncident
  <2>1. matrix' = [matrix EXCEPT !.incidentOnly = ~@] /\ filters' = filters
    BY <1>2 DEF ToggleIncident
  <2>2. MatrixTypeOK' /\ matrix'.compact = matrix.compact
    BY <2>1 DEF MatrixTypeOK
  <2> QED
    BY <1>2, <2>2, ResetKeeps DEF ToggleIncident, OnPage, ResetActive
<1>3. CASE ResetFilters
  <2>1. matrix' = [matrix EXCEPT !.incidentOnly = FALSE] /\ filters' = NoFilters /\ ~matrix.compact
    BY <1>3 DEF ResetFilters, OnPage
  <2>2. MatrixTypeOK' /\ matrix'.compact = matrix.compact
    <3>1. filters' = [k \in FilterKeys |-> filters'[k]]
      BY <2>1, FilterKeysAre DEF NoFilters
    <3> QED
      BY <2>1, <3>1 DEF MatrixTypeOK
  <2>3. CASE active' = <<0, 0>>
    BY <2>1, <2>2, <2>3, ResetKeeps
  <2>4. CASE active' # <<0, 0>>
    <3>1. ~(SetFilters(filters, matrix.incidentOnly) > 0) /\ active' = active
      BY <1>3, <2>4 DEF ResetFilters
    <3>2. DOMAIN filters = FilterKeys
      BY DEF MatrixTypeOK
    <3> DEFINE set == {k \in DOMAIN filters : filters[k] # "all"}
    <3>3. IsFiniteSet(FilterKeys)
      <4>1. IsFiniteSet({"route"}) /\ IsFiniteSet({"state"}) /\ IsFiniteSet({"version"})
        BY FS_Singleton
      <4>2. IsFiniteSet({"criticality"}) /\ IsFiniteSet({"freshness"})
        BY FS_Singleton
      <4>3. IsFiniteSet(({"route"} \cup {"state"}) \cup {"version"})
        BY <4>1, FS_Union
      <4>4. IsFiniteSet((({"route"} \cup {"state"}) \cup {"version"}) \cup ({"criticality"} \cup {"freshness"}))
        BY <4>2, <4>3, FS_Union
      <4>5. FilterKeys = (({"route"} \cup {"state"}) \cup {"version"}) \cup ({"criticality"} \cup {"freshness"})
        BY DEF FilterKeys
      <4> QED
        BY <4>4, <4>5
    <3>4. IsFiniteSet(set) /\ Cardinality(set) \in Nat
      BY <3>2, <3>3, FS_Subset, FS_CardinalityType
    <3>5. Cardinality(set) = 0 /\ matrix.incidentOnly = FALSE
      <4>1. SetFilters(filters, matrix.incidentOnly) = Cardinality(set) + IF matrix.incidentOnly THEN 1 ELSE 0
        BY DEF SetFilters
      <4> HIDE DEF set
      <4>2. matrix.incidentOnly \in BOOLEAN
        BY DEF MatrixTypeOK
      <4> QED
        BY <3>1, <3>4, <4>1, <4>2
    <3>6. set = {}
      BY <3>4, <3>5, FS_EmptySet
    <3>7. filters' = filters
      <4>1. \A k \in FilterKeys : filters[k] = "all"
        BY <3>2, <3>6
      <4>2. NoFilters = [k \in FilterKeys |-> filters[k]]
        BY <4>1, FilterKeysAre DEF NoFilters
      <4> QED
        BY <2>1, <4>2 DEF MatrixTypeOK
    <3>8. matrix'.incidentOnly = matrix.incidentOnly
      BY <2>1, <3>5 DEF MatrixTypeOK
    <3> QED
      BY <2>1, <2>2, <3>1, <3>7, <3>8, SameCorners
  <2> QED
    BY <2>3, <2>4
<1>4. ASSUME NEW d \in {"overview", "operational", "forensic"}, SetDensity(d) PROVE MatrixInv'
  <2>1. /\ matrix' = [matrix EXCEPT !.density = d] /\ filters' = filters /\ active' = active
    BY <1>4 DEF SetDensity
  <2>2. /\ MatrixTypeOK' /\ matrix'.compact = matrix.compact /\ matrix'.incidentOnly = matrix.incidentOnly
        /\ matrix'.mode = matrix.mode
    BY <2>1 DEF MatrixTypeOK
  <2> QED
    BY <2>1, <2>2, SameCorners
<1>5. ASSUME NEW m \in {"matrix", "table"}, SetMode(m) PROVE MatrixInv'
  <2>1. /\ matrix' = [matrix EXCEPT !.mode = m] /\ filters' = filters /\ active' = active /\ ~matrix.compact
    BY <1>5 DEF SetMode, OnPage
  <2>2. /\ MatrixTypeOK' /\ matrix'.compact = matrix.compact /\ matrix'.incidentOnly = matrix.incidentOnly
    BY <2>1 DEF MatrixTypeOK
  <2> QED
    BY <2>1, <2>2, SameCorners
<1>7. ~matrix.compact => Grid \subseteq Corners
  BY DEF Grid, Corners, TableRows
<1>8. CASE Move
  <2>1. matrix' = matrix /\ filters' = filters /\ Grid # {}
    BY <1>8 DEF Move
  <2> DEFINE n == Cardinality(VisibleInstances)
             m == Cardinality(VisibleRoutes)
  <2>2. n \in Nat /\ m \in 0..5
    BY VisibleAreFinite, FourRows
  <2>3. n # 0
    BY <2>1, <2>2 DEF Grid
  <2>4. /\ Focused[1] \in Int /\ Focused[2] \in 0..n - 1
    <3>1. CASE active \in Grid
      <4>1. PICK r \in 0..Cardinality(TableRows) - 1, i \in 0..n - 1 : active = <<r, i>>
        BY <3>1 DEF Grid
      <4>2. Focused = <<r, i>>
        BY <3>1, <4>1 DEF Focused
      <4> QED
        BY <4>2
    <3>2. CASE active \notin Grid
      <4>1. matrix.compact
        <5>1. SUFFICES ASSUME ~matrix.compact PROVE FALSE
          OBVIOUS
        <5>2. Grid = Corners
          BY <2>1, <5>1 DEF Grid, Corners, TableRows
        <5>3. VisibleRoutes # {} /\ VisibleInstances # {}
          <6>1. m # 0 /\ n # 0
            BY <2>1, <5>2 DEF Corners
          <6> QED
            BY <6>1, FS_EmptySet
        <5> QED
          BY <3>2, <5>1, <5>2, <5>3
      <4>2. Focused = <<3, active[2]>>
        BY <3>2, <4>1, FourRows DEF Focused
      <4>3. active[2] \in 0..n - 1
        BY <4>1 DEF CompactCorners
      <4> QED
        BY <4>2, <4>3
    <3> QED
      BY <3>1, <3>2
  <2>5. PICK step \in Keys(Focused) : active' = Target(Focused, step)
    BY <1>8 DEF Move
  <2>6. step[1] \in Int /\ step[2] \in Int
    BY <2>2, <2>4, <2>5 DEF Keys, LastColumn
  <2> DEFINE row1 == Bounded(Focused[1] + step[1], m)
             column1 == Bounded(Focused[2] + step[2], n)
  <2>7. active' = <<row1, column1>>
    BY <2>5 DEF Target
  <2>8. column1 \in 0..n - 1
    <3>1. Focused[2] + step[2] \in Int
      BY <2>4, <2>6
    <3> HIDE DEF n
    <3> QED
      BY <2>2, <2>3, <3>1 DEF Bounded
  <2>9. row1 \in 0..4 /\ (m # 0 => row1 \in 0..m - 1)
    <3>1. Focused[1] + step[1] \in Int
      BY <2>4, <2>6
    <3> HIDE DEF m
    <3> QED
      BY <2>2, <3>1 DEF Bounded
  <2> HIDE DEF row1, column1
  <2>10. CASE matrix.compact
    <3>1. active' \in CompactCorners
      BY <2>7, <2>8, <2>9 DEF CompactCorners
    <3> QED
      BY <2>1, <2>10, <3>1, SameTable
  <2>11. CASE ~matrix.compact
    <3>1. m # 0
      BY <2>1, <2>2, <2>11 DEF Grid, TableRows
    <3>2. active' \in Corners
      BY <2>7, <2>8, <2>9, <3>1 DEF Corners
    <3> QED
      BY <2>1, <2>11, <3>2, SameTable
  <2> QED
    BY <2>10, <2>11
<1>9. CASE Open
  <2>1. matrix' = matrix /\ filters' = filters /\ (active' \in Grid \/ active' = active)
    BY <1>9 DEF Open
  <2>2. CASE matrix.compact
    <3>1. Grid \subseteq CompactCorners
      <4>1. Grid = (0..3) \X (0..Cardinality(VisibleInstances) - 1)
        BY <2>2, FourRows DEF Grid
      <4> QED
        BY <4>1 DEF CompactCorners
    <3> QED
      BY <2>1, <2>2, <3>1, SameTable
  <2>3. CASE ~matrix.compact
    <3>1. active' = active \/ active' \in Corners
      BY <1>7, <2>1, <2>3
    <3> QED
      BY <2>1, <2>3, <3>1, SameTable
  <2> QED
    BY <2>2, <2>3
<1>10. CASE CloseSheet \/ ChangeAddress \/ UNCHANGED matrixVars
  <2>1. matrix' = matrix /\ filters' = filters /\ active' = active
    BY <1>10 DEF CloseSheet, ChangeAddress, matrixVars
  <2> QED
    BY <2>1, SameTable
<1> QED
  BY <1>1, <1>2, <1>3, <1>4, <1>5, <1>8, <1>9, <1>10 DEF MatrixNext

-----------------------------------------------------------------------------
(* The pages of the demo that lead through steps.                          *)

\* The number of the stages, and their names.
StageIds == <<"evidence", "fingerprint", "classification", "confidence", "safety", "routing-unit",
              "haproxy", "verification", "outcome">>

\* The stages have these names.
LEMMA StagesAre ==
    /\ DOMAIN traceStages = 1..9 /\ Len(traceStages) = 9
    /\ \A i \in 1..9 : traceStages[i].id = StageIds[i]
BY DEF traceStages, Stage, StageIds

\* The trace stands at a stage there is, and what was typed stands in the step
\* that confirms the scenario it was typed for.
DemoInv ==
    /\ trace.selectedId \in {StageIds[i] : i \in 1..9}
    /\ fault.typed # "" => fault.for = fault.scenario
    /\ DOMAIN trace = {"selectedId", "showRaw"}
    /\ DOMAIN fault = {"scenario", "step", "typed", "for", "small"}

\* The stage that the inspector is of is the one that was chosen.
LEMMA SelectedIsOne ==
    ASSUME NEW i \in 1..9, trace.selectedId = StageIds[i]
    PROVE  selectedIndex = i /\ selectedStage = traceStages[i]
<1>1. \A j \in 1..9 : StageIds[j] = StageIds[i] => j = i
    BY DEF StageIds
<1>2. {j \in 1..Len(traceStages) : traceStages[j].id = trace.selectedId} = {i}
    BY <1>1, StagesAre
<1>3. Min({i}) = i
    BY DEF Min
<1>4. selectedIndex = i
    BY <1>2, <1>3 DEF selectedIndex, SelectInSeq
<1> QED BY <1>4 DEF selectedStage

\* Every stage is of one chapter.
ChapterOf == <<1, 2, 2, 2, 3, 3, 4, 5, 6>>

\* Each chapter has its stages, and no two have the same.
LEMMA ChaptersAre ==
    /\ DOMAIN chapterMap = 1..6 /\ Len(chapterMap) = 6
    /\ \A j, k \in 1..6 : chapterMap[j].label = chapterMap[k].label => j = k
    /\ \A i \in 1..9, j \in 1..6 : StageIds[i] \in ToSet(chapterMap[j].stages) <=> j = ChapterOf[i]
    /\ \A i \in 1..9 : ChapterOf[i] \in 1..6
<1>1. /\ DOMAIN chapterMap = 1..6 /\ Len(chapterMap) = 6
      /\ \A j, k \in 1..6 : chapterMap[j].label = chapterMap[k].label => j = k
    BY DEF chapterMap
<1>2. \A i \in 1..9 : ChapterOf[i] \in 1..6
    BY DEF ChapterOf
<1>3. /\ ToSet(chapterMap[1].stages) = {"evidence"}
      /\ ToSet(chapterMap[2].stages) = {"fingerprint", "classification", "confidence"}
      /\ ToSet(chapterMap[3].stages) = {"safety", "routing-unit"}
      /\ ToSet(chapterMap[4].stages) = {"haproxy"}
      /\ ToSet(chapterMap[5].stages) = {"verification"}
      /\ ToSet(chapterMap[6].stages) = {"outcome"}
    BY DEF chapterMap, ToSet
<1>4. \A i \in 1..9, j \in 1..6 : StageIds[i] \in ToSet(chapterMap[j].stages) <=> j = ChapterOf[i]
    BY <1>3 DEF StageIds, ChapterOf
<1> QED BY <1>1, <1>2, <1>4

\* A chapter opens at one of the stages.
LEMMA FirstStagesAre == \A j \in 1..6 : chapterMap[j].stages[1] \in {StageIds[i] : i \in 1..9}
BY DEF chapterMap, StageIds

\* The trace starts at the verification, the lab without a phrase.
LEMMA DemoStarts == DemoInit => DemoInv
<1>1. StageIds[8] = "verification"
    BY DEF StageIds
<1>2. 8 \in 1..9
    OBVIOUS
<1>3. "verification" \in {StageIds[i] : i \in 1..9}
    BY <1>1, <1>2
<1>4. ASSUME DemoInit PROVE trace.selectedId = "verification"
    BY <1>4 DEF DemoInit
<1>5. ASSUME DemoInit PROVE DOMAIN trace = {"selectedId", "showRaw"}
    BY <1>5 DEF DemoInit
<1>6. ASSUME DemoInit PROVE fault.typed = ""
    BY <1>6 DEF DemoInit
<1>7. ASSUME DemoInit PROVE DOMAIN fault = {"scenario", "step", "typed", "for", "small"}
    BY <1>7 DEF DemoInit
<1> QED BY <1>3, <1>4, <1>5, <1>6, <1>7 DEF DemoInv

\* Every step leads to a stage there is; only the list of scenarios changes the
\* scenario, and takes the phrase away.
LEMMA DemoStays == DemoInv /\ [DemoNext]_demoVars => DemoInv'
<1> SUFFICES ASSUME DemoInv, [DemoNext]_demoVars PROVE DemoInv'
    OBVIOUS
<1> DEFINE Ids == {StageIds[i] : i \in 1..9}
<1>1. ASSUME NEW id \in Ids, SetSelected(id) PROVE DemoInv'
    BY <1>1 DEF SetSelected, DemoInv
<1>2. CASE ToggleRaw
    BY <1>2 DEF ToggleRaw, DemoInv
<1>3. CASE ChooseChapter
    <2>1. PICK c \in ToSet(chapterMap) : SetSelected(c.stages[1])
        BY <1>3 DEF ChooseChapter
    <2>2. c.stages[1] \in Ids
        BY <2>1, ChaptersAre, FirstStagesAre DEF ToSet
    <2> QED BY <1>1, <2>1, <2>2
<1>4. CASE ChooseStage
    <2>1. PICK s \in ToSet(traceStages) : SetSelected(s.id)
        BY <1>4 DEF ChooseStage
    <2>2. s.id \in Ids
        BY <2>1, StagesAre DEF ToSet
    <2> QED BY <1>1, <2>1, <2>2
<1>5. CASE StepStage
    <2>1. PICK i \in 1..9 : trace.selectedId = StageIds[i]
        BY DEF DemoInv
    <2>2. selectedIndex = i
        BY <2>1, SelectedIsOne
    <2>3. ASSUME NEW j \in 1..9 PROVE IdAt(j) \in Ids
        BY <2>3, StagesAre DEF IdAt
    <2>4. \/ i # 1 /\ SetSelected(IdAt(i - 1))
          \/ i # 9 /\ SetSelected(IdAt(i + 1))
        BY <1>5, <2>2, StagesAre DEF StepStage
    <2>5. CASE i # 1 /\ SetSelected(IdAt(i - 1))
        <3>1. i - 1 \in 1..9
            BY <2>5
        <3> QED BY <1>1, <2>3, <2>5, <3>1
    <2>6. CASE i # 9 /\ SetSelected(IdAt(i + 1))
        <3>1. i + 1 \in 1..9
            BY <2>6
        <3> QED BY <1>1, <2>3, <2>6, <3>1
    <2> QED BY <2>4, <2>5, <2>6
<1>6. CASE \E s \in faultScenarios : ChooseScenario(s)
    BY <1>6 DEF ChooseScenario, Fault, DemoInv
<1>7. CASE ReviewInjection \/ BackToScope
    BY <1>7 DEF ReviewInjection, BackToScope, Fault, DemoInv
<1>8. CASE \E p \in Phrases : TypePhrase(p)
    BY <1>8 DEF TypePhrase, Fault, DemoInv
<1>9. CASE Resize
    BY <1>9 DEF Resize, Fault, DemoInv
<1>10. CASE UNCHANGED demoVars
    BY <1>10 DEF demoVars, DemoInv
<1> QED BY <1>2, <1>3, <1>4, <1>5, <1>6, <1>7, <1>8, <1>9, <1>10 DEF DemoNext

\* The list, the bar and the inspector are of the one stage.
LEMMA DemoShows == DemoInv => TraceIsOfOneStage /\ PhraseIsForItsScenario
<1> SUFFICES ASSUME DemoInv PROVE TraceIsOfOneStage /\ PhraseIsForItsScenario
    OBVIOUS
<1>1. PICK i \in 1..9 : trace.selectedId = StageIds[i]
    BY DEF DemoInv
<1>2. Inspector.heading = StageIds[i] /\ selectedStage.id = StageIds[i]
    BY <1>1, SelectedIsOne, StagesAre DEF Inspector
<1>3. StageList = {Inspector.heading}
    <2>1. traceStages[i] \in ToSet(traceStages)
        BY StagesAre DEF ToSet
    <2> QED BY <1>1, <1>2, <2>1, StagesAre DEF StageList, ToSet
<1>4. Inspector.raw \in {"none", Inspector.heading}
    BY <1>2 DEF Inspector
<1>5. Inspector.content = "Outcome" <=> Inspector.heading = "outcome"
    <2>1. Inspector.content = inspectorContent
        BY DEF Inspector
    <2>2. inspectorContent = "Outcome" <=> StageIds[i] = "outcome"
        BY <1>1 DEF inspectorContent, StageIds
    <2> QED BY <1>2, <2>1, <2>2
<1>6. \E k \in 1..Len(Chapters) :
         /\ {j \in 1..Len(Chapters) : Chapters[j].selected} = {k}
         /\ Inspector.heading \in ToSet(chapterMap[k].stages)
         /\ Inspector.chapter = {chapterMap[k].label}
    <2> DEFINE k == ChapterOf[i]
    <2>1. k \in 1..6 /\ Len(Chapters) = 6
        BY ChaptersAre DEF Chapters
    <2>2. currentChapter = {chapterMap[k]}
        <3>1. \A j \in 1..6 : chapterMap[j] \in currentChapter <=> j = k
            BY <1>1, ChaptersAre DEF currentChapter, ToSet
        <3>2. currentChapter \subseteq {chapterMap[j] : j \in 1..6}
            BY ChaptersAre DEF currentChapter, ToSet
        <3> QED BY <2>1, <3>1, <3>2
    <2>3. \A j \in 1..6 : Chapters[j].selected <=> j = k
        <3>1. \A j \in 1..6 : Chapters[j] = [state |-> ChapterState(chapterMap[j]),
                                             selected |-> chapterMap[j] \in currentChapter]
            BY ChaptersAre DEF Chapters
        <3>2. ASSUME NEW j \in 1..6 PROVE Chapters[j].selected <=> chapterMap[j] \in currentChapter
            <4> DEFINE marked == chapterMap[j] \in currentChapter
            <4>1. Chapters[j] = [state |-> ChapterState(chapterMap[j]), selected |-> marked]
                BY <3>1
            <4>2. CASE marked
                <5>1. marked = TRUE
                    BY <4>2, Zenon
                <5> HIDE DEF marked
                <5>2. Chapters[j] = [state |-> ChapterState(chapterMap[j]), selected |-> TRUE]
                    BY <4>1, <5>1, Zenon
                <5> QED BY <4>2, <5>2 DEF marked
            <4>3. CASE ~marked
                <5>1. marked = FALSE
                    BY <4>3
                <5> HIDE DEF marked
                <5>2. Chapters[j] = [state |-> ChapterState(chapterMap[j]), selected |-> FALSE]
                    BY <4>1, <5>1, Zenon
                <5> QED BY <4>3, <5>2 DEF marked
            <4> QED BY <4>2, <4>3
        <3>3. \A j \in 1..6 : chapterMap[j] = chapterMap[k] => j = k
            BY <2>1, ChaptersAre
        <3> QED BY <2>2, <3>2, <3>3
    <2>4. Inspector.chapter = {chapterMap[k].label}
        BY <2>2 DEF Inspector
    <2>5. {j \in 1..Len(Chapters) : Chapters[j].selected} = {k}
        BY <2>1, <2>3
    <2>6. Inspector.heading \in ToSet(chapterMap[k].stages)
        BY <1>2, <2>1, ChaptersAre
    <2> HIDE DEF k
    <2> QED BY <2>1, <2>4, <2>5, <2>6
<1>7. PhraseIsForItsScenario
    BY DEF DemoInv, PhraseIsForItsScenario, FaultPage
<1> QED BY <1>3, <1>4, <1>5, <1>6, <1>7 DEF TraceIsOfOneStage

-----------------------------------------------------------------------------
(* The records of the demo: a row says of its record what the page behind  *)
(* it does, so that what was told stays true wherever a link leads.        *)

\* What a page is made of.
LEMMA PartsOfPage ==
    ASSUME NEW id, NEW tag, NEW items, NEW links
    PROVE  /\ Page(id, tag, items, links).id = id /\ Page(id, tag, items, links).tag = tag
           /\ Page(id, tag, items, links).rows = items /\ Page(id, tag, items, links).links = links
BY DEF Page

\* A known identifier finds its own record.
LEMMA LookupFinds ==
    ASSUME NEW records, NEW r \in records, NEW default, \A s \in records : s.id = r.id => s = r
    PROVE  Lookup(records, r.id, default) = r
BY DEF Lookup

\* No two records of a kind share an identifier.
LEMMA IdsDiffer ==
    /\ \A a, b \in incidents : a.id = b.id => a = b
    /\ \A a, b \in actionQueue : a.id = b.id => a = b
    /\ \A a, b \in instances : a.id = b.id => a = b
<1>1. \A a, b \in incidents : a.id = b.id => a = b
  BY DEF incidents
<1>2. \A a, b \in actionQueue : a.id = b.id => a = b
  BY DEF actionQueue
<1>3. \A a, b \in instances : a.id = b.id => a = b
  BY DEF instances
<1> QED
  BY <1>1, <1>2, <1>3

\* The addresses that links lead to.
Reached ==
    Lists \cup {<<"incidents", r.id>> : r \in incidents} \cup {<<"actions", r.id>> : r \in actionQueue}
          \cup {<<"backends", r.id>> : r \in instances}
          \cup {<<"reintegration", "reint-228">>, <<"incidents", "inc-1042", "decision-trace">>}

\* The addresses that are written by hand.
LEMMA FixedAreReached ==
    /\ <<"incidents", "inc-1042">> \in Reached /\ <<"actions", "act-7719">> \in Reached
    /\ <<"reintegration", "reint-228">> \in Reached /\ <<"incidents", "inc-1042", "decision-trace">> \in Reached
    /\ Lists \subseteq Reached
<1>1. \E r \in incidents : <<"incidents", "inc-1042">> = <<"incidents", r.id>>
  BY DEF incidents
<1>2. \E r \in actionQueue : <<"actions", "act-7719">> = <<"actions", r.id>>
  BY DEF actionQueue
<1> QED
  BY <1>1, <1>2 DEF Reached

\* The build knows every address that a link leads to.
LEMMA ReachedIsKnown == Reached \subseteq staticConsoleSlugs
BY DEF Reached, staticConsoleSlugs, Lists

\* The page of an incident is of that incident.
LEMMA IncidentPages ==
    ASSUME NEW i \in incidents
    PROVE  LET behind == ConsoleRoutePage(<<"incidents", i.id>>) IN
           behind.id = i.id /\ behind.tag = IncidentTag(i) /\ behind.rows = {} /\ behind.links \subseteq Reached
<1>1. ConsoleRoutePage(<<"incidents", i.id>>) = IncidentDetailsPage(i.id)
  BY DEF ConsoleRoutePage
<1>2. Lookup(incidents, i.id, "inc-1042") = i
  BY LookupFinds, IdsDiffer
<1>3. CASE i.id # "inc-1042"
  <2>1. IncidentDetailsPage(i.id) = Page(i.id, IncidentTag(i), {}, {<<"incidents">>})
    BY <1>2, <1>3 DEF IncidentDetailsPage, BoundedIncidentDetails
  <2> QED
    BY <1>1, <2>1, FixedAreReached DEF Page, Lists
<1>4. CASE i.id = "inc-1042"
  <2>1. IncidentDetailsPage(i.id) =
          Page(i.id, Tag(i.status, "warning"), {},
               {<<"incidents", i.id, "decision-trace">>, <<"actions", "act-7719">>, <<"reintegration", "reint-228">>})
    BY <1>2, <1>4 DEF IncidentDetailsPage
  <2>2. i.status = "VERIFYING"
    BY <1>4 DEF incidents
  <2>3. IncidentTag(i) = Tag(i.status, "warning")
    BY <2>2 DEF IncidentTag
  <2> QED
    BY <1>1, <1>4, <2>1, <2>3, FixedAreReached DEF Page
<1> QED
  BY <1>3, <1>4

\* The page of an action is of that action.
LEMMA ActionPages ==
    ASSUME NEW a \in actionQueue
    PROVE  LET behind == ConsoleRoutePage(<<"actions", a.id>>) IN
           behind.id = a.id /\ behind.tag = ActionTag(a) /\ behind.rows = {} /\ behind.links \subseteq Reached
<1>1. ConsoleRoutePage(<<"actions", a.id>>) = ActionDetailsPage(a.id)
  BY DEF ConsoleRoutePage
<1>2. Lookup(actionQueue, a.id, "act-7719") = a
  BY LookupFinds, IdsDiffer
<1>3. CASE a.id # "act-7719"
  <2>1. ActionDetailsPage(a.id) = Page(a.id, ActionTag(a), {}, {<<"actions">>})
    BY <1>2, <1>3 DEF ActionDetailsPage, BoundedActionDetails
  <2> QED
    BY <1>1, <2>1, FixedAreReached DEF Page, Lists
<1>4. CASE a.id = "act-7719"
  <2>1. ActionDetailsPage(a.id) =
          Page(a.id, Tag(a.lifecycle, "warning"), {}, {<<"incidents", "inc-1042", "decision-trace">>})
    BY <1>2, <1>4 DEF ActionDetailsPage
  <2>2. a.lifecycle = "VERIFYING"
    BY <1>4 DEF actionQueue
  <2>3. ActionTag(a) = Tag(a.lifecycle, "warning")
    BY <2>2 DEF ActionTag, lifecycleTone
  <2> QED
    BY <1>1, <2>1, <2>3, FixedAreReached DEF Page
<1> QED
  BY <1>3, <1>4

\* The page of an instance is of that instance.
LEMMA BackendPages ==
    ASSUME NEW i \in instances
    PROVE  LET behind == ConsoleRoutePage(<<"backends", i.id>>) IN
           behind.id = i.id /\ behind.tag = InstanceTag(i) /\ behind.rows = {} /\ behind.links \subseteq Reached
<1>1. ConsoleRoutePage(<<"backends", i.id>>) = BackendDetailsPage(i.id)
  BY DEF ConsoleRoutePage
<1>2. Lookup(instances, i.id, "inst-b") = i
  BY LookupFinds, IdsDiffer
<1>3. {<<"backends">>, <<"traffic", "matrix">>} \subseteq Reached
  BY FixedAreReached DEF Lists
<1> DEFINE ready == Tag("READY", "success")
           partial == Tag("PARTIAL EVIDENCE", "neutral")
           issue == Tag("ROUTE-LOCAL ISSUE", "warning")
<1>4. BackendDetailsPage(i.id) = Page(i.id, InstanceTag(i), {}, {<<"backends">>, <<"traffic", "matrix">>})
  <2>1. BackendDetailsPage(i.id) =
          IF i.id # "inst-b"
          THEN Page(i.id, IF i.probe = "passing" THEN ready ELSE partial, {}, {<<"backends">>, <<"traffic", "matrix">>})
          ELSE Page(i.id, issue, {}, {<<"backends">>, <<"traffic", "matrix">>})
    BY <1>2 DEF BackendDetailsPage, BoundedBackendDetails
  <2>2. InstanceTag(i) = CASE i.id = "inst-b" -> issue
                           [] i.id # "inst-b" /\ i.probe = "unknown" -> partial
                           [] OTHER -> ready
    BY DEF InstanceTag
  <2>3. i.id # "inst-b" => i.probe \in {"passing", "unknown"}
    BY DEF instances
  <2> HIDE DEF ready, partial, issue
  <2> QED
    BY <2>1, <2>2, <2>3
<1> QED
  BY <1>1, <1>3, <1>4, PartsOfPage

\* What a row may say, and where it leads: to the page that says the same.
Leads(to, tag) ==
    \/ \E i \in incidents : to = <<"incidents", i.id>> /\ tag = IncidentTag(i)
    \/ \E a \in actionQueue : to = <<"actions", a.id>> /\ tag = ActionTag(a)
    \/ \E i \in instances : to = <<"backends", i.id>> /\ tag = InstanceTag(i)
    \/ to = <<"reintegration", "reint-228">> /\ tag = Tag("requested 20 / observed 5", "warning")
RunTag == Tag("requested 20 / observed 5", "warning")

\* The rows of a list say what the pages behind them say.
LEMMA ListPages ==
    ASSUME NEW to \in Lists \cup {<<"reintegration", "reint-228">>, <<"incidents", "inc-1042", "decision-trace">>}
    PROVE  LET behind == ConsoleRoutePage(to) IN
           /\ \A r \in behind.rows : Leads(r.to, r.tag)
           /\ behind.links \subseteq Reached
           /\ behind.id = "incidents" => to = <<"incidents">>
           /\ to = <<"reintegration", "reint-228">> => behind.id = "reint-228"
<1>1. CASE to = <<"incidents">>
  <2>1. ConsoleRoutePage(to) = IncidentListPage
    BY <1>1 DEF ConsoleRoutePage
  <2>2. ASSUME NEW i \in incidents PROVE Leads(<<"incidents", i.id>>, IncidentTag(i))
    BY DEF Leads
  <2> QED
    BY <1>1, <2>1, <2>2 DEF IncidentListPage, Page
<1>2. CASE to = <<"actions">>
  <2>1. ConsoleRoutePage(to) = HealingActionsPage
    BY <1>2 DEF ConsoleRoutePage
  <2>2. ASSUME NEW a \in actionQueue PROVE Leads(<<"actions", a.id>>, ActionTag(a))
    BY DEF Leads
  <2> QED
    BY <1>2, <2>1, <2>2 DEF HealingActionsPage, Page
<1>3. CASE to = <<"backends">>
  <2>1. ConsoleRoutePage(to) = BackendInventoryPage
    BY <1>3 DEF ConsoleRoutePage
  <2>2. ASSUME NEW i \in instances PROVE Leads(<<"backends", i.id>>, InstanceTag(i))
    BY DEF Leads
  <2> QED
    BY <1>3, <2>1, <2>2, FixedAreReached DEF BackendInventoryPage, Page
<1>4. CASE to = <<"reintegration", "reint-228">>
  <2>1. ConsoleRoutePage(to) = Page("reint-228", RunTag, {}, {})
    BY <1>4 DEF ConsoleRoutePage, RunTag
  <2> QED
    BY <2>1 DEF Page
<1>5. CASE to = <<"reintegration">>
  <2>1. ConsoleRoutePage(to) = ReintegrationListPage
    BY <1>5 DEF ConsoleRoutePage
  <2>2. ConsoleRoutePage(<<"reintegration", "reint-228">>) = Page("reint-228", RunTag, {}, {})
    BY DEF ConsoleRoutePage, RunTag
  <2>3. Leads(<<"reintegration", "reint-228">>, RunTag)
    BY DEF Leads, RunTag
  <2> QED
    <3>1. ReintegrationListPage =
            Page("reintegration", Nothing, {[to |-> <<"reintegration", "reint-228">>, tag |-> RunTag]}, {})
      BY DEF ReintegrationListPage, RunTag
    <3>2. /\ ConsoleRoutePage(to).id = "reintegration" /\ ConsoleRoutePage(to).links = {}
          /\ ConsoleRoutePage(to).rows = {[to |-> <<"reintegration", "reint-228">>, tag |-> RunTag]}
      BY <2>1, <3>1, PartsOfPage
    <3>3. \A r \in ConsoleRoutePage(to).rows : Leads(r.to, r.tag)
      BY <2>3, <3>2
    <3>4. to # <<"reintegration", "reint-228">>
      BY <1>5
    <3> QED
      BY <3>2, <3>3, <3>4
<1>6. CASE to = <<"traffic", "matrix">>
  <2>1. ConsoleRoutePage(to) = Page("traffic", Nothing, {}, {<<"traffic", "matrix">>})
    BY <1>6 DEF ConsoleRoutePage
  <2> QED
    BY <1>6, <2>1, FixedAreReached DEF Page, Lists
<1>7. CASE to = <<"incidents", "inc-1042", "decision-trace">>
  <2>1. ConsoleRoutePage(to) =
          Page("trace", Nothing, {}, {<<"incidents", "inc-1042">>, <<"reintegration", "reint-228">>})
    BY <1>7 DEF ConsoleRoutePage
  <2> QED
    BY <1>7, <2>1, FixedAreReached DEF Page
<1> QED
  BY <1>1, <1>2, <1>3, <1>4, <1>5, <1>6, <1>7 DEF Lists

\* Every page that is reached leads on to pages that are, and its rows say what those say.
LEMMA PagesLeadOn ==
    ASSUME NEW to \in Reached
    PROVE  /\ \A r \in ConsoleRoutePage(to).rows : Leads(r.to, r.tag)
           /\ ConsoleRoutePage(to).links \subseteq Reached
<1>1. CASE to \in Lists \cup {<<"reintegration", "reint-228">>, <<"incidents", "inc-1042", "decision-trace">>}
  BY <1>1, ListPages
<1>2. ASSUME NEW r \in incidents, to = <<"incidents", r.id>>
      PROVE ConsoleRoutePage(to).rows = {} /\ ConsoleRoutePage(to).links \subseteq Reached
  BY <1>2, IncidentPages
<1>3. ASSUME NEW r \in actionQueue, to = <<"actions", r.id>>
      PROVE ConsoleRoutePage(to).rows = {} /\ ConsoleRoutePage(to).links \subseteq Reached
  BY <1>3, ActionPages
<1>4. ASSUME NEW r \in instances, to = <<"backends", r.id>>
      PROVE ConsoleRoutePage(to).rows = {} /\ ConsoleRoutePage(to).links \subseteq Reached
  BY <1>4, BackendPages
<1> QED
  BY <1>1, <1>2, <1>3, <1>4 DEF Reached

\* The page behind a row says what the row said.
LEMMA PagesSayTheSame ==
    ASSUME NEW to, NEW tag, Leads(to, tag)
    PROVE  to \in Reached /\ ConsoleRoutePage(to).tag = tag
<1>1. ASSUME NEW i \in incidents, to = <<"incidents", i.id>>, tag = IncidentTag(i)
      PROVE to \in Reached /\ ConsoleRoutePage(to).tag = tag
  BY <1>1, IncidentPages DEF Reached
<1>2. ASSUME NEW a \in actionQueue, to = <<"actions", a.id>>, tag = ActionTag(a)
      PROVE to \in Reached /\ ConsoleRoutePage(to).tag = tag
  BY <1>2, ActionPages DEF Reached
<1>3. ASSUME NEW i \in instances, to = <<"backends", i.id>>, tag = InstanceTag(i)
      PROVE to \in Reached /\ ConsoleRoutePage(to).tag = tag
  BY <1>3, BackendPages DEF Reached
<1>4. ASSUME to = <<"reintegration", "reint-228">>, tag = RunTag
      PROVE to \in Reached /\ ConsoleRoutePage(to).tag = tag
  <2>1. ConsoleRoutePage(to) = Page("reint-228", RunTag, {}, {})
    BY <1>4 DEF ConsoleRoutePage, RunTag
  <2> QED
    BY <1>4, <2>1, FixedAreReached DEF Page
<1> QED
  BY <1>1, <1>2, <1>3, <1>4 DEF Leads, RunTag

\* The address is one that a link leads to, and the page there says what the
\* row that led there said.
RecordPagesInv == where \in Reached /\ (told # Nothing => Leads(where, told))

\* The operator starts at a list.
LEMMA RecordPagesStart == RecordPagesInit => RecordPagesInv
BY FixedAreReached DEF RecordPagesInit, RecordPagesInv

\* Rows and links lead from known pages to known pages.
LEMMA RecordPagesStay == RecordPagesInv /\ [RecordPagesNext]_recordPageVars => RecordPagesInv'
<1> SUFFICES ASSUME RecordPagesInv, [RecordPagesNext]_recordPageVars PROVE RecordPagesInv'
  OBVIOUS
<1>1. where \in Reached
  BY DEF RecordPagesInv
<1>2. CASE FollowRow
  <2>1. PICK r \in PageShown.rows : where' = r.to /\ told' = r.tag
    BY <1>2 DEF FollowRow, Go
  <2>2. Leads(r.to, r.tag)
    BY <1>1, <2>1, PagesLeadOn DEF PageShown
  <2>3. r.to \in Reached
    BY <2>2, PagesSayTheSame
  <2> QED
    BY <2>1, <2>2, <2>3 DEF RecordPagesInv
<1>3. CASE FollowRecordLink
  <2>1. PICK slug \in PageShown.links : where' = slug /\ told' = Nothing
    BY <1>3 DEF FollowRecordLink, Go
  <2> QED
    BY <1>1, <2>1, PagesLeadOn DEF RecordPagesInv, PageShown
<1>4. CASE OpenList
  BY <1>4, FixedAreReached DEF OpenList, Go, RecordPagesInv
<1>5. CASE ChangeView \/ UNCHANGED recordPageVars
  <2>1. where' = where /\ told' = told
    BY <1>5 DEF ChangeView, recordPageVars
  <2> QED
    BY <2>1 DEF RecordPagesInv
<1> QED
  BY <1>2, <1>3, <1>4, <1>5 DEF RecordPagesNext

\* The routes by name.
RouteNames == {"public", "auth", "catalog", "checkout", "recommendations"}

\* The routes of the snapshot.
LEMMA RouteIdsAre == RouteIds = RouteNames
<1>1. DOMAIN Rows = 1..5
  BY DEF Rows
<1>2. /\ Rows[1].id = "public" /\ Rows[2].id = "auth" /\ Rows[3].id = "catalog"
      /\ Rows[4].id = "checkout" /\ Rows[5].id = "recommendations"
  BY DEF Rows, Row
<1>3. RouteIds = {Rows[i].id : i \in 1..5}
  BY <1>1 DEF RouteIds, ToSet
<1> QED
  BY <1>2, <1>3 DEF RouteNames

\* The cells that are not simply healthy.
LEMMA StatesOfCells ==
    ASSUME NEW r \in RouteNames, NEW i \in instances
    PROVE  /\ MatrixCells(r, i.id).state = "no-membership" <=> r = "recommendations" /\ i.id = "inst-c"
           /\ MatrixCells(r, i.id).state = "unknown" <=> r = "auth" /\ i.id = "inst-c"
           /\ MatrixCells(r, i.id).evidence = "stale" <=> r = "auth" /\ i.id = "inst-c"
           /\ i.id = "inst-b" => (MatrixCells(r, i.id).state = "healthy" <=> r # "checkout")
<1>1. i.id \in {"inst-a", "inst-b", "inst-c"}
  BY DEF instances
<1>2. CASE r = "auth" /\ i.id = "inst-c"
  BY <1>2 DEF MatrixCells, Cell
<1>3. CASE r = "catalog" /\ i.id = "inst-c"
  BY <1>3 DEF MatrixCells, Cell
<1>4. CASE r = "checkout" /\ i.id = "inst-b"
  BY <1>4 DEF MatrixCells, Cell
<1>5. CASE r = "recommendations" /\ i.id = "inst-c"
  BY <1>5 DEF MatrixCells, Cell
<1>6. CASE /\ ~(r = "auth" /\ i.id = "inst-c") /\ ~(r = "catalog" /\ i.id = "inst-c")
           /\ ~(r = "checkout" /\ i.id = "inst-b") /\ ~(r = "recommendations" /\ i.id = "inst-c")
  <2>1. MatrixCells(r, i.id) = Cell
    BY <1>6 DEF MatrixCells
  <2> QED
    BY <1>6, <2>1 DEF Cell
<1> QED
  BY <1>2, <1>3, <1>4, <1>5, <1>6

\* There are five routes, and four without any one of them.
LEMMA FiveRoutes ==
    /\ Cardinality(RouteNames) = 5
    /\ \A r \in RouteNames : Cardinality(RouteNames \ {r}) = 4
<1>1. IsFiniteSet(RouteNames) /\ Cardinality(RouteNames) = 5
  <2>1. IsFiniteSet({"public"}) /\ Cardinality({"public"}) = 1
    BY FS_Singleton
  <2> DEFINE two == {"public"} \cup {"auth"}
             three == two \cup {"catalog"}
             four == three \cup {"checkout"}
             five == four \cup {"recommendations"}
  <2>2. IsFiniteSet(two) /\ Cardinality(two) = 2
    BY <2>1, FS_AddElement
  <2>3. IsFiniteSet(three) /\ Cardinality(three) = 3
    <3>1. "catalog" \notin two
      OBVIOUS
    <3> HIDE DEF two
    <3> QED
      BY <2>2, <3>1, FS_AddElement
  <2>4. IsFiniteSet(four) /\ Cardinality(four) = 4
    <3>1. "checkout" \notin three
      OBVIOUS
    <3> HIDE DEF three
    <3> QED
      BY <2>3, <3>1, FS_AddElement
  <2>5. IsFiniteSet(five) /\ Cardinality(five) = 5
    <3>1. "recommendations" \notin four
      OBVIOUS
    <3> HIDE DEF four
    <3> QED
      BY <2>4, <3>1, FS_AddElement
  <2>6. RouteNames = five
    BY DEF RouteNames
  <2> QED
    BY <2>5, <2>6
<1> QED
  BY <1>1, FS_RemoveElement

\* What the pages of instances state by hand is what the cells say.
LEMMA MembershipsAreCounted ==
    /\ \A i \in instances : Cardinality(Populated(i)) = MembershipCount(i)
    /\ \A r \in RouteIds : BackendMemberships[r].tag.text = "eligible" <=> MatrixCells(r, "inst-b").state = "healthy"
    /\ Cardinality({r \in RouteIds : BackendMemberships[r].tag.text = "eligible"}) = EligibleCount
    /\ \A i \in instances : \A r \in Uncertain(i) : BoundedMemberships(i)[r].tag.tone = "warning"
<1>1. ASSUME NEW i \in instances PROVE Cardinality(Populated(i)) = MembershipCount(i)
  <2>1. CASE i.id = "inst-c"
    <3>1. Populated(i) = RouteNames \ {"recommendations"}
      BY <2>1, RouteIdsAre, StatesOfCells DEF Populated
    <3> QED
      BY <2>1, <3>1, FiveRoutes DEF MembershipCount, RouteNames
  <2>2. CASE i.id # "inst-c"
    <3>1. Populated(i) = RouteNames
      BY <2>2, RouteIdsAre, StatesOfCells DEF Populated
    <3> QED
      BY <2>2, <3>1, FiveRoutes DEF MembershipCount
  <2> QED
    BY <2>1, <2>2
<1>2. \A r \in RouteNames : BackendMemberships[r].tag.text = "eligible" <=> r # "checkout"
  <2> TAKE r \in RouteNames
  <2>1. CASE r = "checkout"
    <3>1. BackendMemberships[r].tag = Tag("quarantined", "warning")
      BY <2>1, RouteIdsAre DEF BackendMemberships
    <3> QED
      BY <2>1, <3>1 DEF Tag
  <2>2. CASE r # "checkout"
    <3>1. BackendMemberships[r].tag = Tag("eligible", "success")
      BY <2>2, RouteIdsAre DEF BackendMemberships
    <3> QED
      BY <2>2, <3>1 DEF Tag
  <2> QED
    BY <2>1, <2>2
<1>3. \A r \in RouteIds : BackendMemberships[r].tag.text = "eligible" <=> MatrixCells(r, "inst-b").state = "healthy"
  <2>1. PICK i \in instances : i.id = "inst-b"
    BY DEF instances
  <2> QED
    BY <1>2, <2>1, RouteIdsAre, StatesOfCells
<1>4. Cardinality({r \in RouteIds : BackendMemberships[r].tag.text = "eligible"}) = EligibleCount
  <2>1. {r \in RouteIds : BackendMemberships[r].tag.text = "eligible"} = RouteNames \ {"checkout"}
    BY <1>2, RouteIdsAre
  <2> QED
    BY <2>1, FiveRoutes DEF EligibleCount, RouteNames
<1>5. ASSUME NEW i \in instances, NEW r \in Uncertain(i) PROVE BoundedMemberships(i)[r].tag.tone = "warning"
  <2>1. r \in RouteNames /\ r = "auth" /\ i.id = "inst-c"
    BY RouteIdsAre, StatesOfCells DEF Uncertain
  <2>2. MatrixCells(r, i.id).state = "unknown"
    BY <2>1, StatesOfCells
  <2>3. BoundedMemberships(i)[r].tag = Tag("unknown", "warning")
    BY <2>1, <2>2, RouteIdsAre DEF BoundedMemberships
  <2> QED
    BY <2>3 DEF Tag
<1> QED
  BY <1>1, <1>3, <1>4, <1>5

\* Every page that is reached is of the record its address names.
LEMMA LinksLead == RecordPagesInv => LinksLeadHome
<1> SUFFICES ASSUME RecordPagesInv PROVE LinksLeadHome
  OBVIOUS
<1>1. where \in Reached /\ where \in staticConsoleSlugs
  BY ReachedIsKnown DEF RecordPagesInv
<1>2. told # Nothing => PageShown.tag = told
  BY PagesSayTheSame DEF RecordPagesInv, PageShown
<1>3. /\ Len(where) = 2 /\ where[1] # "traffic" => PageShown.id = where[2]
      /\ PageShown.id = "incidents" => where = <<"incidents">>
  <2>1. CASE where \in Lists \cup {<<"reintegration", "reint-228">>, <<"incidents", "inc-1042", "decision-trace">>}
    <3>1. PageShown.id = "incidents" => where = <<"incidents">>
      BY <2>1, ListPages DEF PageShown
    <3>2. Len(where) = 2 /\ where[1] # "traffic" => where = <<"reintegration", "reint-228">>
      BY <2>1 DEF Lists
    <3>3. where = <<"reintegration", "reint-228">> => PageShown.id = "reint-228"
      BY <2>1, ListPages DEF PageShown
    <3> QED
      BY <3>1, <3>2, <3>3
  <2>2. ASSUME NEW r \in incidents, where = <<"incidents", r.id>>
        PROVE PageShown.id = where[2] /\ PageShown.id # "incidents"
    <3>1. PageShown.id = r.id
      BY <2>2, IncidentPages DEF PageShown
    <3>2. r.id # "incidents"
      BY DEF incidents
    <3> QED
      BY <2>2, <3>1, <3>2
  <2>3. ASSUME NEW r \in actionQueue, where = <<"actions", r.id>>
        PROVE PageShown.id = where[2] /\ PageShown.id # "incidents"
    <3>1. PageShown.id = r.id
      BY <2>3, ActionPages DEF PageShown
    <3>2. r.id # "incidents"
      BY DEF actionQueue
    <3> QED
      BY <2>3, <3>1, <3>2
  <2>4. ASSUME NEW r \in instances, where = <<"backends", r.id>>
        PROVE PageShown.id = where[2] /\ PageShown.id # "incidents"
    <3>1. PageShown.id = r.id
      BY <2>4, BackendPages DEF PageShown
    <3>2. r.id # "incidents"
      BY DEF instances
    <3> QED
      BY <2>4, <3>1, <3>2
  <2> QED
    BY <1>1, <2>1, <2>2, <2>3, <2>4 DEF Reached
<1> QED
  BY <1>1, <1>2, <1>3, MembershipsAreCounted DEF LinksLeadHome

-----------------------------------------------------------------------------
(* The pages beside one another. *)

\* A step of the console is a step of the part that is looked at, and leaves
\* the others alone.
LEMMA StepsAreOfParts ==
    ASSUME [Next]_pagesVars
    PROVE  /\ part' = part
           /\ part = "shell" => [ShellNext]_shellVars
           /\ part = "demo matrix" => [MatrixNext]_matrixVars
           /\ part = "demo pages" => [DemoNext]_demoVars
           /\ part = "demo records" => [RecordPagesNext]_recordPageVars
           /\ IF part = "evidence" THEN [ReadingNext]_readingVars ELSE UNCHANGED readingVars
           /\ [StreamNext]_streamVars
           /\ IF part = "live matrix" THEN [LiveNext]_liveVars ELSE UNCHANGED liveVars
           /\ IF part = "incident" THEN [ViewsNext]_<<recordVars, viewVars>> ELSE UNCHANGED <<recordVars, viewVars>>
           /\ part = "payload" => [LabNext]_labVars
<1>1. CASE UNCHANGED pagesVars
    BY <1>1 DEF pagesVars, others
<1>2. CASE Next
    <2> USE DEF others
    <2>1. CASE part = "shell" /\ ShellPart
        BY <1>2, <2>1 DEF Next, ShellPart
    <2>2. CASE part = "demo matrix" /\ MatrixPart
        BY <1>2, <2>2 DEF Next, MatrixPart
    <2>3. CASE part = "live matrix" /\ LivePart
        BY <1>2, <2>3 DEF Next, LivePart
    <2>4. CASE part = "evidence" /\ ReadingPart
        BY <1>2, <2>4 DEF Next, ReadingPart
    <2>5. CASE part = "incident" /\ IncidentPart
        BY <1>2, <2>5 DEF Next, IncidentPart
    <2>6. CASE part = "demo pages" /\ DemoPart
        BY <1>2, <2>6 DEF Next, DemoPart
    <2>7. CASE part = "demo records" /\ RecordsPart
        BY <1>2, <2>7 DEF Next, RecordsPart
    <2>8. CASE part = "payload" /\ PayloadPart
        BY <1>2, <2>8 DEF Next, PayloadPart
    <2>9. CASE part = "stream" /\ StreamPart
        BY <1>2, <2>9 DEF Next, StreamPart
    <2> QED BY <1>2, <2>1, <2>2, <2>3, <2>4, <2>5, <2>6, <2>7, <2>8, <2>9 DEF Next
<1> QED BY <1>1, <1>2

\* The invariant of the part that is looked at; a part at rest shows nothing.
PagesInv ==
    /\ IF part = "evidence" THEN ReadingTypeOK ELSE conflicts = TRUE
    /\ StreamInv
    /\ IF part = "live matrix" THEN LiveInv ELSE shown = FALSE
    /\ IF part = "incident" THEN ViewsInv ELSE page = "none"
    /\ part = "payload" => LabInv
    /\ part = "shell" => ShellInv
    /\ part = "demo matrix" => MatrixInv
    /\ part = "demo pages" => DemoInv
    /\ part = "demo records" => RecordPagesInv

\* The invariant holds of the console.
LEMMA PagesHold == Spec => []PagesInv
<1>1. Init => PagesInv
    <2> SUFFICES ASSUME Init PROVE PagesInv
        OBVIOUS
    <2>1. IF part = "evidence" THEN ReadingTypeOK ELSE conflicts = TRUE
        BY ReadingStarts DEF Init, ReadingRests
    <2>2. StreamInv
        BY StreamStarts DEF Init
    <2>3. IF part = "live matrix" THEN LiveInv ELSE shown = FALSE
        BY LiveStarts DEF Init, LiveRests
    <2>4. IF part = "incident" THEN ViewsInv ELSE page = "none"
        BY ViewsInvInit DEF Init, ViewsRest
    <2>5. part = "payload" => LabInv
        BY LabStarts DEF Init
    <2>6. (part = "shell" => ShellInv) /\ (part = "demo matrix" => MatrixInv)
        BY ShellStarts, MatrixStarts DEF Init
    <2>7. (part = "demo pages" => DemoInv) /\ (part = "demo records" => RecordPagesInv)
        BY DemoStarts, RecordPagesStart DEF Init
    <2> QED BY <2>1, <2>2, <2>3, <2>4, <2>5, <2>6, <2>7 DEF PagesInv
<1>2. PagesInv /\ [Next]_pagesVars => PagesInv'
    <2> SUFFICES ASSUME PagesInv, [Next]_pagesVars PROVE PagesInv'
        OBVIOUS
    <2>1. (IF part = "evidence" THEN ReadingTypeOK ELSE conflicts = TRUE)'
        BY StepsAreOfParts, ReadingStays DEF PagesInv, readingVars
    <2>2. StreamInv'
        BY StepsAreOfParts, StreamStays DEF PagesInv
    <2>3. (IF part = "live matrix" THEN LiveInv ELSE shown = FALSE)'
        BY StepsAreOfParts, LiveStays DEF PagesInv, liveVars
    <2>4. (IF part = "incident" THEN ViewsInv ELSE page = "none")'
        <3>1. CASE part = "incident"
            <4>1. ViewsInv /\ [ViewsNext]_<<recordVars, viewVars>> /\ part' = part
                BY <3>1, StepsAreOfParts DEF PagesInv
            <4>2. ViewsInv'
                BY <4>1, ViewsInvStep
            <4> QED BY <3>1, <4>1, <4>2
        <3>2. CASE part # "incident"
            BY <3>2, StepsAreOfParts DEF PagesInv, viewVars
        <3> QED BY <3>1, <3>2
    <2>5. (part = "payload" => LabInv)'
        BY StepsAreOfParts, LabStays DEF PagesInv
    <2>6. (part = "shell" => ShellInv)' /\ (part = "demo matrix" => MatrixInv)'
        BY StepsAreOfParts, ShellStays, MatrixStays DEF PagesInv
    <2>7. (part = "demo pages" => DemoInv)' /\ (part = "demo records" => RecordPagesInv)'
        BY StepsAreOfParts, DemoStays, RecordPagesStay DEF PagesInv
    <2> QED BY <2>1, <2>2, <2>3, <2>4, <2>5, <2>6, <2>7 DEF PagesInv
<1> QED BY <1>1, <1>2, PTL DEF Spec

\* The page marks a membership as eligible exactly when the worker's rule
\* isolates it, also beside the other pages.
THEOREM PagesReadAsTheWorker == Spec => []ReadingAgrees
<1>1. PagesInv => ReadingAgrees
    BY TypesAgree DEF PagesInv, ReadingAgrees
<1> QED BY <1>1, PagesHold, PTL

\* Whatever the open page is: an event is marked only when it was sent, and a
\* console misses a retained one only between two copies of another.
THEOREM PagesAreToldOfEvents == Spec => [](PublishedIsStreamed /\ GapNeedsACopy)
<1>1. PagesInv => PublishedIsStreamed /\ GapNeedsACopy
    BY DEF PagesInv, StreamInv
<1> QED BY <1>1, PagesHold, PTL

\* What a page or the report shows as done has been done and confirmed, but for
\* the Action mark that the overview takes from another incident, and a payload
\* of the fault lab provokes what the page said it would.
THEOREM PagesClaimWhatIsTrue == Spec => []PagesTellTheTruth
<1>1. PagesInv => PagesTellTheTruth
    BY InvClaims, LabInvTells DEF PagesInv, PagesTellTheTruth
<1> QED BY <1>1, PagesHold, PTL

\* What stands beside what is of one thing: whatever the shell offers has a
\* page and the source of every page is named, drift is seen in both matrices,
\* a sheet has the tag of its record, the grid has its tab stop (but for the
\* compact one after ArrowDown from its last row), the trace its one stage, the
\* phrase its scenario, and a link leads to the record it names.
THEOREM PagesShowOneThing == Spec => []PagesAreCoherent
<1>1. PagesInv => PagesAreCoherent
    <2> SUFFICES ASSUME PagesInv PROVE PagesAreCoherent
        OBVIOUS
    <2>1. part = "shell" => OfferedPagesExist /\ SourceIsNamed
        BY OffersHavePages, SourcesAreNamed DEF PagesInv
    <2>2. part = "demo matrix" => DriftIsSeen /\ OneTabStop
        BY DriftShows, TabStopIsOne DEF PagesInv
    <2>3. part = "demo pages" => TraceIsOfOneStage /\ PhraseIsForItsScenario
        BY DemoShows DEF PagesInv
    <2>4. part = "demo records" => LinksLeadHome
        BY LinksLead DEF PagesInv
    <2> QED BY <2>1, <2>2, <2>3, <2>4, TagsAreSound DEF PagesAreCoherent
<1> QED BY <1>1, PagesHold, PTL

\* The trace of an incident only goes forward.
THEOREM PagesGoForward == Spec => StoryIsForward
<1>1. PagesInv /\ [Next]_pagesVars => [Forward]_<<recordVars, viewVars>>
    <2> SUFFICES ASSUME PagesInv, [Next]_pagesVars PROVE [Forward]_<<recordVars, viewVars>>
        OBVIOUS
    <2>1. CASE part = "incident"
        <3>1. ViewsInv /\ [ViewsNext]_<<recordVars, viewVars>>
            BY <2>1, StepsAreOfParts DEF PagesInv
        <3> QED BY <3>1, StepsAreForward
    <2>2. CASE part # "incident"
        BY <2>2, StepsAreOfParts
    <2> QED BY <2>1, <2>2
<1>2. [][Forward]_<<recordVars, viewVars>> => StoryIsForward
    BY PTL DEF StoryIsForward, Forward
<1>3. Spec => [][Forward]_<<recordVars, viewVars>>
    BY <1>1, PagesHold, PTL DEF Spec
<1> QED BY <1>2, <1>3

\* A sheet of the live matrix that the operator closes gives the focus back to
\* its own cell, however many reads have failed or replaced the table.
THEOREM SheetsReturnFocus == Spec => SheetReturnsFocus
<1>1. PagesInv /\ [Next]_pagesVars => [FocusReturns]_liveVars
    <2> SUFFICES ASSUME PagesInv, [Next]_pagesVars PROVE [FocusReturns]_liveVars
        OBVIOUS
    <2>1. CASE part = "live matrix"
        BY <2>1, StepsAreOfParts, FocusStepReturns DEF PagesInv
    <2>2. CASE part # "live matrix"
        BY <2>2, StepsAreOfParts
    <2> QED BY <2>1, <2>2
<1>2. [][FocusReturns]_liveVars => SheetReturnsFocus
    BY PTL DEF SheetReturnsFocus, FocusReturns
<1>3. Spec => [][FocusReturns]_liveVars
    BY <1>1, PagesHold, PTL DEF Spec
<1> QED BY <1>2, <1>3
=============================================================================
