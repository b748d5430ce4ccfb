--------------------------- MODULE MCConsolePages ---------------------------
(* Every entry of the palette can be found, or some are.  A record of the   *)
(* live matrix is healthy, failing, drifting or quarantined.  Two routes on *)
(* two instances are enough for a rule to name the wrong peer.              *)
EXTENDS ConsolePages

CONSTANTS p1, p2
TwoPublishers == {p1, p2}

MCQueries == {"", "inc"}
MCFound == [q \in MCQueries |->
    CASE q = "" -> ToSet(Labels) \cup Entities
      [] q = "inc" -> {"Incidents", "inc-1042"}]

HealthyRecord == [readback |-> TRUE, drift |-> FALSE, admin |-> "ready", weight |-> 100,
                  rate |-> 0, samples |-> 6, eligible |-> FALSE, incident |-> FALSE]
MCRecords ==
    {HealthyRecord, [HealthyRecord EXCEPT !.drift = TRUE],
     [HealthyRecord EXCEPT !.rate = 5000, !.eligible = TRUE, !.incident = TRUE],
     [HealthyRecord EXCEPT !.admin = "drain", !.weight = 0, !.incident = TRUE]}
MCChanging == {<<0, 0>>}

\* Below and at the minima of samples and errors, at the thresholds.
MCEvidence ==
    {[samples |-> 0, errors |-> 0, rate |-> -1], [samples |-> 3, errors |-> 0, rate |-> 0],
     [samples |-> 6, errors |-> 2, rate |-> 3333], [samples |-> 6, errors |-> 3, rate |-> 5000]}
MCProbes == {"pass", "fail", "unreachable"}

\* BOUND of the records: an acknowledgement is lost of a route's drain, and a
\* reset fails over a route incident, only.
\* BOUND of the overview: another incident's action is looked at until this one
\* has its own, and a current action while the trace that is shown has none.
FewerRecords ==
    part = "incident" =>
        /\ OfInstance => Attempt(DrainOf(rows.kind), "ACKNOWLEDGEMENT_LOST_CONFIRMED") \notin rows.attempts
        /\ OfInstance => ~drift
        /\ page = "overview" =>
             /\ elsewhere => rows.lifecycle = "none"
             /\ \/ ~Answered("first") \/ Data("first").current = "none"
                \/ TraceData = NoAnswer \/ TraceData.lifecycle = "none"

\* BOUND of the shell: the palette is opened over a rail that is neither
\* collapsed nor a drawer; it shows nothing of either.
PlainRail == part = "shell" /\ palette.open => ~shell.collapsed /\ ~shell.nav
=============================================================================
