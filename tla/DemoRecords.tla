----------------------------- MODULE DemoRecords -----------------------------
(***************************************************************************)
(* The lists of the demo and the pages behind their links                  *)
(* (components/response-pages.tsx, traffic-pages.tsx): incidents, actions, *)
(* instances and the recovery run.  One record of each kind has a page     *)
(* written by hand, the others a bounded one computed from the snapshot,   *)
(* and an unknown identifier silently shows the record written by hand.    *)
(* The operator filters, changes tabs and follows links; the memberships   *)
(* are those of RouteMatrix.                                               *)
(***************************************************************************)
EXTENDS RouteMatrix

VARIABLES
    where, \* the address below /app
    told,  \* what the row that was followed said of its record, or Nothing
    view   \* the filter, the query or the tab of the page

recordPageVars == <<where, told, view>>

Tag(text, tone) == [text |-> text, tone |-> tone]
Nothing == Tag("none", "none")

-----------------------------------------------------------------------------
(* The snapshot. *)

incidents == {[id |-> "inc-1042", class |-> "ROUTE_INSTANCE_FAILURE", status |-> "VERIFYING"],
              [id |-> "inc-1043", class |-> "UNKNOWN", status |-> "NEEDS_REVIEW"],
              [id |-> "inc-1037", class |-> "VERSION_SPECIFIC_FAILURE", status |-> "REINTEGRATING"],
              [id |-> "inc-1029", class |-> "TRAFFIC_OVERLOAD", status |-> "RESOLVED"]}
actionQueue == {[id |-> "act-7719", lifecycle |-> "VERIFYING"], [id |-> "act-7720", lifecycle |-> "NEEDS_REVIEW"],
                [id |-> "act-7688", lifecycle |-> "COMMITTED"], [id |-> "act-7651", lifecycle |-> "ROLLED_BACK"],
                [id |-> "act-7610", lifecycle |-> "RESULT_UNKNOWN"]}
instances == {[id |-> "inst-a", probe |-> "passing"], [id |-> "inst-b", probe |-> "degraded"],
              [id |-> "inst-c", probe |-> "unknown"]}

\* find, or the record that stands in for an unknown identifier.
Lookup(records, id, default) ==
    CHOOSE r \in records : r.id = IF \E s \in records : s.id = id THEN id ELSE default

\* The addresses the build knows; any other one is not found.
staticConsoleSlugs ==
    {<<"traffic", "topology">>, <<"traffic", "matrix">>, <<"traffic", "analysis">>,
     <<"incidents", "inc-1042", "decision-trace">>, <<"reintegration">>, <<"reintegration", "reint-228">>,
     <<"versions">>, <<"policies">>, <<"metrics">>, <<"logs">>, <<"settings">>,
     <<"lab", "faults">>, <<"lab", "experiments">>, <<"lab", "experiments", "exp-031">>, <<"lab", "baselines">>}
    \cup {<<"backends">>} \cup {<<"backends", r.id>> : r \in instances}
    \cup {<<"incidents">>} \cup {<<"incidents", r.id>> : r \in incidents}
    \cup {<<"actions">>} \cup {<<"actions", r.id>> : r \in actionQueue}

-----------------------------------------------------------------------------
(* Incidents and actions. *)

IncidentTag(i) ==
    Tag(i.status, CASE i.status = "RESOLVED" -> "success"
                    [] i.status = "NEEDS_REVIEW" -> "danger"
                    [] OTHER -> "warning")
lifecycleTone(lifecycle) ==
    CASE lifecycle = "COMMITTED" -> "success"
      [] lifecycle \in {"NEEDS_REVIEW", "RESULT_UNKNOWN", "ROLLING_BACK"} -> "danger"
      [] lifecycle \in {"VERIFYING", "PREPARED", "APPLIED", "STATE_CONFIRMED"} -> "warning"
      [] OTHER -> "neutral"
ActionTag(a) == Tag(a.lifecycle, lifecycleTone(a.lifecycle))

IncidentFilters == {"all", "NEEDS_REVIEW", "VERIFYING", "UNKNOWN", "RESOLVED"}
ActionFilters == {"all", "VERIFYING", "NEEDS_REVIEW", "RESULT_UNKNOWN", "COMMITTED", "ROLLED_BACK"}

\* A page: the record it is of, what it says of it, the rows it lists and the
\* other links it has.
Page(id, tag, rows, links) == [id |-> id, tag |-> tag, rows |-> rows, links |-> links]

\* An empty list offers to show all.
IncidentListPage ==
    LET rows == {i \in incidents : view \in {"all", i.status, i.class}} IN
    Page("incidents", Nothing, {[to |-> <<"incidents", i.id>>, tag |-> IncidentTag(i)] : i \in rows}, {})
\* The audit export has every action, whatever the filter.
HealingActionsPage ==
    LET rows == {a \in actionQueue : view \in {"all", a.lifecycle}} IN
    Page("actions", Nothing, {[to |-> <<"actions", a.id>>, tag |-> ActionTag(a)] : a \in rows}, {})

\* A page computed from the record: it promises nothing that is not in it.
BoundedIncidentDetails(i) == Page(i.id, IncidentTag(i), {}, {<<"incidents">>})
IncidentDetailsPage(id) ==
    LET i == Lookup(incidents, id, "inc-1042") IN
    IF i.id # "inc-1042" THEN BoundedIncidentDetails(i)
    ELSE Page(i.id, Tag(i.status, "warning"), {},
              {<<"incidents", i.id, "decision-trace">>, <<"actions", "act-7719">>, <<"reintegration", "reint-228">>})
BoundedActionDetails(a) == Page(a.id, ActionTag(a), {}, {<<"actions">>})
ActionDetailsPage(id) ==
    LET a == Lookup(actionQueue, id, "act-7719") IN
    IF a.id # "act-7719" THEN BoundedActionDetails(a)
    ELSE Page(a.id, Tag(a.lifecycle, "warning"), {}, {<<"incidents", "inc-1042", "decision-trace">>})

\* The list of runs has one run, and the page of a run is the page of that one.
ReintegrationListPage ==
    Page("reintegration", Nothing,
         {[to |-> <<"reintegration", "reint-228">>, tag |-> Tag("requested 20 / observed 5", "warning")]}, {})

-----------------------------------------------------------------------------
(* Instances. *)

InstanceTag(i) ==
    CASE i.id = "inst-b" -> Tag("ROUTE-LOCAL ISSUE", "warning")
      [] i.id # "inst-b" /\ i.probe = "unknown" -> Tag("PARTIAL EVIDENCE", "neutral")
      [] OTHER -> Tag("READY", "success")
\* How many memberships the inventory says an instance has, and of B how many
\* are eligible.
MembershipCount(i) == IF i.id = "inst-c" THEN 4 ELSE 5
EligibleCount == 4

BackendInventoryPage ==
    LET rows == {i \in instances : view \in {"all", i.id}} IN   \* the query matches all or one
    Page("backends", Nothing, {[to |-> <<"backends", i.id>>, tag |-> InstanceTag(i)] : i \in rows},
         IF \E i \in rows : i.id = "inst-b" THEN {<<"incidents", "inc-1042">>} ELSE {})

RouteIds == {r.id : r \in ToSet(Rows)}

\* The memberships of B as its page lists them, route by route.
BackendMemberships ==
    [r \in RouteIds |-> IF r = "checkout" THEN [admin |-> "drain", weight |-> 0, tag |-> Tag("quarantined", "warning")]
                        ELSE [admin |-> "ready", weight |-> 100, tag |-> Tag("eligible", "success")]]
\* The memberships of any other instance, from the cells; only what HAProxy
\* reports is shown of a weight.
BoundedMemberships(i) ==
    [r \in RouteIds |->
        LET cell == MatrixCells(r, i.id) IN
        [admin |-> cell.observed.admin, weight |-> cell.observed.weight,
         tag |-> CASE cell.state = "no-membership" -> Tag("no membership", "muted")
                   [] cell.state = "unknown" -> Tag("unknown", "warning")
                   [] OTHER -> Tag("eligible", "success")]]
Populated(i) == {r \in RouteIds : MatrixCells(r, i.id).state # "no-membership"}
Uncertain(i) == {r \in RouteIds : MatrixCells(r, i.id).state = "unknown" \/ MatrixCells(r, i.id).evidence = "stale"}

BoundedBackendDetails(i) ==
    Page(i.id, IF i.probe = "passing" THEN Tag("READY", "success") ELSE Tag("PARTIAL EVIDENCE", "neutral"), {},
         {<<"backends">>, <<"traffic", "matrix">>})
Tabs == {"Overview", "Route memberships", "Traffic", "Evidence", "Action history", "Configuration"}
BackendDetailsPage(id) ==
    LET i == Lookup(instances, id, "inst-b") IN
    IF i.id # "inst-b" THEN BoundedBackendDetails(i)
    ELSE Page(i.id, Tag("ROUTE-LOCAL ISSUE", "warning"), {}, {<<"backends">>, <<"traffic", "matrix">>})

-----------------------------------------------------------------------------
(* ConsoleRoutePage in the demo: the page of an address, the incident list  *)
(* for one it does not know.                                                *)
ConsoleRoutePage(slug) ==
    CASE Len(slug) = 2 /\ slug[1] = "backends" -> BackendDetailsPage(slug[2])
      [] Len(slug) = 2 /\ slug[1] = "incidents" -> IncidentDetailsPage(slug[2])
      [] Len(slug) = 2 /\ slug[1] = "actions" -> ActionDetailsPage(slug[2])
      [] slug = <<"backends">> -> BackendInventoryPage
      [] slug = <<"actions">> -> HealingActionsPage
      [] slug = <<"reintegration">> -> ReintegrationListPage
      [] slug = <<"reintegration", "reint-228">> ->
           Page("reint-228", Tag("requested 20 / observed 5", "warning"), {}, {})
      [] slug \in {<<"traffic", "matrix">>, <<"traffic", "topology">>} ->
           Page("traffic", Nothing, {}, {<<"traffic", "matrix">>})
      [] slug = <<"incidents", "inc-1042", "decision-trace">> ->
           Page("trace", Nothing, {}, {<<"incidents", "inc-1042">>, <<"reintegration", "reint-228">>})
      [] OTHER -> IncidentListPage

PageShown == ConsoleRoutePage(where)

\* What the select elements and tabs of the page offer.
Views ==
    CASE where = <<"incidents">> -> IncidentFilters
      [] where = <<"actions">> -> ActionFilters
      [] where = <<"backends">> -> {"all", "none"} \cup {i.id : i \in instances}
      [] where = <<"backends", "inst-b">> -> Tabs
      [] OTHER -> {}
FirstView(slug) == IF slug = <<"backends", "inst-b">> THEN "Overview" ELSE "all"

Lists == {<<"incidents">>, <<"actions">>, <<"backends">>, <<"reintegration">>, <<"traffic", "matrix">>}

RecordPagesInit == where \in Lists /\ told = Nothing /\ view = FirstView(where)

Go(slug, tag) == where' = slug /\ told' = tag /\ view' = FirstView(slug)
FollowRow == \E row \in PageShown.rows : Go(row.to, row.tag)
FollowRecordLink == \E slug \in PageShown.links : Go(slug, Nothing)
OpenList == \E slug \in Lists : Go(slug, Nothing)
ChangeView == view' \in Views /\ UNCHANGED <<where, told>>

RecordPagesNext == (FollowRow \/ FollowRecordLink \/ OpenList \/ ChangeView) /\ UNCHANGED matrixVars

-----------------------------------------------------------------------------
(* Properties. *)

\* A link ends where it says: at an address the build knows, on the page of
\* the very record the address names, never on the record or the list that
\* stands in for an unknown one, and that page says of the record what the row
\* said.  What the pages of instances state by hand is what the cells say.
LinksLeadHome ==
    /\ where \in staticConsoleSlugs
    /\ Len(where) = 2 /\ where[1] # "traffic" => PageShown.id = where[2]
    /\ PageShown.id = "incidents" => where = <<"incidents">>
    /\ told # Nothing => PageShown.tag = told
    /\ where[1] = "backends" =>
         /\ \A i \in instances : Cardinality(Populated(i)) = MembershipCount(i)
         /\ \A r \in RouteIds : BackendMemberships[r].tag.text = "eligible" <=>
                                  MatrixCells(r, "inst-b").state = "healthy"
         /\ Cardinality({r \in RouteIds : BackendMemberships[r].tag.text = "eligible"}) = EligibleCount
         /\ \A i \in instances : \A r \in Uncertain(i) : BoundedMemberships(i)[r].tag.tone = "warning"
=============================================================================
