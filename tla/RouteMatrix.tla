----------------------------- MODULE RouteMatrix -----------------------------
(***************************************************************************)
(* The demo matrix (components/matrix.tsx): the memberships of the demo    *)
(* snapshot as a grid or as a table, with filters, a roving tab stop and a *)
(* sheet of details.  The command center shows a compact one without       *)
(* filters.                                                                *)
(*                                                                         *)
(* A key or a click, and the effects React runs after it, are one step.    *)
(***************************************************************************)
EXTENDS Integers, Sequences, FiniteSets, SequencesExt, Places

CONSTANTS
    MaxFilters, \* bound on the filters that are set at one time
    Compacts    \* the kinds of matrix: TRUE compact, FALSE the page

ASSUME MatrixAssumption == Compacts \subseteq BOOLEAN

VARIABLES
    matrix,    \* compact, density, mode, incidentOnly
    filters,   \* the five select elements
    active,    \* activeCoordinate: row and column of the tab stop
    selected,  \* the membership whose sheet is open, or NoCell
    address    \* the ?route= of the address

matrixVars == <<matrix, filters, active, selected, address>>

-----------------------------------------------------------------------------
(* The snapshot: what the filters and the sheet tell apart. *)

Row(id, criticality) == [id |-> id, criticality |-> criticality]
Rows == << Row("public", "standard"), Row("auth", "high"), Row("catalog", "standard"),
           Row("checkout", "critical"), Row("recommendations", "standard") >>
Columns == << [id |-> "inst-a", version |-> "demo-v1"],
              [id |-> "inst-b", version |-> "demo-v1"],
              [id |-> "inst-c", version |-> "demo-v2"] >>

Ready(weight) == [admin |-> "ready", weight |-> weight]
Cell == [state |-> "healthy", desired |-> Ready(100), observed |-> Ready(100),
         evidence |-> "complete", marker |-> "none", incident |-> "none"]
NotInPool == [admin |-> "none", weight |-> 0]
Drained == [admin |-> "drain", weight |-> 0]
MatrixCells(route, instance) ==
    CASE route = "auth" /\ instance = "inst-c" ->
           [Cell EXCEPT !.state = "unknown", !.evidence = "stale"]
      [] route = "catalog" /\ instance = "inst-c" ->
           [Cell EXCEPT !.state = "reintegrating", !.desired = Ready(20), !.observed = Ready(5),
                        !.evidence = "partial", !.marker = "drift"]
      [] route = "checkout" /\ instance = "inst-b" ->
           [Cell EXCEPT !.state = "quarantined", !.desired = Drained, !.observed = Drained,
                        !.marker = "quarantine", !.incident = "inc-1042"]
      [] route = "recommendations" /\ instance = "inst-c" ->
           [Cell EXCEPT !.state = "no-membership", !.desired = NotInPool, !.observed = NotInPool,
                        !.evidence = "missing"]
      [] OTHER -> Cell

DemoMemberships == {r.id : r \in ToSet(Rows)} \X {i.id : i \in ToSet(Columns)}
At(m) == MatrixCells(m[1], m[2])
NoCell == <<"none", "none">>

\* The sign of a cell, in the grid, in the table and in the sheet.
StateIcon(cell) ==
    CASE cell.state = "healthy" -> "Check"
      [] cell.state = "unknown" -> "CircleDashed"
      [] cell.state = "no-membership" -> "dash"
      [] cell.state \notin {"healthy", "unknown", "no-membership"} /\ cell.marker = "drift" -> "Compare"
      [] OTHER -> "Alert"
Differs(cell) == cell.desired # cell.observed

-----------------------------------------------------------------------------
(* Filters. *)

FilterValues ==
    [route |-> {"all"} \cup {r.id : r \in ToSet(Rows)},
     state |-> {"all", "quarantined", "reintegrating", "unknown", "healthy"},
     version |-> {"all", "demo-v1", "demo-v2"},
     criticality |-> {"all", "critical", "high", "standard"},
     freshness |-> {"all", "stale"}]
NoFilters == [k \in DOMAIN FilterValues |-> "all"]
SetFilters(f, incidentOnly) ==
    Cardinality({k \in DOMAIN f : f[k] # "all"}) + IF incidentOnly THEN 1 ELSE 0

CellsOf(route) == {MatrixCells(route.id, i.id) : i \in ToSet(Columns)}

\* The toggle for the active incident knows one route by name.
RouteShown(route) ==
    /\ filters.route \in {"all", route.id}
    /\ filters.criticality \in {"all", route.criticality}
    /\ matrix.incidentOnly => route.id = "checkout"
    /\ filters.state # "all" => \E cell \in CellsOf(route) : cell.state = filters.state
    /\ filters.freshness = "stale" =>
         \E cell \in CellsOf(route) : cell.evidence \in {"stale", "missing"}
InstanceShown(instance) == filters.version \in {"all", instance.version}

\* The rows and columns that are kept, by their places in the snapshot.
VisibleRoutes == {i \in DOMAIN Rows : RouteShown(Rows[i])}
VisibleInstances == {i \in DOMAIN Columns : InstanceShown(Columns[i])}

\* The notice above the matrix counts the cells that the filters hide.
HiddenCritical ==
    {m \in DemoMemberships :
        /\ At(m).state = "quarantined" \/ At(m).marker = "drift"
        /\ \/ \A i \in VisibleRoutes : Rows[i].id # m[1]
           \/ \A i \in VisibleInstances : Columns[i].id # m[2]}

-----------------------------------------------------------------------------
(* What is on the page: MatrixTable in its two presentations, of the       *)
(* filtered rows or, compact, of the first four.                           *)

CompactRows == 1..4
TableRows == IF matrix.compact THEN CompactRows ELSE VisibleRoutes
Shown == {<<Rows[r].id, Columns[i].id>> : r \in TableRows, i \in VisibleInstances}
Grid == IF matrix.mode = "table" THEN {}
        ELSE (0..Cardinality(TableRows) - 1) \X (0..Cardinality(VisibleInstances) - 1)
CellAt(c) == <<Rows[Nth(TableRows, c[1])].id, Columns[Nth(VisibleInstances, c[2])].id>>

\* The parts of a cell's button that its density adds, its tab index, and
\* the mark of a membership that drifted.
MatrixCell(c) ==
    [icon |-> StateIcon(At(CellAt(c))),
     drift |-> Differs(At(CellAt(c))),
     tabIndex |-> IF active = c THEN 0 ELSE -1,
     parts |-> {"primary", "weight", "deviation", "hover"}
               \cup (IF matrix.density # "overview" THEN {"operational"} ELSE {})
               \cup (IF matrix.density = "forensic" THEN {"forensic"} ELSE {})]

\* A row of the table names the state only by its icon and its label.
TableRow(m) == [icon |-> StateIcon(At(m)), label |-> At(m).state]

-----------------------------------------------------------------------------
(* Behaviour. *)

MatrixAddresses == {"none", "checkout", "unheard-of"}
KnownRoute(a) == a \in {r.id : r \in ToSet(Rows)}

\* The address is read once, when the matrix is mounted.
MatrixInit ==
    /\ \E compact \in Compacts :
         matrix = [compact |-> compact, mode |-> "matrix", incidentOnly |-> FALSE,
                   density |-> IF compact THEN "overview" ELSE "operational"]
    /\ address \in MatrixAddresses
    /\ filters = [NoFilters EXCEPT !.route = IF KnownRoute(address) THEN address ELSE "all"]
    /\ active = <<0, 0>>
    /\ selected = NoCell

\* The sheet is modal: the page behind it takes no input.
OnPage == ~matrix.compact /\ selected = NoCell

\* Mutant: the effect that follows a change of the filters is missing.
KeepActive == UNCHANGED active

\* Any change of the visible rows or columns moves the tab stop to the corner.
ResetActive == active' = <<0, 0>>

ChangeFilter(k, v) ==
    /\ OnPage /\ v # filters[k]
    /\ filters' = [filters EXCEPT ![k] = v]
    /\ SetFilters(filters', matrix.incidentOnly) <= MaxFilters
    /\ ResetActive
    /\ UNCHANGED <<matrix, selected, address>>

ToggleIncident ==
    /\ OnPage
    /\ matrix' = [matrix EXCEPT !.incidentOnly = ~@]
    /\ SetFilters(filters, matrix'.incidentOnly) <= MaxFilters
    /\ ResetActive
    /\ UNCHANGED <<filters, selected, address>>

\* Reset filters, Show all, and the button of the empty matrix.
ResetFilters ==
    /\ OnPage
    /\ filters' = NoFilters
    /\ matrix' = [matrix EXCEPT !.incidentOnly = FALSE]
    /\ active' = IF SetFilters(filters, matrix.incidentOnly) > 0 THEN <<0, 0>> ELSE active
    /\ UNCHANGED <<selected, address>>

SetDensity(d) ==
    /\ OnPage /\ matrix' = [matrix EXCEPT !.density = d]
    /\ UNCHANGED <<filters, active, selected, address>>
SetMode(m) ==
    /\ OnPage /\ matrix' = [matrix EXCEPT !.mode = m]
    /\ UNCHANGED <<filters, active, selected, address>>

\* move(): the bounds are those of the filtered rows, in both matrices, so that
\* ArrowDown leaves the compact one: the fifth route becomes the tab stop and is
\* not rendered, and the focus stays on the cell of the last row.
Bounded(i, n) == IF i <= 0 \/ n = 0 THEN 0 ELSE IF i > n - 1 THEN n - 1 ELSE i
LastColumn == Cardinality(VisibleInstances) - 1
Keys(from) == {<<0, 1>>, <<0, -1>>, <<1, 0>>, <<-1, 0>>, <<0, -from[2]>>, <<0, LastColumn - from[2]>>}
Target(from, step) == << Bounded(from[1] + step[1], Cardinality(VisibleRoutes)),
                         Bounded(from[2] + step[2], Cardinality(VisibleInstances)) >>
Focused == IF active \in Grid THEN active ELSE <<Cardinality(TableRows) - 1, active[2]>>
Move ==
    /\ selected = NoCell /\ Grid # {}
    /\ \E step \in Keys(Focused) : active' = Target(Focused, step)
    /\ UNCHANGED <<matrix, filters, selected, address>>

\* A click focuses the cell, which makes it the tab stop, and opens its sheet.
Open ==
    /\ selected = NoCell
    /\ \/ \E c \in Grid : active' = c /\ selected' = CellAt(c)
       \/ matrix.mode = "table" /\ selected' \in Shown /\ UNCHANGED active
    /\ UNCHANGED <<matrix, filters, address>>

CloseSheet ==
    /\ selected # NoCell /\ selected' = NoCell
    /\ UNCHANGED <<matrix, filters, active, address>>

\* A route chosen in the palette changes the address of the mounted matrix.
ChangeAddress ==
    /\ selected = NoCell
    /\ address' \in MatrixAddresses
    /\ UNCHANGED <<matrix, filters, active, selected>>

MatrixNext ==
    \/ \E k \in DOMAIN filters : \E v \in FilterValues[k] : ChangeFilter(k, v)
    \/ ToggleIncident \/ ResetFilters \/ Move \/ Open \/ CloseSheet \/ ChangeAddress
    \/ \E d \in {"overview", "operational", "forensic"} : SetDensity(d)
    \/ \E m \in {"matrix", "table"} : SetMode(m)
-----------------------------------------------------------------------------
(* Properties. *)

\* The roving tab stop (tests/e2e and scripts/verify-contracts.mjs ask for one):
\* whenever a grid is rendered, exactly one of its cells can be reached with Tab,
\* whatever was filtered, moved to, or opened before.  The compact matrix loses
\* it in one way only, to the fifth route, which it does not render.
OneTabStop ==
    Grid # {} =>
        Cardinality({c \in Grid : MatrixCell(c).tabIndex = 0}) =
            IF matrix.compact /\ active[1] = Cardinality(CompactRows) THEN 0 ELSE 1

\* A membership whose desired and observed state differ is never silently out
\* of view: it is rendered with the mark of drift, as a cell or as a row, or
\* the notice counts it among the hidden ones.
DriftIsSeen ==
    \A m \in DemoMemberships :
        Differs(At(m)) =>
            \/ m \in Shown /\ matrix.mode = "table" /\ TableRow(m).icon = "Compare"
            \/ \E c \in Grid : CellAt(c) = m /\ MatrixCell(c).drift
            \/ ~matrix.compact /\ m \in HiddenCritical
=============================================================================
