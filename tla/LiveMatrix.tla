------------------------------ MODULE LiveMatrix ------------------------------
(***************************************************************************)
(* The live matrix (features/traffic/live-matrix.tsx): a table of          *)
(* memberships read from the API again and again, a roving tab stop, and a *)
(* sheet that explains one membership.  What the sheet reads from the      *)
(* evidence is EvidenceReading.                                            *)
(*                                                                         *)
(* The query keeps its data when a refresh fails, and keeps the object of  *)
(* a cell that did not change.                                             *)
(***************************************************************************)
EXTENDS Integers, FiniteSets

CONSTANTS
    LiveRows, LiveColumns, \* numbers of routes and of instances of the table
    Records,    \* what the API may answer for a membership
    Changing    \* the coordinates whose records change while the page is open

VARIABLES
    api,      \* the API's record of every membership
    query,    \* data: the last answer or NoData; failed: the last read failed
    sheet,    \* selected: where, which record, and whether `query` still holds it
    shown,    \* the dialog is open
    liveTab,  \* the coordinate of the tab stop
    liveFocus,\* a coordinate, OnSheet or OnBody
    trigger   \* the cell that opened the sheet

liveVars == <<api, query, sheet, shown, liveTab, liveFocus, trigger>>

Coordinates == (0..LiveRows - 1) \X (0..LiveColumns - 1)
NoData == <<>>
OnBody == <<"body">>
OnSheet == <<"sheet">>
NoSheet == [at |-> <<-1, -1>>, record |-> NoData, held |-> FALSE]

-----------------------------------------------------------------------------
(* What a record looks like on the page. *)

\* The first that applies of the labels of a cell.
CellState(r) ==
    IF ~r.readback THEN [label |-> "Unknown", className |-> "unknown"]
    ELSE IF r.drift THEN [label |-> "Drift", className |-> "drift"]
    ELSE IF r.admin = "drain" /\ r.weight = 0 THEN [label |-> "Quarantined", className |-> "quarantined"]
    ELSE IF r.weight \in 1..99 THEN [label |-> "Reintegrating", className |-> "reintegrating"]
    ELSE IF r.rate >= 5000 THEN [label |-> "Failing", className |-> "failing"]
    ELSE IF r.rate > 1000 THEN [label |-> "Elevated 5xx", className |-> "failing"]
    ELSE IF r.samples = 0 THEN [label |-> "No samples", className |-> "unknown"]
    ELSE [label |-> "Healthy", className |-> "healthy"]

\* The sheet: its tag, the heading over the five conditions (met or not, see
\* EvidenceReading), and the warning.  A sentence that desired and observed
\* state agree stands in the sheet of every membership, of those that drift too,
\* and is left out.
SheetText(r) ==
    [tag |-> CellState(r).label,
     tone |-> CASE CellState(r).className = "healthy" -> "success"
                [] CellState(r).className = "failing" -> "danger"
                [] OTHER -> "warning",
     impaired |-> CellState(r).className = "failing",
     heading |-> IF r.eligible THEN "Isolation evidence passed" ELSE "Why not quarantined",
     trace |-> r.incident,
     warnsOfDrift |-> r.drift]

-----------------------------------------------------------------------------
LiveInit ==
    /\ api \in {[c \in Coordinates |-> r] : r \in Records}
    /\ query = [data |-> NoData, failed |-> FALSE]
    /\ sheet = NoSheet /\ shown = FALSE
    /\ liveTab = <<0, 0>> /\ liveFocus = OnBody /\ trigger = <<0, 0>>

\* The page renders the table, and the dialog with it, only then.
Table == query.data # NoData /\ ~query.failed

\* The cell buttons: the one with the tab stop can be reached with Tab.
LiveTabStops == {c \in Coordinates : c = liveTab}

\* The cells of the selected record that the page still holds.
StillHeld(data) ==
    [sheet EXCEPT !.held = @ /\ query.data # NoData /\ data[sheet.at] = query.data[sheet.at]]

ApiChanges ==
    /\ \E c \in Changing, r \in Records : api' = [api EXCEPT ![c] = r]
    /\ UNCHANGED <<query, sheet, shown, liveTab, liveFocus, trigger>>

\* A read that succeeds renders the table again if it was not there; the
\* effect that opens the dialog does not run, since `selected` did not change.
Fetched ==
    /\ query' = [data |-> api, failed |-> FALSE]
    /\ sheet' = IF sheet.at = NoSheet.at THEN sheet ELSE StillHeld(api)
    /\ UNCHANGED <<api, shown, liveTab, liveFocus, trigger>>

\* Read and retry failed: the failure message takes the place of everything.
FetchFailed ==
    /\ query' = [query EXCEPT !.failed = TRUE]
    /\ shown' = FALSE
    /\ liveFocus' = OnBody
    /\ UNCHANGED <<api, sheet, liveTab, trigger>>

\* Tab into the table, and the arrow, Home and End keys.
Enter ==
    /\ Table /\ ~shown /\ \E c \in LiveTabStops : liveFocus' = c
    /\ UNCHANGED <<api, query, sheet, shown, liveTab, trigger>>
InTable(c) == [row |-> IF c[1] < 0 THEN 0 ELSE IF c[1] > LiveRows - 1 THEN LiveRows - 1 ELSE c[1],
               column |-> IF c[2] < 0 THEN 0 ELSE IF c[2] > LiveColumns - 1 THEN LiveColumns - 1 ELSE c[2]]
LiveMove ==
    /\ Table /\ ~shown /\ liveFocus \in Coordinates
    /\ \E step \in {<<0, 1>>, <<0, -1>>, <<1, 0>>, <<-1, 0>>,
                    <<0, -liveFocus[2]>>, <<0, LiveColumns - 1 - liveFocus[2]>>} :
         LET next == InTable(<<liveFocus[1] + step[1], liveFocus[2] + step[2]>>)
         IN  liveTab' = <<next.row, next.column>>
    /\ liveFocus' = liveTab'
    /\ UNCHANGED <<api, query, sheet, shown, trigger>>

\* A click or Enter on a cell.  Selecting the object that is selected already
\* changes no state, and nothing opens.
OpenDetails(c) ==
    /\ Table /\ ~shown
    /\ trigger' = c /\ liveTab' = c
    /\ IF sheet.at = c /\ sheet.held
       THEN UNCHANGED <<sheet, shown>> /\ liveFocus' = c
       ELSE /\ sheet' = [at |-> c, record |-> query.data[c], held |-> TRUE]
            /\ shown' = TRUE /\ liveFocus' = OnSheet
    /\ UNCHANGED <<api, query>>

\* Mutant: the focus is left to the browser.
CloseAndForget ==
    /\ shown
    /\ sheet' = NoSheet /\ shown' = FALSE /\ liveFocus' = OnBody
    /\ UNCHANGED <<api, query, liveTab, trigger>>

CloseDetails ==
    /\ shown
    /\ sheet' = NoSheet /\ shown' = FALSE /\ liveFocus' = trigger
    /\ UNCHANGED <<api, query, liveTab, trigger>>

LiveNext ==
    \/ ApiChanges \/ Fetched \/ FetchFailed \/ Enter \/ LiveMove \/ CloseDetails
    \/ \E c \in Coordinates : OpenDetails(c)

-----------------------------------------------------------------------------
(* Properties. *)

\* A sheet that the operator closes gives the focus back to its own cell, also
\* after reads that failed or replaced the table while it was open.
SheetReturnsFocus ==
    [][shown /\ ~shown' /\ ~query'.failed => liveFocus' = sheet.at]_liveVars

\* The tag of an open sheet is what its record says: a drifting membership is
\* never tagged as healthy, and a tag of quarantine stands only over a record
\* that is drained on both sides.
SheetTagIsSound ==
    shown => LET r == sheet.record IN
        /\ r.drift => SheetText(r).tone # "success"
        /\ SheetText(r).tag = "Quarantined" => r.readback /\ ~r.drift /\ r.weight = 0
=============================================================================
