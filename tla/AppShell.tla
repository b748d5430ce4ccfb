------------------------------ MODULE AppShell ------------------------------
(***************************************************************************)
(* The shell around every console page (components/app-shell.tsx): the     *)
(* navigation rail, the header with its two menus, the strips under it and *)
(* the command palette, and the table that turns an address into a page    *)
(* (lib/routes.ts, components/console-route-page.tsx).                     *)
(*                                                                         *)
(* A keystroke or a click and the effects React runs after it are one      *)
(* step.  The state of the control plane and the width of the window       *)
(* change on their own, also while a menu or the palette is open.          *)
(***************************************************************************)
EXTENDS Integers, Sequences, SequencesExt, Places

CONSTANTS
    Queries,    \* what the operator types into the palette, "" included
    Found,      \* Found[q]: the labels whose text contains q
    LabFeature, \* the API offers the lab
    Themes      \* the preferences of the theme menu

ASSUME PaletteAssumption ==
    /\ "" \in Queries
    /\ \A q \in Queries : Found[q] \subseteq Found[""]

VARIABLES
    control,   \* state of the provider, and the environment it was told of
    small,     \* the window is narrower than 768 px
    shell,     \* the useState values of AppShell
    palette,   \* the useState values of CommandPalette, and its trigger
    focus,     \* the element with the keyboard focus
    path       \* the address, a label of Routes or of the demo's entities

shellVars == <<control, small, shell, palette, focus, path>>

-----------------------------------------------------------------------------
(* Addresses and pages. *)

Route(label, mobile, lab) == [label |-> label, mobile |-> mobile, lab |-> lab]
PrimaryRoutes ==
    << Route("Overview", TRUE, FALSE), Route("Traffic", FALSE, FALSE),
       Route("Incidents", TRUE, FALSE), Route("Actions", FALSE, FALSE),
       Route("Recovery", FALSE, FALSE), Route("Lab", FALSE, TRUE),
       Route("System", FALSE, FALSE) >>

\* The entities of the demo snapshot, in the order the palette lists them.
RouteEntities == <<"/public", "/auth", "/catalog", "/checkout", "/recommendations">>
InstanceEntities == <<"Backend A", "Backend B", "Backend C">>
IncidentEntities == <<"inc-1042">>
Entities == ToSet(RouteEntities) \cup ToSet(InstanceEntities) \cup ToSet(IncidentEntities)

\* Everything the palette can list, in its order.
Labels == [i \in DOMAIN PrimaryRoutes |-> PrimaryRoutes[i].label]
Catalogue == Labels \o RouteEntities \o InstanceEntities \o IncidentEntities
Place == [label \in ToSet(Catalogue) |-> CHOOSE i \in DOMAIN Catalogue : Catalogue[i] = label]

\* ConsoleRoutePage: the page an address shows while the control plane is in
\* `state`.  A route of the palette is the matrix with a filter.
LivePage(p) ==
    CASE p = "Overview" -> "LiveCommandCenter"
      [] p \in {"Traffic"} \cup ToSet(RouteEntities) -> "LiveRouteMatrix"
      [] p \in {"Incidents"} \cup ToSet(IncidentEntities) -> "LiveIncidents"
      [] p = "Actions" -> "LiveActions"
      [] p = "Recovery" -> "LiveRecovery"
      [] p = "Lab" -> "LiveFaultLab"
      [] p = "System" -> "LiveSystem"
      [] OTHER -> "Planned, not simulated"
DemoPage(p) ==
    CASE p = "Overview" -> "CommandCenter"
      [] p \in {"Traffic"} \cup ToSet(RouteEntities) -> "MatrixPage"
      [] p \in ToSet(InstanceEntities) -> "BackendDetailsPage"
      [] p = "Incidents" -> "IncidentListPage"
      [] p \in ToSet(IncidentEntities) -> "IncidentDetailsPage"
      [] p = "Actions" -> "HealingActionsPage"
      [] p = "Recovery" -> "ReintegrationListPage"
      [] p = "Lab" -> "FaultLabPage"
      [] p = "System" -> "SettingsPage"
      [] OTHER -> p
Body(state, p) ==
    CASE state \in {"checking", "unauthenticated"} -> "Connecting"
      [] state = "unavailable" -> "Unavailable"
      [] state = "live" -> LivePage(p)
      [] state = "demo" -> DemoPage(p)

-----------------------------------------------------------------------------
(* What the shell shows. *)

Fixtures == << [id |-> "lab-local", kind |-> "LAB", mode |-> "RULES_ONLY"],
               [id |-> "recovery-drill", kind |-> "PILOT", mode |-> "SAFE_MODE"] >>
LiveEnvironments == { [id |-> "live", kind |-> "LAB", mode |-> "RULES_ONLY"],
                      [id |-> "live", kind |-> "PILOT", mode |-> "SAFE_MODE"] }

Live == control.state = "live"

\* The environment of the breadcrumb, the mode indicator and the strip: the
\* fixture that was chosen, or the first one, wherever there is no live status.
CurrentEnvironment ==
    IF Live THEN control.environment
    ELSE IF shell.environment = Fixtures[2].id THEN Fixtures[2] ELSE Fixtures[1]
EnvironmentOptions == IF Live THEN {control.environment} ELSE ToSet(Fixtures)
UserMenu == "user" \in shell.menus /\ Live

\* The data tag at the foot of the rail; collapsed, it is a dot with two states.
RailTag ==
    CASE Live -> "RULES-ONLY LIVE"
      [] ~shell.collapsed /\ control.state = "checking" -> "CHECKING SESSION"
      [] OTHER -> "SIMULATED DATA"

Offers(route) ==
    /\ small => route.mobile
    /\ route.lab => /\ CurrentEnvironment.kind = "LAB"
                    /\ Live => LabFeature
AvailableRoutes == {route \in ToSet(PrimaryRoutes) : Offers(route)}
Links == {route.label : route \in AvailableRoutes}

\* The rail: links over the tag (which of them is marked as current is left out).
Rail ==
    [links |-> Links, names |-> ~shell.collapsed, tag |-> RailTag, over |-> shell.nav]

\* The header: where the page says its data is from, and the two menus.
Header ==
    [environment |-> CurrentEnvironment.id, options |-> EnvironmentOptions,
     switchable |-> ~Live, mode |-> CurrentEnvironment.mode,
     freshness |-> CASE Live -> "Telemetry live"
                     [] control.state = "checking" -> "Session, checking"
                     [] OTHER -> "Simulated, offline",
     themes |-> IF "theme" \in shell.menus THEN Themes ELSE {},
     signOut |-> UserMenu]

\* The strips between the header and the page.
Strips ==
    {strip \in {"SAFE_MODE", "Simulated data", "Read and acknowledge only"} :
        CASE strip = "SAFE_MODE" -> CurrentEnvironment.mode = "SAFE_MODE"
          [] strip = "Simulated data" -> control.state = "demo"
          [] OTHER -> small}

-----------------------------------------------------------------------------
(* The palette. *)

PaletteLength == 12

\* Mutant: the demo's entities are listed in every state.
OptionsOfAnyState(query) ==
    LET matching == {Place[label] : label \in (Links \cup Entities) \cap Found[query]}
    IN  {i \in matching : Before(matching, i) < PaletteLength}

\* Navigation first, then the demo's entities; on a small screen only its
\* incidents.  The first twelve that match are listed: their places in the
\* catalogue.
Options(query) ==
    LET entities == IF control.state # "demo" THEN {}
                    ELSE IF small THEN ToSet(IncidentEntities) ELSE Entities
        matching == {Place[label] : label \in (Links \cup entities) \cap Found[query]}
    IN  {i \in matching : Before(matching, i) < PaletteLength}

Least(a, b) == IF a < b THEN a ELSE b
Most(a, b) == IF a > b THEN a ELSE b

\* The effect on options.length: clamped from above only.
Clamped(active, n) == Least(active, Most(n - 1, 0))

\* The option that Enter opens and that is marked as selected.
Highlighted(p) ==
    IF p.open /\ p.active \in 0..Cardinality(Options(p.query)) - 1
    THEN Catalogue[Nth(Options(p.query), p.active)] ELSE "nothing"

\* What an open palette lists.
PaletteList(p) == {Catalogue[i] : i \in Options(p.query)}

Closed == [open |-> FALSE, query |-> "", active |-> 0, trigger |-> "body"]

ShellInit ==
    /\ control = [state |-> "checking", environment |-> Fixtures[1]]
    /\ small \in BOOLEAN
    /\ shell = [collapsed |-> FALSE, nav |-> FALSE, menus |-> {},
                environment |-> "lab-local", theme |-> "light"]
    /\ palette = Closed
    /\ focus = "page"
    /\ path = "Overview"

\* The page behind an open palette is inert.
Free == ~palette.open

OpenPalette ==
    /\ palette' = [Closed EXCEPT !.open = TRUE, !.trigger = focus]
    /\ focus' = "input"
OpenByButton ==
    /\ Free
    /\ palette' = [Closed EXCEPT !.open = TRUE, !.trigger = "command"]
    /\ focus' = "input"
    /\ UNCHANGED <<control, small, shell, path>>

\* Ctrl/Cmd+K toggles.  A palette that is closed this way is removed from the
\* page without closePalette(), and the focus goes with it.
ToggleByKey ==
    /\ IF palette.open THEN palette' = Closed /\ focus' = "body" ELSE OpenPalette
    /\ UNCHANGED <<control, small, shell, path>>

\* closePalette(): the dialog is closed and the focus is given back.
ClosePalette == palette' = Closed /\ focus' = palette.trigger

\* Escape closes the palette by its own handler when the focus is in the
\* input, and by the window's otherwise; the window's also closes the menus.
Escape ==
    /\ IF palette.open /\ focus = "input" THEN ClosePalette
       ELSE IF palette.open THEN palette' = Closed /\ focus' = "body"
       ELSE UNCHANGED <<palette, focus>>
    /\ shell' = [shell EXCEPT !.menus = {}]
    /\ UNCHANGED <<control, small, path>>

CloseByButton ==
    /\ palette.open /\ ClosePalette
    /\ UNCHANGED <<control, small, shell, path>>

\* Typing changes the list, and the effect clamps the highlight to it.
Type(q) ==
    /\ palette.open /\ focus = "input" /\ q # palette.query
    /\ palette' = [palette EXCEPT !.query = q, !.active = Clamped(@, Cardinality(Options(q)))]
    /\ UNCHANGED <<control, small, shell, focus, path>>

\* Arrow keys in the input, and the pointer over an option.
Highlight ==
    /\ palette.open
    /\ LET n == Cardinality(Options(palette.query)) IN
       \/ focus = "input" /\ palette' = [palette EXCEPT !.active = Least(@ + 1, n - 1)]
       \/ focus = "input" /\ palette' = [palette EXCEPT !.active = Most(@ - 1, 0)]
       \/ \E i \in 0..n - 1 : palette' = [palette EXCEPT !.active = i]
    /\ UNCHANGED <<control, small, shell, focus, path>>

TabToOption ==
    /\ palette.open /\ focus = "input" /\ Options(palette.query) # {}
    /\ focus' = "option"
    /\ UNCHANGED <<control, small, shell, palette, path>>

\* Enter opens the highlighted option, a click the one under the pointer.
Select ==
    /\ palette.open
    /\ LET marked == Highlighted(palette) IN
       \E label \in PaletteList(palette) : path' = label /\ (focus = "input" => label = marked)
    /\ ClosePalette
    /\ UNCHANGED <<control, small, shell>>

-----------------------------------------------------------------------------
(* Rail, header and menus. *)

Shell(new) == shell' = new /\ UNCHANGED <<control, small, palette, focus, path>>

CollapseRail == Free /\ Shell([shell EXCEPT !.collapsed = ~@])
ToggleNav == Free /\ Shell([shell EXCEPT !.nav = ~@])
FollowLink ==
    /\ Free
    /\ path' \in Links
    /\ shell' = [shell EXCEPT !.nav = FALSE]
    /\ UNCHANGED <<control, small, palette, focus>>
ChooseEnvironment ==
    /\ Free /\ ~Live
    /\ \E e \in EnvironmentOptions : Shell([shell EXCEPT !.environment = e.id])
ToggleMenu(menu) ==
    /\ Free /\ menu = "user" => Live
    /\ Shell([shell EXCEPT !.menus = {menu} \ @])
ChooseTheme ==
    /\ Free /\ "theme" \in shell.menus
    /\ \E t \in Themes :
         Shell([shell EXCEPT !.theme = t, !.menus = @ \ {"theme"}])

-----------------------------------------------------------------------------
(* What happens around the shell. *)

\* The options follow the state and the width; the highlight is clamped.
Reclamp ==
    IF palette.open
    THEN \E q \in {palette.query} : palette' = [palette EXCEPT !.active = Clamped(@, Cardinality(Options(q)'))]
    ELSE UNCHANGED palette

ControlChanges ==
    /\ \/ /\ control.state = "checking"
          /\ \E s \in {"demo", "unavailable", "unauthenticated"} : control' = [control EXCEPT !.state = s]
          /\ UNCHANGED shell
       \/ /\ control.state = "checking"
          /\ \E e \in LiveEnvironments : control' = [state |-> "live", environment |-> e]
          /\ shell' = [shell EXCEPT !.environment = control'.environment.id]
       \/ /\ UserMenu /\ Free \* Sign out
          /\ control' = [control EXCEPT !.state = "unauthenticated"]
          /\ shell' = [shell EXCEPT !.menus = @ \ {"user"}]
    /\ UNCHANGED <<small, focus, path>>
    /\ Reclamp

SyncViewport ==
    /\ small' = ~small
    /\ UNCHANGED <<control, shell, focus, path>>
    /\ Reclamp

ShellNext ==
    \/ OpenByButton \/ ToggleByKey \/ Escape \/ CloseByButton
    \/ \E q \in Queries : Type(q)
    \/ Highlight \/ TabToOption \/ Select
    \/ CollapseRail \/ ToggleNav \/ FollowLink \/ ChooseEnvironment
    \/ ToggleMenu("theme") \/ ToggleMenu("user") \/ ChooseTheme
    \/ ControlChanges \/ SyncViewport

-----------------------------------------------------------------------------
(* Properties. *)

\* Whatever the rail and the palette offer has a page of its own: no offered
\* address ends at "Planned, not simulated" or at the incident list that
\* stands in for unknown addresses, in any state and at any width.
OfferedPagesExist ==
    \A label \in Links \cup (IF palette.open THEN PaletteList(palette) ELSE {}) :
        /\ Body(control.state, label) # "Planned, not simulated"
        /\ Body(control.state, label) = "IncidentListPage" => label = "Incidents"
        /\ small => label \in {"Overview", "Incidents"} \cup ToSet(IncidentEntities)

\* Nothing simulated is shown as live, and nothing live as simulated: over a
\* page of the live API the shell names the API's environment and mode and
\* carries no mark of the fixtures, and over a page of the fixtures the rail,
\* the header and the strip all say so, whatever was chosen before.
LivePages == {"LiveCommandCenter", "LiveRouteMatrix", "LiveIncidents", "LiveActions", "LiveRecovery",
              "LiveFaultLab", "LiveSystem", "Planned, not simulated"}
SourceIsNamed ==
    LET body == Body(control.state, path) IN
    /\ body \in LivePages =>
         /\ Header.environment = control.environment.id /\ Header.mode = control.environment.mode
         /\ Header.options = {control.environment} /\ Header.freshness = "Telemetry live"
         /\ Rail.tag = "RULES-ONLY LIVE" /\ "Simulated data" \notin Strips
         /\ control.environment.mode = "SAFE_MODE" <=> "SAFE_MODE" \in Strips
         /\ palette.open => PaletteList(palette) \cap Entities = {}
    /\ body \notin LivePages \cup {"Connecting", "Unavailable"} =>
         /\ Rail.tag = "SIMULATED DATA" /\ "Simulated data" \in Strips
         /\ Header.freshness = "Simulated, offline" /\ ~Header.signOut
=============================================================================
