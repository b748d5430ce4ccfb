--------------------------- MODULE ConsoleSession ---------------------------
(***************************************************************************)
(* One browser tab of the console: who is signed in, what the provider of  *)
(* /app knows about it, and what the shell says.                           *)
(*                                                                         *)
(* ControlPlaneProvider (lib/use-control-plane.tsx) is mounted by the      *)
(* layout of /app and unmounted when the tab leaves it.  Its connect() and *)
(* logout() run across awaits, so both may resume after the component is   *)
(* gone, after another one was mounted or after another sign-in: every     *)
(* mount therefore keeps its own calls and its own EventSource, and only   *)
(* the React state of the mounted one is shown.                            *)
(*                                                                         *)
(* A request is handled by the API in one step and its answer is used in   *)
(* another.  A router.replace only takes effect when the route has loaded, *)
(* and the last one wins.                                                  *)
(***************************************************************************)
EXTENDS Naturals, FiniteSets

CONSTANTS
    MaxMounts,    \* mounts of the provider
    MaxSessions,  \* sessions the API ever creates, the first one included
    MaxMishaps,   \* failed calls, broken streams, sessions ended by others
    MaxVisits     \* links the operator follows

ASSUME SessionAssumption ==
    /\ MaxMounts \in Nat \ {0} /\ MaxSessions \in Nat \ {0}
    /\ MaxMishaps \in Nat /\ MaxVisits \in Nat

VARIABLES
    alive,    \* sessions the API accepts
    cookie,   \* the session the browser's cookie names, 0 for none
    mode,     \* the environment's mode, changed by PATCH
    place,    \* the page the tab shows
    goto,     \* the navigation that is loading, or "none"
    mount,    \* the latest mount of the provider
    control,  \* the React state of the mounted provider
    call,     \* connect() of each mount
    leaving,  \* logout() of each mount
    source,   \* the EventSource of each mount
    form,     \* the sign-in form
    used      \* sessions, mishaps and visits so far

vars == <<alive, cookie, mode, place, goto, mount, control, call, leaving, source, form, used>>

Mounts == 1..MaxMounts
Sessions == 1..MaxSessions
Modes == {"RULES_ONLY", "SAFE_MODE"}
Places == {"login", "console", "public"}

NoCall == [at |-> "none", answer |-> "none", mode |-> "none", session |-> 0]
NoLogout == [at |-> "none", cookie |-> 0, session |-> 0]
Fresh == [state |-> "checking", stream |-> "offline", session |-> 0, mode |-> "none"]

Init ==
    /\ alive \in {{}, {1}} /\ cookie \in {0, 1}
    /\ mode \in Modes
    /\ place = "public" /\ goto = "none"
    /\ mount = 0 /\ control = Fresh
    /\ call = [m \in Mounts |-> NoCall]
    /\ leaving = [m \in Mounts |-> NoLogout]
    /\ source = [m \in Mounts |-> "none"]
    /\ form = "idle"
    /\ used = [sessions |-> 1, mishaps |-> 0, visits |-> 0]

Mishap == used.mishaps < MaxMishaps /\ used' = [used EXCEPT !.mishaps = @ + 1]

\* The flag `active` of the effect of mount m.
Active(m) == m = mount /\ place = "console"
Live == control.state = "live"
Held == {"connecting", "open", "retrying"}   \* an EventSource that holds or retries a connection

SignedIn == cookie \in alive

-----------------------------------------------------------------------------
(* Navigation.  A link, router.push or router.replace starts to load a     *)
(* page; the page that is left is unmounted when the new one is there.     *)

Visit(p) ==
    /\ used.visits < MaxVisits
    /\ goto' = p
    /\ used' = [used EXCEPT !.visits = @ + 1]
    /\ UNCHANGED <<alive, cookie, mode, place, mount, control, call, leaving, source, form>>

\* The cleanup of the effect: `active` becomes false and the source is closed.
Close(m) == [source EXCEPT ![m] = IF @ = "none" THEN @ ELSE "closed"]

Arrive ==
    /\ goto # "none"
    /\ place' = goto
    /\ goto' = "none"
    /\ form' = IF goto = "login" /\ place # "login" THEN "idle" ELSE form
    /\ IF goto = "console" /\ place # "console"
       THEN /\ mount < MaxMounts
            /\ mount' = mount + 1
            /\ \E demo \in BOOLEAN :   \* ?demo=1 in the address
               /\ control' = [Fresh EXCEPT !.state = IF demo THEN "demo" ELSE "checking"]
               /\ call' = [call EXCEPT ![mount + 1].at = IF demo THEN "over" ELSE "me"]
            /\ UNCHANGED source
       ELSE /\ source' = IF place = "console" /\ goto # "console" THEN Close(mount) ELSE source
            /\ UNCHANGED <<mount, control, call>>
    /\ UNCHANGED <<alive, cookie, mode, leaving, used>>

-----------------------------------------------------------------------------
(* connect(): me, then status and capabilities, then the stream.           *)

\* The API answers the call of mount m, or it fails on the way (a status other
\* than 2xx and 401, or no answer at all).
Answer(m) ==
    /\ call[m].at \in {"me", "system"} /\ call[m].answer = "none"
    /\ \/ /\ call' = [call EXCEPT ![m] =
                        [at |-> @.at, answer |-> IF SignedIn THEN "ok" ELSE "401",
                         session |-> IF SignedIn /\ @.at = "me" THEN cookie ELSE @.session,
                         mode |-> IF SignedIn /\ @.at = "system" THEN mode ELSE @.mode]]
          /\ UNCHANGED used
       \/ Mishap /\ call' = [call EXCEPT ![m].answer = "failed"]
    /\ UNCHANGED <<alive, cookie, mode, place, goto, mount, control, leaving, source, form>>

\* Mutant: the session is shown as soon as it is known.
AfterMeEarly(m) ==
    /\ call[m].at = "me" /\ call[m].answer = "ok"
    /\ call' = [call EXCEPT ![m].at = "system", ![m].answer = "none"]
    /\ control' = IF Active(m) THEN [control EXCEPT !.session = call[m].session] ELSE control
    /\ UNCHANGED <<alive, cookie, mode, place, goto, mount, leaving, source, form, used>>

AfterMe(m) ==
    /\ call[m].at = "me" /\ call[m].answer = "ok"
    /\ call' = [call EXCEPT ![m].at = "system", ![m].answer = "none"]
    /\ UNCHANGED <<alive, cookie, mode, place, goto, mount, control, leaving, source, form, used>>

\* Mutant: no `if (!active) return` after the awaits.
AfterSystemAnyway(m) ==
    /\ call[m].at = "system" /\ call[m].answer = "ok"
    /\ call' = [call EXCEPT ![m].at = "over"]
    /\ control' = [state |-> "live", stream |-> "connecting", session |-> call[m].session, mode |-> call[m].mode]
    /\ source' = [source EXCEPT ![m] = "connecting"]
    /\ UNCHANGED <<alive, cookie, mode, place, goto, mount, leaving, form, used>>

AfterSystem(m) ==
    /\ call[m].at = "system" /\ call[m].answer = "ok"
    /\ call' = [call EXCEPT ![m].at = "over"]
    /\ IF Active(m)
       THEN /\ control' = [state |-> "live", stream |-> "connecting",
                           session |-> call[m].session, mode |-> call[m].mode]
            /\ source' = [source EXCEPT ![m] = "connecting"]
       ELSE UNCHANGED <<control, source>>
    /\ UNCHANGED <<alive, cookie, mode, place, goto, mount, leaving, form, used>>

\* Mutant: a failure of any other status is only logged.
AfterFailureSilent(m) ==
    /\ call[m].at \in {"me", "system"} /\ call[m].answer \in {"401", "failed"}
    /\ call' = [call EXCEPT ![m].at = "over"]
    /\ IF Active(m) /\ call[m].answer = "401"
       THEN control' = [control EXCEPT !.state = "unauthenticated"] /\ goto' = "login"
       ELSE UNCHANGED <<control, goto>>
    /\ UNCHANGED <<alive, cookie, mode, place, mount, leaving, source, form, used>>

AfterFailure(m) ==
    /\ call[m].at \in {"me", "system"} /\ call[m].answer \in {"401", "failed"}
    /\ call' = [call EXCEPT ![m].at = "over"]
    /\ IF ~Active(m) THEN UNCHANGED <<control, goto>>
       ELSE IF call[m].answer = "401"
       THEN control' = [control EXCEPT !.state = "unauthenticated"] /\ goto' = "login"
       ELSE control' = [control EXCEPT !.state = "unavailable", !.stream = "offline"] /\ UNCHANGED goto
    /\ UNCHANGED <<alive, cookie, mode, place, mount, leaving, source, form, used>>

-----------------------------------------------------------------------------
(* The event stream.  onopen and onerror are the only news the page gets:  *)
(* a browser that will retry and one that has given up both report an      *)
(* error.                                                                  *)

Stream(m, now, shown) ==
    /\ source' = [source EXCEPT ![m] = now]
    /\ control' = [control EXCEPT !.stream = shown]
    /\ UNCHANGED <<alive, cookie, mode, place, goto, mount, call, leaving, form>>

StreamOpens(m) ==
    /\ source[m] \in {"connecting", "retrying"} /\ SignedIn
    /\ Stream(m, "open", "connected") /\ UNCHANGED used

\* Any answer other than an event stream, a 401 or a proxy's 502: for good.
StreamRefused(m) ==
    /\ source[m] \in {"connecting", "retrying"}
    /\ IF SignedIn THEN Mishap ELSE UNCHANGED used
    /\ Stream(m, "refused", "reconnecting")

\* The connection is lost and the browser retries.
StreamBreaks(m) ==
    /\ source[m] = "open" /\ Mishap
    /\ Stream(m, "retrying", "reconnecting")

-----------------------------------------------------------------------------
(* Sign-in and sign-out.                                                   *)

\* The form: its button is disabled while a request is out.
SignInPage ==
    [label |-> IF form = "submitting" THEN "Signing in" ELSE "Sign in",
     enabled |-> form # "submitting", warning |-> form = "error"]

Submit ==
    /\ place = "login" /\ SignInPage.enabled
    /\ form' = "submitting"
    /\ UNCHANGED <<alive, cookie, mode, place, goto, mount, control, call, leaving, source, used>>

\* The API creates a session and sets the cookie; the page that is still
\* waiting, shown or not, goes to the console.
Accepted ==
    /\ form = "submitting" /\ used.sessions < MaxSessions
    /\ LET s == used.sessions + 1 IN
       /\ alive' = alive \cup {s}
       /\ cookie' = s
       /\ used' = [used EXCEPT !.sessions = s]
    /\ form' = "idle"
    /\ goto' = "console"
    /\ UNCHANGED <<mode, place, mount, control, call, leaving, source>>

Rejected ==
    /\ form = "submitting"
    /\ form' = "error"
    /\ UNCHANGED <<alive, cookie, mode, place, goto, mount, control, call, leaving, source, used>>

\* logout() of the mounted provider: `if (!session) return`, then the request
\* leaves with the cookie of the moment and the CSRF token of the page.
SignOut ==
    /\ place = "console" /\ control.session # 0 /\ leaving[mount].at = "none"
    /\ leaving' = [leaving EXCEPT ![mount] = [at |-> "sent", cookie |-> cookie,
                                              session |-> control.session]]
    /\ UNCHANGED <<alive, cookie, mode, place, goto, mount, control, call, source, form, used>>

\* The API ends the session when the cookie and the token are of one live
\* session, and refuses otherwise.
EndSession(m) ==
    /\ leaving[m].at = "sent"
    /\ LET valid == leaving[m].cookie \in alive /\ leaving[m].session = leaving[m].cookie IN
       /\ alive' = IF valid THEN alive \ {leaving[m].cookie} ELSE alive
       /\ leaving' = [leaving EXCEPT ![m].at = IF valid THEN "ended" ELSE "refused"]
    /\ UNCHANGED <<cookie, mode, place, goto, mount, control, call, source, form, used>>

\* The answer deletes the cookie, whichever session it names by now.
SignedOut(m) ==
    /\ leaving[m].at = "ended"
    /\ leaving' = [leaving EXCEPT ![m].at = "none"]
    /\ cookie' = 0
    /\ source' = Close(m)
    /\ control' = IF Active(m) THEN [control EXCEPT !.state = "unauthenticated", !.session = 0] ELSE control
    /\ goto' = "login"
    /\ UNCHANGED <<alive, mode, place, mount, call, form, used>>

\* A refusal or a lost answer rejects logout(), and nobody handles it.
SignOutFails(m) ==
    /\ \/ leaving[m].at = "refused" /\ UNCHANGED used
       \/ leaving[m].at \in {"sent", "ended"} /\ Mishap
    /\ leaving' = [leaving EXCEPT ![m].at = "none"]
    /\ UNCHANGED <<alive, cookie, mode, place, goto, mount, control, call, source, form>>

-----------------------------------------------------------------------------
(* The world around the tab.                                               *)

SessionEnds ==
    /\ Mishap
    /\ \E s \in alive : alive' = alive \ {s}
    /\ UNCHANGED <<cookie, mode, place, goto, mount, control, call, leaving, source, form>>

ModeChanges ==
    /\ Mishap
    /\ mode' \in Modes \ {mode}
    /\ UNCHANGED <<alive, cookie, place, goto, mount, control, call, leaving, source, form>>

Connect(m) == Answer(m) \/ AfterMe(m) \/ AfterSystem(m) \/ AfterFailure(m)
Events(m) == StreamOpens(m) \/ StreamRefused(m) \/ StreamBreaks(m)
Logout(m) == EndSession(m) \/ SignedOut(m) \/ SignOutFails(m)
Login == Submit \/ Accepted \/ Rejected

Next ==
    \/ \E p \in Places : Visit(p)
    \/ Arrive
    \/ \E m \in Mounts : Connect(m) \/ Events(m) \/ Logout(m)
    \/ SignOut \/ Login
    \/ SessionEnds \/ ModeChanges

\* The API and the browser answer, a route loads and an open page goes on
\* retrying its stream; nothing is assumed of the operator or of mishaps.
Fairness ==
    /\ WF_vars(Arrive)
    /\ \A m \in Mounts : WF_vars(Connect(m)) /\ WF_vars(StreamOpens(m)) /\ WF_vars(Logout(m))

Spec == Init /\ [][Next]_vars /\ Fairness

-----------------------------------------------------------------------------
(* What the tab shows. *)

\* The body of a console page.
Screen ==
    CASE control.state \in {"checking", "unauthenticated"} -> "connecting"
      [] control.state = "unavailable" -> "failure"
      [] control.state = "live" -> "live page"
      [] control.state = "demo" -> "demo page"

-----------------------------------------------------------------------------
(* Properties. *)

Answers == {"none", "ok", "401", "failed"}

TypeOK ==
    /\ alive \subseteq Sessions /\ cookie \in 0..MaxSessions /\ mode \in Modes
    /\ place \in Places /\ goto \in Places \cup {"none"} /\ mount \in 0..MaxMounts
    /\ control \in [state : {"checking", "demo", "live", "unauthenticated", "unavailable"},
                    stream : {"offline", "connecting", "connected", "reconnecting"},
                    session : 0..MaxSessions, mode : Modes \cup {"none"}]
    /\ call \in [Mounts -> [at : {"none", "me", "system", "over"}, answer : Answers,
                            mode : Modes \cup {"none"}, session : 0..MaxSessions]]
    /\ leaving \in [Mounts -> [at : {"none", "sent", "ended", "refused"},
                               cookie : 0..MaxSessions, session : 0..MaxSessions]]
    /\ source \in [Mounts -> {"none", "connecting", "open", "retrying", "refused", "closed"}]
    /\ form \in {"idle", "submitting", "error"}
    /\ used \in [sessions : 1..MaxSessions, mishaps : 0..MaxMishaps, visits : 0..MaxVisits]

\* Only the mounted, live provider holds an event stream: no connect() that
\* resumes late, no sign-out and no departure leaves one behind.
OneStream == \A m \in Mounts : source[m] \in Held => Active(m) /\ Live

\* A sign-out that has been carried out is final: nothing that resumes later
\* brings the data of the session back to the page it was shown on.
SignOutIsFinal ==
    [][control.state = "unauthenticated" /\ mount' = mount => control'.state = "unauthenticated"]_vars

\* Every way the three calls of connect() can end is a state the page shows:
\* it does not stay with "Connecting to the control plane".
CheckSettles == control.state = "checking" /\ mount # 0 ~> control.state # "checking" \/ place # "console"
=============================================================================
