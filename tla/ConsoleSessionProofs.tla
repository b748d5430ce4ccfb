------------------------ MODULE ConsoleSessionProofs ------------------------
(***************************************************************************)
(* For any number of mounts, sessions, mishaps and visits: the types, one  *)
(* event stream, and a sign-out that nothing undoes.                       *)
(*                                                                         *)
(* Both rest on the order inside connect(): a mount whose calls are not    *)
(* over has no stream, shows "checking" and cannot have been signed out    *)
(* (CallsComeFirst), and what is not mounted yet has done nothing          *)
(* (Unmounted).                                                            *)
(***************************************************************************)
EXTENDS ConsoleSession, TLAPS

Calling(m) == call[m].at \in {"me", "system"}

Unmounted == \A m \in Mounts : m > mount =>
    call[m].at = "none" /\ source[m] = "none" /\ leaving[m].at = "none"

CallsComeFirst == \A m \in Mounts : Calling(m) =>
    /\ source[m] = "none"
    /\ m = mount => control.state = "checking" /\ control.session = 0 /\ leaving[m].at = "none"

Order == Unmounted /\ CallsComeFirst /\ OneStream

-----------------------------------------------------------------------------
LEMMA InitTyped == Init => TypeOK
BY SessionAssumption
DEF Init, TypeOK, Sessions, Modes, Places, Mounts, NoCall, NoLogout, Fresh, Answers

LEMMA InitOrder == Init => Order
BY DEF Init, Order, Unmounted, CallsComeFirst, OneStream, Calling, NoCall, NoLogout, Held

-----------------------------------------------------------------------------
(* Types. *)

Calls == [Mounts -> [at : {"none", "me", "system", "over"}, answer : Answers,
                     mode : Modes \cup {"none"}, session : 0..MaxSessions]]
Controls == [state : {"checking", "demo", "live", "unauthenticated", "unavailable"},
             stream : {"offline", "connecting", "connected", "reconnecting"},
             session : 0..MaxSessions, mode : Modes \cup {"none"}]
Leavings == [Mounts -> [at : {"none", "sent", "ended", "refused"},
                        cookie : 0..MaxSessions, session : 0..MaxSessions]]
Sources == [Mounts -> {"none", "connecting", "open", "retrying", "refused", "closed"}]
Uses == [sessions : 1..MaxSessions, mishaps : 0..MaxMishaps, visits : 0..MaxVisits]

\* The variables that hold no record.
Plain ==
    /\ alive \subseteq Sessions /\ cookie \in 0..MaxSessions /\ mode \in Modes
    /\ place \in Places /\ goto \in Places \cup {"none"} /\ mount \in 0..MaxMounts
    /\ form \in {"idle", "submitting", "error"}

Typed ==
    /\ Plain /\ control \in Controls /\ call \in Calls /\ leaving \in Leavings
    /\ source \in Sources /\ used \in Uses

LEMMA TypesSplit == TypeOK <=> Typed
BY DEF TypeOK, Typed, Plain, Controls, Calls, Leavings, Sources, Uses

LEMMA MishapTyped == ASSUME used \in Uses, Mishap PROVE used' \in Uses
BY SessionAssumption DEF Uses, Mishap

LEMMA TypesKept == Typed /\ [Next]_vars => Typed'
<1> SUFFICES ASSUME Typed, [Next]_vars PROVE Typed'
  OBVIOUS
<1>0. /\ Plain /\ control \in Controls /\ call \in Calls /\ leaving \in Leavings
      /\ source \in Sources /\ used \in Uses
  BY DEF Typed
<1> USE SessionAssumption DEF Mounts, Places, Modes, Sessions, Answers
<1>1. ASSUME NEW p \in Places, Visit(p) PROVE Typed'
  <2>1. used' \in Uses
    BY <1>0, <1>1 DEF Visit, Uses
  <2> QED
    BY <1>0, <1>1, <2>1 DEF Typed, Visit, Plain
<1>2. CASE Arrive
  <2>1. place' \in Places /\ goto' = "none" /\ form' \in {"idle", "submitting", "error"}
    BY <1>0, <1>2 DEF Arrive, Plain
  <2>2. CASE goto = "console" /\ place # "console"
    <3>1. PICK demo \in BOOLEAN :
            /\ mount < MaxMounts /\ mount' = mount + 1
            /\ control' = [Fresh EXCEPT !.state = IF demo THEN "demo" ELSE "checking"]
            /\ call' = [call EXCEPT ![mount + 1].at = IF demo THEN "over" ELSE "me"]
            /\ UNCHANGED source
      BY <1>2, <2>2 DEF Arrive
    <3>2. mount' \in 0..MaxMounts /\ mount + 1 \in Mounts
      BY <1>0, <3>1 DEF Plain
    <3>3. control' \in Controls
      BY <3>1 DEF Fresh, Controls
    <3>4. call' \in Calls
      <4>1. \A at \in {"me", "over"} : [call EXCEPT ![mount + 1].at = at] \in Calls
        BY <1>0, <3>2 DEF Calls
      <4>2. (IF demo THEN "over" ELSE "me") \in {"me", "over"}
        OBVIOUS
      <4> QED
        BY <3>1, <4>1, <4>2
    <3> QED
      BY <1>0, <1>2, <2>1, <3>1, <3>2, <3>3, <3>4 DEF Typed, Arrive, Plain
  <2>3. CASE ~(goto = "console" /\ place # "console")
    <3>1. source' \in Sources
      BY <1>0, <1>2, <2>3 DEF Arrive, Close, Sources
    <3> QED
      BY <1>0, <1>2, <2>1, <2>3, <3>1 DEF Typed, Arrive, Plain
  <2> QED
    BY <2>2, <2>3
<1>3. ASSUME NEW m \in Mounts, Answer(m) PROVE Typed'
  <2>1. call' \in Calls
    <3>1. cookie \in 0..MaxSessions /\ mode \in Modes
      BY <1>0 DEF Plain
    <3>2. call[m].session \in 0..MaxSessions /\ call[m].mode \in Modes \cup {"none"}
      BY <1>0 DEF Calls
    <3>3. CASE call' = [call EXCEPT ![m].answer = "failed"]
      BY <1>0, <3>3 DEF Calls
    <3>4. CASE call' # [call EXCEPT ![m].answer = "failed"]
      BY <1>0, <1>3, <3>1, <3>2, <3>4 DEF Answer, Calls
    <3> QED
      BY <3>3, <3>4
  <2>2. used' \in Uses
    BY <1>0, <1>3, MishapTyped DEF Answer
  <2> QED
    BY <1>0, <1>3, <2>1, <2>2 DEF Typed, Answer, Plain
<1>4. ASSUME NEW m \in Mounts, AfterMe(m) PROVE Typed'
  <2>1. call' \in Calls
    BY <1>0, <1>4 DEF AfterMe, Calls
  <2> QED
    BY <1>0, <1>4, <2>1 DEF Typed, AfterMe, Plain
<1>5. ASSUME NEW m \in Mounts, AfterSystem(m) PROVE Typed'
  <2>1. call' \in Calls
    BY <1>0, <1>5 DEF AfterSystem, Calls
  <2>2. call[m].session \in 0..MaxSessions /\ call[m].mode \in Modes \cup {"none"}
    BY <1>0, <1>5 DEF Calls
  <2>3. control' \in Controls
    BY <1>0, <1>5, <2>2 DEF AfterSystem, Controls
  <2>4. source' \in Sources
    BY <1>0, <1>5 DEF AfterSystem, Sources
  <2> QED
    BY <1>0, <1>5, <2>1, <2>2, <2>3, <2>4 DEF Typed, AfterSystem, Plain
<1>6. ASSUME NEW m \in Mounts, AfterFailure(m) PROVE Typed'
  <2>1. call' \in Calls
    BY <1>0, <1>6 DEF AfterFailure, Calls
  <2>2. control' \in Controls
    BY <1>0, <1>6 DEF AfterFailure, Controls
  <2> QED
    BY <1>0, <1>6, <2>1, <2>2 DEF Typed, AfterFailure, Plain
<1>7. ASSUME NEW m \in Mounts, Events(m) PROVE Typed'
  <2>1. source' \in Sources
    BY <1>0, <1>7 DEF Events, StreamOpens, StreamRefused, StreamBreaks, Stream, Sources
  <2>2. control' \in Controls
    BY <1>0, <1>7 DEF Events, StreamOpens, StreamRefused, StreamBreaks, Stream, Controls
  <2>3. used' \in Uses
    BY <1>0, <1>7, MishapTyped DEF Events, StreamOpens, StreamRefused, StreamBreaks
  <2> QED
    BY <1>0, <1>7, <2>1, <2>2, <2>3 DEF Typed, Events, StreamOpens, StreamRefused, StreamBreaks, Stream, Plain
<1>8. ASSUME NEW m \in Mounts, EndSession(m) PROVE Typed'
  <2>1. leaving' \in Leavings
    BY <1>0, <1>8 DEF EndSession, Leavings
  <2>2. alive' \subseteq Sessions
    BY <1>0, <1>8 DEF EndSession, Plain
  <2> QED
    BY <1>0, <1>8, <2>1, <2>2 DEF Typed, EndSession, Plain
<1>9. ASSUME NEW m \in Mounts, SignedOut(m) PROVE Typed'
  <2>1. leaving' \in Leavings
    BY <1>0, <1>9 DEF SignedOut, Leavings
  <2>2. source' \in Sources
    BY <1>0, <1>9 DEF SignedOut, Close, Sources
  <2>3. control' \in Controls
    <3>1. CASE Active(m)
      <4>1. control' = [control EXCEPT !.state = "unauthenticated", !.session = 0] /\ 0 \in 0..MaxSessions
        BY <1>9, <3>1 DEF SignedOut
      <4> QED
        BY <1>0, <4>1 DEF Controls
    <3> QED
      BY <1>0, <1>9, <3>1 DEF SignedOut
  <2> QED
    BY <1>0, <1>9, <2>1, <2>2, <2>3 DEF Typed, SignedOut, Plain
<1>10. ASSUME NEW m \in Mounts, SignOutFails(m) PROVE Typed'
  <2>1. leaving' \in Leavings
    BY <1>0, <1>10 DEF SignOutFails, Leavings
  <2>2. used' \in Uses
    BY <1>0, <1>10, MishapTyped DEF SignOutFails
  <2> QED
    BY <1>0, <1>10, <2>1, <2>2 DEF Typed, SignOutFails, Plain
<1>11. CASE SignOut
  <2>1. cookie \in 0..MaxSessions /\ control.session \in 0..MaxSessions
    BY <1>0 DEF Plain, Controls
  <2>2. leaving' \in Leavings
    BY <1>0, <1>11, <2>1 DEF SignOut, Leavings
  <2> QED
    BY <1>0, <1>11, <2>2 DEF Typed, SignOut, Plain
<1>12. CASE Submit \/ Rejected
  BY <1>0, <1>12 DEF Typed, Submit, Rejected, Plain
<1>13. CASE Accepted
  <2>1. used.sessions \in 1..MaxSessions /\ used.sessions + 1 \in 1..MaxSessions
    BY <1>0, <1>13 DEF Accepted, Uses
  <2>2. used' \in Uses
    BY <1>0, <1>13, <2>1 DEF Accepted, Uses
  <2>3. alive' \subseteq Sessions /\ cookie' \in 0..MaxSessions
    BY <1>0, <1>13, <2>1 DEF Accepted, Plain
  <2> QED
    BY <1>0, <1>13, <2>2, <2>3 DEF Typed, Accepted, Plain
<1>14. CASE SessionEnds \/ ModeChanges
  <2>1. used' \in Uses
    BY <1>0, <1>14, MishapTyped DEF SessionEnds, ModeChanges
  <2> QED
    BY <1>0, <1>14, <2>1 DEF Typed, SessionEnds, ModeChanges, Plain
<1>15. CASE UNCHANGED vars
  BY <1>0, <1>15 DEF Typed, vars, Plain
<1> QED
  BY <1>1, <1>2, <1>3, <1>4, <1>5, <1>6, <1>7, <1>8, <1>9, <1>10, <1>11, <1>12, <1>13, <1>14, <1>15
  DEF Next, Connect, Logout, Login

\* Every variable keeps its type.
THEOREM TypeCorrect == Spec => []TypeOK
<1>1. Init => Typed
  BY InitTyped, TypesSplit
<1> QED
  BY <1>1, TypesKept, TypesSplit, PTL DEF Spec

-----------------------------------------------------------------------------
(* The order of the calls, the stream and the sign-out. *)

\* What the order needs of the types.
LEMMA Shape ==
    ASSUME Typed
    PROVE  /\ mount \in Nat
           /\ \A m \in Mounts : m \in Nat
           /\ source \in Sources /\ call \in Calls /\ leaving \in Leavings /\ control \in Controls
BY SessionAssumption DEF Typed, Plain, Mounts

LEMMA OrderKept == Typed /\ Order /\ [Next]_vars => Order'
<1> SUFFICES ASSUME Typed, Order, [Next]_vars PROVE Order'
  OBVIOUS
<1>0. /\ mount \in Nat /\ call \in Calls /\ leaving \in Leavings
      /\ control \in Controls /\ source \in Sources
      /\ \A m \in Mounts : m \in Nat
  BY Shape DEF Typed
<1> USE DEF Order, Unmounted, CallsComeFirst, OneStream, Calling, Active, Live
<1>1. ASSUME NEW p \in Places, Visit(p) PROVE Order'
  BY <1>0, <1>1 DEF Visit
<1>2. CASE Arrive
  <2>1. CASE goto = "console" /\ place # "console"
    <3>1. PICK demo \in BOOLEAN :
            /\ mount < MaxMounts /\ mount' = mount + 1
            /\ control' = [Fresh EXCEPT !.state = IF demo THEN "demo" ELSE "checking"]
            /\ call' = [call EXCEPT ![mount + 1].at = IF demo THEN "over" ELSE "me"]
            /\ UNCHANGED <<source, leaving>>
      BY <1>2, <2>1 DEF Arrive
    <3>2. mount + 1 \in Mounts
      BY <1>0, <3>1, SessionAssumption DEF Mounts
    <3>3. \A m \in Mounts : m # mount + 1 => call'[m] = call[m]
      BY <1>0, <3>1 DEF Calls
    <3>4. call'[mount + 1].at = (IF demo THEN "over" ELSE "me")
      BY <1>0, <3>1, <3>2 DEF Calls
    <3>5. \A m \in Mounts : source[m] \notin Held
      BY <2>1
    <3>6. Unmounted' /\ OneStream'
      BY <1>0, <3>1, <3>3, <3>5
    <3>7. CallsComeFirst'
      <4>1. control'.state = (IF demo THEN "demo" ELSE "checking") /\ control'.session = 0
        BY <3>1 DEF Fresh
      <4>2. ASSUME NEW m \in Mounts, Calling(m)', m # mount + 1 PROVE source'[m] = "none"
        BY <3>1, <3>3, <4>2
      <4>3. source'[mount + 1] = "none" /\ leaving'[mount + 1].at = "none"
        BY <1>0, <3>1, <3>2
      <4> QED
        BY <1>0, <3>1, <3>4, <4>1, <4>2, <4>3
    <3> QED
      BY <3>6, <3>7
  <2>2. CASE ~(goto = "console" /\ place # "console")
    <3>1. /\ UNCHANGED <<mount, control, call, leaving>>
          /\ place' = goto
          /\ source' = (IF place = "console" /\ goto # "console" THEN Close(mount) ELSE source)
      BY <1>2, <2>2 DEF Arrive
    <3>2. ASSUME NEW m \in Mounts
          PROVE  source'[m] = source[m] \/ (m = mount /\ source'[m] = "closed" /\ source[m] # "none")
      BY <1>0, <3>1 DEF Close, Sources
    <3>3. ASSUME NEW m \in Mounts, source'[m] \in Held
          PROVE  Active(m)' /\ Live'
      BY <1>0, <2>2, <3>1, <3>2, <3>3 DEF Held, Close, Sources
    <3> QED
      BY <1>0, <3>1, <3>2, <3>3
  <2> QED
    BY <2>1, <2>2
<1>3. ASSUME NEW m \in Mounts, Answer(m) PROVE Order'
  BY <1>0, <1>3 DEF Answer, Calls
<1>4. ASSUME NEW m \in Mounts, AfterMe(m) PROVE Order'
  BY <1>0, <1>4 DEF AfterMe, Calls
<1>5. ASSUME NEW m \in Mounts, AfterSystem(m) PROVE Order'
  BY <1>0, <1>5 DEF AfterSystem, Calls, Sources, Held
<1>6. ASSUME NEW m \in Mounts, AfterFailure(m) PROVE Order'
  BY <1>0, <1>6 DEF AfterFailure, Calls, Controls, Held
<1>7. ASSUME NEW m \in Mounts, Events(m) PROVE Order'
  BY <1>0, <1>7 DEF Events, StreamOpens, StreamRefused, StreamBreaks, Stream, Sources, Controls, Held
<1>8. ASSUME NEW m \in Mounts, EndSession(m) \/ SignOutFails(m) PROVE Order'
  BY <1>0, <1>8 DEF EndSession, SignOutFails, Leavings
<1>9. ASSUME NEW m \in Mounts, SignedOut(m) PROVE Order'
  BY <1>0, <1>9 DEF SignedOut, Close, Sources, Leavings, Controls, Held
<1>10. CASE SignOut
  BY <1>0, <1>10 DEF SignOut, Leavings
<1>11. CASE Login \/ SessionEnds \/ ModeChanges
  BY <1>0, <1>11 DEF Login, Submit, Accepted, Rejected, SessionEnds, ModeChanges
<1>12. CASE UNCHANGED vars
  BY <1>12 DEF vars
<1> QED
  BY <1>1, <1>2, <1>3, <1>4, <1>5, <1>6, <1>7, <1>8, <1>9, <1>10, <1>11, <1>12 DEF Next, Connect, Logout

LEMMA AlwaysOrdered == Spec => [](Typed /\ Order)
<1>1. Init => Typed /\ Order
  BY InitTyped, InitOrder, TypesSplit
<1>2. (Typed /\ Order) /\ [Next]_vars => (Typed /\ Order)'
  BY TypesKept, OrderKept
<1> QED
  BY <1>1, <1>2, PTL DEF Spec

\* No connect() that resumes late, no sign-out and no departure leaves a second
\* stream behind.
THEOREM OneStreamAlways == Spec => []OneStream
<1>1. Order => OneStream
  BY DEF Order
<1> QED
  BY <1>1, AlwaysOrdered, PTL

\* What resumes after a sign-out finds its calls over or its mount gone, so that
\* the page that was signed out stays so.
LEMMA SignOutStays ==
    ASSUME Typed, Order, [Next]_vars, control.state = "unauthenticated", mount' = mount
    PROVE  control'.state = "unauthenticated"
<1>0. control \in Controls /\ mount \in Nat /\ \A m \in Mounts : Calling(m) => m # mount
  BY Shape DEF Typed, Order, CallsComeFirst
<1>1. CASE Arrive
  BY <1>0, <1>1 DEF Arrive
<1>2. ASSUME NEW m \in Mounts, Connect(m) PROVE control'.state = "unauthenticated"
  BY <1>0, <1>2 DEF Connect, Answer, AfterMe, AfterSystem, AfterFailure, Active, Calling
<1>3. ASSUME NEW m \in Mounts, Events(m) PROVE control'.state = "unauthenticated"
  BY <1>0, <1>3 DEF Events, StreamOpens, StreamRefused, StreamBreaks, Stream, Controls
<1>4. ASSUME NEW m \in Mounts, Logout(m) PROVE control'.state = "unauthenticated"
  BY <1>0, <1>4 DEF Logout, EndSession, SignedOut, SignOutFails, Controls
<1>5. CASE (\E p \in Places : Visit(p)) \/ SignOut \/ Login \/ SessionEnds \/ ModeChanges \/ UNCHANGED vars
  BY <1>5 DEF Visit, SignOut, Login, Submit, Accepted, Rejected, SessionEnds, ModeChanges, vars
<1> QED
  BY <1>1, <1>2, <1>3, <1>4, <1>5 DEF Next

\* A sign-out is final for the page it was asked on.
THEOREM SignOutHolds == Spec => SignOutIsFinal
<1>1. Typed /\ Order /\ [Next]_vars =>
        [control.state = "unauthenticated" /\ mount' = mount => control'.state = "unauthenticated"]_vars
  BY SignOutStays
<1> QED
  BY <1>1, AlwaysOrdered, PTL DEF Spec, SignOutIsFinal
=============================================================================
