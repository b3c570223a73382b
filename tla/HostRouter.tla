----------------------------- MODULE HostRouter -----------------------------
(***************************************************************************)
(* Report routing of the switcher: class MultiHostRouter with the handlers *)
(* of BleHid that drive it.  Each computer slot has one link.  Input goes  *)
(* to the link of the selected slot only; every change of routing marks    *)
(* reports as owing a release, and service() sends the neutral report      *)
(* until the Bluetooth stack accepts it.                                   *)
(*                                                                         *)
(* A report is abstracted to whether it holds something down (a key, a     *)
(* button) and, for the absolute mouse, to the pointer position it carries.*)
(* `host` is what the computer at the far end of a connection has been     *)
(* told so far; it is not state of the firmware.                           *)
(***************************************************************************)
EXTENDS Naturals

CONSTANTS
    SlotCount,      \* Board::slots, the number of computer slots
    Conn,           \* Bluetooth connections (one handle each, never reused here)
    NoConn,         \* MultiHostRouter::NONE
    Position,       \* pointer positions an absolute report can carry
    Centre,         \* Link::position of a fresh link
    Unknown,        \* no absolute report says where the pointer is: none was received
                    \* yet, or the pointer has moved relatively since
    Absolute,       \* PointerMode::absolute, fixed at build time
    SubscriptionSet \* the subscription masks hosts may write

Slot == 0 .. SlotCount - 1

ReportId == {"keyboard", "mouse", "relative"}    \* report ids 1, 2 and 3

\* The relative report has a characteristic in the absolute build only.
Characteristic == IF Absolute THEN ReportId ELSE {"keyboard", "mouse"}

ASSUME SlotAssumption == SlotCount \in Nat \ {0}
ASSUME ConnAssumption == NoConn \notin Conn
ASSUME PositionAssumption == Centre \in Position /\ Unknown \notin Position
ASSUME AbsoluteAssumption == Absolute \in BOOLEAN
ASSUME SubscriptionAssumption == SubscriptionSet \subseteq SUBSET Characteristic

VARIABLES
    links,          \* MultiHostRouter::_links
    selected,       \* MultiHostRouter::_selected
    absoluteOutput, \* MultiHostRouter::_absoluteOutput
    host,           \* what each connected computer has been told
    live,           \* connections the Bluetooth stack still has
    closing         \* live connections the firmware has asked to terminate

vars == <<links, selected, absoluteOutput, host, live, closing>>

Link == [handle : Conn \cup {NoConn}, ready : BOOLEAN,
         release : SUBSET ReportId, subscriptions : SUBSET ReportId,
         position : Position, absoluteButtons : BOOLEAN]

HostState == [held : SUBSET ReportId, at : Position \cup {Unknown}]

FreshLink(c) == [handle |-> c, ready |-> FALSE, release |-> ReportId,
                 subscriptions |-> {}, position |-> Centre,
                 absoluteButtons |-> FALSE]

FreshHost == [held |-> {}, at |-> Unknown]

(***************************************************************************)
(* Operations of MultiHostRouter on a table ls of links.                   *)
(***************************************************************************)
Connect(ls, s, c) == [ls EXCEPT ![s] = FreshLink(c)]

Disconnect(ls, c) ==
    [s \in Slot |-> IF ls[s].handle = c THEN FreshLink(NoConn) ELSE ls[s]]

Ready(ls, s, subs) ==
    LET changed == ~ls[s].ready \/ ls[s].subscriptions # subs
    IN [ls EXCEPT ![s].release = IF changed THEN ReportId ELSE ls[s].release,
                  ![s].ready = TRUE,
                  ![s].subscriptions = subs]

OweAll(ls, slots) ==
    [s \in Slot |-> IF s \in slots THEN [ls[s] EXCEPT !.release = ReportId]
                                   ELSE ls[s]]

\* Release bits service() looks at on the link of slot s.
Due(ls, s) == IF ls[s].handle # NoConn /\ ls[s].ready
              THEN ls[s].release \cap ls[s].subscriptions ELSE {}

\* Mutants of Silent: it ignores the buttons held; it silences nothing.
SilentHeld(ls, s) == {id \in {"mouse"} : Absolute /\ ~absoluteOutput}
SilentNever(ls, s) == {id \in {"mouse"} : s \notin Slot}

\* An absolute release is skipped while output is relative and the absolute
\* report holds no button: sending it would move the pointer.
Silent(ls, s) == {id \in {"mouse"} : /\ Absolute /\ ~absoluteOutput
                                     /\ ~ls[s].absoluteButtons}

Attempts(ls) == {a \in Slot \X ReportId : a[2] \in Due(ls, a[1]) \ Silent(ls, a[1])}

\* notifyOne() refuses a connection that is gone; any other send may be
\* accepted.
Acceptable(ls) == {a \in Attempts(ls) : ls[a[1]].handle \in live}

\* service() tries slot by slot and report by report.
Before(a, b) ==
    \/ a[1] < b[1]
    \/ /\ a[1] = b[1]
       /\ <<a[2], b[2]>> \in {<<"keyboard", "mouse">>, <<"keyboard", "relative">>,
                              <<"mouse", "relative">>}

\* The sends one pass may get accepted: the first one the stack refuses
\* starts the 8 ms backoff of notifyOne(), longer than the rest of the pass.
Outcomes(ls) ==
    LET A == Acceptable(ls)
    IN {{}} \cup {{b \in A : b = a \/ Before(b, a)} : a \in A}

\* The reports of ok that go to slot s, and the release bits they and the
\* silent releases clear.
Sent(ok, s) == {id \in ReportId : <<s, id>> \in ok}
Cleared(ls, ok, s) == Sent(ok, s) \cup (Due(ls, s) \cap Silent(ls, s))

\* Mutant: a release counts as sent although the stack refused it.
ServiceLinksUnchecked(ls, ok) ==
    [s \in Slot |-> [ls[s] EXCEPT !.release = @ \ (Due(ls, s) \cup Sent(ok, s))]]

ServiceLinks(ls, ok) ==
    [s \in Slot |->
        [ls[s] EXCEPT !.release = @ \ Cleared(ls, ok, s),
                      !.absoluteButtons = @ /\ "mouse" \notin Sent(ok, s)]]

\* Mutant: the neutral absolute report carries the initial position.
ServiceHostsCentred(hs, ls, ok) ==
    [c \in Conn |->
        LET told == {a \in ok : ls[a[1]].handle = c}
        IN [held |-> hs[c].held \ {a[2] : a \in told},
            at |-> IF Absolute /\ \E a \in told : a[2] = "mouse" THEN Centre ELSE hs[c].at]]

\* What the computers know after the neutral reports in ok.
ServiceHosts(hs, ls, ok) ==
    [c \in Conn |->
        LET told == {a \in ok : ls[a[1]].handle = c}
        IN [held |-> hs[c].held \ {a[2] : a \in told},
            at |-> IF Absolute /\ \E a \in told : a[2] = "mouse"
                   THEN ls[(CHOOSE a \in told : a[2] = "mouse")[1]].position
                   ELSE hs[c].at]]

-----------------------------------------------------------------------------
Init ==
    /\ links = [s \in Slot |-> FreshLink(NoConn)]
    /\ selected \in Slot
    /\ absoluteOutput \in (IF Absolute THEN BOOLEAN ELSE {FALSE})
    /\ host = [c \in Conn |-> FreshHost]
    /\ live = {}
    /\ closing = {}

(***************************************************************************)
(* The environment: connections come and go.  A computer drops everything  *)
(* it held when its keyboard disconnects.                                  *)
(***************************************************************************)
LinkUp(c) ==
    /\ c \notin live
    /\ \A s \in Slot : links[s].handle # c
    /\ live' = live \cup {c}
    /\ host' = [host EXCEPT ![c] = FreshHost]
    /\ UNCHANGED <<links, selected, absoluteOutput, closing>>

LinkLost(c) ==
    /\ c \in live
    /\ live' = live \ {c}
    /\ closing' = closing \ {c}
    /\ host' = [host EXCEPT ![c] = FreshHost]
    /\ UNCHANGED <<links, selected, absoluteOutput>>

(***************************************************************************)
(* BleHid::handle and BleHid::loop.                                        *)
(***************************************************************************)
\* Authentication completes: connect(), then updateReady().  No other link
\* uses the slot (BleHid::handle disconnects a second peer of one slot).
Authenticated(s, c, subs) ==
    /\ c \in live
    /\ \A t \in Slot : links[t].handle # c
    /\ links[s].handle = NoConn
    /\ links' = Ready(Connect(links, s, c), s, subs)
    /\ UNCHANGED <<selected, absoluteOutput, host, live, closing>>

\* A subscription event or the periodic read of the CCCDs.
Subscribed(s, subs) ==
    /\ links[s].handle # NoConn
    /\ links' = Ready(links, s, subs)
    /\ UNCHANGED <<selected, absoluteOutput, host, live, closing>>

Disconnected(c) ==
    /\ c \notin live
    /\ \E s \in Slot : links[s].handle = c
    /\ links' = Disconnect(links, c)
    /\ UNCHANGED <<selected, absoluteOutput, host, live, closing>>

\* Mutant: terminates a connection the stack no longer has.
DropGone(c) ==
    /\ \E s \in Slot : links[s].handle = c
    /\ links' = Disconnect(links, c)
    /\ closing' = closing \cup {c}
    /\ UNCHANGED <<selected, absoluteOutput, host, live>>

\* The firmware gives a connection up: reconnect guard, event overflow or
\* removal of the pairing.
Drop(c) ==
    /\ \E s \in Slot : links[s].handle = c
    /\ links' = Disconnect(links, c)
    /\ closing' = closing \cup ({c} \cap live)
    /\ UNCHANGED <<selected, absoluteOutput, host, live>>

\* MultiHostRouter::service() on the table ls, with the sends of ok accepted.
Serve(ls, ok) ==
    /\ links' = ServiceLinks(ls, ok)
    /\ host' = ServiceHosts(host, ls, ok)

Service ==
    /\ \E ok \in Outcomes(links) : Serve(links, ok)
    /\ UNCHANGED <<selected, absoluteOutput, live, closing>>

ReleaseAll ==
    /\ LET ls == OweAll(links, Slot)
       IN \E ok \in Outcomes(ls) : Serve(ls, ok)
    /\ UNCHANGED <<selected, absoluteOutput, live, closing>>

\* Five seconds without an accepted report: release, then give up the
\* connection of the selected computer.
Recover ==
    /\ LET ls == OweAll(links, Slot)
           c == links[selected].handle
       IN /\ \E ok \in Outcomes(ls) :
                /\ links' = IF c = NoConn THEN ServiceLinks(ls, ok)
                            ELSE Disconnect(ServiceLinks(ls, ok), c)
                /\ host' = ServiceHosts(host, ls, ok)
          /\ closing' = closing \cup ({c} \cap live)
    /\ UNCHANGED <<selected, absoluteOutput, live>>

\* Mutant: only the new slot owes a release.
SelectNewOnly(t) ==
    /\ t # selected
    /\ selected' = t
    /\ LET ls == OweAll(links, {t})
       IN \E ok \in Outcomes(ls) : Serve(ls, ok)
    /\ UNCHANGED <<absoluteOutput, live, closing>>

\* selectSlot(): a different slot owes both computers a release.
Select(t) ==
    /\ t # selected
    /\ selected' = t
    /\ LET ls == OweAll(links, {selected, t})
       IN \E ok \in Outcomes(ls) : Serve(ls, ok)
    /\ UNCHANGED <<absoluteOutput, live, closing>>

\* Mutant: the mode changes without releasing what the old mouse path holds.
SwitchModeHeld(t, mode) ==
    /\ Absolute
    /\ t = selected
    /\ absoluteOutput' = mode
    /\ UNCHANGED <<links, selected, host, live, closing>>

\* setSeamlessEnabled(), beginCalibration(), cancelCalibration(): everything
\* is released under the old mode, then a slot is selected and the mode set.
SwitchMode(t, mode) ==
    LET ls == OweAll(links, Slot)
    IN /\ Absolute
       /\ \E ok \in Outcomes(ls) :
            LET served == ServiceLinks(ls, ok)
                told == ServiceHosts(host, ls, ok)
                again == OweAll(served, {selected, t})
            IN IF t = selected
               THEN links' = served /\ host' = told
               ELSE \E ok2 \in Outcomes(again) :
                        /\ links' = ServiceLinks(again, ok2)
                        /\ host' = ServiceHosts(told, again, ok2)
       /\ selected' = t
       /\ absoluteOutput' = mode
       /\ UNCHANGED <<live, closing>>

\* configure(): releases first, then the links move with their slots.
Reorder(order) ==
    /\ LET ls == OweAll(links, Slot)
       IN \E ok \in Outcomes(ls) :
            /\ links' = LET served == ServiceLinks(ls, ok)
                        IN [s \in Slot |-> served[order[s]]]
            /\ host' = ServiceHosts(host, ls, ok)
    /\ selected' \in {s \in Slot : order[s] = selected}
    /\ UNCHANGED <<absoluteOutput, live, closing>>

(***************************************************************************)
(* flushInput() and the text menu: a report goes to the selected link if   *)
(* it is ready, subscribed and owes no release.  A refused report changes  *)
(* nothing, the caller keeps it.                                           *)
(***************************************************************************)
\* Mutant: input does not wait for the release the link owes.
CanSendEarly(id) ==
    LET link == links[selected]
    IN /\ link.handle # NoConn
       /\ link.ready
       /\ id \in link.subscriptions
       /\ link.handle \in live

CanSend(id) ==
    LET link == links[selected]
    IN /\ link.handle # NoConn
       /\ link.ready
       /\ id \in link.subscriptions
       /\ id \notin link.release
       /\ link.handle \in live

Tell(c, id, down) ==
    [host EXCEPT ![c].held = IF down THEN @ \cup {id} ELSE @ \ {id}]

TryKeyboard(down) ==
    /\ CanSend("keyboard")
    /\ host' = Tell(links[selected].handle, "keyboard", down)
    /\ UNCHANGED <<links, selected, absoluteOutput, live, closing>>

\* Mutant: the link does not remember the buttons of the accepted report.
TryMouseForgotten(down, pos) ==
    LET c == links[selected].handle
    IN /\ Absolute => absoluteOutput
       /\ CanSend("mouse")
       /\ links' = [links EXCEPT ![selected].position = pos]
       /\ host' = [Tell(c, "mouse", down) EXCEPT ![c].at = pos]
       /\ UNCHANGED <<selected, absoluteOutput, live, closing>>

TryMouse(down, pos) ==
    LET c == links[selected].handle
    IN /\ Absolute => absoluteOutput
       /\ CanSend("mouse")
       /\ IF Absolute
          THEN /\ links' = [links EXCEPT ![selected].position = pos,
                                         ![selected].absoluteButtons = down]
               /\ host' = [Tell(c, "mouse", down) EXCEPT ![c].at = pos]
          ELSE /\ host' = Tell(c, "mouse", down)
               /\ UNCHANGED links
       /\ UNCHANGED <<selected, absoluteOutput, live, closing>>

\* A relative report that moves takes the pointer away from the position of
\* the last absolute report; one of buttons only leaves it there.
TryRelativeMouse(down, moves) ==
    LET c == links[selected].handle
        told == Tell(c, "relative", down)
    IN /\ Absolute /\ ~absoluteOutput
       /\ CanSend("relative")
       /\ host' = IF moves THEN [told EXCEPT ![c].at = Unknown] ELSE told
       /\ UNCHANGED <<links, selected, absoluteOutput, live, closing>>

-----------------------------------------------------------------------------
\* reorderedConfig() accepts a permutation of the slots only.
Orders == {order \in [Slot -> Slot] :
              /\ \A s, t \in Slot : order[s] = order[t] => s = t
              /\ \A t \in Slot : \E s \in Slot : order[s] = t}

Environment == \E c \in Conn : LinkUp(c) \/ LinkLost(c)

Connections ==
    \/ \E s \in Slot, c \in Conn, subs \in SubscriptionSet : Authenticated(s, c, subs)
    \/ \E s \in Slot, subs \in SubscriptionSet : Subscribed(s, subs)
    \/ \E c \in Conn : Disconnected(c) \/ Drop(c)

Routing ==
    \/ Service
    \/ ReleaseAll
    \/ Recover
    \/ \E t \in Slot : Select(t)
    \/ \E t \in Slot, mode \in BOOLEAN : SwitchMode(t, mode)
    \/ \E order \in Orders : Reorder(order)

Forwarding ==
    \/ \E down \in BOOLEAN : TryKeyboard(down)
    \/ \E down, moves \in BOOLEAN : TryRelativeMouse(down, moves)
    \/ \E down \in BOOLEAN, pos \in Position : TryMouse(down, pos)

Next == Environment \/ Connections \/ Routing \/ Forwarding

Spec == Init /\ [][Next]_vars

-----------------------------------------------------------------------------
(***************************************************************************)
(* Properties.                                                             *)
(***************************************************************************)
\* Every variable has its type; a closing connection is still live.
TypeOK ==
    /\ links \in [Slot -> Link]
    /\ selected \in Slot
    /\ absoluteOutput \in BOOLEAN
    /\ host \in [Conn -> HostState]
    /\ live \subseteq Conn
    /\ closing \subseteq live

\* Whatever a connected computer was told is held is accounted for: its slot
\* is selected, or the release of that report is still owed.  Nothing the
\* switcher does (selecting, reordering, changing the pointer mode, losing
\* and restoring subscriptions) leaves a key stuck on a computer it left.
InputAccounted ==
    \A c \in live \ closing : \A id \in host[c].held :
        \E s \in Slot : /\ links[s].handle = c
                        /\ s = selected \/ id \in links[s].release

\* Link::absoluteButtons agrees with the computer: service() may skip a
\* release on its word only when no button is held there.
ButtonsTracked ==
    Absolute => \A s \in Slot :
        links[s].handle \in live \ closing =>
            (links[s].absoluteButtons <=> "mouse" \in host[links[s].handle].held)

\* After a change of the pointer mode a button held through the other mouse
\* report is released or owes its release: one mouse path owns a gesture.
OldPathOwed ==
    \A s \in Slot :
        links[s].handle \in live \ closing =>
            host[links[s].handle].held \cap (IF absoluteOutput THEN {"relative"} ELSE
                                            IF Absolute THEN {"mouse"} ELSE {})
                \subseteq links[s].release

\* A report that holds something reaches the computer of the selected slot
\* only, and only when that report owes it no release.
PressesGoToSelected ==
    [][\A c \in Conn : \A id \in host'[c].held \ host[c].held :
          /\ links[selected].handle = c
          /\ id \notin links[selected].release]_vars

\* "Neutral releases retain the last position": a pointer that stands where an
\* absolute report put it leaves there only by a report of the selected slot,
\* never by a release (docs/absolute-pointer.md, MultiHostRouter::service).
ReleasesKeepPosition ==
    [][\A c \in live' \ closing' :
          host[c].at \notin {Unknown, host'[c].at} =>
              /\ links[selected].handle = c
              /\ [links EXCEPT ![selected] = links'[selected]] = links'
              /\ links'[selected].release = links[selected].release]_vars

\* "Relative mode must not emit absolute neutral reports and teleport the
\* cursor" (tests/multi-host-router.cpp): while output is relative, no absolute
\* report puts the pointer of a computer that holds no absolute button anywhere
\* it is not: neither one that never got an absolute report, nor one whose
\* pointer has moved relatively since the last.
NoTeleport ==
    [][\A c \in live' \ closing :
          /\ Absolute /\ ~absoluteOutput
          /\ "mouse" \notin host[c].held
          => host'[c].at \in {host[c].at, Unknown}]_vars

(***************************************************************************)
(* Liveness.  The loop calls service() on every tick and a live connection *)
(* accepts a notification again and again, so an owed release that can be  *)
(* sent is sent.                                                           *)
(***************************************************************************)
Deliver(s, id) ==
    /\ \E ok \in Outcomes(links) : <<s, id>> \in ok /\ Serve(links, ok)
    /\ UNCHANGED <<selected, absoluteOutput, live, closing>>

Fairness == \A s \in Slot, id \in ReportId : SF_vars(Deliver(s, id))

FairSpec == Spec /\ Fairness

LeftHolding(s, id) ==
    /\ s # selected
    /\ links[s].handle \in live
    /\ id \in links[s].subscriptions
    /\ id \in host[links[s].handle].held

\* A computer the input moved away from while it held a key or a button is
\* released (or unsubscribes, leaves, or is selected again): it never keeps
\* on holding it.
ReleaseDelivered ==
    \A s \in Slot, id \in ReportId : LeftHolding(s, id) ~> ~LeftHolding(s, id)

(***************************************************************************)
(* The abstract promise (module InputFocus): connections take the place of *)
(* the computers, the link of the selected slot has the focus.             *)
(***************************************************************************)
Focus == INSTANCE InputFocus WITH
    Host <- Conn,
    Nobody <- NoConn,
    Report <- ReportId,
    focus <- links[selected].handle,
    holding <- {p \in (live \ closing) \X ReportId : p[2] \in host[p[1]].held},
    owed <- {p \in Conn \X ReportId :
                \E s \in Slot : links[s].handle = p[1] /\ p[2] \in links[s].release}

FocusSpec == Focus!Spec
=============================================================================
