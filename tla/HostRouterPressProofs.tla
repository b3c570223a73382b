------------------------ MODULE HostRouterPressProofs ------------------------
(***************************************************************************)
(* The action property PressesGoToSelected of HostRouter, for every value  *)
(* of the constants: what the environment and the routing do only shrinks  *)
(* what the computers hold, and a forwarded report is told to the selected *)
(* computer alone, under the guard CanSend.                                *)
(***************************************************************************)
EXTENDS HostRouterProofs

Shrinks == \A c \in Conn : host'[c].held \subseteq host[c].held

OnlySelectedPressed ==
    \A c \in Conn : \A id \in host'[c].held \ host[c].held :
        /\ links[selected].handle = c
        /\ id \notin links[selected].release

\* A step after which no computer holds more presses nothing.
LEMMA ShrinkingPressesNothing == Shrinks => OnlySelectedPressed
  BY DEF Shrinks, OnlySelectedPressed

\* The neutral reports of service() only release.
LEMMA ServingShrinks ==
    \A hs, ls, ok : \A c \in Conn :
        ServiceHosts(hs, ls, ok)[c].held \subseteq hs[c].held
  <1> SUFFICES ASSUME NEW hs, NEW ls, NEW ok, NEW c \in Conn
               PROVE  ServiceHosts(hs, ls, ok)[c].held \subseteq hs[c].held
    OBVIOUS
  <1> DEFINE told == {a \in ok : ls[a[1]].handle = c}
             at == IF Absolute /\ \E a \in told : a[2] = "mouse"
                   THEN ls[(CHOOSE a \in told : a[2] = "mouse")[1]].position
                   ELSE hs[c].at
  <1>1. ServiceHosts(hs, ls, ok)[c] = [held |-> hs[c].held \ {a[2] : a \in told}, at |-> at]
    BY DEF ServiceHosts
  <1> HIDE DEF at
  <1>2. QED
    BY <1>1

\* A computer that connects or leaves holds nothing.
LEMMA EnvironmentShrinks == ASSUME IInv, Environment PROVE Shrinks
  <1>1. PICK c \in Conn : LinkUp(c) \/ LinkLost(c)
    BY DEF Environment
  <1>2. host' = [host EXCEPT ![c] = FreshHost] /\ host \in [Conn -> HostState]
    BY <1>1 DEF LinkUp, LinkLost, IInv, TypeOK
  <1>3. FreshHost.held = {}
    BY DEF FreshHost
  <1>4. QED
    BY <1>2, <1>3 DEF Shrinks

\* Binding and giving up connections tells the computers nothing.
LEMMA ConnectionsShrink == ASSUME Connections PROVE Shrinks
  <1>1. host' = host
    BY DEF Connections, Authenticated, Subscribed, Disconnected, Drop
  <1>2. QED
    BY <1>1 DEF Shrinks

\* Every routing step serves once, or twice when it changes slot and mode.
LEMMA RoutingShrinks == ASSUME Routing PROVE Shrinks
  <1>1. CASE Service \/ ReleaseAll \/ Recover
    <2>1. \E ls, ok : host' = ServiceHosts(host, ls, ok)
      BY <1>1 DEF Service, ReleaseAll, Recover, Serve
    <2>2. QED
      BY <2>1, ServingShrinks DEF Shrinks
  <1>2. ASSUME NEW t \in Slot, Select(t) PROVE Shrinks
    <2>1. \E ls, ok : host' = ServiceHosts(host, ls, ok)
      BY <1>2 DEF Select, Serve
    <2>2. QED
      BY <2>1, ServingShrinks DEF Shrinks
  <1>3. ASSUME NEW t \in Slot, NEW mode \in BOOLEAN, SwitchMode(t, mode) PROVE Shrinks
    <2>1. \E hs : /\ \E ls, ok : hs = ServiceHosts(host, ls, ok)
                  /\ \/ host' = hs
                     \/ \E ls, ok : host' = ServiceHosts(hs, ls, ok)
      BY <1>3 DEF SwitchMode
    <2>2. PICK hs : /\ \E ls, ok : hs = ServiceHosts(host, ls, ok)
                    /\ \/ host' = hs
                       \/ \E ls, ok : host' = ServiceHosts(hs, ls, ok)
      BY <2>1
    <2>3. \A c \in Conn : hs[c].held \subseteq host[c].held
      BY <2>2, ServingShrinks
    <2>4. \A c \in Conn : host'[c].held \subseteq hs[c].held
      BY <2>2, ServingShrinks
    <2>5. QED
      BY <2>3, <2>4 DEF Shrinks
  <1>4. ASSUME NEW order \in Orders, Reorder(order) PROVE Shrinks
    <2>1. \E ls, ok : host' = ServiceHosts(host, ls, ok)
      BY <1>4 DEF Reorder
    <2>2. QED
      BY <2>1, ServingShrinks DEF Shrinks
  <1>5. QED
    BY <1>1, <1>2, <1>3, <1>4 DEF Routing

-----------------------------------------------------------------------------
\* A report told to a computer changes that report of that computer only.
LEMMA TellPresses ==
    ASSUME IInv, NEW id \in ReportId, NEW down \in BOOLEAN, CanSend(id),
           NEW c \in Conn, c = links[selected].handle,
           \A d \in Conn : d # c => host'[d].held = host[d].held,
           host'[c].held = Tell(c, id, down)[c].held
    PROVE  OnlySelectedPressed
  <1>1. Tell(c, id, down)[c].held \subseteq host[c].held \cup {id}
    <2>1. host \in [Conn -> HostState] /\ host[c] \in HostState
      BY DEF IInv, TypeOK
    <2>2. Tell(c, id, down)[c] =
            [host[c] EXCEPT !.held = IF down THEN host[c].held \cup {id} ELSE host[c].held \ {id}]
      BY <2>1 DEF Tell
    <2>3. Tell(c, id, down)[c].held = IF down THEN host[c].held \cup {id} ELSE host[c].held \ {id}
      BY <2>1, <2>2 DEF HostState
    <2>4. QED
      BY <2>3
  <1>2. id \notin links[selected].release
    BY DEF CanSend
  <1>3. QED
    BY <1>1, <1>2 DEF OnlySelectedPressed

\* An accepted keyboard report.
LEMMA KeyboardPresses ==
    ASSUME IInv, NEW down \in BOOLEAN, TryKeyboard(down) PROVE OnlySelectedPressed
  <1> DEFINE c == links[selected].handle
  <1>1. c \in Conn /\ "keyboard" \in ReportId /\ CanSend("keyboard")
    BY DEF TryKeyboard, CanSend, IInv, TypeOK, Link, ReportId
  <1>2. host' = Tell(c, "keyboard", down)
    BY DEF TryKeyboard
  <1>3. \A d \in Conn : d # c => host'[d] = host[d]
    BY <1>1, <1>2, Told
  <1>4. QED
    BY <1>1, <1>2, <1>3, TellPresses

\* An accepted relative report.
LEMMA RelativePresses ==
    ASSUME IInv, NEW down \in BOOLEAN, NEW moves \in BOOLEAN, TryRelativeMouse(down, moves)
    PROVE  OnlySelectedPressed
  <1> DEFINE c == links[selected].handle
             told == Tell(c, "relative", down)
  <1>1. c \in Conn /\ "relative" \in ReportId /\ CanSend("relative")
    BY DEF TryRelativeMouse, CanSend, IInv, TypeOK, Link, ReportId
  <1>2. host' = told \/ host' = [told EXCEPT ![c].at = Unknown]
    BY DEF TryRelativeMouse
  <1>3. told \in [Conn -> HostState] /\ \A d \in Conn : d # c => told[d] = host[d]
    BY <1>1, Told
  <1> HIDE DEF told
  <1>4. host'[c].held = told[c].held /\ \A d \in Conn : d # c => host'[d] = told[d]
    BY <1>1, <1>2, <1>3, Displaced
  <1>5. QED
    BY <1>1, <1>3, <1>4, TellPresses DEF told

\* An accepted mouse report, whose position is not something held.
LEMMA MousePresses ==
    ASSUME IInv, NEW down \in BOOLEAN, NEW pos \in Position, TryMouse(down, pos)
    PROVE  OnlySelectedPressed
  <1> DEFINE c == links[selected].handle
             told == Tell(c, "mouse", down)
  <1>1. c \in Conn /\ "mouse" \in ReportId /\ CanSend("mouse")
    BY DEF TryMouse, CanSend, IInv, TypeOK, Link, ReportId
  <1>2. told \in [Conn -> HostState] /\ \A d \in Conn : d # c => told[d] = host[d]
    BY <1>1, Told
  <1>3. host' = told \/ host' = [told EXCEPT ![c].at = pos]
    BY DEF TryMouse
  <1> HIDE DEF told
  <1>4. host'[c].held = told[c].held /\ \A d \in Conn : d # c => host'[d] = told[d]
    <2>1. CASE host' = told
      BY <2>1
    <2>2. CASE host' = [told EXCEPT ![c].at = pos]
      <3>1. told[c] \in HostState /\ host'[c] = [told[c] EXCEPT !.at = pos]
        BY <1>1, <1>2, <2>2
      <3>2. host'[c].held = told[c].held
        BY <3>1 DEF HostState
      <3>3. \A d \in Conn : d # c => host'[d] = told[d]
        BY <1>2, <2>2
      <3>4. QED
        BY <3>2, <3>3
    <2>3. QED
      BY <1>3, <2>1, <2>2
  <1>5. QED
    BY <1>1, <1>2, <1>4, TellPresses DEF told

\* Every step presses, if at all, on the selected computer.
LEMMA StepPresses == ASSUME IInv, [Next]_vars PROVE [OnlySelectedPressed]_vars
  <1> SUFFICES ASSUME Next PROVE OnlySelectedPressed
    OBVIOUS
  <1>1. CASE Environment \/ Connections \/ Routing
    BY <1>1, EnvironmentShrinks, ConnectionsShrink, RoutingShrinks, ShrinkingPressesNothing
  <1>2. CASE Forwarding
    BY <1>2, KeyboardPresses, RelativePresses, MousePresses DEF Forwarding
  <1>3. QED
    BY <1>1, <1>2 DEF Next

\* A report that holds something reaches the selected computer only, and only
\* when that report owes it no release, for any number of slots.
THEOREM PressesGoToSelectedHolds == Spec => PressesGoToSelected
  <1>1. IInv /\ [Next]_vars => [OnlySelectedPressed]_vars
    BY StepPresses
  <1>2. Spec => [][OnlySelectedPressed]_vars
    BY Invariant, <1>1, PTL DEF Spec
  <1>3. QED
    BY <1>2 DEF PressesGoToSelected, OnlySelectedPressed
=============================================================================
