-------------------------- MODULE HostRouterProofs --------------------------
(***************************************************************************)
(* Proofs about HostRouter, for every number of slots, connections,        *)
(* positions and subscription masks, and for both builds.                  *)
(*                                                                         *)
(* The invariants are stated as a predicate Good of a link table ls, the   *)
(* computers' knowledge hs, the selected slot and the pointer mode, so     *)
(* that the handlers that serve twice in one step (SwitchMode) are chains  *)
(* of the same lemmas.  `open` is the set of connections that are live and *)
(* not being terminated.                                                   *)
(***************************************************************************)
EXTENDS HostRouter, TLAPS

Unique(ls) ==
    \A s, t \in Slot : ls[s].handle = ls[t].handle /\ ls[s].handle # NoConn => s = t

Accounted(ls, hs, sel, open) ==
    \A c \in open : \A id \in hs[c].held :
        \E s \in Slot : ls[s].handle = c /\ (s = sel \/ id \in ls[s].release)

Tracked(ls, hs, open) ==
    Absolute => \A s \in Slot : ls[s].handle \in open =>
        (ls[s].absoluteButtons <=> "mouse" \in hs[ls[s].handle].held)

Other(mode) == IF mode THEN {"relative"} ELSE IF Absolute THEN {"mouse"} ELSE {}

OtherOwed(ls, hs, mode, open) ==
    \A s \in Slot : ls[s].handle \in open =>
        \A id \in hs[ls[s].handle].held : id \in Other(mode) => id \in ls[s].release

Owing(ls, hs, open) ==
    \A s \in Slot : ls[s].handle \in open =>
        \A id \in hs[ls[s].handle].held : id \in ls[s].release

Typed(ls, hs) == ls \in [Slot -> Link] /\ hs \in [Conn -> HostState]

Good(ls, hs, sel, mode, open) ==
    /\ Unique(ls)
    /\ Accounted(ls, hs, sel, open)
    /\ Tracked(ls, hs, open)
    /\ OtherOwed(ls, hs, mode, open)

Open == live \ closing

IInv ==
    /\ TypeOK
    /\ Good(links, host, selected, absoluteOutput, Open)

-----------------------------------------------------------------------------
\* What service() may get accepted are reports it attempted.
LEMMA OutcomesAttempted ==
    ASSUME NEW ls, NEW ok \in Outcomes(ls)
    PROVE  ok \subseteq Attempts(ls) /\ ok \subseteq Slot \X ReportId
  BY DEF Outcomes, Acceptable, Attempts

\* Serving clears the release bits of the accepted and of the silent reports,
\* forgets a released button and changes nothing else of a link.
LEMMA ServedLinks ==
    ASSUME NEW ls, ls \in [Slot -> Link], NEW ok \in SUBSET (Slot \X ReportId)
    PROVE  \A s \in Slot :
              /\ ServiceLinks(ls, ok)[s] \in Link
              /\ ServiceLinks(ls, ok)[s].handle = ls[s].handle
              /\ ServiceLinks(ls, ok)[s].release = ls[s].release \ Cleared(ls, ok, s)
              /\ ServiceLinks(ls, ok)[s].absoluteButtons =
                   (ls[s].absoluteButtons /\ "mouse" \notin Sent(ok, s))
  <1> SUFFICES ASSUME NEW s \in Slot
               PROVE  /\ ServiceLinks(ls, ok)[s] \in Link
                      /\ ServiceLinks(ls, ok)[s].handle = ls[s].handle
                      /\ ServiceLinks(ls, ok)[s].release = ls[s].release \ Cleared(ls, ok, s)
                      /\ ServiceLinks(ls, ok)[s].absoluteButtons =
                           (ls[s].absoluteButtons /\ "mouse" \notin Sent(ok, s))
    OBVIOUS
  <1>1. ls[s] \in Link
    OBVIOUS
  <1>2. ServiceLinks(ls, ok)[s] =
          [ls[s] EXCEPT !.release = ls[s].release \ Cleared(ls, ok, s),
                        !.absoluteButtons = ls[s].absoluteButtons /\ "mouse" \notin Sent(ok, s)]
    BY DEF ServiceLinks
  <1>3. ls[s].release \ Cleared(ls, ok, s) \in SUBSET ReportId
    BY <1>1 DEF Link
  <1>4. QED
    BY <1>1, <1>2, <1>3 DEF Link

\* The computers forget what the accepted reports release.
LEMMA ServedHosts ==
    ASSUME NEW ls, NEW hs, Typed(ls, hs), NEW ok \in SUBSET (Slot \X ReportId)
    PROVE  /\ Typed(ServiceLinks(ls, ok), ServiceHosts(hs, ls, ok))
           /\ \A c \in Conn : ServiceHosts(hs, ls, ok)[c].held =
                hs[c].held \ {a[2] : a \in {x \in ok : ls[x[1]].handle = c}}
  <1>1. \A s \in Slot : ServiceLinks(ls, ok)[s] \in Link
    BY ServedLinks DEF Typed
  <1>2. \A c \in Conn :
          /\ ServiceHosts(hs, ls, ok)[c] \in HostState
          /\ ServiceHosts(hs, ls, ok)[c].held =
               hs[c].held \ {a[2] : a \in {x \in ok : ls[x[1]].handle = c}}
    <2> SUFFICES ASSUME NEW c \in Conn
                 PROVE  /\ ServiceHosts(hs, ls, ok)[c] \in HostState
                        /\ ServiceHosts(hs, ls, ok)[c].held =
                             hs[c].held \ {a[2] : a \in {x \in ok : ls[x[1]].handle = c}}
      OBVIOUS
    <2> DEFINE told == {x \in ok : ls[x[1]].handle = c}
               moved == Absolute /\ \E a \in told : a[2] = "mouse"
               at == IF moved
                     THEN ls[(CHOOSE a \in told : a[2] = "mouse")[1]].position
                     ELSE hs[c].at
    <2>1. ServiceHosts(hs, ls, ok)[c] = [held |-> hs[c].held \ {a[2] : a \in told}, at |-> at]
      BY DEF ServiceHosts
    <2>2. hs[c] \in HostState
      BY DEF Typed
    <2>3. at \in Position \cup {Unknown}
      <3>1. CASE moved
        <4>1. (CHOOSE a \in told : a[2] = "mouse") \in Slot \X ReportId
          BY <3>1
        <4>2. (CHOOSE a \in told : a[2] = "mouse")[1] \in Slot
          BY <4>1
        <4>3. ls[(CHOOSE a \in told : a[2] = "mouse")[1]] \in Link
          BY <4>2 DEF Typed
        <4>4. QED
          BY <3>1, <4>3 DEF Link
      <3>2. CASE ~moved
        BY <3>2, <2>2 DEF HostState
      <3>3. QED
        BY <3>1, <3>2
    <2> HIDE DEF at
    <2>4. QED
      BY <2>1, <2>2, <2>3 DEF HostState
  <1>3. ServiceLinks(ls, ok) \in [Slot -> Link]
    BY <1>1 DEF ServiceLinks
  <1>4. ServiceHosts(hs, ls, ok) \in [Conn -> HostState]
    BY <1>2 DEF ServiceHosts
  <1>5. QED
    BY <1>1, <1>2, <1>3, <1>4 DEF Typed

\* On the link of a live connection the neutral reports accepted are exactly
\* those of its slot, and a report still held keeps the release it is owed.
LEMMA ServedLink ==
    ASSUME NEW ls, NEW hs, Typed(ls, hs), NEW ok \in SUBSET (Slot \X ReportId),
           NEW open \in SUBSET Conn, Unique(ls), Tracked(ls, hs, open),
           NEW s \in Slot, ls[s].handle \in open
    PROVE  LET c == ls[s].handle
               held == ServiceHosts(hs, ls, ok)[c].held
           IN /\ \A id \in ReportId :
                    id \in held <=> id \in hs[c].held /\ id \notin Sent(ok, s)
              /\ held \subseteq hs[c].held
              /\ \A id \in held : id \in ls[s].release =>
                    id \in ServiceLinks(ls, ok)[s].release
  <1> DEFINE c == ls[s].handle
             held == ServiceHosts(hs, ls, ok)[c].held
             told == {a[2] : a \in {x \in ok : ls[x[1]].handle = c}}
  <1>1. c \in Conn /\ c # NoConn
    BY ConnAssumption
  <1>2. held = hs[c].held \ told
    BY <1>1, ServedHosts
  <1>3. ASSUME NEW id \in ReportId
        PROVE  id \in told <=> id \in Sent(ok, s)
    <2>1. ASSUME id \in told PROVE id \in Sent(ok, s)
      <3>1. PICK a \in ok : ls[a[1]].handle = c /\ a[2] = id
        BY <2>1
      <3>2. a = <<a[1], a[2]>> /\ a[1] \in Slot
        OBVIOUS
      <3>3. a[1] = s
        BY <3>1, <3>2, <1>1 DEF Unique
      <3>4. QED
        BY <3>1, <3>2, <3>3 DEF Sent
    <2>2. ASSUME id \in Sent(ok, s) PROVE id \in told
      <3>1. <<s, id>> \in ok /\ <<s, id>>[1] = s /\ <<s, id>>[2] = id
        BY <2>2 DEF Sent
      <3>2. QED
        BY <3>1
    <2>3. QED
      BY <2>1, <2>2
  <1>4. hs[c].held \subseteq ReportId
    BY <1>1 DEF Typed, HostState
  <1>5. ServiceLinks(ls, ok)[s].release = ls[s].release \ Cleared(ls, ok, s)
    <2>1. ls \in [Slot -> Link]
      BY DEF Typed
    <2>2. QED
      BY <2>1, ServedLinks
  <1>6. ASSUME NEW id \in held, id \in ls[s].release
        PROVE  id \in ServiceLinks(ls, ok)[s].release
    <2>1. id \in hs[c].held /\ id \in ReportId /\ id \notin Sent(ok, s)
      BY <1>2, <1>3, <1>4, <1>6
    <2>2. id \notin Silent(ls, s)
      <3>1. SUFFICES ASSUME id \in Silent(ls, s) PROVE FALSE
        OBVIOUS
      <3>2. id = "mouse" /\ Absolute /\ ~ls[s].absoluteButtons
        BY <3>1 DEF Silent
      <3>3. QED
        BY <3>2, <2>1 DEF Tracked
    <2>3. id \notin Cleared(ls, ok, s)
      BY <2>1, <2>2 DEF Cleared
    <2>4. QED
      BY <1>5, <1>6, <2>3
  <1>7. QED
    BY <1>2, <1>3, <1>4, <1>6

\* service() keeps every conjunct of the invariant, whatever it gets accepted.
LEMMA ServeKeeps ==
    ASSUME NEW ls, NEW hs, Typed(ls, hs), NEW ok \in SUBSET (Slot \X ReportId),
           NEW open \in SUBSET Conn, NEW sel, NEW mode, Good(ls, hs, sel, mode, open)
    PROVE  LET served == ServiceLinks(ls, ok)
               told == ServiceHosts(hs, ls, ok)
           IN /\ Typed(served, told)
              /\ Good(served, told, sel, mode, open)
              /\ Owing(ls, hs, open) => Owing(served, told, open)
  <1> DEFINE served == ServiceLinks(ls, ok)
             told == ServiceHosts(hs, ls, ok)
  <1>1. /\ Typed(served, told)
        /\ \A s \in Slot : /\ served[s].handle = ls[s].handle
                           /\ served[s].absoluteButtons =
                                (ls[s].absoluteButtons /\ "mouse" \notin Sent(ok, s))
    BY ServedLinks, ServedHosts DEF Typed
  <1>2. \A s \in Slot : ls[s].handle \in open =>
          /\ \A id \in ReportId : id \in told[ls[s].handle].held <=>
                id \in hs[ls[s].handle].held /\ id \notin Sent(ok, s)
          /\ told[ls[s].handle].held \subseteq hs[ls[s].handle].held
          /\ \A id \in told[ls[s].handle].held :
                id \in ls[s].release => id \in served[s].release
    BY ServedLink DEF Good
  <1>3. \A c \in Conn : told[c].held \subseteq hs[c].held
    BY ServedHosts
  <1> HIDE DEF served, told
  <1>4. Unique(served)
    BY <1>1 DEF Good, Unique
  <1>5. Accounted(served, told, sel, open)
    <2> SUFFICES ASSUME NEW c \in open, NEW id \in told[c].held
                 PROVE  \E s \in Slot :
                          served[s].handle = c /\ (s = sel \/ id \in served[s].release)
      BY DEF Accounted
    <2>1. id \in hs[c].held
      BY <1>3
    <2>2. PICK s \in Slot : ls[s].handle = c /\ (s = sel \/ id \in ls[s].release)
      BY <2>1 DEF Good, Accounted
    <2>3. served[s].handle = c
      BY <1>1, <2>2
    <2>4. id \in ls[s].release => id \in served[s].release
      BY <1>2, <2>2
    <2>5. QED
      BY <2>2, <2>3, <2>4
  <1>6. Tracked(served, told, open)
    BY <1>1, <1>2 DEF Good, Tracked, ReportId
  <1>7. OtherOwed(served, told, mode, open)
    BY <1>1, <1>2 DEF Good, OtherOwed
  <1>8. Owing(ls, hs, open) => Owing(served, told, open)
    BY <1>1, <1>2 DEF Owing
  <1>9. QED
    BY <1>1, <1>4, <1>5, <1>6, <1>7, <1>8 DEF Good, served, told

\* Owing releases keeps the invariant and lets the selection leave any slot
\* whose release is owed; owing them all lets the pointer mode change too.
LEMMA OweKeeps ==
    ASSUME NEW ls, NEW hs, Typed(ls, hs), NEW slots \in SUBSET Slot,
           NEW open \in SUBSET Conn, NEW sel \in Slot, NEW mode, Good(ls, hs, sel, mode, open)
    PROVE  LET owing == OweAll(ls, slots)
           IN /\ Typed(owing, hs)
              /\ Good(owing, hs, sel, mode, open)
              /\ sel \in slots => \A t : Good(owing, hs, t, mode, open)
              /\ slots = Slot => Owing(owing, hs, open)
  <1> DEFINE owing == OweAll(ls, slots)
  <1>1. \A s \in Slot :
          /\ owing[s] \in Link
          /\ owing[s].handle = ls[s].handle
          /\ owing[s].absoluteButtons = ls[s].absoluteButtons
          /\ owing[s].release = IF s \in slots THEN ReportId ELSE ls[s].release
    <2> SUFFICES ASSUME NEW s \in Slot
                 PROVE  /\ owing[s] \in Link
                        /\ owing[s].handle = ls[s].handle
                        /\ owing[s].absoluteButtons = ls[s].absoluteButtons
                        /\ owing[s].release = IF s \in slots THEN ReportId ELSE ls[s].release
      OBVIOUS
    <2>1. ls[s] \in Link
      BY DEF Typed
    <2>2. owing[s] = IF s \in slots THEN [ls[s] EXCEPT !.release = ReportId] ELSE ls[s]
      BY DEF OweAll
    <2>3. QED
      BY <2>1, <2>2 DEF Link
  <1>2. Typed(owing, hs)
    BY <1>1 DEF Typed, OweAll
  <1>3. \A s \in Slot : ls[s].release \subseteq ReportId
    BY DEF Typed, Link
  <1>4. \A c \in open : hs[c].held \subseteq ReportId
    BY DEF Typed, HostState
  <1> HIDE DEF owing
  <1>5. Unique(owing)
    BY <1>1 DEF Good, Unique
  <1>6. Accounted(owing, hs, sel, open)
    BY <1>1, <1>3 DEF Good, Accounted
  <1>7. sel \in slots => \A t : Accounted(owing, hs, t, open)
    BY <1>1, <1>4 DEF Good, Accounted
  <1>8. Tracked(owing, hs, open)
    BY <1>1 DEF Good, Tracked
  <1>9. OtherOwed(owing, hs, mode, open)
    BY <1>1, <1>4 DEF Good, OtherOwed
  <1>10. slots = Slot => Owing(owing, hs, open)
    BY <1>1, <1>4 DEF Owing
  <1>11. QED
    BY <1>2, <1>5, <1>6, <1>7, <1>8, <1>9, <1>10 DEF Good, owing

\* When every held report is owed its release, neither the selection nor the
\* pointer mode matters to the invariant.
LEMMA OwingFrees ==
    ASSUME NEW ls, NEW hs, NEW open, NEW sel, NEW mode,
           Good(ls, hs, sel, mode, open), Owing(ls, hs, open)
    PROVE  \A t, m : Good(ls, hs, t, m, open)
  <1>1. \A t : Accounted(ls, hs, t, open)
    BY DEF Good, Accounted, Owing
  <1>2. \A m : OtherOwed(ls, hs, m, open)
    BY DEF OtherOwed, Owing
  <1>3. QED
    BY <1>1, <1>2 DEF Good

\* Giving a connection up keeps the invariant for the connections that stay.
LEMMA DisconnectKeeps ==
    ASSUME NEW ls, NEW hs, Typed(ls, hs), NEW c \in Conn, NEW open \in SUBSET Conn,
           NEW sel, NEW mode, Good(ls, hs, sel, mode, open)
    PROVE  LET gone == Disconnect(ls, c)
           IN Typed(gone, hs) /\ Good(gone, hs, sel, mode, open \ {c})
  <1> DEFINE gone == Disconnect(ls, c)
  <1>1. FreshLink(NoConn) \in Link /\ FreshLink(NoConn).handle = NoConn
    BY PositionAssumption DEF FreshLink, Link
  <1>2. \A s \in Slot : gone[s] = IF ls[s].handle = c THEN FreshLink(NoConn) ELSE ls[s]
    BY DEF Disconnect
  <1>3. Typed(gone, hs)
    BY <1>1 DEF Typed, Disconnect
  <1> HIDE DEF gone
  <1>4. Unique(gone)
    BY <1>1, <1>2 DEF Good, Unique
  <1>5. Accounted(gone, hs, sel, open \ {c})
    BY <1>1, <1>2 DEF Good, Accounted
  <1>6. Tracked(gone, hs, open \ {c})
    BY <1>1, <1>2, ConnAssumption DEF Good, Tracked
  <1>7. OtherOwed(gone, hs, mode, open \ {c})
    BY <1>1, <1>2, ConnAssumption DEF Good, OtherOwed
  <1>8. QED
    BY <1>3, <1>4, <1>5, <1>6, <1>7 DEF Good, gone

-----------------------------------------------------------------------------
(***************************************************************************)
(* The invariant is inductive: one lemma per action.                       *)
(***************************************************************************)
LEMMA InitIInv == Init => IInv
  <1> SUFFICES ASSUME Init PROVE IInv
    OBVIOUS
  <1>1. FreshLink(NoConn) \in Link /\ FreshLink(NoConn).handle = NoConn
    BY PositionAssumption DEF FreshLink, Link
  <1>2. FreshHost \in HostState /\ FreshHost.held = {}
    BY DEF FreshHost, HostState
  <1>3. TypeOK
    BY <1>1, <1>2 DEF Init, TypeOK
  <1>4. Open = {}
    BY DEF Init, Open
  <1>5. Unique(links)
    BY <1>1 DEF Init, Unique
  <1>6. QED
    BY <1>3, <1>4, <1>5 DEF IInv, Good, Accounted, Tracked, OtherOwed

\* A connection comes up, bound to no slot and holding nothing.
LEMMA LinkUpKeeps == ASSUME IInv, NEW c \in Conn, LinkUp(c) PROVE IInv'
  <1>1. TypeOK /\ c \notin live /\ c \notin closing /\ c # NoConn
    BY ConnAssumption DEF IInv, LinkUp, TypeOK
  <1>2. FreshHost \in HostState /\ FreshHost.held = {}
    BY DEF FreshHost, HostState
  <1>3. host' = [host EXCEPT ![c] = FreshHost] /\ Open' = Open \cup {c}
    BY <1>1 DEF LinkUp, Open
  <1>4. /\ links' = links /\ selected' = selected /\ absoluteOutput' = absoluteOutput
        /\ \A s \in Slot : links[s].handle # c
    BY DEF LinkUp
  <1>5. TypeOK'
    BY <1>1, <1>2 DEF LinkUp, TypeOK
  <1>6. host \in [Conn -> HostState] /\ Open \subseteq Conn
    BY <1>1 DEF TypeOK, Open
  <1>7. \A d \in Conn : d # c => host'[d] = host[d]
    BY <1>3, <1>6
  <1>8. host'[c].held = {}
    BY <1>2, <1>3, <1>6
  <1>9. Good(links, host, selected, absoluteOutput, Open)
    BY DEF IInv
  <1>10. Unique(links) /\ Accounted(links, host', selected, Open')
    BY <1>3, <1>6, <1>7, <1>8, <1>9 DEF Good, Accounted
  <1>11. Tracked(links, host', Open') /\ OtherOwed(links, host', absoluteOutput, Open')
    BY <1>3, <1>4, <1>6, <1>7, <1>9 DEF Good, Tracked, OtherOwed
  <1>12. QED
    BY <1>4, <1>5, <1>10, <1>11 DEF IInv, Good

\* A connection is lost: it is no longer open, the others are untouched.
LEMMA LinkLostKeeps == ASSUME IInv, NEW c \in Conn, LinkLost(c) PROVE IInv'
  <1>1. FreshHost \in HostState
    BY DEF FreshHost, HostState
  <1>2. TypeOK /\ TypeOK'
    BY <1>1 DEF IInv, LinkLost, TypeOK
  <1>3. /\ Open' = Open \ {c} /\ links' = links /\ selected' = selected
        /\ absoluteOutput' = absoluteOutput /\ Open \subseteq Conn
    BY <1>2 DEF LinkLost, Open, TypeOK
  <1>4. \A d \in Open' : d \in Open /\ host'[d] = host[d]
    BY <1>2, <1>3 DEF LinkLost, TypeOK
  <1>5. Good(links, host, selected, absoluteOutput, Open)
    BY DEF IInv
  <1>6. Unique(links) /\ Accounted(links, host', selected, Open')
    BY <1>4, <1>5 DEF Good, Accounted
  <1>7. Tracked(links, host', Open') /\ OtherOwed(links, host', absoluteOutput, Open')
    BY <1>4, <1>5 DEF Good, Tracked, OtherOwed
  <1>8. QED
    BY <1>2, <1>3, <1>6, <1>7 DEF IInv, Good

\* The new link takes a slot that had none and owes every release; its computer
\* holds nothing, for no link accounted for it before.
LEMMA AuthenticatedKeeps ==
    ASSUME IInv, NEW s \in Slot, NEW c \in Conn, NEW subs \in SubscriptionSet,
           Authenticated(s, c, subs)
    PROVE  IInv'
  <1> DEFINE link == [handle |-> c, ready |-> TRUE, release |-> ReportId,
                      subscriptions |-> subs, position |-> Centre,
                      absoluteButtons |-> FALSE]
  <1>1. subs \subseteq ReportId
    BY SubscriptionAssumption DEF Characteristic, ReportId
  <1>2. TypeOK /\ Open \subseteq Conn
    BY DEF IInv, TypeOK, Open
  <1>3. FreshLink(c) \in Link /\ c # NoConn
    BY PositionAssumption, ConnAssumption DEF FreshLink, Link
  <1>4. links' = [links EXCEPT ![s] = link]
    <2> DEFINE up == [links EXCEPT ![s] = FreshLink(c)]
    <2>1. up \in [Slot -> Link] /\ up[s] = FreshLink(c)
      BY <1>2, <1>3 DEF TypeOK
    <2>2. links' = [up EXCEPT ![s].release = ReportId, ![s].ready = TRUE,
                              ![s].subscriptions = subs]
      BY <2>1 DEF Authenticated, Ready, Connect, FreshLink
    <2>3. QED
      BY <1>2, <2>2 DEF FreshLink, TypeOK
  <1>5. link \in Link
    BY <1>1, PositionAssumption DEF Link
  <1>6. TypeOK'
    BY <1>2, <1>4, <1>5 DEF Authenticated, TypeOK
  <1>7. /\ links'[s] = link
        /\ \A t \in Slot : t # s => links'[t] = links[t]
    BY <1>2, <1>4, <1>5 DEF TypeOK
  <1>8. /\ host' = host /\ selected' = selected /\ absoluteOutput' = absoluteOutput
        /\ Open' = Open
        /\ \A t \in Slot : links[t].handle # c
        /\ links[s].handle = NoConn
    BY DEF Authenticated, Open
  <1>9. Good(links, host, selected, absoluteOutput, Open)
    BY DEF IInv
  <1>10. c \in Open => host[c].held = {}
    BY <1>8, <1>9 DEF Good, Accounted
  <1> HIDE DEF link
  <1>11. link.handle = c /\ link.absoluteButtons = FALSE
    BY DEF link
  <1>12. Unique(links')
    BY <1>7, <1>8, <1>9, <1>11 DEF Good, Unique
  <1>13. Accounted(links', host, selected, Open)
    <2> SUFFICES ASSUME NEW d \in Open, NEW id \in host[d].held
                 PROVE  \E t \in Slot : /\ links'[t].handle = d
                                        /\ t = selected \/ id \in links'[t].release
      BY DEF Accounted
    <2>1. PICK t \in Slot : links[t].handle = d /\ (t = selected \/ id \in links[t].release)
      BY <1>9 DEF Good, Accounted
    <2>2. t # s
      BY <1>2, <1>8, <2>1, ConnAssumption
    <2>3. QED
      BY <1>7, <2>1, <2>2
  <1>14. Tracked(links', host, Open) /\ OtherOwed(links', host, absoluteOutput, Open)
    BY <1>7, <1>9, <1>10, <1>11 DEF Good, Tracked, OtherOwed
  <1>15. QED
    BY <1>6, <1>8, <1>12, <1>13, <1>14 DEF IInv, Good

\* A change of the subscriptions only adds releases.
LEMMA SubscribedKeeps ==
    ASSUME IInv, NEW s \in Slot, NEW subs \in SubscriptionSet, Subscribed(s, subs)
    PROVE  IInv'
  <1> DEFINE changed == ~links[s].ready \/ links[s].subscriptions # subs
             owed == IF changed THEN ReportId ELSE links[s].release
  <1>1. subs \subseteq ReportId
    BY SubscriptionAssumption DEF Characteristic, ReportId
  <1>2. TypeOK /\ links[s] \in Link
    BY DEF IInv, TypeOK
  <1>3. links' = [links EXCEPT ![s].release = owed, ![s].ready = TRUE,
                               ![s].subscriptions = subs]
    BY DEF Subscribed, Ready
  <1>4. owed \subseteq ReportId /\ links[s].release \subseteq owed
    BY <1>2 DEF Link
  <1> HIDE DEF owed, changed
  <1>5. /\ links'[s] = [links[s] EXCEPT !.release = owed, !.ready = TRUE,
                                       !.subscriptions = subs]
        /\ \A t \in Slot : t # s => links'[t] = links[t]
        /\ links' = [t \in Slot |-> links'[t]]
    BY <1>2, <1>3 DEF TypeOK
  <1>6. \A t \in Slot : /\ links'[t] \in Link
                        /\ links'[t].handle = links[t].handle
                        /\ links'[t].absoluteButtons = links[t].absoluteButtons
                        /\ links[t].release \subseteq links'[t].release
    <2>1. /\ links'[s] \in Link
          /\ links'[s].handle = links[s].handle
          /\ links'[s].absoluteButtons = links[s].absoluteButtons
          /\ links[s].release \subseteq links'[s].release
      BY <1>1, <1>2, <1>4, <1>5 DEF Link
    <2>2. QED
      BY <1>2, <1>5, <2>1 DEF TypeOK
  <1>7. TypeOK'
    BY <1>2, <1>5, <1>6 DEF Subscribed, TypeOK
  <1>8. /\ host' = host /\ selected' = selected /\ absoluteOutput' = absoluteOutput
        /\ Open' = Open
    BY DEF Subscribed, Open
  <1>9. Good(links, host, selected, absoluteOutput, Open)
    BY DEF IInv
  <1>10. Unique(links') /\ Accounted(links', host, selected, Open)
    BY <1>6, <1>9 DEF Good, Unique, Accounted
  <1>11. Tracked(links', host, Open) /\ OtherOwed(links', host, absoluteOutput, Open)
    BY <1>6, <1>9 DEF Good, Tracked, OtherOwed
  <1>12. QED
    BY <1>7, <1>8, <1>10, <1>11 DEF IInv, Good

\* The invariant in the form the lemmas about tables take.
LEMMA IInvTables ==
    IInv => /\ Typed(links, host)
            /\ Open \in SUBSET Conn
            /\ selected \in Slot
            /\ Good(links, host, selected, absoluteOutput, Open)
  BY DEF IInv, TypeOK, Typed, Open

\* Forgetting a connection that is gone.
LEMMA DisconnectedKeeps == ASSUME IInv, NEW c \in Conn, Disconnected(c) PROVE IInv'
  <1>1. Open \ {c} = Open
    BY DEF Disconnected, Open
  <1>2. /\ Typed(links', host)
        /\ Good(links', host, selected, absoluteOutput, Open)
    BY <1>1, DisconnectKeeps, IInvTables DEF Disconnected
  <1>3. QED
    BY <1>2 DEF IInv, TypeOK, Typed, Disconnected, Open

\* Giving a connection up closes it, and only open connections are promised anything.
LEMMA DropKeeps == ASSUME IInv, NEW c \in Conn, Drop(c) PROVE IInv'
  <1>1. Open' = Open \ {c}
    BY DEF Drop, Open
  <1>2. /\ Typed(links', host)
        /\ Good(links', host, selected, absoluteOutput, Open')
    BY <1>1, DisconnectKeeps, IInvTables DEF Drop
  <1>3. closing' \subseteq live /\ live \subseteq Conn
    BY DEF Drop, IInv, TypeOK
  <1>4. QED
    BY <1>2, <1>3 DEF IInv, TypeOK, Typed, Drop

\* One pass of service().
LEMMA ServiceKeeps == ASSUME IInv, Service PROVE IInv'
  <1>1. PICK ok \in Outcomes(links) :
          /\ links' = ServiceLinks(links, ok)
          /\ host' = ServiceHosts(host, links, ok)
    BY DEF Service, Serve
  <1>2. ok \in SUBSET (Slot \X ReportId)
    BY OutcomesAttempted
  <1>3. /\ Typed(links', host')
        /\ Good(links', host', selected, absoluteOutput, Open)
    BY <1>1, <1>2, ServeKeeps, IInvTables
  <1>4. QED
    BY <1>3 DEF IInv, TypeOK, Typed, Service, Open

\* Owing all releases and serving once leaves every held report owed.
LEMMA ReleasedAll ==
    ASSUME IInv, NEW ok \in Outcomes(OweAll(links, Slot))
    PROVE  LET ls == OweAll(links, Slot)
               served == ServiceLinks(ls, ok)
               told == ServiceHosts(host, ls, ok)
           IN /\ Typed(served, told)
              /\ Owing(served, told, Open)
              /\ \A t, m : Good(served, told, t, m, Open)
  <1> DEFINE ls == OweAll(links, Slot)
             served == ServiceLinks(ls, ok)
             told == ServiceHosts(host, ls, ok)
  <1>1. /\ Typed(links, host) /\ Open \in SUBSET Conn /\ selected \in Slot
        /\ Good(links, host, selected, absoluteOutput, Open)
    BY IInvTables
  <1>2. ok \in SUBSET (Slot \X ReportId)
    BY OutcomesAttempted
  <1>3. /\ Typed(ls, host) /\ Owing(ls, host, Open)
        /\ Good(ls, host, selected, absoluteOutput, Open)
    BY <1>1, OweKeeps
  <1> HIDE DEF ls
  <1>4. /\ Typed(served, told) /\ Owing(served, told, Open)
        /\ Good(served, told, selected, absoluteOutput, Open)
    BY <1>1, <1>2, <1>3, ServeKeeps
  <1> HIDE DEF served, told
  <1>5. \A t, m : Good(served, told, t, m, Open)
    BY <1>4, OwingFrees
  <1>6. QED
    BY <1>4, <1>5 DEF served, told, ls

\* releaseAll(): every release is owed, then one pass of service().
LEMMA ReleaseAllKeeps == ASSUME IInv, ReleaseAll PROVE IInv'
  <1>1. PICK ok \in Outcomes(OweAll(links, Slot)) :
          /\ links' = ServiceLinks(OweAll(links, Slot), ok)
          /\ host' = ServiceHosts(host, OweAll(links, Slot), ok)
    BY DEF ReleaseAll, Serve
  <1>2. /\ Typed(links', host')
        /\ Good(links', host', selected, absoluteOutput, Open)
    BY <1>1, ReleasedAll
  <1>3. QED
    BY <1>2 DEF IInv, TypeOK, Typed, ReleaseAll, Open

\* Recovery releases everywhere and then gives up the selected connection.
LEMMA RecoverKeeps == ASSUME IInv, Recover PROVE IInv'
  <1> DEFINE ls == OweAll(links, Slot)
             c == links[selected].handle
  <1>1. PICK ok \in Outcomes(ls) :
          /\ links' = IF c = NoConn THEN ServiceLinks(ls, ok)
                      ELSE Disconnect(ServiceLinks(ls, ok), c)
          /\ host' = ServiceHosts(host, ls, ok)
    BY DEF Recover
  <1> DEFINE served == ServiceLinks(ls, ok)
  <1>2. Typed(served, host') /\ Good(served, host', selected, absoluteOutput, Open)
    BY <1>1, ReleasedAll
  <1>3. /\ closing' = closing \cup ({c} \cap live)
        /\ live' = live /\ selected' = selected /\ absoluteOutput' = absoluteOutput
    BY DEF Recover
  <1>4. TypeOK /\ Open \in SUBSET Conn /\ Open' = Open \ {c}
    BY <1>3 DEF IInv, TypeOK, Open
  <1>5. c \in Conn \cup {NoConn}
    BY DEF IInv, TypeOK, Link
  <1> HIDE DEF served, c
  <1>6. Typed(links', host') /\ Good(links', host', selected, absoluteOutput, Open \ {c})
    <2>1. CASE c = NoConn
      <3>1. Open \ {c} = Open
        BY <1>4, <2>1, ConnAssumption
      <3>2. links' = served
        BY <1>1, <2>1 DEF served
      <3>3. QED
        BY <1>2, <3>1, <3>2
    <2>2. CASE c # NoConn
      <3>1. links' = Disconnect(served, c) /\ c \in Conn
        BY <1>1, <1>5, <2>2 DEF served
      <3>2. QED
        BY <1>2, <1>4, <3>1, DisconnectKeeps
    <2>3. QED
      BY <2>1, <2>2
  <1>7. TypeOK'
    BY <1>3, <1>4, <1>6 DEF TypeOK, Typed
  <1>8. QED
    BY <1>3, <1>4, <1>6, <1>7 DEF IInv

\* Selecting owes both computers, so that either may be the selected one.
LEMMA SelectKeeps == ASSUME IInv, NEW t \in Slot, Select(t) PROVE IInv'
  <1> DEFINE ls == OweAll(links, {selected, t})
  <1>1. PICK ok \in Outcomes(ls) :
          links' = ServiceLinks(ls, ok) /\ host' = ServiceHosts(host, ls, ok)
    BY DEF Select, Serve
  <1>2. /\ Typed(links, host) /\ Open \in SUBSET Conn /\ selected \in Slot
        /\ Good(links, host, selected, absoluteOutput, Open)
    BY IInvTables
  <1>3. Typed(ls, host) /\ Good(ls, host, t, absoluteOutput, Open)
    <2>1. {selected, t} \in SUBSET Slot /\ selected \in {selected, t}
      BY <1>2
    <2>2. QED
      BY <1>2, <2>1, OweKeeps
  <1>4. ok \in SUBSET (Slot \X ReportId)
    BY OutcomesAttempted
  <1> HIDE DEF ls
  <1>5. Typed(links', host') /\ Good(links', host', t, absoluteOutput, Open)
    BY <1>1, <1>2, <1>3, <1>4, ServeKeeps
  <1>6. QED
    BY <1>5 DEF IInv, TypeOK, Typed, Select, Open

\* After everything is owed the selection and the pointer mode may both change.
LEMMA SwitchModeKeeps ==
    ASSUME IInv, NEW t \in Slot, NEW mode \in BOOLEAN, SwitchMode(t, mode)
    PROVE  IInv'
  <1> DEFINE ls == OweAll(links, Slot)
  <1>1. /\ selected' = t /\ absoluteOutput' = mode
        /\ live' = live /\ closing' = closing
    BY DEF SwitchMode
  <1>2. PICK ok \in Outcomes(ls) :
          LET served == ServiceLinks(ls, ok)
              told == ServiceHosts(host, ls, ok)
              again == OweAll(served, {selected, t})
          IN IF t = selected
             THEN links' = served /\ host' = told
             ELSE \E ok2 \in Outcomes(again) :
                      /\ links' = ServiceLinks(again, ok2)
                      /\ host' = ServiceHosts(told, again, ok2)
    BY DEF SwitchMode
  <1> DEFINE served == ServiceLinks(ls, ok)
             told == ServiceHosts(host, ls, ok)
             again == OweAll(served, {selected, t})
  <1>3. /\ Typed(served, told)
        /\ \A u, m : Good(served, told, u, m, Open)
    BY ReleasedAll
  <1>4. Open \in SUBSET Conn /\ selected \in Slot
    BY IInvTables
  <1>5. \/ links' = served /\ host' = told
        \/ \E ok2 \in Outcomes(again) : /\ links' = ServiceLinks(again, ok2)
                                        /\ host' = ServiceHosts(told, again, ok2)
    BY <1>2
  <1> HIDE DEF served, told, again
  <1>6. Typed(links', host') /\ Good(links', host', t, mode, Open)
    <2>1. CASE links' = served /\ host' = told
      BY <1>3, <2>1
    <2>2. ASSUME NEW ok2 \in Outcomes(again),
                 links' = ServiceLinks(again, ok2), host' = ServiceHosts(told, again, ok2)
          PROVE  Typed(links', host') /\ Good(links', host', t, mode, Open)
      <3>1. {selected, t} \in SUBSET Slot
        BY <1>4
      <3>2. Typed(again, told) /\ Good(again, told, t, mode, Open)
        BY <1>3, <1>4, <3>1, OweKeeps DEF again
      <3>3. ok2 \in SUBSET (Slot \X ReportId)
        BY OutcomesAttempted
      <3>4. QED
        BY <1>4, <2>2, <3>2, <3>3, ServeKeeps
    <2>3. QED
      BY <1>5, <2>1, <2>2
  <1>7. QED
    BY <1>1, <1>6 DEF IInv, TypeOK, Typed, Open

\* After everything is owed the links may move with their slots.
LEMMA ReorderKeeps == ASSUME IInv, NEW order \in Orders, Reorder(order) PROVE IInv'
  <1> DEFINE ls == OweAll(links, Slot)
  <1>1. PICK ok \in Outcomes(ls) :
          /\ links' = [s \in Slot |-> ServiceLinks(ls, ok)[order[s]]]
          /\ host' = ServiceHosts(host, ls, ok)
    BY DEF Reorder
  <1> DEFINE served == ServiceLinks(ls, ok)
  <1>2. /\ Typed(served, host') /\ Owing(served, host', Open)
        /\ Good(served, host', selected, absoluteOutput, Open)
    BY <1>1, ReleasedAll
  <1>3. /\ selected' \in Slot
        /\ absoluteOutput' = absoluteOutput /\ live' = live /\ closing' = closing
    BY DEF Reorder
  <1>4. /\ order \in [Slot -> Slot]
        /\ \A s, t \in Slot : order[s] = order[t] => s = t
        /\ \A t \in Slot : \E s \in Slot : order[s] = t
    BY DEF Orders
  <1>5. \A s \in Slot : links'[s] = served[order[s]]
    BY <1>1
  <1>6. Typed(links', host')
    BY <1>1, <1>2, <1>4 DEF Typed
  <1> HIDE DEF served
  <1>7. Unique(links')
    BY <1>2, <1>4, <1>5 DEF Good, Unique
  <1>8. Accounted(links', host', selected', Open)
    <2> SUFFICES ASSUME NEW c \in Open, NEW id \in host'[c].held
                 PROVE  \E s \in Slot : links'[s].handle = c /\ id \in links'[s].release
      BY DEF Accounted
    <2>1. PICK t \in Slot : served[t].handle = c
      BY <1>2 DEF Good, Accounted
    <2>2. id \in served[t].release
      BY <1>2, <2>1 DEF Owing
    <2>3. PICK s \in Slot : order[s] = t
      BY <1>4
    <2>4. QED
      BY <1>5, <2>1, <2>2, <2>3
  <1>9. Tracked(links', host', Open) /\ OtherOwed(links', host', absoluteOutput, Open)
    BY <1>2, <1>4, <1>5 DEF Good, Tracked, OtherOwed
  <1>10. QED
    BY <1>3, <1>6, <1>7, <1>8, <1>9 DEF IInv, TypeOK, Typed, Good, Open

\* A report accepted by the selected computer changes what it holds, nothing
\* else; the absolute mouse report also sets the button memory of the link.
LEMMA TellKeeps ==
    ASSUME IInv, NEW id \in ReportId, NEW down \in BOOLEAN, CanSend(id),
           id \notin Other(absoluteOutput),
           \A d \in Conn : /\ host'[d] \in HostState
                           /\ d # links[selected].handle => host'[d] = host[d],
           host'[links[selected].handle].held =
             Tell(links[selected].handle, id, down)[links[selected].handle].held,
           host' = [d \in Conn |-> host'[d]],
           links' \in [Slot -> Link],
           \A s \in Slot :
             /\ links'[s].handle = links[s].handle
             /\ links'[s].release = links[s].release
             /\ links'[s].absoluteButtons = IF Absolute /\ id = "mouse" /\ s = selected
                                           THEN down ELSE links[s].absoluteButtons,
           UNCHANGED <<selected, absoluteOutput, live, closing>>
    PROVE  IInv'
  <1> DEFINE c == links[selected].handle
  <1>1. /\ host \in [Conn -> HostState] /\ selected \in Slot /\ Open \subseteq Conn
        /\ Good(links, host, selected, absoluteOutput, Open)
        /\ c \in Conn /\ c # NoConn
    BY IInvTables, ConnAssumption DEF CanSend, IInv, TypeOK, Link, Typed
  <1>2. host'[c].held = IF down THEN host[c].held \cup {id} ELSE host[c].held \ {id}
    <2>1. host[c] \in HostState
      BY <1>1
    <2>2. Tell(c, id, down)[c] =
            [host[c] EXCEPT !.held = IF down THEN host[c].held \cup {id} ELSE host[c].held \ {id}]
      BY <1>1 DEF Tell
    <2>3. Tell(c, id, down)[c].held = IF down THEN host[c].held \cup {id} ELSE host[c].held \ {id}
      BY <2>1, <2>2 DEF HostState
    <2>4. QED
      BY <2>3
  <1>3. TypeOK'
    <2>1. host' \in [Conn -> HostState]
      OBVIOUS
    <2>2. QED
      BY <2>1 DEF IInv, TypeOK
  <1> HIDE DEF c
  <1>4. \A s \in Slot : links[s].handle = c => s = selected
    BY <1>1 DEF Good, Unique, c
  <1>5. Unique(links')
    BY <1>1 DEF Good, Unique
  <1>6. Accounted(links', host', selected, Open)
    <2> SUFFICES ASSUME NEW d \in Open, NEW i \in host'[d].held
                 PROVE  \E s \in Slot : /\ links'[s].handle = d
                                        /\ s = selected \/ i \in links'[s].release
      BY DEF Accounted
    <2>1. CASE d = c
      BY <1>1, <2>1 DEF c
    <2>2. CASE d # c
      <3>1. host'[d] = host[d]
        BY <1>1, <2>2 DEF c
      <3>2. PICK s \in Slot : links[s].handle = d /\ (s = selected \/ i \in links[s].release)
        BY <1>1, <3>1 DEF Good, Accounted
      <3>3. QED
        BY <3>2
    <2>3. QED
      BY <2>1, <2>2
  <1>7. Tracked(links', host', Open)
    <2> SUFFICES ASSUME Absolute, NEW s \in Slot, links'[s].handle \in Open
                 PROVE  links'[s].absoluteButtons <=> "mouse" \in host'[links'[s].handle].held
      BY DEF Tracked
    <2>1. links[s].absoluteButtons <=> "mouse" \in host[links[s].handle].held
      BY <1>1 DEF Good, Tracked
    <2>2. CASE s = selected
      BY <1>2, <2>1, <2>2 DEF c
    <2>3. CASE s # selected
      <3>1. links[s].handle # c
        BY <1>4, <2>3
      <3>2. host'[links[s].handle] = host[links[s].handle]
        BY <1>1, <3>1 DEF c
      <3>3. QED
        BY <2>1, <2>3, <3>2
    <2>4. QED
      BY <2>2, <2>3
  <1>8. OtherOwed(links', host', absoluteOutput, Open)
    <2> SUFFICES ASSUME NEW s \in Slot, links'[s].handle \in Open,
                        NEW i \in host'[links'[s].handle].held, i \in Other(absoluteOutput)
                 PROVE  i \in links'[s].release
      BY DEF OtherOwed
    <2>1. i \in host[links[s].handle].held
      <3>1. CASE links[s].handle = c
        BY <1>2, <3>1
      <3>2. CASE links[s].handle # c
        BY <1>1, <3>2 DEF c
      <3>3. QED
        BY <3>1, <3>2
    <2>2. QED
      BY <1>1, <2>1 DEF Good, OtherOwed
  <1>9. QED
    BY <1>3, <1>5, <1>6, <1>7, <1>8 DEF IInv, Good, Open

\* What Tell() leaves of the table of computers.
LEMMA Told ==
    ASSUME IInv, NEW id \in ReportId, NEW down \in BOOLEAN, NEW c \in Conn
    PROVE  LET told == Tell(c, id, down)
           IN /\ told \in [Conn -> HostState]
              /\ \A d \in Conn : d # c => told[d] = host[d]
  <1>1. host \in [Conn -> HostState]
    BY DEF IInv, TypeOK
  <1>2. (IF down THEN host[c].held \cup {id} ELSE host[c].held \ {id}) \subseteq ReportId
    BY <1>1 DEF HostState
  <1> DEFINE held == IF down THEN host[c].held \cup {id} ELSE host[c].held \ {id}
  <1>3. Tell(c, id, down) = [host EXCEPT ![c] = [host[c] EXCEPT !.held = held]]
    BY <1>1 DEF Tell
  <1> HIDE DEF held
  <1>4. [host[c] EXCEPT !.held = held] \in HostState
    BY <1>1, <1>2 DEF HostState, held
  <1>5. QED
    BY <1>1, <1>3, <1>4

\* Moving the pointer of one computer changes nothing that is held.
LEMMA Displaced ==
    ASSUME NEW told \in [Conn -> HostState], NEW c \in Conn, NEW hosts,
           hosts = told \/ hosts = [told EXCEPT ![c].at = Unknown]
    PROVE  /\ hosts \in [Conn -> HostState]
           /\ hosts[c].held = told[c].held
           /\ hosts[c].at \in {told[c].at, Unknown}
           /\ \A d \in Conn : d # c => hosts[d] = told[d]
  <1>1. CASE hosts = told
    BY <1>1
  <1>2. CASE hosts = [told EXCEPT ![c].at = Unknown]
    <2>1. hosts[c] = [told[c] EXCEPT !.at = Unknown] /\ told[c] \in HostState
      BY <1>2
    <2>2. /\ hosts[c] \in HostState
          /\ hosts[c].held = told[c].held
          /\ hosts[c].at = Unknown
      BY <2>1 DEF HostState
    <2>3. QED
      BY <1>2, <2>2
  <1>3. QED
    BY <1>1, <1>2

\* An accepted keyboard report.
LEMMA TryKeyboardKeeps ==
    ASSUME IInv, NEW down \in BOOLEAN, TryKeyboard(down) PROVE IInv'
  <1> DEFINE c == links[selected].handle
  <1>1. c \in Conn /\ "keyboard" \in ReportId /\ links \in [Slot -> Link]
    BY DEF TryKeyboard, CanSend, IInv, TypeOK, Link, ReportId
  <1>2. host' = Tell(c, "keyboard", down) /\ CanSend("keyboard")
    BY DEF TryKeyboard
  <1>3. host' \in [Conn -> HostState] /\ \A d \in Conn : d # c => host'[d] = host[d]
    BY <1>1, <1>2, Told
  <1>4. "keyboard" \notin Other(absoluteOutput)
    BY DEF Other
  <1>5. links' = links /\ UNCHANGED <<selected, absoluteOutput, live, closing>>
    BY DEF TryKeyboard
  <1>6. QED
    BY <1>1, <1>2, <1>3, <1>4, <1>5, TellKeeps

\* An accepted relative report: output is relative, so its path is the current one.
LEMMA TryRelativeMouseKeeps ==
    ASSUME IInv, NEW down \in BOOLEAN, NEW moves \in BOOLEAN, TryRelativeMouse(down, moves)
    PROVE  IInv'
  <1> DEFINE c == links[selected].handle
             told == Tell(c, "relative", down)
  <1>1. c \in Conn /\ "relative" \in ReportId /\ links \in [Slot -> Link]
    BY DEF TryRelativeMouse, CanSend, IInv, TypeOK, Link, ReportId
  <1>2. /\ host' = told \/ host' = [told EXCEPT ![c].at = Unknown]
        /\ CanSend("relative")
    BY DEF TryRelativeMouse
  <1>3. told \in [Conn -> HostState] /\ \A d \in Conn : d # c => told[d] = host[d]
    BY <1>1, Told
  <1> HIDE DEF told
  <1>4. /\ host' \in [Conn -> HostState]
        /\ host'[c].held = told[c].held
        /\ \A d \in Conn : d # c => host'[d] = host[d]
    BY <1>1, <1>2, <1>3, Displaced
  <1>5. "relative" \notin Other(absoluteOutput)
    BY DEF Other, TryRelativeMouse
  <1>6. links' = links /\ UNCHANGED <<selected, absoluteOutput, live, closing>>
    BY DEF TryRelativeMouse
  <1>7. QED
    BY <1>1, <1>2, <1>4, <1>5, <1>6, TellKeeps DEF told

\* An accepted mouse report, which in the absolute build the link remembers.
LEMMA TryMouseKeeps ==
    ASSUME IInv, NEW down \in BOOLEAN, NEW pos \in Position, TryMouse(down, pos)
    PROVE  IInv'
  <1> DEFINE c == links[selected].handle
             told == Tell(c, "mouse", down)
  <1>1. /\ c \in Conn /\ "mouse" \in ReportId /\ links \in [Slot -> Link]
        /\ selected \in Slot
    BY DEF TryMouse, CanSend, IInv, TypeOK, Link, ReportId
  <1>2. CanSend("mouse") /\ "mouse" \notin Other(absoluteOutput)
    BY DEF TryMouse, Other
  <1>3. told \in [Conn -> HostState] /\ \A d \in Conn : d # c => told[d] = host[d]
    BY <1>1, Told
  <1>4. UNCHANGED <<selected, absoluteOutput, live, closing>>
    BY DEF TryMouse
  <1>5. CASE ~Absolute
    <2>1. host' = told /\ links' = links
      BY <1>5 DEF TryMouse
    <2>2. QED
      BY <1>1, <1>2, <1>3, <1>4, <1>5, <2>1, TellKeeps
  <1>6. CASE Absolute
    <2>1. /\ links' = [links EXCEPT ![selected].position = pos,
                                    ![selected].absoluteButtons = down]
          /\ host' = [told EXCEPT ![c].at = pos]
      BY <1>6 DEF TryMouse
    <2> HIDE DEF told
    <2>2. /\ host' \in [Conn -> HostState]
          /\ host'[c].held = told[c].held
          /\ \A d \in Conn : d # c => host'[d] = host[d]
      <3>1. host'[c] = [told[c] EXCEPT !.at = pos] /\ told[c] \in HostState
        BY <1>1, <1>3, <2>1
      <3>2. host'[c] \in HostState /\ host'[c].held = told[c].held
        BY <3>1 DEF HostState
      <3>3. \A d \in Conn : d # c => host'[d] = told[d]
        BY <1>3, <2>1
      <3>4. QED
        BY <1>1, <1>3, <2>1, <3>2, <3>3
    <2>3. /\ links'[selected] = [links[selected] EXCEPT !.position = pos,
                                                       !.absoluteButtons = down]
          /\ \A s \in Slot : s # selected => links'[s] = links[s]
          /\ links' = [s \in Slot |-> links'[s]]
      BY <1>1, <2>1
    <2>4. \A s \in Slot :
            /\ links'[s] \in Link
            /\ links'[s].handle = links[s].handle
            /\ links'[s].release = links[s].release
            /\ links'[s].absoluteButtons = IF s = selected THEN down
                                           ELSE links[s].absoluteButtons
      <3>1. /\ links'[selected] \in Link
            /\ links'[selected].handle = links[selected].handle
            /\ links'[selected].release = links[selected].release
            /\ links'[selected].absoluteButtons = down
        <4>1. links[selected] \in Link
          BY <1>1
        <4>2. ASSUME NEW link \in Link
              PROVE  LET moved == [link EXCEPT !.position = pos, !.absoluteButtons = down]
                     IN /\ moved \in Link
                        /\ moved.handle = link.handle
                        /\ moved.release = link.release
                        /\ moved.absoluteButtons = down
          BY DEF Link
        <4>3. QED
          BY <2>3, <4>1, <4>2
      <3>2. \A s \in Slot : s # selected => links'[s] = links[s] /\ links[s] \in Link
        BY <1>1, <2>3
      <3>3. QED
        BY <3>1, <3>2, Zenon
    <2>5. links' \in [Slot -> Link]
      BY <2>3, <2>4
    <2>6. QED
      BY <1>1, <1>2, <1>4, <1>6, <2>2, <2>4, <2>5, TellKeeps DEF told
  <1>7. QED
    BY <1>5, <1>6

\* The strengthened invariant is preserved by every step.
THEOREM Inductive == IInv /\ [Next]_vars => IInv'
  <1> SUFFICES ASSUME IInv, [Next]_vars PROVE IInv'
    OBVIOUS
  <1>1. CASE UNCHANGED vars
    BY <1>1 DEF vars, IInv, Open, TypeOK, Good, Unique, Accounted, Tracked, OtherOwed, Other
  <1>2. CASE Environment
    BY <1>2, LinkUpKeeps, LinkLostKeeps DEF Environment
  <1>3. CASE Connections
    BY <1>3, AuthenticatedKeeps, SubscribedKeeps, DisconnectedKeeps, DropKeeps
       DEF Connections
  <1>4. CASE Routing
    BY <1>4, ServiceKeeps, ReleaseAllKeeps, RecoverKeeps, SelectKeeps, SwitchModeKeeps,
       ReorderKeeps DEF Routing
  <1>5. CASE Forwarding
    BY <1>5, TryKeyboardKeeps, TryRelativeMouseKeeps, TryMouseKeeps DEF Forwarding
  <1>6. QED
    BY <1>1, <1>2, <1>3, <1>4, <1>5 DEF Next

\* The strengthened invariant holds in every reachable state.
THEOREM Invariant == Spec => []IInv
  BY InitIInv, Inductive, PTL DEF Spec

-----------------------------------------------------------------------------
\* Every variable keeps its type, for any number of slots and connections.
THEOREM TypeCorrect == Spec => []TypeOK
  <1>1. IInv => TypeOK
    BY DEF IInv
  <1>2. QED
    BY Invariant, <1>1, PTL

\* No computer the input left holds a report that is not owed its release.
THEOREM InputAccountedHolds == Spec => []InputAccounted
  <1>1. IInv => InputAccounted
    BY DEF IInv, Good, Accounted, Open, InputAccounted
  <1>2. QED
    BY Invariant, <1>1, PTL

\* The firmware's memory of pressed absolute buttons is right.
THEOREM ButtonsTrackedHolds == Spec => []ButtonsTracked
  <1>1. IInv => ButtonsTracked
    BY DEF IInv, Good, Tracked, Open, ButtonsTracked
  <1>2. QED
    BY Invariant, <1>1, PTL

\* After a change of pointer mode, what the other mouse report holds is owed.
THEOREM OldPathOwedHolds == Spec => []OldPathOwed
  <1>1. IInv => OldPathOwed
    BY DEF IInv, Good, OtherOwed, Other, Open, OldPathOwed
  <1>2. QED
    BY Invariant, <1>1, PTL
=============================================================================
