------------------------ MODULE HostRouterFocusProofs ------------------------
(***************************************************************************)
(* The refinement of InputFocus by HostRouter, and the two properties of   *)
(* the pointer, ReleasesKeepPosition and NoTeleport, for every value of    *)
(* the constants.                                                          *)
(*                                                                         *)
(* A step either forwards one report to the selected computer (Forwards)   *)
(* or is Quiet: nothing is pressed, what stays held stays owed, no known   *)
(* pointer moves.  The invariant of HostRouterProofs is strengthened by    *)
(* what the links know of the pointers: the link of an open computer       *)
(* carries the position that computer was last told (Placed), so that a    *)
(* neutral report which repeats it moves nothing, and a connection that is *)
(* gone has no position (Absent).                                          *)
(***************************************************************************)
EXTENDS HostRouterProofs

OwedBy(ls, c, id) == \E s \in Slot : ls[s].handle = c /\ id \in ls[s].release

\* From ls and hs to ls2 and hs2 nothing is pressed on an open connection, and
\* what stays held stays owed.
Calms(ls, hs, ls2, hs2, open) ==
    \A c \in open : \A id \in hs2[c].held :
        id \in hs[c].held /\ (OwedBy(ls, c, id) => OwedBy(ls2, c, id))

\* A step that calms the computers, and leaves a computer that lost the focus
\* nothing that is not owed, is a step Settle of InputFocus.
LEMMA CalmIsSettle ==
    ASSUME IInv, IInv', Calms(links, host, links', host', Open'),
           \A c \in Open' : host'[c].held # {} => c \in Open
    PROVE  Focus!Settle
  <1>1. /\ Open = live \ closing /\ Open' = live' \ closing' /\ Open \subseteq Conn
        /\ Open' \subseteq Conn
    BY DEF Open, IInv, TypeOK
  <1>2. Accounted(links', host', selected', Open')
    BY DEF IInv, Good
  <1>3. links'[selected'].handle \in Conn \cup {NoConn}
    BY DEF IInv, TypeOK, Link
  <1>4. QED
    BY <1>1, <1>2, <1>3 DEF Focus!Settle, Focus!Of, Calms, OwedBy, Accounted

-----------------------------------------------------------------------------
(***************************************************************************)
(* What the router's operations do to the input and to the pointer.        *)
(***************************************************************************)
\* One operation after another calms.
LEMMA CalmsTransitive ==
    ASSUME NEW open, NEW ls, NEW hs, NEW ls1, NEW hs1, NEW ls2, NEW hs2,
           Calms(ls, hs, ls1, hs1, open), Calms(ls1, hs1, ls2, hs2, open)
    PROVE  Calms(ls, hs, ls2, hs2, open)
  BY DEF Calms

\* No known pointer moves, and with relative output none of a computer that
\* holds no absolute button.
Steady(hs, hs2, open) ==
    \A c \in open :
        /\ hs[c].at # Unknown => hs2[c].at = hs[c].at
        /\ Absolute /\ ~absoluteOutput /\ "mouse" \notin hs[c].held =>
              hs2[c].at = hs[c].at /\ "mouse" \notin hs2[c].held

\* One operation after another leaves the pointers alone.
LEMMA SteadyTransitive ==
    ASSUME NEW open, NEW hs, NEW hs1, NEW hs2, Steady(hs, hs1, open), Steady(hs1, hs2, open)
    PROVE  Steady(hs, hs2, open)
  BY DEF Steady

\* The link of an open computer remembers the position the computer knows.
Placed(ls, hs, open) ==
    \A c \in open : hs[c].at # Unknown =>
        \E s \in Slot : ls[s].handle = c /\ ls[s].position = hs[c].at

\* A connection that is gone has no position.
Absent == \A c \in Conn \ live : host[c].at = Unknown

Known == IInv /\ Placed(links, host, Open) /\ Absent

\* Serving keeps the position of a link; a computer's pointer moves to that
\* position by an accepted absolute report and in no other way.
LEMMA ServedPositions ==
    ASSUME NEW ls, NEW hs, Typed(ls, hs), NEW ok \in SUBSET (Slot \X ReportId)
    PROVE  /\ \A s \in Slot : ServiceLinks(ls, ok)[s].position = ls[s].position
           /\ \A c \in Conn :
                 \/ ServiceHosts(hs, ls, ok)[c].at = hs[c].at
                 \/ \E s \in Slot : /\ <<s, "mouse">> \in ok /\ ls[s].handle = c
                                    /\ ServiceHosts(hs, ls, ok)[c].at = ls[s].position
  <1>1. ASSUME NEW s \in Slot
        PROVE  ServiceLinks(ls, ok)[s].position = ls[s].position
    <2>1. ls[s] \in Link
      BY DEF Typed
    <2>2. ServiceLinks(ls, ok)[s] =
            [ls[s] EXCEPT !.release = ls[s].release \ Cleared(ls, ok, s),
                          !.absoluteButtons = ls[s].absoluteButtons /\ "mouse" \notin Sent(ok, s)]
      BY DEF ServiceLinks
    <2>3. QED
      BY <2>1, <2>2 DEF Link
  <1>2. ASSUME NEW c \in Conn
        PROVE  \/ ServiceHosts(hs, ls, ok)[c].at = hs[c].at
               \/ \E s \in Slot : /\ <<s, "mouse">> \in ok /\ ls[s].handle = c
                                  /\ ServiceHosts(hs, ls, ok)[c].at = ls[s].position
    <2> DEFINE told == {a \in ok : ls[a[1]].handle = c}
               first == CHOOSE a \in told : a[2] = "mouse"
               at == IF Absolute /\ \E a \in told : a[2] = "mouse"
                     THEN ls[first[1]].position ELSE hs[c].at
    <2>1. ServiceHosts(hs, ls, ok)[c] = [held |-> hs[c].held \ {a[2] : a \in told}, at |-> at]
      BY DEF ServiceHosts
    <2>2. ServiceHosts(hs, ls, ok)[c].at = at
      <3> HIDE DEF at, told
      <3>1. QED
        BY <2>1
    <2>3. CASE Absolute /\ \E a \in told : a[2] = "mouse"
      <3>1. first \in told /\ first[2] = "mouse"
        BY <2>3
      <3>2. first \in Slot \X ReportId
        BY <3>1
      <3>3. first[1] \in Slot /\ first = <<first[1], first[2]>>
        BY <3>2
      <3>4. ls[first[1]].handle = c /\ <<first[1], "mouse">> \in ok
        BY <3>1, <3>3
      <3>5. at = ls[first[1]].position
        BY <2>3
      <3> HIDE DEF at, first, told
      <3>6. QED
        BY <2>2, <3>3, <3>4, <3>5
    <2>4. CASE ~(Absolute /\ \E a \in told : a[2] = "mouse")
      <3>1. at = hs[c].at
        BY <2>4
      <3> HIDE DEF at
      <3>2. QED
        BY <2>2, <3>1
    <2>5. QED
      BY <2>3, <2>4
  <1>3. QED
    BY <1>1, <1>2

\* service(): every neutral report releases, repeats the position the computer
\* knows, and is not sent to a computer that is to be left alone.
LEMMA ServeCalms ==
    ASSUME NEW ls, NEW hs, Typed(ls, hs), NEW ok \in Outcomes(ls), NEW sel, NEW mode,
           Open \in SUBSET Conn, Good(ls, hs, sel, mode, Open), Placed(ls, hs, Open)
    PROVE  LET served == ServiceLinks(ls, ok)
               told == ServiceHosts(hs, ls, ok)
           IN /\ Calms(ls, hs, served, told, Open)
              /\ Steady(hs, told, Open)
              /\ Placed(served, told, Open)
              /\ \A c \in Conn \ live : told[c].at = hs[c].at
  <1> DEFINE served == ServiceLinks(ls, ok)
             told == ServiceHosts(hs, ls, ok)
  <1>1. /\ ok \in SUBSET (Slot \X ReportId)
        /\ \A s \in Slot : <<s, "mouse">> \in ok =>
              "mouse" \notin Silent(ls, s) /\ ls[s].handle \in live
    <2>1. ok \subseteq Acceptable(ls)
      BY DEF Outcomes
    <2>2. \A s \in Slot : <<s, "mouse">> \in Acceptable(ls) =>
              "mouse" \notin Silent(ls, s) /\ ls[s].handle \in live
      BY DEF Acceptable, Attempts
    <2>3. QED
      BY <2>1, <2>2, OutcomesAttempted
  <1>2. \A s \in Slot : /\ served[s].handle = ls[s].handle
                        /\ served[s].position = ls[s].position
    BY <1>1, ServedLinks, ServedPositions DEF Typed
  <1>3. \A s \in Slot : ls[s].handle \in Open =>
          /\ \A id \in ReportId : id \in told[ls[s].handle].held <=>
                id \in hs[ls[s].handle].held /\ id \notin Sent(ok, s)
          /\ told[ls[s].handle].held \subseteq hs[ls[s].handle].held
          /\ \A id \in told[ls[s].handle].held :
                id \in ls[s].release => id \in served[s].release
    BY <1>1, ServedLink DEF Good
  <1>4. \A c \in Conn : told[c].held \subseteq hs[c].held
    BY <1>1, ServedHosts
  <1>5. \A c \in Conn :
          \/ told[c].at = hs[c].at
          \/ \E s \in Slot : /\ <<s, "mouse">> \in ok /\ ls[s].handle = c
                             /\ told[c].at = ls[s].position
    BY <1>1, ServedPositions
  <1> HIDE DEF served, told
  <1>6. Calms(ls, hs, served, told, Open)
    <2> SUFFICES ASSUME NEW c \in Open, NEW id \in told[c].held, NEW s \in Slot,
                        ls[s].handle = c, id \in ls[s].release
                 PROVE  \E t \in Slot : served[t].handle = c /\ id \in served[t].release
      BY <1>4 DEF Calms, OwedBy
    <2>1. QED
      BY <1>2, <1>3
  <1>7. Steady(hs, told, Open)
    <2> SUFFICES ASSUME NEW c \in Open
                 PROVE  /\ hs[c].at # Unknown => told[c].at = hs[c].at
                        /\ Absolute /\ ~absoluteOutput /\ "mouse" \notin hs[c].held =>
                              told[c].at = hs[c].at /\ "mouse" \notin told[c].held
      BY DEF Steady
    <2>1. CASE told[c].at = hs[c].at
      BY <1>4, <2>1
    <2>2. ASSUME NEW s \in Slot, <<s, "mouse">> \in ok, ls[s].handle = c,
                 told[c].at = ls[s].position
          PROVE  /\ hs[c].at # Unknown => told[c].at = hs[c].at
                 /\ Absolute /\ ~absoluteOutput /\ "mouse" \notin hs[c].held =>
                       told[c].at = hs[c].at /\ "mouse" \notin told[c].held
      <3>1. hs[c].at # Unknown => told[c].at = hs[c].at
        <4>1. SUFFICES ASSUME hs[c].at # Unknown
                       PROVE  told[c].at = hs[c].at
          OBVIOUS
        <4>2. PICK t \in Slot : ls[t].handle = c /\ ls[t].position = hs[c].at
          BY <4>1 DEF Placed
        <4>3. t = s
          BY <2>2, <4>2, ConnAssumption DEF Good, Unique
        <4>4. QED
          BY <2>2, <4>2, <4>3
      <3>2. ~(Absolute /\ ~absoluteOutput /\ "mouse" \notin hs[c].held)
        BY <1>1, <2>2 DEF Silent, Good, Tracked
      <3>3. QED
        BY <3>1, <3>2
    <2>3. QED
      BY <1>5, <2>1, <2>2
  <1>8. Placed(served, told, Open)
    <2> SUFFICES ASSUME NEW c \in Open, told[c].at # Unknown
                 PROVE  \E s \in Slot : ls[s].handle = c /\ ls[s].position = told[c].at
      BY <1>2 DEF Placed
    <2>1. CASE told[c].at = hs[c].at
      BY <2>1 DEF Placed
    <2>2. CASE \E s \in Slot : ls[s].handle = c /\ told[c].at = ls[s].position
      BY <2>2
    <2>3. QED
      BY <1>5, <2>1, <2>2
  <1>9. \A c \in Conn \ live : told[c].at = hs[c].at
    BY <1>1, <1>5
  <1>10. QED
    BY <1>6, <1>7, <1>8, <1>9 DEF served, told

\* Owing releases moves and presses nothing.
LEMMA OweCalms ==
    ASSUME NEW ls, NEW hs, Typed(ls, hs), NEW slots \in SUBSET Slot, NEW open \in SUBSET Conn,
           Placed(ls, hs, open)
    PROVE  Calms(ls, hs, OweAll(ls, slots), hs, open) /\ Placed(OweAll(ls, slots), hs, open)
  <1> DEFINE owing == OweAll(ls, slots)
  <1>1. \A s \in Slot : /\ owing[s].handle = ls[s].handle /\ owing[s].position = ls[s].position
                        /\ ls[s].release \subseteq owing[s].release
    <2> SUFFICES ASSUME NEW s \in Slot
                 PROVE  /\ owing[s].handle = ls[s].handle /\ owing[s].position = ls[s].position
                        /\ ls[s].release \subseteq owing[s].release
      OBVIOUS
    <2>1. ls[s] \in Link
      BY DEF Typed
    <2>2. owing[s] = IF s \in slots THEN [ls[s] EXCEPT !.release = ReportId] ELSE ls[s]
      BY DEF OweAll
    <2>3. QED
      BY <2>1, <2>2 DEF Link
  <1> HIDE DEF owing
  <1>2. QED
    BY <1>1 DEF Calms, OwedBy, Placed, owing

\* Owing releases and serving once.
LEMMA OwedServe ==
    ASSUME NEW ls, NEW hs, Typed(ls, hs), NEW slots \in SUBSET Slot, NEW sel \in Slot, NEW mode,
           Open \in SUBSET Conn, Good(ls, hs, sel, mode, Open), Placed(ls, hs, Open),
           NEW ok \in Outcomes(OweAll(ls, slots))
    PROVE  LET served == ServiceLinks(OweAll(ls, slots), ok)
               told == ServiceHosts(hs, OweAll(ls, slots), ok)
           IN /\ Calms(ls, hs, served, told, Open)
              /\ Steady(hs, told, Open)
              /\ Placed(served, told, Open)
              /\ \A c \in Conn \ live : told[c].at = hs[c].at
  <1> DEFINE owing == OweAll(ls, slots)
             served == ServiceLinks(owing, ok)
             told == ServiceHosts(hs, owing, ok)
  <1>1. Typed(owing, hs) /\ Good(owing, hs, sel, mode, Open)
    BY OweKeeps
  <1>2. Calms(ls, hs, owing, hs, Open) /\ Placed(owing, hs, Open)
    BY OweCalms
  <1>3. ok \in Outcomes(owing)
    OBVIOUS
  <1> HIDE DEF owing
  <1>4. /\ Calms(owing, hs, served, told, Open) /\ Steady(hs, told, Open)
        /\ Placed(served, told, Open)
        /\ \A c \in Conn \ live : told[c].at = hs[c].at
    BY <1>1, <1>2, <1>3, ServeCalms
  <1> HIDE DEF served, told
  <1>5. Calms(ls, hs, served, told, Open)
    BY <1>2, <1>4, CalmsTransitive
  <1>6. QED
    BY <1>4, <1>5 DEF served, told, owing

\* Giving a connection up changes nothing for the others.
LEMMA DisconnectCalms ==
    ASSUME NEW ls, NEW hs, NEW c \in Conn, NEW open \in SUBSET Conn, Placed(ls, hs, open)
    PROVE  /\ Calms(ls, hs, Disconnect(ls, c), hs, open \ {c})
           /\ Placed(Disconnect(ls, c), hs, open \ {c})
  <1> DEFINE gone == Disconnect(ls, c)
  <1>1. \A s \in Slot : ls[s].handle # c => gone[s] = ls[s]
    BY DEF Disconnect
  <1> HIDE DEF gone
  <1>2. Calms(ls, hs, gone, hs, open \ {c})
    BY <1>1 DEF Calms, OwedBy
  <1>3. Placed(gone, hs, open \ {c})
    BY <1>1 DEF Placed
  <1>4. QED
    BY <1>2, <1>3 DEF gone

\* Fewer connections are calmed when more are.
LEMMA CalmsFewer ==
    ASSUME NEW ls, NEW hs, NEW ls2, NEW hs2, NEW open, NEW fewer \in SUBSET open,
           Calms(ls, hs, ls2, hs2, open)
    PROVE  Calms(ls, hs, ls2, hs2, fewer)
  BY DEF Calms

-----------------------------------------------------------------------------
(***************************************************************************)
(* Steps that forward no input.                                            *)
(***************************************************************************)
\* Such a step calms, moves no pointer, and keeps the positions known.
Quiet ==
    /\ Calms(links, host, links', host', Open')
    /\ \A c \in Open' : host'[c].held # {} => c \in Open
    /\ Open' \subseteq live' \ closing
    /\ Steady(host, host', live' \ closing)
    /\ Placed(links', host', Open')
    /\ Absent'

\* A connection comes up: its computer holds nothing and knows no position.
LEMMA LinkUpQuiet == ASSUME Known, NEW c \in Conn, LinkUp(c) PROVE Quiet
  <1>1. /\ host \in [Conn -> HostState] /\ live \subseteq Conn
        /\ closing \subseteq live /\ c \notin live
    BY DEF Known, IInv, TypeOK, LinkUp
  <1>2. /\ links' = links /\ live' = live \cup {c} /\ closing' = closing
        /\ Open' = Open \cup {c} /\ Open \subseteq Conn
    BY <1>1 DEF LinkUp, Open
  <1>3. /\ host'[c].held = {} /\ host'[c].at = Unknown
        /\ \A d \in Conn : d # c => host'[d] = host[d]
    BY <1>1 DEF LinkUp, FreshHost
  <1>4. /\ host[c].at = Unknown /\ Placed(links, host, Open)
        /\ \A d \in Conn \ live : host[d].at = Unknown
    BY <1>1 DEF Known, Absent
  <1>5. Calms(links, host, links', host', Open')
    BY <1>2, <1>3 DEF Calms
  <1>6. \A d \in Open' : host'[d].held # {} => d \in Open
    BY <1>2, <1>3
  <1>7. Steady(host, host', live' \ closing)
    BY <1>1, <1>2, <1>3, <1>4 DEF Steady
  <1>8. Placed(links', host', Open')
    BY <1>2, <1>3, <1>4 DEF Placed
  <1>9. Absent'
    BY <1>2, <1>3, <1>4 DEF Absent
  <1>10. QED
    BY <1>1, <1>2, <1>5, <1>6, <1>7, <1>8, <1>9 DEF Quiet, Open

\* A connection is lost, and with it all its computer held and knew.
LEMMA LinkLostQuiet == ASSUME Known, NEW c \in Conn, LinkLost(c) PROVE Quiet
  <1>1. /\ host \in [Conn -> HostState] /\ live \subseteq Conn
        /\ closing \subseteq live
    BY DEF Known, IInv, TypeOK
  <1>2. /\ links' = links /\ live' = live \ {c} /\ Open' = Open \ {c} /\ Open \subseteq Conn
    BY <1>1 DEF LinkLost, Open
  <1>3. /\ host'[c].at = Unknown
        /\ \A d \in Conn : d # c => host'[d] = host[d]
    BY <1>1 DEF LinkLost, FreshHost
  <1>4. Placed(links, host, Open) /\ \A d \in Conn \ live : host[d].at = Unknown
    BY DEF Known, Absent
  <1>5. Calms(links, host, links', host', Open')
    BY <1>2, <1>3 DEF Calms
  <1>6. Steady(host, host', live' \ closing)
    BY <1>1, <1>2, <1>3 DEF Steady
  <1>7. Placed(links', host', Open')
    BY <1>2, <1>3, <1>4 DEF Placed
  <1>8. Absent'
    BY <1>2, <1>3, <1>4 DEF Absent
  <1>9. Open' \subseteq live' \ closing
    BY <1>2 DEF Open
  <1>10. QED
    BY <1>2, <1>5, <1>6, <1>7, <1>8, <1>9 DEF Quiet

\* A step that tells the computers nothing is quiet when no link that is open
\* loses its release bits or its position.
LEMMA SilentQuiet ==
    ASSUME Known, host' = host, live' = live, Open' \subseteq Open,
           \A s \in Slot : links[s].handle \in Open' =>
              /\ links'[s].handle = links[s].handle
              /\ links'[s].position = links[s].position
              /\ links[s].release \subseteq links'[s].release
    PROVE  Quiet
  <1>1. Calms(links, host, links', host', Open')
    BY DEF Calms, OwedBy
  <1>2. Steady(host, host', live' \ closing)
    BY DEF Steady
  <1>3. Placed(links', host', Open')
    BY DEF Known, Placed
  <1>4. Absent'
    BY DEF Known, Absent
  <1>5. Open' \subseteq live' \ closing
    BY DEF Open
  <1>6. QED
    BY <1>1, <1>2, <1>3, <1>4, <1>5 DEF Quiet

\* The link that comes up takes a slot no connection has.
LEMMA AuthenticatedQuiet ==
    ASSUME Known, NEW s \in Slot, NEW c \in Conn, NEW subs \in SubscriptionSet,
           Authenticated(s, c, subs)
    PROVE  Quiet
  <1>1. links \in [Slot -> Link] /\ Open \subseteq Conn
    BY DEF Known, IInv, TypeOK, Open
  <1>2. /\ links[s].handle = NoConn /\ host' = host /\ live' = live /\ Open' = Open
        /\ links' = Ready(Connect(links, s, c), s, subs)
    BY DEF Authenticated, Open
  <1>3. \A t \in Slot : t # s => links'[t] = links[t]
    BY <1>1, <1>2 DEF Ready, Connect
  <1>4. \A t \in Slot : links[t].handle \in Open => links'[t] = links[t]
    BY <1>1, <1>2, <1>3, ConnAssumption
  <1>5. QED
    BY <1>2, <1>4, SilentQuiet

\* A change of subscriptions owes more releases, never less.
LEMMA SubscribedQuiet ==
    ASSUME Known, NEW s \in Slot, NEW subs \in SubscriptionSet, Subscribed(s, subs)
    PROVE  Quiet
  <1> DEFINE changed == ~links[s].ready \/ links[s].subscriptions # subs
             owed == IF changed THEN ReportId ELSE links[s].release
  <1>1. links \in [Slot -> Link] /\ links[s] \in Link
    BY DEF Known, IInv, TypeOK
  <1>2. links' = [links EXCEPT ![s].release = owed, ![s].ready = TRUE,
                               ![s].subscriptions = subs]
    BY DEF Subscribed, Ready
  <1>3. host' = host /\ live' = live /\ Open' = Open
    BY DEF Subscribed, Open
  <1>4. links[s].release \subseteq owed
    BY <1>1 DEF Link
  <1> HIDE DEF owed, changed
  <1>5. /\ links'[s] = [links[s] EXCEPT !.release = owed, !.ready = TRUE,
                                       !.subscriptions = subs]
        /\ \A t \in Slot : t # s => links'[t] = links[t]
    BY <1>1, <1>2
  <1>6. /\ links'[s].handle = links[s].handle /\ links'[s].position = links[s].position
        /\ links[s].release \subseteq links'[s].release
    BY <1>1, <1>4, <1>5 DEF Link
  <1>7. \A t \in Slot : /\ links'[t].handle = links[t].handle
                        /\ links'[t].position = links[t].position
                        /\ links[t].release \subseteq links'[t].release
    BY <1>5, <1>6
  <1>8. QED
    BY <1>3, <1>7, SilentQuiet

\* The link of a connection that is gone is forgotten.
LEMMA DisconnectedQuiet == ASSUME Known, NEW c \in Conn, Disconnected(c) PROVE Quiet
  <1>1. /\ links' = Disconnect(links, c) /\ host' = host /\ live' = live /\ Open' = Open
        /\ c \notin Open
    BY DEF Disconnected, Open
  <1>2. \A s \in Slot : links[s].handle \in Open => links'[s] = links[s]
    BY <1>1 DEF Disconnect
  <1>3. QED
    BY <1>1, <1>2, SilentQuiet

\* A connection given up is no longer open.
LEMMA DropQuiet == ASSUME Known, NEW c \in Conn, Drop(c) PROVE Quiet
  <1>1. /\ links' = Disconnect(links, c) /\ host' = host /\ live' = live
        /\ Open' = Open \ {c}
    BY DEF Drop, Open
  <1>2. \A s \in Slot : links[s].handle \in Open' => links'[s] = links[s]
    BY <1>1 DEF Disconnect
  <1>3. QED
    BY <1>1, <1>2, SilentQuiet

-----------------------------------------------------------------------------
\* The steps that serve.
LEMMA ServingQuiet ==
    ASSUME Known, live' = live, closing \subseteq closing',
           Calms(links, host, links', host', Open'), Steady(host, host', Open),
           Placed(links', host', Open'),
           \A c \in Conn \ live : host'[c].at = host[c].at
    PROVE  Quiet
  <1>1. Open' \subseteq Open /\ live' \ closing = Open
    BY DEF Open
  <1>2. Absent'
    BY DEF Known, Absent
  <1>3. QED
    BY <1>1, <1>2 DEF Quiet

\* The invariant in the form the lemmas about tables take.
LEMMA KnownTables ==
    Known => /\ Typed(links, host) /\ Open \in SUBSET Conn /\ selected \in Slot
             /\ Good(links, host, selected, absoluteOutput, Open)
             /\ Placed(links, host, Open)
  BY IInvTables DEF Known

\* The loop serves.
LEMMA ServiceQuiet == ASSUME Known, Service PROVE Quiet
  <1>1. PICK ok \in Outcomes(links) :
          links' = ServiceLinks(links, ok) /\ host' = ServiceHosts(host, links, ok)
    BY DEF Service, Serve
  <1>2. live' = live /\ closing' = closing /\ Open' = Open
    BY DEF Service, Open
  <1>3. /\ Calms(links, host, links', host', Open) /\ Steady(host, host', Open)
        /\ Placed(links', host', Open)
        /\ \A c \in Conn \ live : host'[c].at = host[c].at
    BY <1>1, KnownTables, ServeCalms
  <1>4. QED
    BY <1>2, <1>3, ServingQuiet

\* releaseAll() owes everything and serves.
LEMMA ReleaseAllQuiet == ASSUME Known, ReleaseAll PROVE Quiet
  <1>1. PICK ok \in Outcomes(OweAll(links, Slot)) :
          /\ links' = ServiceLinks(OweAll(links, Slot), ok)
          /\ host' = ServiceHosts(host, OweAll(links, Slot), ok)
    BY DEF ReleaseAll, Serve
  <1>2. live' = live /\ closing' = closing /\ Open' = Open
    BY DEF ReleaseAll, Open
  <1>3. /\ Calms(links, host, links', host', Open) /\ Steady(host, host', Open)
        /\ Placed(links', host', Open)
        /\ \A c \in Conn \ live : host'[c].at = host[c].at
    BY <1>1, KnownTables, OwedServe
  <1>4. QED
    BY <1>2, <1>3, ServingQuiet

\* Selecting owes two slots and serves.
LEMMA SelectQuiet == ASSUME Known, NEW t \in Slot, Select(t) PROVE Quiet
  <1> DEFINE slots == {selected, t}
  <1>1. PICK ok \in Outcomes(OweAll(links, slots)) :
          /\ links' = ServiceLinks(OweAll(links, slots), ok)
          /\ host' = ServiceHosts(host, OweAll(links, slots), ok)
    BY DEF Select, Serve
  <1>2. live' = live /\ closing' = closing /\ Open' = Open
    BY DEF Select, Open
  <1>3. slots \in SUBSET Slot
    BY KnownTables
  <1> HIDE DEF slots
  <1>4. /\ Calms(links, host, links', host', Open) /\ Steady(host, host', Open)
        /\ Placed(links', host', Open)
        /\ \A c \in Conn \ live : host'[c].at = host[c].at
    BY <1>1, <1>3, KnownTables, OwedServe
  <1>5. QED
    BY <1>2, <1>4, ServingQuiet

\* Recovery releases, then gives up the connection of the selected computer.
LEMMA RecoverQuiet == ASSUME Known, Recover PROVE Quiet
  <1> DEFINE c == links[selected].handle
  <1>1. PICK ok \in Outcomes(OweAll(links, Slot)) :
          /\ links' = IF c = NoConn THEN ServiceLinks(OweAll(links, Slot), ok)
                      ELSE Disconnect(ServiceLinks(OweAll(links, Slot), ok), c)
          /\ host' = ServiceHosts(host, OweAll(links, Slot), ok)
    BY DEF Recover
  <1> DEFINE served == ServiceLinks(OweAll(links, Slot), ok)
  <1>2. /\ live' = live /\ closing' = closing \cup ({c} \cap live)
        /\ Open' = Open \ {c} /\ c \in Conn \cup {NoConn}
    BY DEF Recover, Open, Known, IInv, TypeOK, Link
  <1>3. /\ Calms(links, host, served, host', Open) /\ Steady(host, host', Open)
        /\ Placed(served, host', Open)
        /\ \A d \in Conn \ live : host'[d].at = host[d].at
    BY <1>1, KnownTables, OwedServe
  <1>4. Open \in SUBSET Conn /\ Open' \in SUBSET Open
    BY <1>2, KnownTables
  <1> HIDE DEF served, c
  <1>5. Calms(links, host, links', host', Open') /\ Placed(links', host', Open')
    <2>1. CASE c = NoConn
      <3>1. Open' = Open /\ links' = served
        BY <1>1, <1>2, <1>4, <2>1, ConnAssumption DEF served
      <3>2. QED
        BY <1>3, <3>1
    <2>2. CASE c # NoConn
      <3>1. links' = Disconnect(served, c) /\ c \in Conn
        BY <1>1, <1>2, <2>2 DEF served
      <3>2. Calms(served, host', links', host', Open') /\ Placed(links', host', Open')
        BY <1>2, <1>3, <1>4, <3>1, DisconnectCalms
      <3>3. Calms(links, host, served, host', Open')
        BY <1>3, <1>4, CalmsFewer
      <3>4. QED
        BY <3>2, <3>3, CalmsTransitive
    <2>3. QED
      BY <2>1, <2>2
  <1>6. QED
    BY <1>2, <1>3, <1>5, ServingQuiet

\* A change of the pointer mode serves once, or twice when it also selects.
LEMMA SwitchModeQuiet ==
    ASSUME Known, NEW t \in Slot, NEW mode \in BOOLEAN, SwitchMode(t, mode)
    PROVE  Quiet
  <1> DEFINE ls == OweAll(links, Slot)
  <1>1. PICK ok \in Outcomes(ls) :
          LET served == ServiceLinks(ls, ok)
              told == ServiceHosts(host, ls, ok)
              again == OweAll(served, {selected, t})
          IN IF t = selected
             THEN links' = served /\ host' = told
             ELSE \E ok2 \in Outcomes(again) :
                      /\ links' = ServiceLinks(again, ok2)
                      /\ host' = ServiceHosts(told, again, ok2)
    BY DEF SwitchMode
  <1> DEFINE served == ServiceLinks(ls, ok)
             told == ServiceHosts(host, ls, ok)
             slots == {selected, t}
             again == OweAll(served, slots)
  <1>2. live' = live /\ closing' = closing /\ Open' = Open
    BY DEF SwitchMode, Open
  <1>3. /\ Calms(links, host, served, told, Open) /\ Steady(host, told, Open)
        /\ Placed(served, told, Open)
        /\ \A c \in Conn \ live : told[c].at = host[c].at
    BY KnownTables, OwedServe
  <1>4. Typed(served, told) /\ Good(served, told, selected, absoluteOutput, Open)
    BY ReleasedAll DEF Known
  <1>5. \/ links' = served /\ host' = told
        \/ \E ok2 \in Outcomes(again) : /\ links' = ServiceLinks(again, ok2)
                                        /\ host' = ServiceHosts(told, again, ok2)
    BY <1>1
  <1> HIDE DEF served, told
  <1>6. CASE links' = served /\ host' = told
    BY <1>2, <1>3, <1>6, ServingQuiet
  <1>7. ASSUME NEW ok2 \in Outcomes(again), links' = ServiceLinks(again, ok2),
               host' = ServiceHosts(told, again, ok2)
        PROVE  Quiet
    <2>1. slots \in SUBSET Slot
      BY KnownTables
    <2> HIDE DEF slots
    <2>2. /\ Calms(served, told, links', host', Open) /\ Steady(told, host', Open)
          /\ Placed(links', host', Open)
          /\ \A c \in Conn \ live : host'[c].at = told[c].at
      BY <1>3, <1>4, <1>7, <2>1, KnownTables, OwedServe
    <2>3. Calms(links, host, links', host', Open) /\ Steady(host, host', Open)
      BY <1>3, <2>2, CalmsTransitive, SteadyTransitive
    <2>4. QED
      BY <1>2, <1>3, <2>2, <2>3, ServingQuiet
  <1>8. QED
    BY <1>5, <1>6, <1>7

\* Reordering serves, and then every link moves with what it owes.
LEMMA ReorderQuiet == ASSUME Known, NEW order \in Orders, Reorder(order) PROVE Quiet
  <1>1. PICK ok \in Outcomes(OweAll(links, Slot)) :
          /\ links' = [s \in Slot |-> ServiceLinks(OweAll(links, Slot), ok)[order[s]]]
          /\ host' = ServiceHosts(host, OweAll(links, Slot), ok)
    BY DEF Reorder
  <1> DEFINE served == ServiceLinks(OweAll(links, Slot), ok)
  <1>2. live' = live /\ closing' = closing /\ Open' = Open
    BY DEF Reorder, Open
  <1>3. /\ Calms(links, host, served, host', Open) /\ Steady(host, host', Open)
        /\ Placed(served, host', Open)
        /\ \A d \in Conn \ live : host'[d].at = host[d].at
    BY <1>1, KnownTables, OwedServe
  <1>4. \A s \in Slot : order[s] \in Slot /\ links'[s] = served[order[s]]
    BY <1>1 DEF Orders
  <1>5. \A t \in Slot : \E s \in Slot : order[s] = t
    BY DEF Orders
  <1> HIDE DEF served
  <1>6. \A t \in Slot : \E s \in Slot : links'[s] = served[t]
    BY <1>4, <1>5
  <1>7. Calms(served, host', links', host', Open)
    BY <1>6 DEF Calms, OwedBy
  <1>8. Placed(links', host', Open)
    BY <1>3, <1>6 DEF Placed
  <1>9. Calms(links, host, links', host', Open)
    BY <1>3, <1>7, CalmsTransitive
  <1>10. QED
    BY <1>2, <1>3, <1>8, <1>9, ServingQuiet

-----------------------------------------------------------------------------
(***************************************************************************)
(* Steps that forward input.                                               *)
(***************************************************************************)
\* A report accepted by the selected computer, whose connection is c: nothing
\* is told to another computer and no release bit changes; only an absolute
\* report puts the pointer somewhere, and the link remembers where.
Forwards(c, id, down) ==
    /\ UNCHANGED <<selected, absoluteOutput, live, closing>>
    /\ CanSend(id)
    /\ \A d \in Conn : d # c => host'[d] = host[d]
    /\ host'[c].held = IF down THEN host[c].held \cup {id} ELSE host[c].held \ {id}
    /\ \A s \in Slot : s # selected => links'[s] = links[s]
    /\ links' = [links EXCEPT ![selected] = links'[selected]]
    /\ links'[selected].handle = c
    /\ links'[selected].release = links[selected].release
    /\ \/ /\ host'[c].at \in {host[c].at, Unknown}
          /\ links'[selected].position = links[selected].position
       \/ /\ host'[c].at = links'[selected].position
          /\ Absolute => absoluteOutput

\* What Tell() makes of the table of computers.
LEMMA TellOne ==
    ASSUME IInv, NEW id \in ReportId, NEW down \in BOOLEAN, NEW c \in Conn,
           NEW told, told = Tell(c, id, down)
    PROVE  /\ \A d \in Conn : d # c => told[d] = host[d]
           /\ told[c].at = host[c].at
           /\ told[c].held = IF down THEN host[c].held \cup {id} ELSE host[c].held \ {id}
  <1> DEFINE held == IF down THEN host[c].held \cup {id} ELSE host[c].held \ {id}
  <1>1. host \in [Conn -> HostState] /\ host[c] \in HostState
    BY DEF IInv, TypeOK
  <1>2. told = [host EXCEPT ![c] = [host[c] EXCEPT !.held = held]]
    BY <1>1 DEF Tell
  <1> HIDE DEF held
  <1>3. /\ told[c] = [host[c] EXCEPT !.held = held]
        /\ \A d \in Conn : d # c => told[d] = host[d]
    BY <1>1, <1>2
  <1>4. told[c].at = host[c].at /\ told[c].held = held
    BY <1>1, <1>3 DEF HostState
  <1>5. QED
    BY <1>3, <1>4 DEF held

\* A report that carries no position, and may move the pointer off its own.
LEMMA PlainForwards ==
    ASSUME IInv, NEW id \in ReportId, NEW down \in BOOLEAN, NEW c \in Conn,
           c = links[selected].handle, CanSend(id), links' = links,
           \/ host' = Tell(c, id, down)
           \/ host' = [Tell(c, id, down) EXCEPT ![c].at = Unknown],
           UNCHANGED <<selected, absoluteOutput, live, closing>>
    PROVE  Forwards(c, id, down)
  <1> DEFINE told == Tell(c, id, down)
  <1>1. /\ \A d \in Conn : d # c => told[d] = host[d]
        /\ told[c].at = host[c].at
        /\ told[c].held = IF down THEN host[c].held \cup {id} ELSE host[c].held \ {id}
    <2> DEFINE held == IF down THEN host[c].held \cup {id} ELSE host[c].held \ {id}
    <2>1. host \in [Conn -> HostState] /\ host[c] \in HostState
      BY DEF IInv, TypeOK
    <2>2. told = [host EXCEPT ![c] = [host[c] EXCEPT !.held = held]]
      BY <2>1 DEF Tell
    <2> HIDE DEF held, told
    <2>3. /\ told[c] = [host[c] EXCEPT !.held = held]
          /\ \A d \in Conn : d # c => told[d] = host[d]
      BY <2>1, <2>2
    <2>4. told[c].at = host[c].at /\ told[c].held = held
      BY <2>1, <2>3 DEF HostState
    <2>5. QED
      BY <2>3, <2>4 DEF held
  <1>2. told \in [Conn -> HostState]
    BY Told
  <1> HIDE DEF told
  <1>3. /\ host'[c].held = told[c].held
        /\ host'[c].at \in {told[c].at, Unknown}
        /\ \A d \in Conn : d # c => host'[d] = told[d]
    BY <1>2, Displaced DEF told
  <1>4. links \in [Slot -> Link] /\ selected \in Slot
    BY DEF IInv, TypeOK
  <1>5. links' = [links EXCEPT ![selected] = links'[selected]]
    BY <1>4
  <1>6. QED
    BY <1>1, <1>3, <1>5 DEF Forwards

\* The keyboard report carries no position.
LEMMA TryKeyboardForwards ==
    ASSUME IInv, NEW down \in BOOLEAN, TryKeyboard(down)
    PROVE  Forwards(links[selected].handle, "keyboard", down)
  <1>1. links[selected].handle \in Conn /\ "keyboard" \in ReportId
    BY DEF TryKeyboard, CanSend, IInv, TypeOK, Link, ReportId
  <1>2. QED
    BY <1>1, PlainForwards DEF TryKeyboard

\* The relative report carries motion, which takes the pointer off its position.
LEMMA TryRelativeMouseForwards ==
    ASSUME IInv, NEW down \in BOOLEAN, NEW moves \in BOOLEAN, TryRelativeMouse(down, moves)
    PROVE  Forwards(links[selected].handle, "relative", down)
  <1>1. links[selected].handle \in Conn /\ "relative" \in ReportId
    BY DEF TryRelativeMouse, CanSend, IInv, TypeOK, Link, ReportId
  <1>2. QED
    BY <1>1, PlainForwards DEF TryRelativeMouse

\* The absolute report sets the pointer, and the link remembers the position.
LEMMA TryMouseForwards ==
    ASSUME IInv, NEW down \in BOOLEAN, NEW pos \in Position, TryMouse(down, pos)
    PROVE  Forwards(links[selected].handle, "mouse", down)
  <1> DEFINE c == links[selected].handle
             told == Tell(c, "mouse", down)
  <1>1. /\ c \in Conn /\ "mouse" \in ReportId /\ links \in [Slot -> Link]
        /\ selected \in Slot /\ links[selected] \in Link
    BY DEF TryMouse, CanSend, IInv, TypeOK, Link, ReportId
  <1>2. CanSend("mouse") /\ UNCHANGED <<selected, absoluteOutput, live, closing>>
    BY DEF TryMouse
  <1>3. CASE ~Absolute
    BY <1>1, <1>2, <1>3, PlainForwards DEF TryMouse
  <1>4. CASE Absolute
    <2>1. /\ links' = [links EXCEPT ![selected].position = pos,
                                    ![selected].absoluteButtons = down]
          /\ host' = [told EXCEPT ![c].at = pos]
          /\ absoluteOutput
      BY <1>4 DEF TryMouse
    <2>2. /\ told \in [Conn -> HostState]
          /\ \A d \in Conn : d # c => told[d] = host[d]
          /\ told[c].held = IF down THEN host[c].held \cup {"mouse"}
                            ELSE host[c].held \ {"mouse"}
      <3>1. /\ \A d \in Conn : d # c => told[d] = host[d]
            /\ told[c].held = IF down THEN host[c].held \cup {"mouse"}
                              ELSE host[c].held \ {"mouse"}
        BY <1>1, TellOne
      <3>2. told \in [Conn -> HostState]
        BY <1>1, Told
      <3>3. QED
        BY <3>1, <3>2
    <2> HIDE DEF told
    <2>3. host'[c] = [told[c] EXCEPT !.at = pos] /\ told[c] \in HostState
      BY <1>1, <2>1, <2>2
    <2>4. host'[c].held = told[c].held /\ host'[c].at = pos
      BY <2>3 DEF HostState
    <2>5. \A d \in Conn : d # c => host'[d] = host[d]
      BY <1>1, <2>1, <2>2
    <2>6. /\ links'[selected] = [links[selected] EXCEPT !.position = pos,
                                                       !.absoluteButtons = down]
          /\ \A s \in Slot : s # selected => links'[s] = links[s]
          /\ links' = [links EXCEPT ![selected] = links'[selected]]
      BY <1>1, <2>1
    <2>7. /\ links'[selected].position = pos
          /\ links'[selected].handle = c
          /\ links'[selected].release = links[selected].release
      BY <1>1, <2>6 DEF Link
    <2> HIDE DEF c
    <2>8. QED
      BY <1>2, <2>1, <2>2, <2>4, <2>5, <2>6, <2>7 DEF Forwards, c
  <1>5. QED
    BY <1>3, <1>4

\* Whatever is forwarded is one of these reports.
LEMMA ForwardingForwards ==
    ASSUME IInv, Forwarding
    PROVE  \E id \in ReportId, down \in BOOLEAN : Forwards(links[selected].handle, id, down)
  <1>1. /\ "keyboard" \in ReportId /\ "mouse" \in ReportId /\ "relative" \in ReportId
    BY DEF ReportId
  <1>2. ASSUME NEW down \in BOOLEAN, NEW moves \in BOOLEAN,
               TryKeyboard(down) \/ TryRelativeMouse(down, moves)
        PROVE  \E id \in ReportId, d \in BOOLEAN : Forwards(links[selected].handle, id, d)
    BY <1>1, <1>2, TryKeyboardForwards, TryRelativeMouseForwards
  <1>3. ASSUME NEW down \in BOOLEAN, NEW pos \in Position, TryMouse(down, pos)
        PROVE  \E id \in ReportId, d \in BOOLEAN : Forwards(links[selected].handle, id, d)
    BY <1>1, <1>3, TryMouseForwards
  <1>4. QED
    BY <1>2, <1>3 DEF Forwarding

\* Where the pointer is stays known.
LEMMA ForwardsPlaces ==
    ASSUME Known, NEW c, c = links[selected].handle, NEW id, NEW down, Forwards(c, id, down)
    PROVE  Placed(links', host', Open') /\ Absent'
  <1>1. /\ Open' = Open /\ live' = live /\ c \in live /\ Open \subseteq Conn
        /\ selected \in Slot /\ Placed(links, host, Open)
        /\ \A d \in Conn \ live : host[d].at = Unknown
    BY DEF Forwards, CanSend, Open, Known, Absent, IInv, TypeOK
  <1>2. Absent'
    BY <1>1 DEF Absent, Forwards
  <1>3. \A s \in Slot : links[s].handle = c => s = selected
    BY <1>1 DEF Known, IInv, Good, Unique, Forwards, CanSend
  <1>4. ASSUME NEW d \in Open, host'[d].at # Unknown
        PROVE  \E s \in Slot : links'[s].handle = d /\ links'[s].position = host'[d].at
    <2>1. CASE d # c
      <3>1. host'[d] = host[d]
        BY <1>1, <2>1 DEF Forwards
      <3>2. PICK s \in Slot : links[s].handle = d /\ links[s].position = host[d].at
        BY <1>1, <1>4, <3>1 DEF Placed
      <3>3. links'[s] = links[s]
        BY <2>1, <3>2 DEF Forwards
      <3>4. QED
        BY <3>1, <3>2, <3>3
    <2>2. CASE d = c /\ host'[c].at = links'[selected].position
      BY <1>1, <2>2 DEF Forwards
    <2>3. CASE /\ d = c /\ host'[c].at \in {host[c].at, Unknown}
               /\ links'[selected].position = links[selected].position
      <3>1. PICK s \in Slot : links[s].handle = c /\ links[s].position = host'[c].at
        BY <1>1, <1>4, <2>3 DEF Placed
      <3>2. s = selected
        BY <1>3, <3>1
      <3>3. QED
        BY <1>1, <2>3, <3>1, <3>2 DEF Forwards
    <2>4. QED
      BY <2>1, <2>2, <2>3 DEF Forwards
  <1>5. QED
    BY <1>1, <1>2, <1>4 DEF Placed

\* A press is the step Press of InputFocus; every other report settles.
LEMMA ForwardsFocus ==
    ASSUME IInv, NEW c, c = links[selected].handle, NEW id \in ReportId, NEW down \in BOOLEAN,
           Forwards(c, id, down)
    PROVE  Focus!Settle \/ Focus!Press(id)
  <1>1. /\ Open = live \ closing /\ Open' = Open /\ Open \subseteq Conn
        /\ c \in Conn /\ c # NoConn /\ selected \in Slot /\ id \notin links[selected].release
        /\ live' \ closing' = live \ closing /\ selected' = selected
        /\ links \in [Slot -> Link]
    BY DEF Open, IInv, TypeOK, Forwards, CanSend, Link
  <1>2. \A s \in Slot : /\ links'[s].handle = links[s].handle
                        /\ links'[s].release = links[s].release
    BY DEF Forwards
  <1>3. \A s \in Slot : links[s].handle = c => s = selected
    BY <1>1 DEF IInv, Good, Unique
  <1> DEFINE holding == {p \in (live \ closing) \X ReportId : p[2] \in host[p[1]].held}
             holds == {p \in (live' \ closing') \X ReportId : p[2] \in host'[p[1]].held}
             owed == {p \in Conn \X ReportId :
                        \E s \in Slot : links[s].handle = p[1] /\ p[2] \in links[s].release}
             owes == {p \in Conn \X ReportId :
                        \E s \in Slot : links'[s].handle = p[1] /\ p[2] \in links'[s].release}
  <1>4. owes = owed /\ owed \subseteq Conn \X ReportId
    BY <1>2
  <1>5. links'[selected'].handle = links[selected].handle
    BY <1>1, <1>2
  <1>6. CASE down /\ c \in Open
    <2>1. holds = holding \cup {<<c, id>>}
      BY <1>1, <1>6 DEF Forwards
    <2>2. <<c, id>> \notin owed
      BY <1>1, <1>3
    <2>3. Focus!Press(id)
      BY <1>1, <1>4, <1>5, <2>1, <2>2 DEF Focus!Press
    <2>4. QED
      BY <2>3
  <1>7. CASE ~(down /\ c \in Open)
    <2>1. holds \subseteq holding
      BY <1>1, <1>7 DEF Forwards
    <2>2. Focus!Settle
      BY <1>1, <1>4, <1>5, <2>1 DEF Focus!Settle
    <2>3. QED
      BY <2>2
  <1>8. QED
    BY <1>6, <1>7

-----------------------------------------------------------------------------
(***************************************************************************)
(* The refinement and the two properties of the pointer.                   *)
(***************************************************************************)
\* Every step is quiet or forwards.
LEMMA StepQuietOrForwards ==
    ASSUME Known, Next
    PROVE  \/ Quiet
           \/ \E id \in ReportId, down \in BOOLEAN : Forwards(links[selected].handle, id, down)
  <1>1. CASE Environment
    BY <1>1, LinkUpQuiet, LinkLostQuiet DEF Environment
  <1>2. CASE Connections
    BY <1>2, AuthenticatedQuiet, SubscribedQuiet, DisconnectedQuiet, DropQuiet DEF Connections
  <1>3. CASE Routing
    BY <1>3, ServiceQuiet, ReleaseAllQuiet, RecoverQuiet, SelectQuiet, SwitchModeQuiet,
       ReorderQuiet DEF Routing
  <1>4. CASE Forwarding
    BY <1>4, ForwardingForwards DEF Known
  <1>5. QED
    BY <1>1, <1>2, <1>3, <1>4 DEF Next

\* At first no connection is open and no position known.
LEMMA InitKnown == Init => Known
  <1> SUFFICES ASSUME Init PROVE Known
    OBVIOUS
  <1>1. IInv
    BY InitIInv
  <1>2. Open = {} /\ \A c \in Conn : host[c].at = Unknown
    BY DEF Init, Open, FreshHost
  <1>3. QED
    BY <1>1, <1>2 DEF Known, Placed, Absent

\* What is known of the pointers is preserved by every step.
LEMMA StepKnown == Known /\ [Next]_vars => Known'
  <1> SUFFICES ASSUME Known, [Next]_vars PROVE Known'
    OBVIOUS
  <1>1. IInv'
    BY Inductive DEF Known
  <1>2. CASE UNCHANGED vars
    BY <1>1, <1>2 DEF vars, Known, Placed, Absent, Open
  <1>3. CASE Next
    <2>1. CASE Quiet
      BY <1>1, <2>1 DEF Quiet, Known
    <2>2. ASSUME NEW id \in ReportId, NEW down \in BOOLEAN,
                 Forwards(links[selected].handle, id, down)
          PROVE  Known'
      BY <1>1, <2>2, ForwardsPlaces DEF Known
    <2>3. QED
      BY <1>3, <2>1, <2>2, StepQuietOrForwards
  <1>4. QED
    BY <1>2, <1>3

\* The router's invariant and what its links know of the pointers hold always.
THEOREM KnownAlways == Spec => []Known
  BY InitKnown, StepKnown, PTL DEF Spec

\* The initial states are initial states of InputFocus.
LEMMA InitFocus == Init => Focus!Init
  <1> SUFFICES ASSUME Init PROVE Focus!Init
    OBVIOUS
  <1>1. selected \in Slot /\ links[selected].handle = NoConn /\ live \ closing = {}
    BY DEF Init, FreshLink
  <1>2. QED
    BY <1>1 DEF Focus!Init

\* Every step is a step of InputFocus or leaves its variables unchanged.
LEMMA StepFocus == Known /\ Known' /\ [Next]_vars => [Focus!Next]_(Focus!vars)
  <1> SUFFICES ASSUME Known, Known', [Next]_vars PROVE [Focus!Next]_(Focus!vars)
    OBVIOUS
  <1>1. CASE UNCHANGED vars
    BY <1>1 DEF vars, Focus!vars
  <1>2. CASE Quiet
    <2>1. Focus!Settle
      BY <1>2, CalmIsSettle DEF Quiet, Known
    <2>2. QED
      BY <2>1 DEF Focus!Next
  <1>3. ASSUME NEW id \in ReportId, NEW down \in BOOLEAN,
               Forwards(links[selected].handle, id, down)
        PROVE  [Focus!Next]_(Focus!vars)
    <2>1. Focus!Settle \/ Focus!Press(id)
      BY <1>3, ForwardsFocus DEF Known
    <2>2. QED
      BY <2>1 DEF Focus!Next
  <1>4. QED
    BY <1>1, <1>2, <1>3, StepQuietOrForwards

\* The router implements the abstract promise of InputFocus, for any number of
\* slots and connections and for both builds: only the computer that has the
\* focus is pressed, and whoever loses it holding something is owed a release.
THEOREM FocusHolds == Spec => FocusSpec
  <1>1. Spec => Focus!Init /\ [][Focus!Next]_(Focus!vars)
    BY InitFocus, KnownAlways, StepFocus, PTL DEF Spec
  <1>2. QED
    BY <1>1 DEF FocusSpec, Focus!Spec

\* The body of ReleasesKeepPosition.
MovedBySelected ==
    \A c \in live' \ closing' :
        host[c].at \notin {Unknown, host'[c].at} =>
            /\ links[selected].handle = c
            /\ [links EXCEPT ![selected] = links'[selected]] = links'
            /\ links'[selected].release = links[selected].release

\* The body of NoTeleport.
RelativeKeeps ==
    \A c \in live' \ closing :
        /\ Absolute /\ ~absoluteOutput
        /\ "mouse" \notin host[c].held
        => host'[c].at \in {host[c].at, Unknown}

\* No step moves a known pointer but a report of the selected slot, and none
\* puts a pointer elsewhere while output is relative.
LEMMA StepPointer ==
    ASSUME Known, Next
    PROVE  MovedBySelected /\ RelativeKeeps
  <1>1. CASE Quiet
    <2>1. MovedBySelected
      BY <1>1 DEF Quiet, Steady, MovedBySelected, Open
    <2>2. RelativeKeeps
      BY <1>1 DEF Quiet, Steady, RelativeKeeps
    <2>3. QED
      BY <2>1, <2>2
  <1>2. ASSUME NEW id \in ReportId, NEW down \in BOOLEAN,
               Forwards(links[selected].handle, id, down)
        PROVE  MovedBySelected /\ RelativeKeeps
    <2> DEFINE c == links[selected].handle
    <2>1. /\ live' = live /\ live \subseteq Conn
          /\ \A d \in Conn : d # c => host'[d] = host[d]
          /\ links' = [links EXCEPT ![selected] = links'[selected]]
          /\ links'[selected].release = links[selected].release
          /\ host'[c].at \in {host[c].at, Unknown} \/ (Absolute => absoluteOutput)
      BY <1>2 DEF Forwards, Known, IInv, TypeOK
    <2> HIDE DEF c
    <2>2. MovedBySelected
      BY <2>1 DEF MovedBySelected, c
    <2>3. RelativeKeeps
      BY <2>1 DEF RelativeKeeps
    <2>4. QED
      BY <2>2, <2>3
  <1>3. QED
    BY <1>1, <1>2, StepQuietOrForwards

\* A known pointer moves only by a report of the selected slot, never by a
\* neutral release, a change of slot, order or mode, for any number of slots.
THEOREM ReleasesKeepPositionHolds == Spec => ReleasesKeepPosition
  <1>1. Known /\ [Next]_vars => [MovedBySelected]_vars
    BY StepPointer
  <1>2. Spec => [][MovedBySelected]_vars
    BY KnownAlways, <1>1, PTL DEF Spec
  <1>3. QED
    BY <1>2 DEF ReleasesKeepPosition, MovedBySelected

\* While output is relative no absolute report puts the pointer of a computer
\* that holds no absolute button where it is not, for any number of slots.
THEOREM NoTeleportHolds == Spec => NoTeleport
  <1>1. Known /\ [Next]_vars => [RelativeKeeps]_vars
    BY StepPointer
  <1>2. Spec => [][RelativeKeeps]_vars
    BY KnownAlways, <1>1, PTL DEF Spec
  <1>3. QED
    BY <1>2 DEF NoTeleport, RelativeKeeps
=============================================================================
