------------------------------ MODULE InputPath ------------------------------
(***************************************************************************)
(* The way of a key or button from the attached keyboards and mice to the  *)
(* selected computer: Application::tick with InputState, InputSources, the *)
(* pending queues of BleHid and the edge switch of the companion.          *)
(*                                                                         *)
(* Driver tasks call enqueue() while the loop task runs the steps of a     *)
(* tick one after the other (`pc`); the steps are cut where they touch     *)
(* what the callbacks touch.  A report is abstracted to whether its device *)
(* holds anything down.  The router is summarised by the reports each      *)
(* computer holds and the releases it is owed (module HostRouter has the   *)
(* detail).  Calibration and recording, which consume input like the text  *)
(* menu, are left out.                                                     *)
(***************************************************************************)
EXTENDS Naturals, Sequences

CONSTANTS
    Source,         \* input sources: 0 is USB, the others are Bluetooth
    QueueLength,    \* capacity of _reports (64 on the device)
    PendingLength,  \* capacity of a pending queue (64 keyboard, 32 mouse)
    Setups,         \* the setups to look at, a set of Setup
    Reselect        \* '1', '2', '3' may name the selected slot or fail to save

Kind == {"keyboard", "mouse"}

\* A board with its Board::slots, the devices of each source, and whether a
\* companion runs and seamless switching is enabled.
Setup == [slots : Nat \ {0}, attached : [Source -> SUBSET Kind], edges : BOOLEAN]

ASSUME SourceAssumption == 0 \in Source /\ Source \subseteq Nat
ASSUME LengthAssumption == QueueLength \in Nat \ {0} /\ PendingLength \in Nat \ {0}
ASSUME SetupAssumption == Setups \subseteq Setup /\ Reselect \in BOOLEAN

VARIABLES
    setup,     \* a member of Setups, chosen once for a behaviour
    down,      \* what is physically held, by source and device
    queue,     \* Application::_reports
    overflow,  \* Application::_overflow
    bleReset,  \* Application::_bleReset
    lost,      \* sources whose task found the queue full, before it sets the flags
    flooded,   \* the local overflow of tick()
    resetting, \* the local resetBle of drainInput()
    sources,   \* Application::_sources
    input,     \* Application::_input
    shown,     \* Application::_slot
    menu,      \* DeviceMenu::_active
    ble,       \* BleHid: selection, pending queues, routing
    pc,        \* the next step of tick()
    uncertain, \* devices whose last state was lost and not seen up since
    carried    \* devices held when the menu toggled or the selection changed, and
               \* not seen up since

flags == <<overflow, bleReset>>
ghosts == <<uncertain, carried>>
vars == <<setup, down, queue, flags, lost, flooded, resetting, sources, input, shown, menu, ble, pc, ghosts>>

Slot == 0 .. setup.slots - 1
NoTarget == setup.slots         \* EdgeSwitch::target = -1
Device == UNION {setup.attached[s] : s \in Source}

Report == [source : Source, device : Device, down : BOOLEAN, outward : BOOLEAN]

\* held: keyboardHeld, buttons # 0; blocked: keyboardBlocked, mouseBlocked.
InputState == [held : SUBSET Device, blocked : SUBSET Device]

Synced == [slot : Slot, ready : SUBSET Slot, allowed : BOOLEAN]

\* pending: report states not accepted yet; last: the state accepted last;
\* epoch: inputEpoch() changed since the application looked; synced, target:
\* EdgeSwitch with the arguments of its last sync(); up: computers with a ready
\* link; held, owed: what a computer was told is down, the releases owed to it.
BleState == [selected : Slot,
             pending : [Device -> Seq(BOOLEAN)], last : [Device -> BOOLEAN],
             epoch : BOOLEAN, synced : Synced, target : Slot \cup {NoTarget},
             up : SUBSET Slot,
             held : [Slot -> SUBSET Device], owed : [Slot -> SUBSET Device]]

Step == {"usb", "ble", "menu", "commands", "overflow", "discard", "begin",
         "drain", "edges", "flush"}

-----------------------------------------------------------------------------
(***************************************************************************)
(* Operations on the state of BleHid.  `ok` are the computers that accept  *)
(* their owed releases in the pass of MultiHostRouter::service() at hand.  *)
(***************************************************************************)
\* Mutant: the last accepted reports survive the clearing.
ClearedQueues(b) == [b EXCEPT !.pending = [d \in Device |-> <<>>]]

Cleared(b) == [b EXCEPT !.pending = [d \in Device |-> <<>>],
                        !.last = [d \in Device |-> FALSE]]

Serve(b, ok) ==
    [b EXCEPT !.held = [s \in Slot |-> IF s \in ok THEN b.held[s] \ b.owed[s] ELSE b.held[s]],
              !.owed = [s \in Slot |-> IF s \in ok THEN {} ELSE b.owed[s]]]

Owing(b, slots) ==
    [b EXCEPT !.owed = [s \in Slot |-> IF s \in slots THEN Device ELSE b.owed[s]]]

\* Mutant: releaseAll() drops what is pending and releases nothing.
ReleaseAllQuiet(b, ok) == Serve(Cleared(b), ok)

ReleaseAll(b, ok) == Serve(Owing(Cleared(b), Slot), ok)

\* Mutant: only the computer switched to is released.
SelectSlotNewOnly(b, t, ok) ==
    IF t = b.selected THEN b
    ELSE [Serve(Owing(Cleared(b), {t}), ok) EXCEPT !.selected = t]

\* selectSlot(); a selection that cannot be saved changes nothing.
SelectSlot(b, t, ok) ==
    IF t = b.selected THEN b
    ELSE [Serve(Owing(Cleared(b), {b.selected, t}), ok) EXCEPT !.selected = t]

EdgeReset(b) == [b EXCEPT !.target = NoTarget]
EdgeSync(b, allowed) ==
    LET now == [slot |-> b.selected, ready |-> b.up, allowed |-> allowed]
    IN IF now = b.synced THEN b ELSE [EdgeReset(b) EXCEPT !.synced = now]

IsConnected(b) == b.selected \in b.up
NextEpoch(b) == [b EXCEPT !.epoch = TRUE]

\* The state the computer is in once the queue of d is accepted.
LatestState(b, d) == IF b.pending[d] = <<>> THEN b.last[d] ELSE b.pending[d][Len(b.pending[d])]

\* Mutant: the queue takes one report more than it holds.
SendOverfull(b, d, state, moves, ok) ==
    IF ~IsConnected(b) THEN [b EXCEPT !.pending[d] = <<>>, !.last[d] = FALSE]
    ELSE IF LatestState(b, d) = state /\ (b.pending[d] # <<>> \/ ~moves) THEN b
    ELSE IF Len(b.pending[d]) <= PendingLength
         THEN [b EXCEPT !.pending[d] = Append(@, state)]
    ELSE IF d = "keyboard" THEN NextEpoch(ReleaseAll(b, ok)) ELSE ReleaseAll(b, ok)

\* sendKeyboardReport(), sendMouseReport(): a mouse report that moves is sent
\* although the buttons did not change.  A full queue gives up the input.
Send(b, d, state, moves, ok) ==
    IF ~IsConnected(b) THEN [b EXCEPT !.pending[d] = <<>>, !.last[d] = FALSE]
    ELSE IF LatestState(b, d) = state /\ (b.pending[d] # <<>> \/ ~moves) THEN b
    ELSE IF Len(b.pending[d]) < PendingLength
         THEN [b EXCEPT !.pending[d] = Append(@, state)]
    ELSE IF d = "keyboard" THEN NextEpoch(ReleaseAll(b, ok)) ELSE ReleaseAll(b, ok)

(***************************************************************************)
(* Operations on InputState.                                               *)
(***************************************************************************)
\* Mutant: the barrier forgets the buttons.
BarrierKeys(i) == [i EXCEPT !.blocked = (@ \ {"keyboard"}) \cup (i.held \cap {"keyboard"})]

Barrier(i) == [i EXCEPT !.blocked = i.held]
UncertainBarrier(i) == [i EXCEPT !.blocked = Device]
Merged(srcs) == {d \in Device : \E s \in Source : d \in srcs[s]}

-----------------------------------------------------------------------------
(***************************************************************************)
(* The driver tasks: enqueue().  The Bluetooth sources share one task.     *)
(***************************************************************************)
loopVars == <<setup, flooded, resetting, sources, input, shown, menu, ble, pc, ghosts>>

Enqueue(r) ==
    /\ IF Len(queue) < QueueLength
       THEN queue' = Append(queue, r) /\ UNCHANGED lost
       ELSE lost' = lost \cup {r.source} /\ UNCHANGED queue
    /\ UNCHANGED <<flags, loopVars>>

\* A device reports a change, or again what it holds.
DeviceReport(s, d, state, outward) ==
    /\ d \in setup.attached[s]
    /\ \A t \in lost : (t = 0) # (s = 0)
    /\ outward => d = "mouse" /\ setup.edges
    /\ down' = [down EXCEPT ![s] = IF state THEN @ \cup {d} ELSE @ \ {d}]
    /\ Enqueue([source |-> s, device |-> d, down |-> state, outward |-> outward])

\* The task whose report found no room sets the flags, in one critical section.
FlagOverflow(s) ==
    /\ s \in lost
    /\ lost' = lost \ {s}
    /\ overflow' = TRUE
    /\ bleReset' = (bleReset \/ s # 0)
    /\ UNCHANGED <<down, queue, loopVars>>

\* A Bluetooth input device is gone, with all it held.
BleInputLost ==
    /\ \E s \in Source : s # 0 /\ setup.attached[s] # {}
    /\ down' = [s \in Source |-> IF s = 0 THEN down[s] ELSE {}]
    /\ bleReset' = TRUE
    /\ UNCHANGED <<queue, overflow, lost, loopVars>>

-----------------------------------------------------------------------------
(***************************************************************************)
(* The steps of Application::tick().                                       *)
(***************************************************************************)
driverVars == <<setup, down, flags, lost>>

\* A recovery of the USB stack discards all input.
Usb ==
    /\ pc = "usb"
    /\ pc' = "ble"
    /\ \/ UNCHANGED <<queue, sources, input, ble, uncertain>>
       \/ /\ sources' = [sources EXCEPT ![0] = {}]
          /\ queue' = <<>>
          /\ \E ok \in SUBSET ble.up : ble' = ReleaseAll(ble, ok)
          /\ input' = UncertainBarrier(input)
          /\ uncertain' = Device
    /\ UNCHANGED <<flooded, driverVars, resetting, shown, menu, carried>>

LinkLost(b, s) ==
    LET c == IF s = b.selected THEN Cleared(b) ELSE b
    IN [c EXCEPT !.up = @ \ {s}, !.held[s] = {}, !.owed[s] = {}]

LinkReady(b, s) == [b EXCEPT !.up = @ \cup {s}, !.owed[s] = Device]

\* service() comes last in loop(); without a computer nothing stays pending.
Serviced(b) ==
    \E ok \in SUBSET b.up :
        LET served == Serve(b, ok)
        IN ble' = IF IsConnected(served) THEN served ELSE Cleared(served)

\* BleHid::loop(): a link changes, or five seconds after the first refused
\* report the selected computer is given up.
BleLoop ==
    /\ pc = "ble"
    /\ pc' = "menu"
    /\ \/ Serviced(ble)
       \/ \E s \in ble.up : Serviced(LinkLost(ble, s))
       \/ \E s \in Slot \ ble.up : Serviced(LinkReady(ble, s))
       \/ \E ok \in SUBSET ble.up :
            Serviced(LinkLost(ReleaseAll(NextEpoch(ble), ok), ble.selected))
    /\ UNCHANGED <<flooded, driverVars, queue, resetting, sources, input, shown, menu, ghosts>>

\* What becomes of `waiting`, devices not seen up, in a step that toggles the
\* menu or changes the selection while i is held.
Carried(i, waiting) ==
    IF menu' # menu \/ ble'.selected # ble.selected THEN waiting \cup i.held ELSE waiting

\* The text menu opens, closes (also to select a slot) or types; then the
\* application looks for a toggled menu, a new epoch and a new selection.
MenuStep(b, opened) ==
    LET toggled == opened # menu
        moved == b.selected # shown
        first == IF toggled THEN Barrier(input) ELSE input
        second == IF b.epoch THEN UncertainBarrier(first) ELSE first
    IN /\ menu' = opened
       /\ input' = IF moved THEN Barrier(second) ELSE second
       /\ queue' = IF b.epoch \/ moved THEN <<>> ELSE queue
       /\ shown' = b.selected
       /\ \E ok \in SUBSET b.up :
            ble' = IF b.epoch THEN [ReleaseAll(b, ok) EXCEPT !.epoch = FALSE] ELSE b
       /\ uncertain' = IF b.epoch THEN Device ELSE uncertain
       /\ carried' = Carried(input, carried)

Types(b, state) ==
    [b EXCEPT !.held[b.selected] = IF state THEN @ \cup {"keyboard"} ELSE @ \ {"keyboard"}]

\* DeviceMenu::button()
MenuOpens ==
    IsConnected(ble) /\ \E ok \in SUBSET ble.up : MenuStep(ReleaseAll(ble, ok), TRUE)

Menu ==
    /\ pc = "menu"
    /\ pc' = "commands"
    /\ \/ ~menu /\ MenuStep(ble, FALSE)
       \/ ~menu /\ MenuOpens
       \/ menu /\ \E ok \in SUBSET ble.up, t \in Slot :
                     MenuStep(SelectSlot(ReleaseAll(ble, ok), t, ok), FALSE)
       \/ menu /\ IsConnected(ble) /\ MenuStep(ble, TRUE)
       \/ /\ menu /\ IsConnected(ble) /\ "keyboard" \in Device \ ble.owed[ble.selected]
          /\ \E state \in BOOLEAN : MenuStep(Types(ble, state), TRUE)
    /\ UNCHANGED <<flooded, driverVars, resetting, sources>>

\* Application::select() after a barrier; the serial line cancels the menu.
Choose(b, t, ok) ==
    /\ ble' = SelectSlot(b, t, ok)
    /\ shown' = ble'.selected
    /\ input' = Barrier(input)

Commands ==
    /\ pc = "commands"
    /\ pc' = "overflow"
    /\ \/ UNCHANGED <<input, shown, menu, ble>>
       \* '1', '2', '3'
       \/ \E t \in Slot, ok \in SUBSET ble.up :
            /\ t # ble.selected \/ Reselect
            /\ Choose(IF menu THEN ReleaseAll(ble, ok) ELSE ble, t, ok)
            /\ menu' = FALSE
       \* a JSON request that changes something
       \/ \E t \in Slot, ok, ok2 \in SUBSET ble.up :
            /\ ~menu
            /\ ble' = ReleaseAll(SelectSlot(ble, t, ok), ok2)
            /\ shown' = ble'.selected
            /\ input' = Barrier(input)
            /\ UNCHANGED menu
    /\ carried' = Carried(input, carried)
    /\ UNCHANGED <<flooded, driverVars, queue, resetting, sources, uncertain>>

Overflow ==
    /\ pc = "overflow"
    /\ overflow' = FALSE
    /\ flooded' = overflow
    /\ pc' = IF overflow THEN "discard" ELSE "begin"
    /\ UNCHANGED <<setup, down, queue, bleReset, lost, resetting, sources, input, shown, menu, ble,
                   ghosts>>

Discard ==
    /\ pc = "discard"
    /\ pc' = "begin"
    /\ menu' = FALSE
    /\ queue' = <<>>
    /\ \E ok \in SUBSET ble.up : ble' = ReleaseAll(ble, ok)
    /\ input' = UncertainBarrier(input)
    /\ uncertain' = Device
    /\ carried' = Carried(input, carried)
    /\ UNCHANGED <<flooded, driverVars, resetting, sources, shown>>

BeginDrain ==
    /\ pc = "begin"
    /\ pc' = "drain"
    /\ resetting' = bleReset
    /\ bleReset' = FALSE
    /\ UNCHANGED <<setup, flooded, down, queue, overflow, lost, sources, input, shown, menu, ble,
                   ghosts>>

-----------------------------------------------------------------------------
(***************************************************************************)
(* Application::drainInput().                                              *)
(***************************************************************************)
\* What a report makes of the state of its device, all sources together.
Observed(srcs, d) ==
    [input EXCEPT !.held = IF d \in Merged(srcs) THEN @ \cup {d} ELSE @ \ {d}]

Unblock(i, d) == IF d \in i.held THEN i ELSE [i EXCEPT !.blocked = @ \ {d}]

\* Mutant: closing the menu by Escape raises no barrier.
ConsumeFree(i, d) ==
    /\ menu
    /\ \/ input' = Barrier(i) /\ UNCHANGED <<menu, ble>>
       \/ /\ d = "keyboard"
          /\ menu' = FALSE
          /\ input' = i
          /\ \E ok \in SUBSET ble.up : ble' = ReleaseAll(ble, ok)
    /\ UNCHANGED shown

\* The menu consumes the report, and may close on Escape.
Consume(i, d) ==
    /\ menu
    /\ input' = Barrier(i)
    /\ \/ UNCHANGED <<menu, ble>>
       \/ /\ d = "keyboard"
          /\ menu' = FALSE
          /\ \E ok \in SUBSET ble.up : ble' = ReleaseAll(ble, ok)
    /\ UNCHANGED shown

\* A keyboard report that a barrier blocks.
Block(i, d) ==
    /\ ~menu
    /\ d = "keyboard" /\ d \in i.blocked
    /\ input' = Unblock(i, d)
    /\ UNCHANGED <<menu, ble, shown>>

Matches(i, d) ==
    \/ d \in i.held
    \/ d = "keyboard" /\ "mouse" \in i.held \ i.blocked

\* Mutant: a shortcut does not release what is held.
ShortcutQuiet(i, d) ==
    /\ ~menu
    /\ d \notin i.blocked
    /\ Matches(i, d)
    /\ \E t \in Slot, ok \in SUBSET ble.up : ble' = SelectSlot(ble, t, ok)
    /\ shown' = ble'.selected
    /\ input' = IF d = "keyboard"
                THEN [i EXCEPT !.blocked = (i.held \cap {"mouse"}) \cup {"keyboard"}]
                ELSE Barrier(i)
    /\ UNCHANGED menu

\* A shortcut selects a slot, maybe the one already selected.
Shortcut(i, d) ==
    /\ ~menu
    /\ d \notin i.blocked
    /\ Matches(i, d)
    /\ \E t \in Slot, ok, ok2 \in SUBSET ble.up :
         ble' = ReleaseAll(SelectSlot(ble, t, ok), ok2)
    /\ shown' = ble'.selected
    /\ input' = IF d = "keyboard"
                THEN [i EXCEPT !.blocked = (i.held \cap {"mouse"}) \cup {"keyboard"}]
                ELSE Barrier(i)
    /\ UNCHANGED menu

\* EdgeSwitch::motion(): a button, or held or blocked input, ends a push at
\* the edge; a push in progress swallows the report, a far enough one starts.
Motion(b, i, outward) ==
    IF "keyboard" \in i.held \/ "mouse" \in i.blocked \cup i.held
    THEN {[swallowed |-> FALSE, ble |-> EdgeReset(b)]}
    ELSE IF b.target # NoTarget THEN {[swallowed |-> TRUE, ble |-> b]}
    ELSE {[swallowed |-> FALSE, ble |-> b]} \cup
         {[swallowed |-> TRUE, ble |-> [b EXCEPT !.target = t]] :
             t \in IF outward /\ b.synced.allowed /\ b.synced.slot \in b.synced.ready
                   THEN b.synced.ready \ {b.synced.slot} ELSE {}}

Forward(i, d, outward) ==
    /\ ~menu
    /\ d = "keyboard" => d \notin i.blocked
    /\ LET free == IF d = "mouse" THEN Unblock(i, d) ELSE i
           state == d \in free.held \ free.blocked
       IN \E m \in IF d = "mouse" THEN Motion(ble, i, outward)
                   ELSE {[swallowed |-> FALSE, ble |-> ble]} :
            IF m.swallowed THEN ble' = m.ble /\ input' = i
            ELSE /\ \E moves \in {outward, d = "mouse"}, ok \in SUBSET ble.up :
                       ble' = Send(m.ble, d, state, moves, ok)
                 /\ input' = free
    /\ UNCHANGED <<menu, shown>>

Drain ==
    /\ pc = "drain"
    /\ queue # <<>>
    /\ queue' = Tail(queue)
    /\ LET r == Head(queue)
           d == r.device
           srcs == [sources EXCEPT ![r.source] = IF r.down THEN @ \cup {d} ELSE @ \ {d}]
           i == Observed(srcs, d)
           seen == IF d \in i.held THEN {} ELSE {d}
       IN IF resetting /\ r.source # 0
          THEN UNCHANGED <<sources, input, shown, menu, ble, ghosts>>
          ELSE /\ sources' = srcs
               /\ \/ Consume(i, d)
                  \/ Block(i, d)
                  \/ Shortcut(i, d)
                  \/ Forward(i, d, r.outward)
               /\ uncertain' = uncertain \ seen
               /\ carried' = Carried(i, carried \ seen)
    /\ UNCHANGED <<flooded, driverVars, resetting, pc>>

DrainEnd ==
    /\ pc = "drain"
    /\ queue = <<>>
    /\ pc' = "edges"
    /\ resetting' = FALSE
    /\ IF resetting
       THEN LET srcs == [s \in Source |-> IF s = 0 THEN sources[0] ELSE {}]
            IN /\ sources' = srcs
               /\ input' = [held |-> Merged(srcs), blocked |-> Merged(srcs)]
               /\ carried' = carried \cap Merged(srcs)
               /\ \E ok \in SUBSET ble.up : ble' = ReleaseAll(ble, ok)
       ELSE UNCHANGED <<sources, input, carried, ble>>
    /\ UNCHANGED <<flooded, driverVars, queue, shown, menu, uncertain>>

\* Mutant: what is held does not matter to a handoff.
HandoffAllowedHeld == setup.edges /\ ~menu

\* The argument of serviceEdges(), and the setting.
HandoffAllowed == setup.edges /\ ~menu /\ input.held = {}

\* serviceEdges(): a push that is still fresh selects its target; a selection
\* that cannot be saved only ends the push.
ServiceEdges ==
    /\ pc = "edges"
    /\ pc' = "flush"
    /\ LET allowed == HandoffAllowed
           b == EdgeSync(ble, allowed)
       IN IF b.target = NoTarget \/ ~allowed THEN ble' = b
          ELSE \/ ble' = EdgeReset(b)
               \/ /\ b.target \in b.up
                  /\ \E ok \in SUBSET b.up :
                       ble' = EdgeSync(SelectSlot(EdgeReset(b), b.target, ok), allowed)
    /\ UNCHANGED <<flooded, driverVars, queue, resetting, sources, input, shown, menu, uncertain>>
    /\ carried' = Carried(input, carried)

CanSend(b, d) == IsConnected(b) /\ d \notin b.owed[b.selected]

\* The first n reports of d are accepted.  A mouse report whose movement does
\* not fit one message stays at the head of the queue.
Accept(b, d, n, rest) ==
    IF n = 0 THEN b
    ELSE LET state == b.pending[d][n]
         IN [b EXCEPT !.pending[d] = SubSeq(@, (IF rest THEN n ELSE n + 1), Len(@)),
                      !.last[d] = state,
                      !.held[b.selected] = IF state THEN @ \cup {d} ELSE @ \ {d}]

\* flushInput() sends at most four keyboard reports and one mouse report.
Acceptances(d) ==
    IF d \in Device /\ CanSend(ble, d)
    THEN {n \in 0 .. (IF d = "keyboard" THEN 4 ELSE 1) : n <= Len(ble.pending[d])} ELSE {0}

Flush ==
    /\ pc = "flush"
    /\ pc' = "usb"
    /\ flooded' = FALSE
    /\ \E k \in Acceptances("keyboard"), m \in Acceptances("mouse"), rest \in BOOLEAN :
         ble' = Accept(Accept(ble, "keyboard", k, FALSE), "mouse", m, rest)
    /\ UNCHANGED <<driverVars, queue, resetting, sources, input, shown, menu, ghosts>>

-----------------------------------------------------------------------------
Init ==
    /\ setup \in Setups
    /\ down = [s \in Source |-> {}]
    /\ queue = <<>> /\ overflow = FALSE /\ bleReset = FALSE /\ lost = {}
    /\ flooded = FALSE /\ resetting = FALSE
    /\ sources = [s \in Source |-> {}]
    /\ input = [held |-> {}, blocked |-> {}]
    /\ menu = FALSE
    \* computers may be back before the first input
    /\ \E s \in Slot, up \in SUBSET Slot :
         ble = [selected |-> s, pending |-> [d \in Device |-> <<>>],
                last |-> [d \in Device |-> FALSE], epoch |-> FALSE,
                synced |-> [slot |-> 0, ready |-> {}, allowed |-> FALSE],
                target |-> NoTarget, up |-> up, held |-> [t \in Slot |-> {}],
                owed |-> [t \in Slot |-> IF t \in up THEN Device ELSE {}]]
    /\ shown = ble.selected
    /\ pc = "usb"
    /\ uncertain = {} /\ carried = {}

Drivers ==
    \/ \E s \in Source, d \in Device, state, outward \in BOOLEAN :
          DeviceReport(s, d, state, outward)
    \/ \E s \in Source : FlagOverflow(s)
    \/ BleInputLost

Tick == Usb \/ BleLoop \/ Menu \/ Commands \/ Overflow \/ Discard \/ BeginDrain
        \/ Drain \/ DrainEnd \/ ServiceEdges \/ Flush

Next == Drivers \/ Tick

Spec == Init /\ [][Next]_vars

-----------------------------------------------------------------------------
(***************************************************************************)
(* Properties.                                                             *)
(***************************************************************************)
\* Every variable has its type.
TypeOK ==
    /\ setup \in Setups
    /\ down \in [Source -> SUBSET Device] /\ lost \subseteq Source
    /\ queue \in Seq(Report) /\ Len(queue) <= QueueLength
    /\ {overflow, bleReset, flooded, resetting, menu} \subseteq BOOLEAN
    /\ sources \in [Source -> SUBSET Device]
    /\ input \in InputState
    /\ shown \in Slot
    /\ ble \in BleState /\ \A d \in Device : Len(ble.pending[d]) <= PendingLength
    /\ pc \in Step
    /\ uncertain \subseteq Device /\ carried \subseteq Device

\* Nothing is on its way for device d: all reports, resets and releases have
\* been worked off.
Settled(d) ==
    /\ pc = "usb" /\ queue = <<>> /\ lost = {} /\ ~overflow /\ ~bleReset /\ ~menu /\ ~ble.epoch
    /\ ble.pending[d] = <<>>
    /\ \A s \in Slot : d \notin ble.owed[s]

Released(d) == Settled(d) /\ (\A s \in Source : d \notin down[s])

\* "Preserve keyboard transitions" (docs/architecture.md): when every key is
\* up and nothing is on its way, no computer still holds a key, whatever
\* barriers, switches, overflows and lost links came between press and release.
KeysReleased ==
    "keyboard" \in Device /\ Released("keyboard") => \A s \in Slot : "keyboard" \notin ble.held[s]

\* The same for the buttons of the mouse.  With a companion a push at the edge
\* that comes to nothing may have swallowed the release: then the selected
\* computer, and no other, holds the button until the next report of the mouse.
ButtonsReleased ==
    "mouse" \in Device /\ Released("mouse") =>
        \A s \in Slot : "mouse" \in ble.held[s] => setup.edges /\ s = ble.selected

\* KeyboardPending and MousePending drop a report that repeats the last one:
\* what they take for the last one is what the selected computer holds, so no
\* press is dropped as a repetition of one the computer was made to release.
DuplicatesKnown ==
    ~menu /\ IsConnected(ble) =>
        \A d \in Device \ ble.owed[ble.selected] :
            ble.last[d] <=> d \in ble.held[ble.selected]

\* A press of device d is handed to the pending queue.
Pressed(d) == Len(ble'.pending[d]) > Len(ble.pending[d]) /\ ble'.pending[d][Len(ble'.pending[d])]

\* "Menu transitions suppress held shortcut keys and mouse buttons until
\* release" (docs/architecture.md): what was held when the menu opened or closed
\* (by the button, a choice, Escape, a serial command or an overflow) or when
\* another computer was selected is not pressed before the device was seen up.
CarriedInputWaits == [][\A d \in carried : ~Pressed(d)]_vars

\* "The application checks held input and menu state before committing a
\* handoff" (docs/architecture.md): an edge handoff is made with no menu and
\* nothing held, and what the computer left still holds, like a button whose
\* release the push itself swallowed, is owed a release.
HandoffIsClean ==
    [][ServiceEdges /\ ble'.selected # ble.selected =>
           /\ ~menu /\ input.held = {}
           /\ \A s \in Slot \ {ble'.selected} : ble'.held[s] \subseteq ble'.owed[s]]_vars

\* "Queue overflow retains the existing release barrier and clears BLE state
\* when a BLE event cannot be queued" (docs/ble-input.md): in a tick that
\* met an overflow, the step that clears the Bluetooth sources lifts no barrier
\* on a device whose last state was lost.
ResetKeepsBarrier ==
    [][DrainEnd /\ flooded => uncertain \cap input.blocked \subseteq input'.blocked]_vars
=============================================================================
