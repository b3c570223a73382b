------------------------------ MODULE Calibration ------------------------------
(***************************************************************************)
(* The calibration of the absolute build: PointerCalibration and           *)
(* CalibrationFeedback, driven by BleHid, with the part of the loop and of *)
(* the menu that starts, ends and resumes it.                              *)
(*                                                                         *)
(* Each requested computer in turn is moved with relative reports while    *)
(* the counts between two marked corners are measured.  With a request of  *)
(* the menu the result is typed on the computer it came from, and the menu *)
(* comes back there at the end.  Links fail and return, Bluetooth input is *)
(* lost, and selections or settings may not be saved at any point.  One    *)
(* owed release stands for all reports of a computer.                      *)
(***************************************************************************)
EXTENDS Naturals, FiniteSets

CONSTANTS
    Slot,           \* the computers, in ascending order
    Relative,       \* those subscribed to the relative report
    None,           \* no computer
    MaxMotion       \* bound on the counts between two marks

ASSUME SlotAssumption == Slot # {} /\ Slot \subseteq 0 .. 2 /\ None \notin Slot
ASSUME RelativeAssumption == Relative \subseteq Slot
ASSUME MotionAssumption == MaxMotion \in Nat \ {0}

VARIABLES
    step,      \* where Application::tick() is
    up,        \* the computers with a link the router may send on
    ble,       \* BleHid with its calibration, and what the computers were told
    menu,      \* DeviceMenu
    keys       \* Application's _input: the key down

vars == <<step, up, ble, menu, keys>>

Step == {"usb", "ble", "boot", "menu", "epoch", "commands", "drain", "flush", "return"}

Stage == {"idle", "topleft", "bottomright", "ready"}

Count == 0 .. MaxMotion

\* session: whose remembered _connectionRevision is still the current one;
\* typed: the computers on which a key of a message is down; half: its release
\* is next; talking: the message runs; next: the computer that follows; resume:
\* where the menu is to come back, at the end of this tick.
\* counted is x, y; queued is _calibrationPending; delivered and discarded are
\* the counts since the first mark that reached the computer or that a reset of
\* the Bluetooth input threw away.
BleState == [selected : Slot, seamless : BOOLEAN, absolute : BOOLEAN,
             owed : SUBSET Slot, epoch : BOOLEAN, session : SUBSET {"capture", "message", "menu"},
             stage : Stage, slot : Slot, origin : Slot, remaining : SUBSET Slot,
             mark : BOOLEAN, armed : BOOLEAN, button : BOOLEAN,
             enableAfter : BOOLEAN, text : BOOLEAN, talking : BOOLEAN,
             next : Slot \cup {None}, resume : Slot \cup {None},
             typed : SUBSET Slot, half : BOOLEAN,
             counted : Count, queued : Count, delivered : Count, discarded : Count]

\* An option is a digit that the page at hand takes.  A button that is down
\* keeps the menu from taking options; the menu's buttons are left out, so that it
\* may take more than the code does.  released is of use while the menu is open.
Key == {"none", "option"}
Page == {"closed", "main", "start", "other"}
Menu == [page : Page, released : BOOLEAN, previous : Key]

\* carried: the option key has been down since the menu came back.
Keys == [key : Key, carried : BOOLEAN]

First(set) == CHOOSE s \in set : \A t \in set : s <= t

Active(b) == b.stage # "idle"
Connected(b) == b.selected \in up
CalibrationReady == up \cap Relative

-----------------------------------------------------------------------------
(***************************************************************************)
(* Operations on the state of BleHid.  `ok` are the computers that accept  *)
(* the releases owed to them, `saved` tells if the selection can be saved. *)
(***************************************************************************)
Serve(b, ok) ==
    [b EXCEPT !.owed = @ \ ok, !.typed = @ \ (b.owed \cap ok)]

ReleaseAll(b, ok) == Serve([b EXCEPT !.owed = Slot, !.queued = 0], ok)

UseAbsolutePointer(b) == b.seamless

\* Mutant: the selection gives the mouse back to the absolute path.
SelectSlotAbsolute(b, t, ok, saved) ==
    IF b.selected = t THEN [b EXCEPT !.absolute = UseAbsolutePointer(b)]
    ELSE IF ~saved THEN b
    ELSE Serve([b EXCEPT !.selected = t, !.queued = 0, !.owed = @ \cup {b.selected, t},
                         !.absolute = UseAbsolutePointer(b)], ok)

SelectSlot(b, t, ok, saved) ==
    IF b.selected = t THEN [b EXCEPT !.absolute = UseAbsolutePointer(b) /\ ~Active(b)]
    ELSE IF ~saved THEN b
    ELSE Serve([b EXCEPT !.selected = t, !.queued = 0, !.owed = @ \cup {b.selected, t},
                         !.absolute = UseAbsolutePointer(b) /\ ~Active(b)], ok)

\* PointerCalibration::start(), and what its callers do with it.
StartCapture(b, s) ==
    [b EXCEPT !.slot = s, !.stage = "topleft", !.next = None, !.mark = FALSE, !.armed = FALSE,
              !.button = FALSE,
              !.counted = 0, !.delivered = 0, !.discarded = 0, !.queued = 0,
              !.session = {"capture"}, !.epoch = TRUE]

\* beginCalibration(); the caller checks the guard.
CanBegin(b, mask) == ~Active(b) /\ mask # {} /\ mask \subseteq CalibrationReady
BeginCalibration(b, mask, enable, text, ok, saved) ==
    LET there == SelectSlot(ReleaseAll(b, ok), First(mask), ok, saved)
    IN IF there.selected # First(mask) THEN there
       ELSE StartCapture([there EXCEPT !.absolute = FALSE, !.origin = b.selected, !.remaining = mask,
                                       !.enableAfter = enable, !.text = text, !.resume = None],
                         First(mask))

\* PointerCalibration::cancel() and what goes with it; what an idle calibration
\* would not read again is reset.
Stopped(b) ==
    [b EXCEPT !.stage = "idle", !.slot = First(Slot), !.origin = First(Slot), !.text = TRUE,
              !.remaining = {}, !.mark = FALSE, !.armed = FALSE, !.button = FALSE,
              !.enableAfter = FALSE, !.talking = FALSE, !.next = None, !.half = FALSE,
              !.counted = 0, !.delivered = 0, !.discarded = 0, !.queued = 0,
              !.session = @ \ {"capture", "message"}]

\* Mutant: the message is dropped in the middle of a key.
CancelQuietly(b, complete, ok, saved) ==
    IF ~Active(b) THEN b
    ELSE LET idle == Stopped(b)
             back == SelectSlot(idle, b.origin, ok, saved)
         IN [back EXCEPT !.absolute = UseAbsolutePointer(b), !.epoch = TRUE,
                         !.resume = IF b.text /\ complete /\ back.selected = b.origin /\ b.origin \in up
                                   THEN b.origin ELSE None]

\* cancelCalibration()
CancelCalibration(b, complete, ok, saved) ==
    IF ~Active(b) THEN b
    ELSE LET idle == Stopped(b)
             back == SelectSlot(ReleaseAll(idle, ok), b.origin, ok, saved)
         IN [back EXCEPT !.absolute = UseAbsolutePointer(b), !.epoch = TRUE,
                         !.resume = IF b.text /\ complete /\ back.selected = b.origin /\ b.origin \in up
                                   THEN b.origin ELSE None]

\* setSeamlessEnabled(), refused while a calibration runs.
SetSeamless(b, on, ok) ==
    [ReleaseAll(b, ok) EXCEPT !.seamless = on, !.absolute = on, !.epoch = TRUE]

\* DeviceMenu::close(): all is released.
Close(m) == [m EXCEPT !.page = "closed", !.released = FALSE]
Closing(b, ok) == [ReleaseAll(b, ok) EXCEPT !.session = @ \ {"menu"}]

Then(next) == step' = next

\* Steps with nothing to do are passed over.
AfterMenu(b) == IF b.epoch THEN "epoch" ELSE "commands"
AfterBoot(m, b) == IF m.page # "closed" THEN "menu" ELSE AfterMenu(b)
AfterFlush(b) == IF b.resume # None THEN "return" ELSE "usb"

-----------------------------------------------------------------------------
\* A recovery of the USB port: discardInput().
Usb ==
    /\ step = "usb" /\ Then("ble")
    /\ \/ UNCHANGED ble
       \/ \E ok \in {{}, up}, saved \in BOOLEAN :
            ble' = ReleaseAll(CancelCalibration(ble, FALSE, ok, saved), ok)
    /\ UNCHANGED <<up, menu, keys>>

(***************************************************************************)
(* BleHid::loop(): events, the recovery of stalled sends, releases.        *)
(***************************************************************************)
\* A computer that lost its link has released everything.
Forgotten(b, s) == [b EXCEPT !.typed = @ \ {s}]

\* The revision counts the disconnections of the selected computer.
Revised(b, s) == IF s = b.selected THEN [b EXCEPT !.session = {}, !.queued = 0] ELSE b

LinkLost(s) ==
    /\ s \in up /\ up' = up \ {s}
    /\ ble' = Revised(Forgotten(ble, s), s)

LinkBack(s) ==
    /\ s \notin up /\ up' = up \cup {s}
    /\ ble' = [ble EXCEPT !.owed = @ \cup {s}]

\* The event queue overflowed: every link is dropped.
EventsLost ==
    /\ up' = {}
    /\ ble' = [ble EXCEPT !.session = {}, !.typed = {}]

BleEvent ==
    /\ step = "ble" /\ UNCHANGED <<step, menu, keys>>
    /\ (\E s \in Slot : LinkLost(s) \/ LinkBack(s)) \/ EventsLost

\* Sends that stalled for five seconds: the selected link is dropped.
Stalled ==
    /\ step = "ble" /\ Then("boot") /\ Connected(ble)
    /\ up' = up \ {ble.selected}
    /\ \E ok \in {{}, up'} :
         ble' = Revised(Forgotten([ReleaseAll(ble, ok) EXCEPT !.epoch = TRUE], ble.selected), ble.selected)
    /\ UNCHANGED <<menu, keys>>

\* The end of loop(): service(), and nothing stays pending without a link.
BleEnd ==
    /\ step = "ble" /\ Then("boot")
    /\ \E ok \in {{}, up} :
         LET b == Serve(ble, ok)
         IN ble' = IF Connected(b) THEN b ELSE [b EXCEPT !.queued = 0]
    /\ UNCHANGED <<up, menu, keys>>

-----------------------------------------------------------------------------
(***************************************************************************)
(* The tick between BleHid::loop() and drainInput().                       *)
(***************************************************************************)
\* BOOT cancels the calibration, else it opens or closes the menu.
Boot ==
    /\ step = "boot"
    /\ \/ UNCHANGED <<ble, menu>>
       \/ \E ok \in {{}, up}, saved \in BOOLEAN :
            /\ Active(ble)
            /\ ble' = CancelCalibration(ble, FALSE, ok, saved)
            /\ UNCHANGED menu
       \/ \E ok \in {{}, up} :
            /\ ~Active(ble) /\ menu.page # "closed"
            /\ ble' = Closing(ble, ok)
            /\ menu' = Close(menu)
       \/ \E ok \in {{}, up} :
            /\ ~Active(ble) /\ menu.page = "closed" /\ Connected(ble)
            /\ ble' = [ReleaseAll(ble, ok) EXCEPT !.session = @ \cup {"menu"}]
            /\ menu' = [menu EXCEPT !.page = "main", !.released = menu.previous = "none"]
    /\ UNCHANGED <<up, keys>>
    /\ Then(AfterBoot(menu', ble'))

\* The session the menu was opened in is over.  No other computer is selected
\* while the menu is open.
MenuEnds == ~Connected(ble) \/ "menu" \notin ble.session

\* DeviceMenu::tick(): it closes itself, selects a computer and closes, or starts
\* the calibration asked for.
MenuTick ==
    /\ step = "menu"
    /\ \/ ~MenuEnds /\ UNCHANGED <<ble, menu>>
       \/ \E ok \in {{}, up}, saved \in BOOLEAN, t \in Slot :
            /\ \/ ble' = Closing(ble, ok)
               \/ menu.page = "other" /\ ~MenuEnds /\ ble' = SelectSlot(Closing(ble, ok), t, ok, saved)
            /\ menu' = Close(menu)
       \/ \E ok \in {{}, up}, saved \in BOOLEAN, mask \in SUBSET Slot \ {{}} :
            /\ menu.page = "start" /\ ~MenuEnds
            /\ IF CanBegin(ble, mask)
               THEN ble' = BeginCalibration(ble, mask, FALSE, TRUE, ok, saved)
               ELSE ble' = ReleaseAll(ble, ok)
            /\ menu' = IF Active(ble') THEN Close(menu) ELSE [menu EXCEPT !.page = "main"]
    /\ UNCHANGED <<up, keys>>
    /\ Then(AfterMenu(ble'))

\* A change of inputEpoch() releases all input, but not during a calibration.
Epoch ==
    /\ step = "epoch" /\ Then("commands")
    /\ IF ble.epoch
       THEN \E ok \in {{}, up} :
              ble' = [IF Active(ble) THEN ble ELSE ReleaseAll(ble, ok) EXCEPT !.epoch = FALSE]
       ELSE UNCHANGED ble
    /\ UNCHANGED <<up, menu, keys>>

\* The serial line: '1' to '3', the requests that concern calibration, and an
\* overflow of the input queue.
Commands ==
    /\ step = "commands" /\ Then("drain")
    /\ \/ UNCHANGED <<ble, menu>>
       \/ \E ok \in {{}, up}, back, saved \in BOOLEAN :
            \/ \E t \in Slot :
                 /\ LET idle == CancelCalibration(ble, FALSE, ok, back)
                        quiet == IF menu.page = "closed" THEN idle ELSE Closing(idle, ok)
                    IN ble' = SelectSlot(quiet, t, ok, saved)
                 /\ menu' = Close(menu)
            \/ /\ ble' = Closing(CancelCalibration(ble, FALSE, ok, saved), ok)
               /\ menu' = Close(menu)
            \/ /\ menu.page = "closed"
               /\ ble' = ReleaseAll(CancelCalibration(ble, FALSE, ok, saved), ok)
               /\ UNCHANGED menu
            \/ /\ menu.page = "closed" /\ ~Active(ble)
               /\ \/ \E mask \in SUBSET Slot, enable \in BOOLEAN :
                       /\ CanBegin(ble, mask)
                       /\ ble' = BeginCalibration(ble, mask, enable, FALSE, ok, saved)
                  \/ \E on \in BOOLEAN : ble' = SetSeamless(ble, on, ok)
               /\ UNCHANGED menu
    /\ UNCHANGED <<up, keys>>

-----------------------------------------------------------------------------
(***************************************************************************)
(* drainInput(): the reports of the queue, one after the other.            *)
(***************************************************************************)
\* PointerCalibration::motion() and the queue.  The queue merges motion, as its
\* reports have no buttons, and is never full.
Motion(b, moves, button) ==
    LET click == button /\ ~b.button /\ b.armed
        forward == ~b.mark
        counts == forward /\ moves /\ b.stage = "bottomright"
    IN [b EXCEPT !.button = button, !.armed = (@ \/ ~button) /\ ~(forward /\ click),
                 !.mark = @ \/ click,
                 !.counted = IF counts THEN @ + 1 ELSE @,
                 !.queued = IF forward /\ moves THEN @ + 1 ELSE @]

Room(b) == b.counted < MaxMotion /\ b.queued < MaxMotion

\* DeviceMenu::keyboard() keeps track also while the menu is closed.
Seen(m, key) ==
    [m EXCEPT !.previous = key, !.released = @ \/ (m.page # "closed" /\ key = "none")]

\* A mouse report, which may have waited for more than 100 ms.  Without a
\* calibration it concerns neither.
MouseReport ==
    /\ step = "drain"
    /\ Active(ble) /\ ~ble.talking
    /\ \E moves, button \in BOOLEAN, ok \in {{}, up}, saved \in BOOLEAN :
         \/ ble' = CancelCalibration(ble, FALSE, ok, saved)
         \/ (moves => Room(ble)) /\ ble' = Motion(ble, moves, button)
    /\ UNCHANGED <<step, up, menu, keys>>

\* An option is chosen by a key that was not down, once all keys and buttons
\* were released; the page that waits for its text to be typed takes none.
Chooses(m, key) == m.page \in {"main", "other"} /\ m.released /\ key = "option" /\ m.previous # key

\* A keyboard report.  The options lead on, at last to the start of a calibration,
\* change the seamless switching, or lead back; while the menu still types, they
\* are ignored.
KeyboardReport ==
    /\ step = "drain"
    /\ \E key \in Key :
         /\ keys' = [key |-> key, carried |-> keys.carried /\ key = "option"]
         /\ \/ Active(ble) /\ UNCHANGED <<ble, menu>>
            \/ ~Active(ble) /\ menu' = Seen(menu, key) /\ UNCHANGED ble
            \/ /\ ~Active(ble) /\ Chooses(menu, key)
               /\ \E page \in {"main", "other", "start"} :
                    /\ menu.page = "main" => page = "other"
                    /\ menu' = [Seen(menu, key) EXCEPT !.page = page]
                    /\ \/ UNCHANGED ble
                       \/ \E on \in BOOLEAN, ok \in {{}, up} :
                            menu.page = "other" /\ page = "main" /\ ble' = SetSeamless(ble, on, ok)
    /\ UNCHANGED <<step, up>>

\* ESC is pressed and released: it cancels the calibration, or is back() in the
\* menu, from the first page out of it.
Escape ==
    /\ step = "drain"
    /\ \E ok \in {{}, up}, saved \in BOOLEAN :
         \/ /\ Active(ble)
            /\ ble' = CancelCalibration(ble, FALSE, ok, saved)
            /\ menu' = Seen(menu, keys.key)
         \/ /\ menu.page = "main"
            /\ ble' = Closing(ble, ok)
            /\ menu' = Close(Seen(menu, keys.key))
         \/ /\ menu.page \in {"start", "other"}
            /\ ble' = ReleaseAll(ble, ok)
            /\ menu' = [Seen(menu, keys.key) EXCEPT !.page = "main"]
    /\ UNCHANGED <<step, up, keys>>

\* The Bluetooth input was reset: its keys are up, without a report to the menu,
\* and all is released, a calibration goes on.
DrainEnd ==
    /\ step = "drain" /\ Then("flush")
    /\ \/ UNCHANGED <<ble, keys>>
       \/ \E ok \in {{}, up} :
            /\ ble' = [ReleaseAll(ble, ok) EXCEPT
                         !.discarded = IF ble.stage = "bottomright" THEN @ + ble.queued ELSE @]
            /\ \/ UNCHANGED keys
               \/ keys' = [key |-> "none", carried |-> FALSE]
    /\ UNCHANGED <<up, menu>>

-----------------------------------------------------------------------------
(***************************************************************************)
(* flushInput(): serviceCalibration().                                     *)
(***************************************************************************)
CanSend(b) == Connected(b) /\ b.selected \notin b.owed

\* The link, the session and the selection are still those of the capture.
Holds(b) == b.selected = b.slot /\ "capture" \in b.session /\ b.slot \in CalibrationReady

\* The capture lost its computer, or nothing moved for 120 s.
CaptureFails ==
    /\ Active(ble) /\ ~ble.talking
    /\ \E ok \in {{}, up}, saved \in BOOLEAN : ble' = CancelCalibration(ble, FALSE, ok, saved)

\* The motion pending is sent, or it is not due or refused.
SendMotion ==
    /\ Active(ble) /\ ~ble.talking /\ Holds(ble)
    /\ \/ UNCHANGED ble
       \/ /\ ble.queued > 0 /\ CanSend(ble)
          /\ ble' = [ble EXCEPT !.queued = 0,
                                !.delivered = IF ble.stage = "bottomright" THEN @ + ble.queued ELSE @]

\* Mutant: the mark is taken while motion is still pending.
CanSettleEarly(b) == b.mark /\ ~b.button

\* PointerCalibration::settle(), 200 ms after the mark and the last motion sent.
CanSettle(b) == b.mark /\ b.queued = 0 /\ ~b.button

\* The first mark.
SettleFirst ==
    /\ Active(ble) /\ ~ble.talking /\ Holds(ble)
    /\ ble.stage = "topleft" /\ CanSettle(ble)
    /\ ble' = [ble EXCEPT !.mark = FALSE, !.stage = "bottomright", !.counted = 0]

\* The slot is done; slots that are not ready any more are skipped.
Remaining(b) == (b.remaining \ {b.slot}) \cap CalibrationReady

\* Enabling is saved last, once all captures are done.
Enabled(b, enable) ==
    IF Remaining(b) = {} /\ b.enableAfter
    THEN [b EXCEPT !.enableAfter = FALSE, !.seamless = @ \/ enable] ELSE b

\* calibrationMessage() over the serial line: on to the next computer.
Continue(b, ok, saved, back) ==
    IF Remaining(b) = {} THEN CancelCalibration(b, TRUE, ok, back)
    ELSE LET next == First(Remaining(b))
             there == SelectSlot(ReleaseAll(b, ok), next, ok, saved)
         IN IF there.selected # next THEN CancelCalibration(there, FALSE, ok, back)
            ELSE StartCapture([there EXCEPT !.remaining = Remaining(b)], next)

\* calibrationMessage(), typed: first back to the computer it came from.
Announce(b, ok, saved, back) ==
    LET there == SelectSlot(ReleaseAll(b, ok), b.origin, ok, saved)
    IN IF there.selected # b.origin \/ b.origin \notin up
       THEN CancelCalibration(there, FALSE, ok, back)
       ELSE [there EXCEPT !.remaining = Remaining(b), !.talking = TRUE, !.half = FALSE, !.epoch = TRUE,
                          !.next = IF Remaining(b) = {} THEN None ELSE First(Remaining(b)),
                          !.session = {"message"}]

\* The second mark: the span is saved if it is large enough.
SettleSecond ==
    /\ Active(ble) /\ ~ble.talking /\ Holds(ble)
    /\ ble.stage = "bottomright" /\ CanSettle(ble)
    /\ \E ok \in {{}, up}, stored, enable, saved, back \in BOOLEAN :
         LET marked == [ble EXCEPT !.mark = FALSE, !.stage = "ready"]
             done == Enabled(marked, enable)
         IN ble' = IF marked.counted = 0 \/ ~stored THEN CancelCalibration(marked, FALSE, ok, back)
                   ELSE IF ble.text THEN Announce(done, ok, saved, back)
                   ELSE Continue(done, ok, saved, back)

\* CalibrationFeedback::tick(): the session is over, or 120 s are.
MessageEnds == ~Connected(ble) \/ ble.selected # ble.origin \/ "message" \notin ble.session
MessageLost ==
    /\ ble.talking
    /\ \E ok \in {{}, up}, saved \in BOOLEAN : ble' = CancelCalibration(ble, FALSE, ok, saved)

\* Mutant: the message does not ask whether it was the last.
MessageDoneAlways(b, ok, saved, back) ==
    LET silent == [b EXCEPT !.talking = FALSE]
        there == SelectSlot(silent, b.next, ok, saved)
    IN IF there.selected # b.next THEN CancelCalibration(there, FALSE, ok, back)
       ELSE StartCapture(there, b.next)

\* The message is done: the end, or the next computer if it is still ready.
MessageDone(b, ok, saved, back) ==
    LET silent == [b EXCEPT !.talking = FALSE]
        there == SelectSlot(silent, b.next, ok, saved)
    IN IF b.next = None THEN CancelCalibration(silent, TRUE, ok, back)
       ELSE IF b.next \notin CalibrationReady THEN CancelCalibration(silent, FALSE, ok, back)
       ELSE IF there.selected # b.next THEN CancelCalibration(there, FALSE, ok, back)
       ELSE StartCapture(there, b.next)

\* A key of the message goes down, or up; after the last one the message is done.
Type ==
    /\ ble.talking /\ ~MessageEnds
    /\ \/ UNCHANGED ble
       \/ /\ CanSend(ble) /\ ~ble.half
          /\ ble' = [ble EXCEPT !.typed = @ \cup {ble.selected}, !.half = TRUE]
       \/ /\ CanSend(ble) /\ ble.half
          /\ LET lifted == [ble EXCEPT !.typed = @ \ {ble.selected}, !.half = FALSE]
             IN \/ ble' = lifted
                \/ \E ok \in {{}, up}, saved, back \in BOOLEAN :
                     ble' = MessageDone(lifted, ok, saved, back)

Flush ==
    /\ step = "flush"
    /\ \/ ~Active(ble) /\ UNCHANGED ble
       \/ CaptureFails \/ SendMotion \/ SettleFirst \/ SettleSecond
       \/ MessageLost \/ Type
    /\ UNCHANGED <<up, menu, keys>>
    /\ Then(AfterFlush(ble'))

\* Mutant: the menu takes no notice of what is down when it comes back.
ResumedFresh(m) == [m EXCEPT !.page = "main", !.released = TRUE, !.previous = "none"]

\* DeviceMenu::resume() adopts what is down.
Resumed(m) ==
    [m EXCEPT !.page = "main", !.previous = keys.key, !.released = keys.key = "none"]

\* takeCalibrationMenuReturn()
Return ==
    /\ step = "return" /\ Then("usb")
    /\ IF ble.selected = ble.resume /\ ~Active(ble) /\ Connected(ble)
       THEN /\ \E ok \in {{}, up} :
                 ble' = [ReleaseAll(ble, ok) EXCEPT !.resume = None, !.session = @ \cup {"menu"}]
            /\ menu' = Resumed(menu)
            /\ keys' = [keys EXCEPT !.carried = keys.key = "option"]
       ELSE ble' = [ble EXCEPT !.resume = None] /\ UNCHANGED <<menu, keys>>
    /\ UNCHANGED up

-----------------------------------------------------------------------------
Init ==
    /\ step = "usb"
    /\ up = {}
    /\ \E s \in Slot, on \in BOOLEAN :
         ble = [selected |-> s, seamless |-> on, absolute |-> on, owed |-> {}, epoch |-> FALSE,
                session |-> {}, stage |-> "idle", slot |-> First(Slot), origin |-> First(Slot),
                remaining |-> {}, mark |-> FALSE, armed |-> FALSE, button |-> FALSE,
                enableAfter |-> FALSE, text |-> TRUE, talking |-> FALSE, next |-> None,
                resume |-> None, typed |-> {}, half |-> FALSE, counted |-> 0, queued |-> 0,
                delivered |-> 0, discarded |-> 0]
    /\ menu = [page |-> "closed", released |-> FALSE, previous |-> "none"]
    /\ keys = [key |-> "none", carried |-> FALSE]

Next ==
    \/ Usb \/ BleEvent \/ Stalled \/ BleEnd \/ Boot \/ MenuTick \/ Epoch \/ Commands
    \/ MouseReport \/ KeyboardReport \/ Escape \/ DrainEnd \/ Flush \/ Return

Spec == Init /\ [][Next]_vars

-----------------------------------------------------------------------------
\* Every variable stays in its range.
TypeOK ==
    /\ step \in Step
    /\ up \subseteq Slot
    /\ ble \in BleState
    /\ menu \in Menu
    /\ keys \in Keys

\* One mouse path owns the selected computer: the router sends absolute reports
\* exactly when seamless switching is on and no calibration runs, whatever was
\* selected, refused, lost or cancelled in between.
PathIsOwned == ble.absolute = (ble.seamless /\ ~Active(ble))

\* The span saved is the motion that reached the computer between the two marks,
\* and while the capture can still be finished, what is pending apart: refused
\* sends, changes of the input epoch and lost links included.  Only a reset of
\* the Bluetooth input throws away motion that stays counted.
SpanIsDelivered ==
    /\ ble.stage = "ready" => ble.counted = ble.delivered + ble.discarded
    /\ ble.stage = "bottomright" /\ "capture" \in ble.session =>
           ble.counted = ble.delivered + ble.queued + ble.discarded

\* A key of a message is not left down: it belongs to a message that will
\* release it, or its release is owed.
TypedIsReleased ==
    \A s \in ble.typed :
        \/ ble.talking /\ ble.half /\ ble.selected = s
        \/ s \in ble.owed

\* A key that was down when the menu came back chooses nothing until it was up.
CarriedKeyChoosesNothing == keys.carried => menu.page \in {"closed", "main"}
=============================================================================
