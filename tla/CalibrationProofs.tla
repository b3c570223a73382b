--------------------------- MODULE CalibrationProofs ---------------------------
(***************************************************************************)
(* The invariants of Calibration, proved for every set of computers, every  *)
(* choice of those that take relative reports and every bound on the counts.*)
(*                                                                         *)
(* IInv joins four facts.  Good is about BleHid: who owns the path of the    *)
(* mouse, which session a capture holds on to, where each count went, and    *)
(* which keys have a release to come.  MenuAway keeps the menu closed while   *)
(* a calibration runs, MenuGood that a key carried into the menu is one it    *)
(* has seen.  The operators on BleHid get a lemma each, then each action.    *)
(***************************************************************************)
EXTENDS Calibration, TLAPS

\* What a release or a selection leaves alone.
Same(c, b) ==
    /\ c.seamless = b.seamless /\ c.epoch = b.epoch /\ c.session = b.session
    /\ c.stage = b.stage /\ c.slot = b.slot /\ c.origin = b.origin /\ c.remaining = b.remaining
    /\ c.mark = b.mark /\ c.armed = b.armed /\ c.button = b.button
    /\ c.enableAfter = b.enableAfter /\ c.text = b.text /\ c.talking = b.talking
    /\ c.next = b.next /\ c.resume = b.resume /\ c.half = b.half
    /\ c.counted = b.counted /\ c.delivered = b.delivered /\ c.discarded = b.discarded

\* The first of some computers is one of them.
LEMMA FirstChosen ==
    ASSUME NEW S \in SUBSET Slot, S # {}
    PROVE  First(S) \in S
<1>1. S \subseteq 0 .. 2
  BY SlotAssumption
<1>2. \E s \in S : \A t \in S : s <= t
  <2>1. CASE 0 \in S
    BY <1>1, <2>1
  <2>2. CASE 0 \notin S /\ 1 \in S
    BY <1>1, <2>2
  <2>3. CASE 0 \notin S /\ 1 \notin S
    <3>1. \A t \in S : t = 2
      BY <1>1, <2>3
    <3>2. 2 \in S
      BY <3>1
    <3> QED
      BY <3>1, <3>2
  <2> QED
    BY <2>1, <2>2, <2>3
<1> QED
  BY <1>2 DEF First

\* service() only ends what was owed to the computers that accept it.
LEMMA Served ==
    ASSUME NEW b \in BleState, NEW ok \in SUBSET Slot, NEW c, c = Serve(b, ok)
    PROVE  /\ c \in BleState /\ Same(c, b)
           /\ c.selected = b.selected /\ c.absolute = b.absolute /\ c.queued = b.queued
           /\ c.owed = b.owed \ ok
           /\ c.typed = b.typed \ (b.owed \cap ok)
<1>1. c \in BleState
  BY DEF Serve, BleState
<1> QED
  BY <1>1 DEF Serve, BleState, Same

\* releaseAll() owes every release and empties the queue.
LEMMA Released ==
    ASSUME NEW b \in BleState, NEW ok \in SUBSET Slot, NEW c, c = ReleaseAll(b, ok)
    PROVE  /\ c \in BleState /\ Same(c, b)
           /\ c.selected = b.selected /\ c.absolute = b.absolute
           /\ c.queued = 0 /\ c.typed \subseteq c.owed
<1> DEFINE all == [b EXCEPT !.owed = Slot, !.queued = 0]
<1>1. 0 \in Count
  BY MotionAssumption DEF Count
<1>2. /\ all \in BleState /\ Same(all, b)
      /\ all.selected = b.selected /\ all.absolute = b.absolute
      /\ all.queued = 0 /\ all.owed = Slot /\ all.typed = b.typed
  BY <1>1 DEF BleState, Same
<1>3. b.typed \subseteq Slot
  BY DEF BleState
<1>4. c = Serve(all, ok)
  BY DEF ReleaseAll
<1> HIDE DEF all
<1> QED
  BY <1>2, <1>3, <1>4, Served DEF Same

\* The path of the mouse follows from the mode and the calibration.
Owned(b) == b.absolute = (b.seamless /\ ~Active(b))

\* selectSlot() keeps the path with its owner, and owes the releases of both computers.
LEMMA Selected ==
    ASSUME NEW b \in BleState, NEW t \in Slot, NEW ok \in SUBSET Slot, NEW saved \in BOOLEAN,
           b.typed \subseteq b.owed, NEW c, c = SelectSlot(b, t, ok, saved)
    PROVE  /\ c \in BleState /\ Same(c, b) /\ (Owned(b) => Owned(c))
           /\ c.typed \subseteq c.owed
           /\ c.queued = b.queued \/ c.queued = 0
<1> DEFINE there == [b EXCEPT !.selected = t, !.queued = 0, !.owed = @ \cup {b.selected, t},
                              !.absolute = UseAbsolutePointer(b) /\ ~Active(b)]
           here == [b EXCEPT !.absolute = UseAbsolutePointer(b) /\ ~Active(b)]
<1>1. 0 \in Count
  BY MotionAssumption DEF Count
<1>2. (UseAbsolutePointer(b) /\ ~Active(b)) \in BOOLEAN
  OBVIOUS
<1>3. /\ here \in BleState /\ Same(here, b)
      /\ here.absolute = (UseAbsolutePointer(b) /\ ~Active(b))
      /\ here.queued = b.queued /\ here.owed = b.owed /\ here.typed = b.typed
  BY <1>2 DEF BleState, Same
<1>4. /\ there \in BleState /\ Same(there, b)
      /\ there.absolute = (UseAbsolutePointer(b) /\ ~Active(b))
      /\ there.queued = 0 /\ there.typed = b.typed
      /\ there.owed = b.owed \cup {b.selected, t}
  BY <1>1, <1>2 DEF BleState, Same
<1>5. \/ c = b \/ c = here \/ c = Serve(there, ok)
  BY DEF SelectSlot
<1> HIDE DEF here, there
<1>6. CASE c = b
  BY <1>6 DEF Same
<1>7. CASE c = here
  BY <1>3, <1>7 DEF Same, Owned, Active, UseAbsolutePointer
<1>8. CASE c = Serve(there, ok)
  <2>1. /\ c \in BleState /\ Same(c, there) /\ c.queued = 0
        /\ c.absolute = there.absolute
        /\ c.owed = there.owed \ ok /\ c.typed = there.typed \ (there.owed \cap ok)
    BY <1>4, <1>8, Served
  <2> QED
    BY <2>1, <1>4 DEF Same, Owned, Active, UseAbsolutePointer
<1> QED
  BY <1>5, <1>6, <1>7, <1>8

\* The counts of a capture: what is counted was delivered, discarded or is still
\* queued, or was lost with the session.
Span(b) ==
    /\ b.stage = "topleft" => b.delivered = 0 /\ b.discarded = 0
    /\ b.stage = "bottomright" => b.delivered + b.queued + b.discarded <= b.counted
    /\ b.stage = "bottomright" /\ "capture" \in b.session =>
           b.counted = b.delivered + b.queued + b.discarded
    /\ b.stage = "ready" => b.counted = b.delivered + b.discarded

\* A session is that of a capture only with the link and selection it began with.
Held(b, on) ==
    "capture" \in b.session => Active(b) /\ ~b.talking /\ b.selected = b.slot /\ b.slot \in on

Owing(b) ==
    \A s \in b.typed : (b.talking /\ b.half /\ b.selected = s) \/ s \in b.owed

Good(b, on) ==
    /\ b \in BleState
    /\ Owned(b)
    /\ b.talking <=> b.stage = "ready"
    /\ Held(b, on)
    /\ Span(b)
    /\ Owing(b)

\* A capture that begins with the selection made is good.
LEMMA Begun ==
    ASSUME NEW b \in BleState, NEW on, NEW s \in Slot, s \in on, b.selected = s, ~b.talking,
           b.absolute = FALSE, b.typed \subseteq b.owed, NEW c, c = StartCapture(b, s)
    PROVE  Good(c, on) /\ Active(c)
<1>1. 0 \in Count
  BY MotionAssumption DEF Count
<1>2. c \in BleState
  BY <1>1 DEF StartCapture, BleState, Stage
<1>3. /\ c.selected = s /\ c.slot = s /\ c.stage = "topleft" /\ c.talking = b.talking
      /\ c.absolute = b.absolute /\ c.delivered = 0 /\ c.discarded = 0
      /\ c.typed = b.typed /\ c.owed = b.owed
  BY DEF StartCapture, BleState
<1>4. Owned(c) /\ Active(c)
  BY <1>3 DEF Owned, Active
<1>5. Held(c, on) /\ Span(c)
  BY <1>3 DEF Held, Span, Active
<1>6. Owing(c)
  BY <1>3 DEF Owing
<1> QED
  BY <1>2, <1>3, <1>4, <1>5, <1>6 DEF Good

\* A stopped calibration is idle and no session is that of a capture.
LEMMA Idle ==
    ASSUME NEW b \in BleState, NEW c, c = Stopped(b)
    PROVE  /\ c \in BleState /\ c.stage = "idle" /\ ~c.talking
           /\ c.seamless = b.seamless /\ "capture" \notin c.session
<1>1. 0 \in Count
  BY MotionAssumption DEF Count
<1>2. First(Slot) \in Slot
  BY FirstChosen, SlotAssumption
<1> DEFINE quiet == [b EXCEPT !.stage = "idle", !.slot = First(Slot), !.origin = First(Slot),
                          !.text = TRUE, !.remaining = {}, !.mark = FALSE, !.armed = FALSE]
           silent == [quiet EXCEPT !.button = FALSE, !.enableAfter = FALSE, !.talking = FALSE,
                                   !.next = None, !.half = FALSE]
<1>3. c \in BleState
  <2>1. quiet \in BleState
    BY <1>2 DEF BleState, Stage
  <2> DEFINE reset == [silent EXCEPT !.counted = 0, !.delivered = 0]
  <2>2. c = [reset EXCEPT !.discarded = 0, !.queued = 0, !.session = @ \ {"capture", "message"}]
    BY DEF Stopped, BleState
  <2> HIDE DEF quiet
  <2>3. silent \in BleState
    BY <2>1 DEF BleState
  <2> HIDE DEF silent
  <2>4. reset \in BleState
    BY <1>1, <2>3 DEF BleState
  <2> HIDE DEF reset
  <2> QED
    BY <1>1, <2>2, <2>4 DEF BleState
<1> HIDE DEF quiet, silent
<1>4. c.stage = "idle"
  BY DEF Stopped, BleState
<1>5. c.talking = FALSE
  BY DEF Stopped, BleState
<1>6. c.seamless = b.seamless
  BY DEF Stopped, BleState
<1>7. c.session = b.session \ {"capture", "message"}
  BY DEF Stopped, BleState
<1> QED
  BY <1>3, <1>4, <1>5, <1>6, <1>7

\* Whatever the state was, a cancelled calibration leaves a good, idle one.
LEMMA Cancelled ==
    ASSUME NEW b \in BleState, Active(b), NEW on, NEW complete \in BOOLEAN, NEW ok \in SUBSET Slot,
           NEW saved \in BOOLEAN, NEW c, c = CancelCalibration(b, complete, ok, saved)
    PROVE  Good(c, on) /\ ~Active(c)
<1> DEFINE idle == Stopped(b)
           quiet == ReleaseAll(idle, ok)
           back == SelectSlot(quiet, b.origin, ok, saved)
           return == IF b.text /\ complete /\ back.selected = b.origin /\ b.origin \in up
                     THEN b.origin ELSE None
<1>1. c = [back EXCEPT !.absolute = UseAbsolutePointer(b), !.epoch = TRUE, !.resume = return]
  BY DEF CancelCalibration
<1>2. /\ idle \in BleState /\ idle.stage = "idle" /\ ~idle.talking
      /\ idle.seamless = b.seamless /\ "capture" \notin idle.session
  BY Idle
<1>3. b.origin \in Slot /\ b.seamless \in BOOLEAN
  BY DEF BleState
<1>4. return \in Slot \cup {None}
  BY <1>3
<1> HIDE DEF idle, return
<1>5. quiet \in BleState /\ Same(quiet, idle) /\ quiet.typed \subseteq quiet.owed
  BY <1>2, Released
<1> HIDE DEF quiet
<1>6. back \in BleState /\ Same(back, quiet) /\ back.typed \subseteq back.owed
  BY <1>3, <1>5, Selected
<1> HIDE DEF back
<1>7. c \in BleState
  <2> DEFINE placed == [back EXCEPT !.absolute = UseAbsolutePointer(b), !.epoch = TRUE]
  <2>1. placed \in BleState
    BY <1>3, <1>6 DEF BleState, UseAbsolutePointer
  <2>2. c = [placed EXCEPT !.resume = return]
    BY <1>1
  <2> HIDE DEF placed
  <2> QED
    BY <1>4, <2>1, <2>2 DEF BleState
<1>8. /\ c.absolute = b.seamless /\ c.stage = back.stage /\ c.talking = back.talking
      /\ c.seamless = back.seamless /\ c.session = back.session
      /\ c.typed = back.typed /\ c.owed = back.owed
  BY <1>1, <1>6 DEF BleState, UseAbsolutePointer
<1>9. /\ c.stage = "idle" /\ ~c.talking /\ c.absolute = c.seamless
      /\ "capture" \notin c.session /\ c.typed \subseteq c.owed
  BY <1>2, <1>5, <1>6, <1>8 DEF Same
<1>10. Owned(c) /\ ~Active(c)
  BY <1>7, <1>9 DEF Owned, Active, BleState
<1>11. Held(c, on) /\ Span(c)
  BY <1>9 DEF Held, Span
<1>12. Owing(c)
  BY <1>9 DEF Owing
<1> QED
  BY <1>7, <1>9, <1>10, <1>11, <1>12 DEF Good

\* Two states of BleHid that differ in nothing the invariant speaks of.
Alike(c, b) ==
    /\ c.stage = b.stage /\ c.absolute = b.absolute /\ c.seamless = b.seamless
    /\ c.talking = b.talking /\ c.half = b.half /\ c.selected = b.selected /\ c.slot = b.slot
    /\ c.typed = b.typed /\ c.owed = b.owed
    /\ c.counted = b.counted /\ c.delivered = b.delivered
    /\ c.queued = b.queued /\ c.discarded = b.discarded
    /\ "capture" \in c.session => "capture" \in b.session

\* A state is as good as one it differs from in nothing the invariant speaks of.
LEMMA AlikeGood ==
    ASSUME NEW b, NEW on, Good(b, on), NEW c \in BleState, Alike(c, b)
    PROVE  Good(c, on)
<1>1. Owned(c)
  BY DEF Good, Alike, Owned, Active
<1>2. Held(c, on)
  BY DEF Good, Alike, Held, Active
<1>3. Span(c)
  BY DEF Good, Alike, Span
<1>4. Owing(c)
  BY DEF Good, Alike, Owing
<1> QED
  BY <1>1, <1>2, <1>3, <1>4 DEF Good, Alike

\* cancelCalibration() leaves a good, idle state, also without a calibration.
LEMMA CancelKeeps ==
    ASSUME NEW b, NEW on, Good(b, on), NEW complete \in BOOLEAN, NEW ok \in SUBSET Slot,
           NEW saved \in BOOLEAN, NEW c, c = CancelCalibration(b, complete, ok, saved)
    PROVE  Good(c, on) /\ ~Active(c)
<1>1. CASE Active(b)
  BY <1>1, Cancelled DEF Good
<1>2. CASE ~Active(b)
  BY <1>2 DEF CancelCalibration
<1> QED
  BY <1>1, <1>2

\* Without a calibration every key is owed its release, and no session is that
\* of a capture.
LEMMA IdleOwes ==
    ASSUME NEW b, NEW on, Good(b, on), ~Active(b)
    PROVE  /\ b \in BleState /\ b.typed \subseteq b.owed /\ ~b.talking
           /\ "capture" \notin b.session
BY DEF Good, Active, Owing, Held

\* Without a calibration it is enough that the path, the releases and the session are.
LEMMA IdleGood ==
    ASSUME NEW b, b \in BleState, NEW on, ~Active(b), ~b.talking, Owned(b),
           b.typed \subseteq b.owed, "capture" \notin b.session
    PROVE  Good(b, on)
BY DEF Good, Active, Owing, Held, Span

\* releaseAll() without a calibration.
LEMMA ReleaseIdle ==
    ASSUME NEW b, NEW on, Good(b, on), ~Active(b), NEW ok \in SUBSET Slot, NEW c, c = ReleaseAll(b, ok)
    PROVE  Good(c, on) /\ ~Active(c)
<1>1. b \in BleState /\ ~b.talking /\ "capture" \notin b.session
  BY IdleOwes
<1>2. /\ c \in BleState /\ Same(c, b) /\ c.absolute = b.absolute /\ c.typed \subseteq c.owed
  BY <1>1, Released
<1>3. ~Active(c) /\ ~c.talking /\ Owned(c) /\ "capture" \notin c.session
  BY <1>1, <1>2 DEF Same, Active, Owned, Good
<1> QED
  BY <1>2, <1>3, IdleGood

\* selectSlot() without a calibration.
LEMMA SelectIdle ==
    ASSUME NEW b, NEW on, Good(b, on), ~Active(b), NEW t \in Slot, NEW ok \in SUBSET Slot,
           NEW saved \in BOOLEAN, NEW c, c = SelectSlot(b, t, ok, saved)
    PROVE  Good(c, on) /\ ~Active(c)
<1>1. b \in BleState /\ ~b.talking /\ "capture" \notin b.session /\ b.typed \subseteq b.owed
  BY IdleOwes
<1>2. c \in BleState /\ Same(c, b) /\ Owned(c) /\ c.typed \subseteq c.owed
  BY <1>1, Selected DEF Good
<1>3. ~Active(c) /\ ~c.talking /\ "capture" \notin c.session
  BY <1>1, <1>2 DEF Same, Active
<1> QED
  BY <1>2, <1>3, IdleGood

\* The menu closes without a calibration.
LEMMA ClosingIdle ==
    ASSUME NEW b, NEW on, Good(b, on), ~Active(b), NEW ok \in SUBSET Slot, NEW c, c = Closing(b, ok)
    PROVE  Good(c, on) /\ ~Active(c)
<1> DEFINE quiet == ReleaseAll(b, ok)
<1>1. Good(quiet, on) /\ ~Active(quiet)
  BY ReleaseIdle
<1>2. c = [quiet EXCEPT !.session = @ \ {"menu"}]
  BY DEF Closing
<1> HIDE DEF quiet
<1>3. quiet \in BleState
  BY <1>1 DEF Good
<1>4. c \in BleState
  BY <1>2, <1>3 DEF BleState
<1>5. Alike(c, quiet)
  BY <1>2, <1>3 DEF BleState, Alike
<1> QED
  BY <1>1, <1>4, <1>5, AlikeGood DEF Alike, Active

\* The seamless switching changes without a calibration.
LEMMA SeamlessIdle ==
    ASSUME NEW b, NEW on, Good(b, on), ~Active(b), NEW value \in BOOLEAN, NEW ok \in SUBSET Slot,
           NEW c, c = SetSeamless(b, value, ok)
    PROVE  Good(c, on) /\ ~Active(c)
<1> DEFINE quiet == ReleaseAll(b, ok)
<1>1. Good(quiet, on) /\ ~Active(quiet)
  BY ReleaseIdle
<1>2. c = [quiet EXCEPT !.seamless = value, !.absolute = value, !.epoch = TRUE]
  BY DEF SetSeamless
<1> HIDE DEF quiet
<1>3. quiet \in BleState /\ quiet.typed \subseteq quiet.owed /\ ~quiet.talking /\ "capture" \notin quiet.session
  BY <1>1, IdleOwes
<1>4. c \in BleState
  BY <1>2, <1>3 DEF BleState
<1>5. /\ c.stage = quiet.stage /\ c.talking = quiet.talking /\ c.session = quiet.session
      /\ c.typed = quiet.typed /\ c.owed = quiet.owed /\ c.absolute = value /\ c.seamless = value
  BY <1>2, <1>3 DEF BleState
<1>6. ~Active(c) /\ Owned(c)
  BY <1>1, <1>5 DEF Active, Owned
<1> QED
  BY <1>3, <1>4, <1>5, <1>6, IdleGood

\* beginCalibration() begins a good capture, or none if the selection is not saved.
LEMMA BeginGood ==
    ASSUME NEW b, Good(b, up), NEW mask \in SUBSET Slot, CanBegin(b, mask), NEW enable \in BOOLEAN,
           NEW text \in BOOLEAN, NEW ok \in SUBSET Slot, NEW saved \in BOOLEAN,
           NEW c, c = BeginCalibration(b, mask, enable, text, ok, saved)
    PROVE  Good(c, up)
<1> DEFINE first == First(mask)
           quiet == ReleaseAll(b, ok)
           there == SelectSlot(quiet, first, ok, saved)
           armed == [there EXCEPT !.absolute = FALSE, !.origin = b.selected, !.remaining = mask,
                                  !.enableAfter = enable, !.text = text, !.resume = None]
<1>1. first \in Slot /\ first \in up /\ ~Active(b) /\ b.selected \in Slot
  BY FirstChosen DEF CanBegin, CalibrationReady, Good, BleState
<1>2. Good(quiet, up) /\ ~Active(quiet)
  BY <1>1, ReleaseIdle
<1>3. c = IF there.selected # first THEN there ELSE StartCapture(armed, first)
  BY DEF BeginCalibration
<1> HIDE DEF quiet, first
<1>4. Good(there, up) /\ ~Active(there)
  BY <1>1, <1>2, SelectIdle
<1> HIDE DEF there
<1>5. there \in BleState /\ ~there.talking /\ there.typed \subseteq there.owed
  BY <1>4, IdleOwes
<1>6. /\ armed \in BleState /\ armed.selected = there.selected /\ armed.absolute = FALSE
      /\ armed.talking = there.talking /\ armed.typed = there.typed /\ armed.owed = there.owed
  <2>1. b.selected \in Slot /\ None \in Slot \cup {None} /\ mask \subseteq Slot
    BY <1>1
  <2>2. armed \in BleState
    BY <1>5, <2>1 DEF BleState
  <2>3. armed.selected = there.selected
    BY <1>5 DEF BleState
  <2>4. armed.absolute = FALSE
    BY <1>5 DEF BleState
  <2>5. armed.talking = there.talking
    BY <1>5 DEF BleState
  <2>6. armed.typed = there.typed /\ armed.owed = there.owed
    BY <1>5 DEF BleState
  <2> QED
    BY <2>2, <2>3, <2>4, <2>5, <2>6
<1> HIDE DEF armed
<1>7. CASE there.selected # first
  BY <1>3, <1>4, <1>7
<1>8. CASE there.selected = first
  <2>1. c = StartCapture(armed, first)
    BY <1>3, <1>8
  <2>2. armed.selected = first /\ ~armed.talking /\ armed.typed \subseteq armed.owed
    BY <1>5, <1>6, <1>8
  <2> QED
    BY <1>1, <1>6, <2>1, <2>2, Begun
<1> QED
  BY <1>7, <1>8

-----------------------------------------------------------------------------
\* What a finished or a refused capture hands on: the result is still the motion
\* delivered, and the path belongs to the calibration.
Measured(b) ==
    /\ b \in BleState /\ b.stage = "ready" /\ b.absolute = FALSE
    /\ b.counted = b.delivered + b.discarded

\* The calibration selects a computer.
LEMMA Moves ==
    ASSUME NEW b, Measured(b), b.typed \subseteq b.owed, NEW t \in Slot, NEW ok \in SUBSET Slot,
           NEW saved \in BOOLEAN, NEW c, c = SelectSlot(b, t, ok, saved)
    PROVE  Measured(c) /\ Same(c, b) /\ c.typed \subseteq c.owed /\ Active(c)
<1>1. b \in BleState /\ Owned(b)
  BY DEF Measured, Owned, Active
<1>2. c \in BleState /\ Same(c, b) /\ Owned(c) /\ c.typed \subseteq c.owed
  BY <1>1, Selected
<1>3. c.stage = "ready" /\ c.counted = c.delivered + c.discarded
  BY <1>2 DEF Measured, Same
<1>4. c.absolute = FALSE
  BY <1>2, <1>3 DEF Owned, Active
<1> QED
  BY <1>2, <1>3, <1>4 DEF Measured, Active

\* The calibration releases all and selects a computer.
LEMMA ReleaseMoves ==
    ASSUME NEW b, Measured(b), NEW t \in Slot, NEW ok \in SUBSET Slot,
           NEW saved \in BOOLEAN, NEW c, c = SelectSlot(ReleaseAll(b, ok), t, ok, saved)
    PROVE  Measured(c) /\ Same(c, b) /\ c.typed \subseteq c.owed /\ Active(c)
<1> DEFINE quiet == ReleaseAll(b, ok)
<1>1. quiet \in BleState /\ Same(quiet, b) /\ quiet.absolute = b.absolute /\ quiet.typed \subseteq quiet.owed
  BY Released DEF Measured
<1>2. Measured(quiet)
  BY <1>1 DEF Measured, Same
<1>3. c = SelectSlot(quiet, t, ok, saved)
  OBVIOUS
<1> HIDE DEF quiet
<1>4. Measured(c) /\ Same(c, quiet) /\ c.typed \subseteq c.owed /\ Active(c)
  BY <1>1, <1>2, <1>3, Moves
<1> QED
  BY <1>1, <1>4 DEF Same

\* The computers that remain are among those requested and ready.
LEMMA RemainingSlots ==
    ASSUME NEW b, b \in BleState
    PROVE  /\ Remaining(b) \in SUBSET Slot
           /\ Remaining(b) # {} => /\ First(Remaining(b)) \in Slot
                                   /\ First(Remaining(b)) \in up
<1>1. Remaining(b) \in SUBSET Slot /\ Remaining(b) \subseteq up
  BY DEF Remaining, BleState, CalibrationReady
<1> QED
  BY <1>1, FirstChosen

\* The next capture, over the serial line.
LEMMA ContinueGood ==
    ASSUME NEW b, Measured(b), ~b.talking, NEW ok \in SUBSET Slot, NEW saved \in BOOLEAN,
           NEW back \in BOOLEAN, NEW c, c = Continue(b, ok, saved, back)
    PROVE  Good(c, up)
<1>1. b \in BleState /\ Active(b)
  BY DEF Measured, Active
<1>2. CASE Remaining(b) = {}
  <2>1. c = CancelCalibration(b, TRUE, ok, back)
    BY <1>2 DEF Continue
  <2> QED
    BY <1>1, <2>1, Cancelled
<1>3. CASE Remaining(b) # {}
  <2> DEFINE next == First(Remaining(b))
             there == SelectSlot(ReleaseAll(b, ok), next, ok, saved)
             moved == [there EXCEPT !.remaining = Remaining(b)]
  <2>1. next \in Slot /\ next \in up /\ Remaining(b) \in SUBSET Slot
    BY <1>1, <1>3, RemainingSlots
  <2>2. c = IF there.selected # next THEN CancelCalibration(there, FALSE, ok, back)
            ELSE StartCapture(moved, next)
    BY <1>3 DEF Continue
  <2> HIDE DEF next
  <2>3. Measured(there) /\ Same(there, b) /\ there.typed \subseteq there.owed /\ Active(there)
    BY <2>1, ReleaseMoves
  <2> HIDE DEF there
  <2>4. there \in BleState
    BY <2>3 DEF Measured
  <2>5. CASE there.selected # next
    <3>1. c = CancelCalibration(there, FALSE, ok, back)
      BY <2>2, <2>5
    <3> QED
      BY <2>3, <2>4, <3>1, Cancelled
  <2>6. CASE there.selected = next
    <3>1. /\ moved \in BleState /\ moved.selected = next /\ moved.talking = there.talking
          /\ moved.absolute = there.absolute /\ moved.typed = there.typed /\ moved.owed = there.owed
      BY <2>1, <2>4, <2>6 DEF BleState
    <3>2. ~moved.talking /\ moved.absolute = FALSE /\ moved.typed \subseteq moved.owed
      BY <2>3, <3>1 DEF Same, Measured
    <3>3. c = StartCapture(moved, next)
      BY <2>2, <2>6
    <3> HIDE DEF moved
    <3> QED
      BY <2>1, <3>1, <3>2, <3>3, Begun
  <2> QED
    BY <2>5, <2>6
<1> QED
  BY <1>2, <1>3

\* The message begins on the computer the request came from.
LEMMA AnnounceGood ==
    ASSUME NEW b, Measured(b), NEW ok \in SUBSET Slot, NEW saved \in BOOLEAN,
           NEW back \in BOOLEAN, NEW c, c = Announce(b, ok, saved, back)
    PROVE  Good(c, up)
<1> DEFINE there == SelectSlot(ReleaseAll(b, ok), b.origin, ok, saved)
           next == IF Remaining(b) = {} THEN None ELSE First(Remaining(b))
           talk == [there EXCEPT !.remaining = Remaining(b), !.talking = TRUE, !.half = FALSE,
                                 !.epoch = TRUE, !.next = next, !.session = {"message"}]
<1>1. b.origin \in Slot /\ b \in BleState
  BY DEF Measured, BleState
<1>2. Measured(there) /\ there.typed \subseteq there.owed /\ Active(there)
  BY <1>1, ReleaseMoves
<1>3. Remaining(b) \in SUBSET Slot /\ next \in Slot \cup {None}
  BY <1>1, RemainingSlots
<1>4. c = IF there.selected # b.origin \/ b.origin \notin up
          THEN CancelCalibration(there, FALSE, ok, back) ELSE talk
  BY DEF Announce
<1> HIDE DEF there, next
<1>5. there \in BleState
  BY <1>2 DEF Measured
<1>6. CASE c = CancelCalibration(there, FALSE, ok, back)
  BY <1>2, <1>5, <1>6, Cancelled
<1>7. CASE c = talk
  <2>1. c \in BleState
    <3> DEFINE half == [there EXCEPT !.remaining = Remaining(b), !.talking = TRUE, !.half = FALSE]
    <3>1. half \in BleState
      BY <1>3, <1>5 DEF BleState
    <3>2. c = [half EXCEPT !.epoch = TRUE, !.next = next, !.session = {"message"}]
      BY <1>7
    <3> HIDE DEF half
    <3> QED
      BY <1>3, <3>1, <3>2 DEF BleState
  <2>2. /\ c.stage = there.stage /\ c.absolute = there.absolute /\ c.talking = TRUE
        /\ c.typed = there.typed /\ c.owed = there.owed
    BY <1>5, <1>7 DEF BleState
  <2>3. /\ c.counted = there.counted /\ c.delivered = there.delivered
        /\ c.discarded = there.discarded /\ c.session = {"message"}
    BY <1>5, <1>7 DEF BleState
  <2>4. Owned(c) /\ Owing(c)
    BY <1>2, <2>2 DEF Measured, Owned, Active, Owing
  <2>6. Held(c, up)
    BY <2>3 DEF Held
  <2>5. Span(c)
    BY <1>2, <2>2, <2>3 DEF Measured, Span
  <2> QED
    BY <1>2, <2>1, <2>2, <2>4, <2>5, <2>6 DEF Good, Measured
<1> QED
  BY <1>4, <1>6, <1>7

\* A message that is done ends the calibration or begins the next capture.
LEMMA MessageDoneGood ==
    ASSUME NEW b, Measured(b), b.typed \subseteq b.owed, NEW ok \in SUBSET Slot,
           NEW saved \in BOOLEAN, NEW back \in BOOLEAN, NEW c, c = MessageDone(b, ok, saved, back)
    PROVE  Good(c, up)
<1> DEFINE silent == [b EXCEPT !.talking = FALSE]
           there == SelectSlot(silent, b.next, ok, saved)
<1>1. b \in BleState
  BY DEF Measured
<1>2. /\ silent \in BleState /\ silent.stage = b.stage /\ silent.absolute = b.absolute
      /\ silent.counted = b.counted /\ silent.delivered = b.delivered
      /\ silent.discarded = b.discarded /\ silent.typed = b.typed /\ silent.owed = b.owed
      /\ silent.talking = FALSE
  BY <1>1 DEF BleState
<1>3. Measured(silent) /\ silent.typed \subseteq silent.owed /\ Active(silent)
  BY <1>2 DEF Measured, Active
<1>4. c = IF b.next = None THEN CancelCalibration(silent, TRUE, ok, back)
          ELSE IF b.next \notin CalibrationReady THEN CancelCalibration(silent, FALSE, ok, back)
          ELSE IF there.selected # b.next THEN CancelCalibration(there, FALSE, ok, back)
          ELSE StartCapture(there, b.next)
  BY DEF MessageDone
<1> HIDE DEF silent
<1>5. CASE c = CancelCalibration(silent, TRUE, ok, back) \/ c = CancelCalibration(silent, FALSE, ok, back)
  BY <1>2, <1>3, <1>5, Cancelled
<1>6. CASE b.next # None /\ b.next \in CalibrationReady
  <2>1. b.next \in Slot /\ b.next \in up
    BY <1>1, <1>6 DEF BleState, CalibrationReady
  <2>2. Measured(there) /\ Same(there, silent) /\ there.typed \subseteq there.owed /\ Active(there)
    BY <1>3, <2>1, Moves
  <2>3. c = IF there.selected # b.next THEN CancelCalibration(there, FALSE, ok, back)
            ELSE StartCapture(there, b.next)
    BY <1>4, <1>6
  <2> HIDE DEF there
  <2>4. there \in BleState /\ there.absolute = FALSE /\ ~there.talking
    BY <1>2, <2>2 DEF Measured, Same
  <2>5. CASE there.selected # b.next
    <3>1. c = CancelCalibration(there, FALSE, ok, back)
      BY <2>3, <2>5
    <3> QED
      BY <2>2, <2>4, <3>1, Cancelled
  <2>6. CASE there.selected = b.next
    <3>1. c = StartCapture(there, b.next)
      BY <2>3, <2>6
    <3> QED
      BY <2>1, <2>2, <2>4, <2>6, <3>1, Begun
  <2> QED
    BY <2>5, <2>6
<1> QED
  BY <1>4, <1>5, <1>6

\* The counts are natural numbers within their bound.
LEMMA CountsAreNatural ==
    ASSUME NEW b, b \in BleState
    PROVE  /\ b.counted \in Nat /\ b.queued \in Nat /\ b.delivered \in Nat /\ b.discarded \in Nat
           /\ b.counted <= MaxMotion /\ b.queued <= MaxMotion
           /\ b.delivered <= MaxMotion /\ b.discarded <= MaxMotion
<1>1. /\ b.counted \in Count /\ b.queued \in Count /\ b.delivered \in Count /\ b.discarded \in Count
  BY DEF BleState
<1> QED
  BY <1>1, MotionAssumption DEF Count

\* A natural number within the bound is a count.
LEMMA IsCount ==
    ASSUME NEW n \in Nat, n <= MaxMotion
    PROVE  n \in Count
BY MotionAssumption DEF Count

\* A report of the mouse is counted as much as it is queued.
LEMMA MotionGood ==
    ASSUME NEW b, Good(b, up), Active(b), ~b.talking, NEW moves \in BOOLEAN, NEW button \in BOOLEAN,
           moves => Room(b), NEW c, c = Motion(b, moves, button)
    PROVE  Good(c, up) /\ Active(c)
<1> DEFINE forward == ~b.mark
           click == button /\ ~b.button /\ b.armed
           armed == (b.armed \/ ~button) /\ ~(forward /\ click)
           mark == b.mark \/ click
           counted == IF forward /\ moves /\ b.stage = "bottomright" THEN b.counted + 1 ELSE b.counted
           queued == IF forward /\ moves THEN b.queued + 1 ELSE b.queued
<1>1. b \in BleState
  BY DEF Good
<1>2. c = [b EXCEPT !.button = button, !.armed = armed, !.mark = mark, !.counted = counted,
                    !.queued = queued]
  BY DEF Motion
<1>3. armed \in BOOLEAN /\ mark \in BOOLEAN
  BY <1>1 DEF BleState
<1>4. counted \in Count /\ queued \in Count
  <2>1. moves => b.counted + 1 <= MaxMotion /\ b.queued + 1 <= MaxMotion
    BY <1>1, CountsAreNatural, MotionAssumption DEF Room
  <2> QED
    BY <1>1, <2>1, CountsAreNatural, IsCount
<1>5. b.stage = "bottomright" => counted - b.counted = queued - b.queued
  BY <1>1, CountsAreNatural
<1>6. counted \in Nat /\ queued \in Nat
  BY <1>1, CountsAreNatural
<1> HIDE DEF forward, click, armed, mark, counted, queued
<1>7. c \in BleState
  BY <1>1, <1>2, <1>3, <1>4 DEF BleState
<1>8. /\ c.stage = b.stage /\ c.absolute = b.absolute /\ c.seamless = b.seamless
      /\ c.talking = b.talking /\ c.half = b.half /\ c.selected = b.selected /\ c.slot = b.slot
  BY <1>1, <1>2 DEF BleState
<1>9. /\ c.typed = b.typed /\ c.owed = b.owed /\ c.session = b.session
      /\ c.delivered = b.delivered /\ c.discarded = b.discarded
      /\ c.counted = counted /\ c.queued = queued
  BY <1>1, <1>2 DEF BleState
<1>10. Owned(c) /\ Held(c, up) /\ Owing(c) /\ Active(c)
  BY <1>8, <1>9 DEF Good, Owned, Held, Owing, Active
<1>11. Span(c)
  <2>1. b.stage # "ready"
    BY DEF Good
  <2>2. CASE b.stage = "bottomright"
    <3>1. /\ b.counted \in Nat /\ b.queued \in Nat /\ b.delivered \in Nat /\ b.discarded \in Nat
      BY <1>1, CountsAreNatural
    <3>2. /\ b.delivered + b.queued + b.discarded <= b.counted
          /\ "capture" \in b.session => b.counted = b.delivered + b.queued + b.discarded
      BY <2>2 DEF Good, Span
    <3>3. /\ b.delivered + queued + b.discarded <= counted
          /\ "capture" \in b.session => counted = b.delivered + queued + b.discarded
      BY <1>5, <1>6, <2>2, <3>1, <3>2
    <3> QED
      BY <1>8, <1>9, <2>2, <3>3 DEF Span
  <2>3. CASE b.stage # "bottomright"
    BY <1>8, <1>9, <2>1, <2>3 DEF Good, Span
  <2> QED
    BY <2>2, <2>3
<1> QED
  BY <1>7, <1>8, <1>10, <1>11 DEF Good

\* What is sent moves from the queue to the computer.
LEMMA SendMotionGood ==
    ASSUME Good(ble, up), SendMotion
    PROVE  Good(ble', up)
<1>1. CASE UNCHANGED ble
  BY <1>1
<1>2. CASE ~(UNCHANGED ble)
  <2> DEFINE sent == IF ble.stage = "bottomright" THEN ble.delivered + ble.queued ELSE ble.delivered
  <2>1. ble \in BleState /\ ble.stage # "ready"
    BY DEF SendMotion, Good
  <2>2. ble' = [ble EXCEPT !.queued = 0, !.delivered = sent]
    BY <1>2 DEF SendMotion
  <2>3. /\ ble.counted \in Nat /\ ble.queued \in Nat /\ ble.delivered \in Nat /\ ble.discarded \in Nat
        /\ ble.counted <= MaxMotion /\ ble.delivered <= MaxMotion
    BY <2>1, CountsAreNatural
  <2>4. ble.stage = "bottomright" =>
            /\ ble.delivered + ble.queued + ble.discarded <= ble.counted
            /\ "capture" \in ble.session => ble.counted = ble.delivered + ble.queued + ble.discarded
    BY DEF Good, Span
  <2>5. sent \in Nat /\ sent <= MaxMotion
    BY <2>3, <2>4, MotionAssumption
  <2>6. sent \in Count /\ 0 \in Count
    BY <2>5, IsCount, MotionAssumption DEF Count
  <2>7. ble.stage = "bottomright" =>
            /\ sent + 0 + ble.discarded <= ble.counted
            /\ "capture" \in ble.session => ble.counted = sent + 0 + ble.discarded
    BY <2>3, <2>4
  <2>8. ble.stage # "bottomright" => sent = ble.delivered
    OBVIOUS
  <2> HIDE DEF sent
  <2>9. ble' \in BleState
    BY <2>1, <2>2, <2>6 DEF BleState
  <2>10. /\ ble'.stage = ble.stage /\ ble'.absolute = ble.absolute /\ ble'.seamless = ble.seamless
         /\ ble'.talking = ble.talking /\ ble'.half = ble.half /\ ble'.selected = ble.selected
         /\ ble'.slot = ble.slot
    BY <2>1, <2>2 DEF BleState
  <2>11. /\ ble'.typed = ble.typed /\ ble'.owed = ble.owed /\ ble'.session = ble.session
         /\ ble'.counted = ble.counted /\ ble'.discarded = ble.discarded
         /\ ble'.queued = 0 /\ ble'.delivered = sent
    BY <2>1, <2>2 DEF BleState
  <2>12. Owned(ble') /\ Held(ble', up) /\ Owing(ble')
    BY <2>10, <2>11 DEF Good, Owned, Held, Owing, Active
  <2>13. Span(ble')
    BY <2>1, <2>7, <2>8, <2>10, <2>11 DEF Good, Span
  <2> QED
    BY <2>9, <2>10, <2>12, <2>13 DEF Good
<1> QED
  BY <1>1, <1>2

\* After the first mark the counts begin at zero.
LEMMA SettleFirstGood ==
    ASSUME Good(ble, up), SettleFirst
    PROVE  Good(ble', up)
<1>1. /\ ble \in BleState /\ ~ble.talking /\ ble.queued = 0 /\ ble.stage = "topleft"
      /\ ble.delivered = 0 /\ ble.discarded = 0
  BY DEF SettleFirst, CanSettle, Good, Span
<1>2. ble' = [ble EXCEPT !.mark = FALSE, !.stage = "bottomright", !.counted = 0]
  BY DEF SettleFirst
<1>3. 0 \in Count
  BY MotionAssumption DEF Count
<1>4. ble' \in BleState
  BY <1>1, <1>2, <1>3 DEF BleState, Stage
<1>5. /\ ble'.stage = "bottomright" /\ ble'.absolute = ble.absolute /\ ble'.seamless = ble.seamless
      /\ ble'.talking = ble.talking /\ ble'.half = ble.half /\ ble'.selected = ble.selected
      /\ ble'.slot = ble.slot
  BY <1>1, <1>2 DEF BleState
<1>6. /\ ble'.typed = ble.typed /\ ble'.owed = ble.owed /\ ble'.session = ble.session
      /\ ble'.counted = 0 /\ ble'.discarded = 0 /\ ble'.queued = 0 /\ ble'.delivered = 0
  BY <1>1, <1>2 DEF BleState
<1>7. Owned(ble') /\ Held(ble', up) /\ Owing(ble')
  BY <1>1, <1>5, <1>6 DEF Good, Owned, Held, Owing, Active
<1>8. Span(ble')
  BY <1>5, <1>6 DEF Span
<1> QED
  BY <1>1, <1>4, <1>5, <1>7, <1>8 DEF Good

\* At the second mark the count is what the computer received.
LEMMA SettleSecondGood ==
    ASSUME Good(ble, up), up \in SUBSET Slot, SettleSecond
    PROVE  Good(ble', up)
<1> DEFINE marked == [ble EXCEPT !.mark = FALSE, !.stage = "ready"]
<1>1. /\ ble \in BleState /\ ~ble.talking /\ ble.stage = "bottomright"
      /\ ble.absolute = FALSE /\ ble.counted = ble.delivered + ble.discarded
  <2>1. /\ ble \in BleState /\ ~ble.talking /\ ble.queued = 0 /\ ble.stage = "bottomright"
        /\ "capture" \in ble.session
    BY DEF SettleSecond, CanSettle, Good, Holds
  <2>2. ble.counted = ble.delivered + ble.queued + ble.discarded
    BY <2>1 DEF Good, Span
  <2>3. ble.absolute = FALSE
    BY <2>1 DEF Good, Owned, Active
  <2> QED
    BY <2>1, <2>2, <2>3, CountsAreNatural
<1>2. Measured(marked) /\ ~marked.talking /\ Active(marked)
  <2>1. marked \in BleState
    BY <1>1 DEF BleState, Stage
  <2>2. /\ marked.stage = "ready" /\ marked.talking = ble.talking /\ marked.absolute = ble.absolute
        /\ marked.counted = ble.counted /\ marked.delivered = ble.delivered
        /\ marked.discarded = ble.discarded
    BY <1>1 DEF BleState
  <2> HIDE DEF marked
  <2> QED
    BY <1>1, <2>1, <2>2 DEF Measured, Active
<1>3. PICK ok \in {{}, up}, stored \in BOOLEAN, enable \in BOOLEAN, saved \in BOOLEAN, back \in BOOLEAN :
        ble' = IF marked.counted = 0 \/ ~stored THEN CancelCalibration(marked, FALSE, ok, back)
               ELSE IF ble.text THEN Announce(Enabled(marked, enable), ok, saved, back)
               ELSE Continue(Enabled(marked, enable), ok, saved, back)
  BY DEF SettleSecond
<1> HIDE DEF marked
<1> DEFINE done == Enabled(marked, enable)
<1>4. ok \in SUBSET Slot
  BY <1>3
<1>5. Measured(done) /\ ~done.talking
  <2>1. CASE done = marked
    BY <1>2, <2>1
  <2>2. CASE done # marked
    <3>1. done = [marked EXCEPT !.enableAfter = FALSE, !.seamless = @ \/ enable]
      BY <2>2 DEF Enabled
    <3>2. (marked.seamless \/ enable) \in BOOLEAN
      OBVIOUS
    <3>3. done \in BleState
      BY <1>2, <3>1, <3>2 DEF Measured, BleState
    <3>4. /\ done.stage = marked.stage /\ done.absolute = marked.absolute /\ done.talking = marked.talking
          /\ done.counted = marked.counted /\ done.delivered = marked.delivered
          /\ done.discarded = marked.discarded
      BY <1>2, <3>1 DEF Measured, BleState
    <3> HIDE DEF done
    <3> QED
      BY <1>2, <3>3, <3>4 DEF Measured
  <2> QED
    BY <2>1, <2>2
<1>6. \/ ble' = CancelCalibration(marked, FALSE, ok, back)
      \/ ble' = Announce(done, ok, saved, back)
      \/ ble' = Continue(done, ok, saved, back)
  BY <1>3
<1> HIDE DEF done
<1>7. CASE ble' = CancelCalibration(marked, FALSE, ok, back)
  BY <1>2, <1>4, <1>7, Cancelled DEF Measured
<1>8. CASE ble' = Announce(done, ok, saved, back)
  BY <1>4, <1>5, <1>8, AnnounceGood
<1>9. CASE ble' = Continue(done, ok, saved, back)
  BY <1>4, <1>5, <1>9, ContinueGood
<1> QED
  BY <1>6, <1>7, <1>8, <1>9

\* A key of a message goes down or up, or the message is done.
LEMMA TypeGood ==
    ASSUME Good(ble, up), up \in SUBSET Slot, Type
    PROVE  Good(ble', up)
<1> DEFINE lifted == [ble EXCEPT !.typed = @ \ {ble.selected}, !.half = FALSE]
           pressed == [ble EXCEPT !.typed = @ \cup {ble.selected}, !.half = TRUE]
<1>1. /\ ble \in BleState /\ ble.talking /\ ble.stage = "ready" /\ ble.absolute = FALSE
      /\ ble.counted = ble.delivered + ble.discarded /\ ble.selected \in Slot
      /\ "capture" \notin ble.session
  BY DEF Type, Good, Owned, Active, Span, BleState, Held
<1>2. /\ lifted \in BleState /\ lifted.stage = ble.stage /\ lifted.absolute = ble.absolute
      /\ lifted.talking = ble.talking /\ lifted.counted = ble.counted
      /\ lifted.delivered = ble.delivered /\ lifted.discarded = ble.discarded
  BY <1>1 DEF BleState
<1>3. /\ lifted.typed = ble.typed \ {ble.selected} /\ lifted.owed = ble.owed
      /\ lifted.session = ble.session /\ lifted.seamless = ble.seamless
  BY <1>1 DEF BleState
<1>4. /\ pressed \in BleState /\ pressed.stage = ble.stage /\ pressed.absolute = ble.absolute
      /\ pressed.talking = ble.talking /\ pressed.counted = ble.counted
      /\ pressed.delivered = ble.delivered /\ pressed.discarded = ble.discarded
  BY <1>1 DEF BleState
<1>5. /\ pressed.typed = ble.typed \cup {ble.selected} /\ pressed.owed = ble.owed
      /\ pressed.session = ble.session /\ pressed.seamless = ble.seamless
      /\ pressed.half = TRUE /\ pressed.selected = ble.selected
  BY <1>1 DEF BleState
<1>6. \/ ble' = ble \/ ble' = pressed \/ ble' = lifted
      \/ \E ok \in {{}, up}, saved \in BOOLEAN, back \in BOOLEAN : ble' = MessageDone(lifted, ok, saved, back)
  BY DEF Type
<1> HIDE DEF lifted, pressed
<1>7. lifted.typed \subseteq lifted.owed /\ Measured(lifted)
  BY <1>1, <1>2, <1>3 DEF Good, Owing, Measured
<1>8. Good(lifted, up)
  <2>1. Owned(lifted) /\ Held(lifted, up) /\ Owing(lifted)
    BY <1>1, <1>2, <1>3, <1>7 DEF Owned, Held, Owing, Active
  <2>2. Span(lifted)
    BY <1>1, <1>2 DEF Span
  <2> QED
    BY <1>1, <1>2, <2>1, <2>2 DEF Good
<1>9. Good(pressed, up)
  <2>1. Owned(pressed) /\ Held(pressed, up)
    BY <1>1, <1>4, <1>5 DEF Owned, Held, Active
  <2>2. Owing(pressed)
    BY <1>1, <1>4, <1>5 DEF Good, Owing
  <2>3. Span(pressed)
    BY <1>1, <1>4 DEF Span
  <2> QED
    BY <1>1, <1>4, <2>1, <2>2, <2>3 DEF Good
<1>10. CASE \E ok \in {{}, up}, saved \in BOOLEAN, back \in BOOLEAN : ble' = MessageDone(lifted, ok, saved, back)
  <2>1. PICK ok \in {{}, up}, saved \in BOOLEAN, back \in BOOLEAN : ble' = MessageDone(lifted, ok, saved, back)
    BY <1>10
  <2>2. ok \in SUBSET Slot
    BY <2>1
  <2> QED
    BY <1>7, <2>1, <2>2, MessageDoneGood
<1> QED
  BY <1>6, <1>8, <1>9, <1>10

\* serviceCalibration() keeps the state of BleHid good.
LEMMA FlushGood ==
    ASSUME Good(ble, up), up \in SUBSET Slot, Flush
    PROVE  Good(ble', up)
<1>1. CASE UNCHANGED ble
  BY <1>1
<1>2. CASE CaptureFails \/ MessageLost
  <2>1. PICK ok \in {{}, up}, saved \in BOOLEAN : ble' = CancelCalibration(ble, FALSE, ok, saved)
    BY <1>2 DEF CaptureFails, MessageLost
  <2>2. ok \in SUBSET Slot
    BY <2>1
  <2> QED
    BY <2>1, <2>2, CancelKeeps
<1> QED
  BY <1>1, <1>2, SendMotionGood, SettleFirstGood, SettleSecondGood, TypeGood DEF Flush

-----------------------------------------------------------------------------
\* A key that was down when the menu came back is one the menu has seen.
CarriedSeen ==
    keys.carried => keys.key = "option" /\ menu.previous = "option" /\ menu.page \in {"closed", "main"}

MenuGood ==
    /\ step \in Step /\ menu \in Menu /\ keys \in Keys
    /\ step = "menu" => menu.page # "closed"
    /\ CarriedSeen

\* The menu is closed while a calibration runs.
MenuAway == Active(ble) => menu.page = "closed"

IInv ==
    /\ up \in SUBSET Slot
    /\ Good(ble, up)
    /\ MenuAway
    /\ MenuGood

\* The inductive invariant holds at the start.
LEMMA InitGood == Init => IInv
<1> SUFFICES ASSUME Init PROVE IInv
  OBVIOUS
<1>1. 0 \in Count /\ First(Slot) \in Slot
  BY MotionAssumption, FirstChosen, SlotAssumption DEF Count
<1>2. ble \in BleState
  <2>1. PICK s \in Slot, on \in BOOLEAN :
          ble = [selected |-> s, seamless |-> on, absolute |-> on, owed |-> {}, epoch |-> FALSE,
                 session |-> {}, stage |-> "idle", slot |-> First(Slot), origin |-> First(Slot),
                 remaining |-> {}, mark |-> FALSE, armed |-> FALSE, button |-> FALSE,
                 enableAfter |-> FALSE, text |-> TRUE, talking |-> FALSE, next |-> None,
                 resume |-> None, typed |-> {}, half |-> FALSE, counted |-> 0, queued |-> 0,
                 delivered |-> 0, discarded |-> 0]
    BY DEF Init
  <2>2. "idle" \in Stage
    BY DEF Stage
  <2> QED
    BY <1>1, <2>1, <2>2 DEF BleState
<1>3. /\ ble.stage = "idle" /\ ble.absolute = ble.seamless /\ ble.talking = FALSE
      /\ ble.session = {} /\ ble.typed = {}
  BY DEF Init
<1>4. Good(ble, up) /\ ~Active(ble)
  <2>1. ble.seamless \in BOOLEAN
    BY <1>2 DEF BleState
  <2>2. ~Active(ble) /\ Owned(ble) /\ ~ble.talking
    BY <1>3, <2>1 DEF Active, Owned
  <2>3. ble.typed \subseteq ble.owed /\ "capture" \notin ble.session
    BY <1>3
  <2> QED
    BY <1>2, <2>2, <2>3, IdleGood
<1>5. MenuGood
  BY DEF Init, MenuGood, CarriedSeen, Step, Menu, Keys, Page, Key
<1> QED
  BY <1>4, <1>5 DEF Init, IInv, MenuAway

\* A step that leaves the menu and the keys alone.
LEMMA MenuStays ==
    ASSUME IInv, UNCHANGED <<menu, keys>>, step' \in Step, step' = "menu" => menu.page # "closed",
           Active(ble') => Active(ble)
    PROVE  MenuGood' /\ MenuAway'
BY DEF IInv, MenuGood, MenuAway, CarriedSeen

\* The inductive invariant holds after a recovery of the USB port or none.
LEMMA UsbStep ==
    ASSUME IInv, Usb
    PROVE  IInv'
<1>1. step' = "ble" /\ UNCHANGED <<up, menu, keys>>
  BY DEF Usb, Then
<1>2. Good(ble', up) /\ (Active(ble') => Active(ble))
  <2>1. CASE UNCHANGED ble
    BY <2>1 DEF IInv, Active
  <2>2. CASE \E ok \in {{}, up}, saved \in BOOLEAN :
               ble' = ReleaseAll(CancelCalibration(ble, FALSE, ok, saved), ok)
    <3>1. PICK ok \in {{}, up}, saved \in BOOLEAN :
            ble' = ReleaseAll(CancelCalibration(ble, FALSE, ok, saved), ok)
      BY <2>2
    <3> DEFINE idle == CancelCalibration(ble, FALSE, ok, saved)
    <3>2. ok \in SUBSET Slot
      BY <3>1 DEF IInv
    <3>3. Good(idle, up) /\ ~Active(idle)
      BY <3>2, CancelKeeps DEF IInv
    <3>4. ble' = ReleaseAll(idle, ok)
      BY <3>1
    <3> HIDE DEF idle
    <3> QED
      BY <3>2, <3>3, <3>4, ReleaseIdle
  <2> QED
    BY <2>1, <2>2 DEF Usb
<1>3. MenuGood' /\ MenuAway'
  BY <1>1, <1>2, MenuStays DEF Step
<1> QED
  BY <1>1, <1>2, <1>3 DEF IInv

\* A link that ends takes the keys it held with it, and the session of a capture
\* if it was the selected one.
LEMMA LostGood ==
    ASSUME NEW b, NEW on, Good(b, on), NEW s \in Slot, NEW c, c = Revised(Forgotten(b, s), s)
    PROVE  Good(c, on \ {s}) /\ (Active(c) => Active(b))
<1> DEFINE clear == [b EXCEPT !.typed = @ \ {s}]
<1>1. b \in BleState /\ 0 \in Count
  BY MotionAssumption DEF Good, Count
<1>2. /\ clear \in BleState /\ clear.stage = b.stage /\ clear.absolute = b.absolute
      /\ clear.seamless = b.seamless /\ clear.talking = b.talking /\ clear.half = b.half
      /\ clear.selected = b.selected /\ clear.slot = b.slot
  BY <1>1 DEF BleState
<1>3. /\ clear.typed = b.typed \ {s} /\ clear.owed = b.owed /\ clear.session = b.session
      /\ clear.counted = b.counted /\ clear.delivered = b.delivered
      /\ clear.queued = b.queued /\ clear.discarded = b.discarded
  BY <1>1 DEF BleState
<1>4. c = IF s = clear.selected THEN [clear EXCEPT !.session = {}, !.queued = 0] ELSE clear
  BY DEF Revised, Forgotten
<1> HIDE DEF clear
<1>5. CASE s = clear.selected
  <2> DEFINE cut == [clear EXCEPT !.session = {}]
  <2>0. cut \in BleState /\ c = [cut EXCEPT !.queued = 0]
    BY <1>2, <1>4, <1>5 DEF BleState
  <2>1. /\ c \in BleState /\ c.stage = clear.stage /\ c.absolute = clear.absolute
        /\ c.seamless = clear.seamless /\ c.talking = clear.talking /\ c.half = clear.half
        /\ c.selected = clear.selected
    <3>1. /\ cut.stage = clear.stage /\ cut.absolute = clear.absolute
          /\ cut.seamless = clear.seamless /\ cut.talking = clear.talking
          /\ cut.half = clear.half /\ cut.selected = clear.selected
      BY <1>2 DEF BleState
    <3> HIDE DEF cut
    <3> QED
      BY <1>1, <2>0, <3>1 DEF BleState
  <2>2. /\ c.typed = clear.typed /\ c.owed = clear.owed /\ c.session = {}
        /\ c.counted = clear.counted /\ c.delivered = clear.delivered
        /\ c.queued = 0 /\ c.discarded = clear.discarded
    BY <1>1, <1>2, <1>4, <1>5 DEF BleState
  <2>3. Owned(c) /\ Held(c, on \ {s}) /\ Owing(c) /\ (Active(c) => Active(b))
    BY <1>2, <1>3, <2>1, <2>2 DEF Good, Owned, Held, Owing, Active
  <2>4. Span(c)
    <3>1. b.stage = "bottomright" => b.delivered + 0 + b.discarded <= b.counted
      BY <1>1, CountsAreNatural DEF Good, Span
    <3> QED
      BY <1>2, <1>3, <2>1, <2>2, <3>1 DEF Good, Span
  <2> QED
    BY <1>2, <2>1, <2>3, <2>4 DEF Good
<1>6. CASE s # clear.selected
  <2>1. c = clear
    BY <1>4, <1>6
  <2>2. Owned(c) /\ Owing(c) /\ (Active(c) => Active(b))
    BY <1>2, <1>3, <2>1 DEF Good, Owned, Owing, Active
  <2>3. Held(c, on \ {s})
    BY <1>2, <1>3, <1>6, <2>1 DEF Good, Held, Active
  <2>4. Span(c)
    BY <1>2, <1>3, <2>1 DEF Good, Span
  <2> QED
    BY <1>2, <2>1, <2>2, <2>3, <2>4 DEF Good
<1> QED
  BY <1>5, <1>6

\* A link that comes back is owed every release.
LEMMA LinkBackGood ==
    ASSUME NEW s \in Slot, Good(ble, up), LinkBack(s)
    PROVE  Good(ble', up') /\ (Active(ble') => Active(ble))
<1>1. ble \in BleState /\ ble' = [ble EXCEPT !.owed = @ \cup {s}] /\ up' = up \cup {s}
  BY DEF LinkBack, Good
<1>2. /\ ble' \in BleState /\ ble'.stage = ble.stage /\ ble'.absolute = ble.absolute
      /\ ble'.seamless = ble.seamless /\ ble'.talking = ble.talking /\ ble'.half = ble.half
      /\ ble'.selected = ble.selected /\ ble'.slot = ble.slot
  BY <1>1 DEF BleState
<1>3. /\ ble'.typed = ble.typed /\ ble'.owed = ble.owed \cup {s} /\ ble'.session = ble.session
      /\ ble'.counted = ble.counted /\ ble'.delivered = ble.delivered
      /\ ble'.queued = ble.queued /\ ble'.discarded = ble.discarded
  BY <1>1 DEF BleState
<1>4. Owned(ble') /\ Owing(ble') /\ (Active(ble') => Active(ble))
  BY <1>2, <1>3 DEF Good, Owned, Owing, Active
<1>5. Held(ble', up')
  BY <1>1, <1>2, <1>3 DEF Good, Held, Active
<1>6. Span(ble')
  BY <1>2, <1>3 DEF Good, Span
<1> QED
  BY <1>2, <1>4, <1>5, <1>6 DEF Good

\* An overflow of the events ends every link and session.
LEMMA EventsLostGood ==
    ASSUME Good(ble, up), EventsLost
    PROVE  Good(ble', up') /\ (Active(ble') => Active(ble))
<1>1. ble \in BleState /\ ble' = [ble EXCEPT !.session = {}, !.typed = {}]
  BY DEF EventsLost, Good
<1>2. /\ ble' \in BleState /\ ble'.stage = ble.stage /\ ble'.absolute = ble.absolute
      /\ ble'.seamless = ble.seamless /\ ble'.talking = ble.talking
  BY <1>1 DEF BleState
<1>3. /\ ble'.typed = {} /\ ble'.session = {}
      /\ ble'.counted = ble.counted /\ ble'.delivered = ble.delivered
      /\ ble'.queued = ble.queued /\ ble'.discarded = ble.discarded
  BY <1>1 DEF BleState
<1>4. Owned(ble') /\ Owing(ble') /\ Held(ble', up') /\ (Active(ble') => Active(ble))
  BY <1>2, <1>3 DEF Good, Owned, Owing, Held, Active
<1>5. Span(ble')
  BY <1>2, <1>3 DEF Good, Span
<1> QED
  BY <1>2, <1>4, <1>5 DEF Good

\* The inductive invariant holds after an event of a link.
LEMMA BleEventStep ==
    ASSUME IInv, BleEvent
    PROVE  IInv'
<1>1. UNCHANGED <<step, menu, keys>>
  BY DEF BleEvent
<1>2. up' \in SUBSET Slot /\ Good(ble', up') /\ (Active(ble') => Active(ble))
  <2>1. CASE \E s \in Slot : LinkLost(s)
    <3>1. PICK s \in Slot : up' = up \ {s} /\ ble' = Revised(Forgotten(ble, s), s)
      BY <2>1 DEF LinkLost
    <3> QED
      BY <3>1, LostGood DEF IInv
  <2>2. CASE \E s \in Slot : LinkBack(s)
    <3>1. PICK s \in Slot : LinkBack(s)
      BY <2>2
    <3> QED
      BY <3>1, LinkBackGood DEF IInv, LinkBack
  <2>3. CASE EventsLost
    BY <2>3, EventsLostGood DEF IInv, EventsLost
  <2> QED
    BY <2>1, <2>2, <2>3 DEF BleEvent
<1>3. MenuGood' /\ MenuAway'
  BY <1>1, <1>2, MenuStays DEF IInv, MenuGood
<1> QED
  BY <1>2, <1>3 DEF IInv

\* Sends that stall end the selected link: nothing is pending and no capture
\* holds on to it.
LEMMA StalledGood ==
    ASSUME IInv, Stalled
    PROVE  Good(ble', up') /\ (Active(ble') => Active(ble))
<1>1. PICK ok \in {{}, up'} :
        ble' = Revised(Forgotten([ReleaseAll(ble, ok) EXCEPT !.epoch = TRUE], ble.selected), ble.selected)
  BY DEF Stalled
<1> DEFINE quiet == ReleaseAll(ble, ok)
           told == [quiet EXCEPT !.epoch = TRUE]
           clear == [told EXCEPT !.typed = @ \ {ble.selected}]
<1>2. ok \in SUBSET Slot /\ 0 \in Count /\ ble \in BleState
  BY <1>1, MotionAssumption DEF Stalled, IInv, Good, Count
<1>3. /\ quiet \in BleState /\ Same(quiet, ble)
      /\ quiet.selected = ble.selected /\ quiet.absolute = ble.absolute
      /\ quiet.queued = 0 /\ quiet.typed \subseteq quiet.owed
  BY <1>2, Released
<1> HIDE DEF quiet
<1>4. /\ told \in BleState /\ told.stage = quiet.stage /\ told.absolute = quiet.absolute
      /\ told.seamless = quiet.seamless /\ told.talking = quiet.talking
      /\ told.selected = quiet.selected
  BY <1>3 DEF BleState
<1>5. /\ told.typed = quiet.typed /\ told.owed = quiet.owed
      /\ told.counted = quiet.counted /\ told.delivered = quiet.delivered
      /\ told.discarded = quiet.discarded
  BY <1>3 DEF BleState
<1> HIDE DEF told
<1>6. /\ clear \in BleState /\ clear.stage = told.stage /\ clear.absolute = told.absolute
      /\ clear.seamless = told.seamless /\ clear.talking = told.talking
      /\ clear.selected = told.selected
  BY <1>4 DEF BleState
<1>7. /\ clear.typed = told.typed \ {ble.selected} /\ clear.owed = told.owed
      /\ clear.counted = told.counted /\ clear.delivered = told.delivered
      /\ clear.discarded = told.discarded
  BY <1>4 DEF BleState
<1>8. ble' = [clear EXCEPT !.session = {}, !.queued = 0]
  <2>1. ble' = Revised(clear, ble.selected)
    BY <1>1 DEF Forgotten, told, quiet
  <2>2. ble.selected = clear.selected
    BY <1>3, <1>4, <1>6
  <2> HIDE DEF clear
  <2> QED
    BY <2>1, <2>2 DEF Revised
<1> HIDE DEF clear
<1>9. /\ ble' \in BleState /\ ble'.stage = clear.stage /\ ble'.absolute = clear.absolute
      /\ ble'.seamless = clear.seamless /\ ble'.talking = clear.talking
  BY <1>2, <1>6, <1>8 DEF BleState
<1>10. /\ ble'.typed = clear.typed /\ ble'.owed = clear.owed /\ ble'.session = {}
       /\ ble'.counted = clear.counted /\ ble'.delivered = clear.delivered
       /\ ble'.queued = 0 /\ ble'.discarded = clear.discarded
  BY <1>6, <1>8 DEF BleState
<1>11. /\ ble'.stage = ble.stage /\ ble'.absolute = ble.absolute /\ ble'.seamless = ble.seamless
       /\ ble'.talking = ble.talking /\ ble'.counted = ble.counted
       /\ ble'.delivered = ble.delivered /\ ble'.discarded = ble.discarded
       /\ ble'.typed \subseteq ble'.owed
  BY <1>3, <1>4, <1>5, <1>6, <1>7, <1>9, <1>10 DEF Same
<1>12. Owned(ble') /\ Held(ble', up') /\ Owing(ble') /\ (Active(ble') => Active(ble))
  BY <1>10, <1>11 DEF IInv, Good, Owned, Held, Owing, Active
<1>13. Span(ble')
  <2>1. ble.stage = "bottomright" => ble.delivered + 0 + ble.discarded <= ble.counted
    BY <1>2, CountsAreNatural DEF IInv, Good, Span
  <2> QED
    BY <1>10, <1>11, <2>1 DEF IInv, Good, Span
<1> QED
  BY <1>9, <1>11, <1>12, <1>13 DEF IInv, Good

\* The inductive invariant holds after sends that stalled.
LEMMA StalledStep ==
    ASSUME IInv, Stalled
    PROVE  IInv'
<1>1. step' = "boot" /\ UNCHANGED <<menu, keys>> /\ up' \in SUBSET Slot
  BY DEF Stalled, Then, IInv
<1>2. Good(ble', up') /\ (Active(ble') => Active(ble))
  BY StalledGood
<1>3. MenuGood' /\ MenuAway'
  BY <1>1, <1>2, MenuStays DEF Step
<1> QED
  BY <1>1, <1>2, <1>3 DEF IInv

\* The inductive invariant holds after the end of loop(): the releases are
\* served, and nothing stays pending without a link.
LEMMA BleEndStep ==
    ASSUME IInv, BleEnd
    PROVE  IInv'
<1>1. step' = "boot" /\ UNCHANGED <<up, menu, keys>>
  BY DEF BleEnd, Then
<1>2. PICK ok \in {{}, up} :
        ble' = IF Connected(Serve(ble, ok)) THEN Serve(ble, ok) ELSE [Serve(ble, ok) EXCEPT !.queued = 0]
  BY DEF BleEnd
<1> DEFINE b == Serve(ble, ok)
<1>3. ok \in SUBSET Slot /\ 0 \in Count /\ ble \in BleState
  BY <1>2, MotionAssumption DEF IInv, Good, Count
<1>4. /\ b \in BleState /\ Same(b, ble)
      /\ b.selected = ble.selected /\ b.absolute = ble.absolute /\ b.queued = ble.queued
      /\ b.owed = ble.owed \ ok
      /\ b.typed = ble.typed \ (ble.owed \cap ok)
  BY <1>3, Served
<1>5. ble' = IF Connected(b) THEN b ELSE [b EXCEPT !.queued = 0]
  BY <1>2
<1> HIDE DEF b
<1>6. Good(b, up)
  <2>1. Owned(b) /\ Held(b, up) /\ Span(b)
    BY <1>4 DEF IInv, Good, Owned, Held, Span, Same, Active
  <2>2. Owing(b)
    BY <1>4 DEF IInv, Good, Owing, Same
  <2> QED
    BY <1>4, <2>1, <2>2 DEF IInv, Good, Same
<1>7. Active(b) => Active(ble)
  BY <1>4 DEF Same, Active
<1>8. CASE Connected(b)
  <2>1. Good(ble', up) /\ (Active(ble') => Active(ble))
    BY <1>5, <1>6, <1>7, <1>8
  <2>2. MenuGood' /\ MenuAway'
    BY <1>1, <2>1, MenuStays DEF Step
  <2> QED
    BY <1>1, <2>1, <2>2 DEF IInv
<1>9. CASE ~Connected(b)
  <2>1. /\ ble' \in BleState /\ ble'.stage = b.stage /\ ble'.absolute = b.absolute
        /\ ble'.seamless = b.seamless /\ ble'.talking = b.talking /\ ble'.half = b.half
        /\ ble'.selected = b.selected /\ ble'.slot = b.slot
    BY <1>3, <1>4, <1>5, <1>9 DEF BleState
  <2>2. /\ ble'.typed = b.typed /\ ble'.owed = b.owed /\ ble'.session = b.session
        /\ ble'.counted = b.counted /\ ble'.delivered = b.delivered
        /\ ble'.queued = 0 /\ ble'.discarded = b.discarded
    BY <1>3, <1>4, <1>5, <1>9 DEF BleState
  <2>3. "capture" \notin b.session
    BY <1>6, <1>9 DEF Good, Held, Connected
  <2>4. Owned(ble') /\ Held(ble', up) /\ Owing(ble') /\ (Active(ble') => Active(ble))
    BY <1>6, <1>7, <2>1, <2>2, <2>3 DEF Good, Owned, Held, Owing, Active
  <2>5. Span(ble')
    <3>1. b.stage = "bottomright" => b.delivered + 0 + b.discarded <= b.counted
      BY <1>4, <1>6, CountsAreNatural DEF Good, Span
    <3> QED
      BY <1>6, <2>1, <2>2, <2>3, <3>1 DEF Good, Span
  <2>6. Good(ble', up)
    BY <1>6, <2>1, <2>4, <2>5 DEF Good
  <2>7. MenuGood' /\ MenuAway'
    BY <1>1, <2>4, MenuStays DEF Step
  <2> QED
    BY <1>1, <2>6, <2>7 DEF IInv
<1> QED
  BY <1>8, <1>9

\* A menu that is closed takes no notice of a key that was carried.
LEMMA MenuCloses ==
    ASSUME IInv, UNCHANGED keys, menu' = Close(menu), step' \in Step, step' # "menu"
    PROVE  MenuGood' /\ MenuAway'
<1>1. menu \in Menu
  BY DEF IInv, MenuGood
<1>2. menu' \in Menu /\ menu'.page = "closed" /\ menu'.previous = menu.previous
  BY <1>1 DEF Close, Menu, Page, Key
<1> QED
  BY <1>2 DEF IInv, MenuGood, MenuAway, CarriedSeen

\* Opening the menu without a calibration begins its session.
LEMMA OpeningIdle ==
    ASSUME NEW b, NEW on, Good(b, on), ~Active(b), NEW ok \in SUBSET Slot,
           NEW c, c = [ReleaseAll(b, ok) EXCEPT !.session = @ \cup {"menu"}]
    PROVE  Good(c, on) /\ ~Active(c)
<1> DEFINE quiet == ReleaseAll(b, ok)
<1>1. Good(quiet, on) /\ ~Active(quiet)
  BY ReleaseIdle
<1>2. c = [quiet EXCEPT !.session = @ \cup {"menu"}]
  OBVIOUS
<1> HIDE DEF quiet
<1>3. quiet \in BleState
  BY <1>1 DEF Good
<1>4. c \in BleState
  BY <1>2, <1>3 DEF BleState
<1>5. Alike(c, quiet)
  BY <1>2, <1>3 DEF BleState, Alike
<1> QED
  BY <1>1, <1>4, <1>5, AlikeGood DEF Alike, Active

\* The inductive invariant holds after BOOT was pressed or not.
LEMMA BootStep ==
    ASSUME IInv, Boot
    PROVE  IInv'
<1>1. UNCHANGED <<up, keys>> /\ step' = AfterBoot(menu', ble')
  BY DEF Boot, Then
<1>2. step' \in Step /\ (step' = "menu" => menu'.page # "closed")
  BY <1>1 DEF AfterBoot, AfterMenu, Step
<1>3. CASE UNCHANGED <<ble, menu>>
  <2>1. Good(ble', up) /\ (Active(ble') => Active(ble))
    BY <1>3 DEF IInv, Active
  <2>2. MenuGood' /\ MenuAway'
    BY <1>1, <1>2, <1>3, <2>1, MenuStays
  <2> QED
    BY <1>1, <2>1, <2>2 DEF IInv
<1>4. ASSUME NEW ok \in {{}, up}, NEW saved \in BOOLEAN,
             ble' = CancelCalibration(ble, FALSE, ok, saved), UNCHANGED menu
      PROVE  IInv'
  <2>1. ok \in SUBSET Slot
    BY <1>4 DEF IInv
  <2>2. Good(ble', up) /\ ~Active(ble')
    BY <1>4, <2>1, CancelKeeps DEF IInv
  <2>3. MenuGood' /\ MenuAway'
    BY <1>1, <1>2, <1>4, <2>2, MenuStays
  <2> QED
    BY <1>1, <2>2, <2>3 DEF IInv
<1>5. ASSUME NEW ok \in {{}, up}, ~Active(ble), ble' = Closing(ble, ok), menu' = Close(menu)
      PROVE  IInv'
  <2>1. ok \in SUBSET Slot
    BY <1>5 DEF IInv
  <2>2. Good(ble', up)
    BY <1>5, <2>1, ClosingIdle DEF IInv
  <2>3. step' # "menu"
    BY <1>2, <1>5 DEF Close, IInv, MenuGood, Menu
  <2>4. MenuGood' /\ MenuAway'
    BY <1>1, <1>2, <1>5, <2>3, MenuCloses
  <2> QED
    BY <1>1, <2>2, <2>4 DEF IInv
<1>6. ASSUME NEW ok \in {{}, up}, ~Active(ble),
             ble' = [ReleaseAll(ble, ok) EXCEPT !.session = @ \cup {"menu"}],
             menu' = [menu EXCEPT !.page = "main", !.released = menu.previous = "none"]
      PROVE  IInv'
  <2>1. ok \in SUBSET Slot
    BY <1>6 DEF IInv
  <2>2. Good(ble', up) /\ ~Active(ble')
    BY <1>6, <2>1, OpeningIdle DEF IInv
  <2>3. menu' \in Menu /\ menu'.page = "main" /\ menu'.previous = menu.previous
    BY <1>6 DEF IInv, MenuGood, Menu, Page, Key
  <2>4. MenuGood' /\ MenuAway'
    BY <1>1, <1>2, <2>2, <2>3 DEF IInv, MenuGood, MenuAway, CarriedSeen
  <2> QED
    BY <1>1, <2>2, <2>4 DEF IInv
<1> QED
  BY <1>3, <1>4, <1>5, <1>6 DEF Boot

\* The inductive invariant holds after the tick of the menu.
LEMMA MenuTickStep ==
    ASSUME IInv, MenuTick
    PROVE  IInv'
<1>1. UNCHANGED <<up, keys>> /\ step' = AfterMenu(ble') /\ ~Active(ble)
  BY DEF MenuTick, Then, IInv, MenuGood, MenuAway
<1>2. step' \in Step /\ step' # "menu"
  BY <1>1 DEF AfterMenu, Step
<1>3. CASE UNCHANGED <<ble, menu>>
  <2>1. Good(ble', up) /\ (Active(ble') => Active(ble))
    BY <1>3 DEF IInv, Active
  <2>2. MenuGood' /\ MenuAway'
    BY <1>1, <1>2, <1>3, <2>1, MenuStays
  <2> QED
    BY <1>1, <2>1, <2>2 DEF IInv
<1>4. ASSUME NEW ok \in {{}, up}, NEW saved \in BOOLEAN, NEW t \in Slot,
             ble' = Closing(ble, ok) \/ ble' = SelectSlot(Closing(ble, ok), t, ok, saved),
             menu' = Close(menu)
      PROVE  IInv'
  <2> DEFINE quiet == Closing(ble, ok)
  <2>1. ok \in SUBSET Slot
    BY <1>4 DEF IInv
  <2>2. Good(quiet, up) /\ ~Active(quiet)
    BY <1>1, <2>1, ClosingIdle DEF IInv
  <2>3. ble' = quiet \/ ble' = SelectSlot(quiet, t, ok, saved)
    BY <1>4
  <2> HIDE DEF quiet
  <2>4. Good(ble', up)
    BY <2>1, <2>2, <2>3, SelectIdle
  <2>5. MenuGood' /\ MenuAway'
    BY <1>1, <1>2, <1>4, MenuCloses
  <2> QED
    BY <1>1, <2>4, <2>5 DEF IInv
<1>5. ASSUME NEW ok \in {{}, up}, NEW saved \in BOOLEAN, NEW mask \in SUBSET Slot \ {{}},
             ble' = IF CanBegin(ble, mask) THEN BeginCalibration(ble, mask, FALSE, TRUE, ok, saved)
                    ELSE ReleaseAll(ble, ok),
             menu' = IF Active(ble') THEN Close(menu) ELSE [menu EXCEPT !.page = "main"]
      PROVE  IInv'
  <2>1. ok \in SUBSET Slot
    BY <1>5 DEF IInv
  <2>2. Good(ble', up)
    BY <1>1, <1>5, <2>1, BeginGood, ReleaseIdle DEF IInv
  <2>3. CASE Active(ble')
    BY <1>1, <1>2, <1>5, <2>2, <2>3, MenuCloses DEF IInv
  <2>4. CASE ~Active(ble')
    <3>1. menu' \in Menu /\ menu'.page = "main" /\ menu'.previous = menu.previous
      BY <1>5, <2>4 DEF IInv, MenuGood, Menu, Page, Key
    <3> QED
      BY <1>1, <1>2, <2>2, <2>4, <3>1 DEF IInv, MenuGood, MenuAway, CarriedSeen
  <2> QED
    BY <2>3, <2>4
<1>6. CASE \E ok \in {{}, up}, saved \in BOOLEAN, mask \in SUBSET Slot \ {{}} :
             /\ menu.page = "start" /\ ~MenuEnds
             /\ IF CanBegin(ble, mask)
                THEN ble' = BeginCalibration(ble, mask, FALSE, TRUE, ok, saved)
                ELSE ble' = ReleaseAll(ble, ok)
             /\ menu' = IF Active(ble') THEN Close(menu) ELSE [menu EXCEPT !.page = "main"]
  <2>1. PICK ok \in {{}, up}, saved \in BOOLEAN, mask \in SUBSET Slot \ {{}} :
             /\ IF CanBegin(ble, mask)
                THEN ble' = BeginCalibration(ble, mask, FALSE, TRUE, ok, saved)
                ELSE ble' = ReleaseAll(ble, ok)
             /\ menu' = IF Active(ble') THEN Close(menu) ELSE [menu EXCEPT !.page = "main"]
    BY <1>6
  <2>2. ble' = IF CanBegin(ble, mask) THEN BeginCalibration(ble, mask, FALSE, TRUE, ok, saved)
               ELSE ReleaseAll(ble, ok)
    BY <2>1
  <2> QED
    BY <1>5, <2>1, <2>2
<1> QED
  BY <1>3, <1>4, <1>6 DEF MenuTick

\* The inductive invariant holds after a change of the input epoch was handled.
LEMMA EpochStep ==
    ASSUME IInv, Epoch
    PROVE  IInv'
<1>1. UNCHANGED <<up, menu, keys>> /\ step' = "commands"
  BY DEF Epoch, Then
<1>2. Good(ble', up) /\ (Active(ble') => Active(ble))
  <2>1. CASE UNCHANGED ble
    BY <2>1 DEF IInv, Active
  <2>2. CASE \E ok \in {{}, up} :
               ble' = [IF Active(ble) THEN ble ELSE ReleaseAll(ble, ok) EXCEPT !.epoch = FALSE]
    <3>1. PICK ok \in {{}, up} :
            ble' = [IF Active(ble) THEN ble ELSE ReleaseAll(ble, ok) EXCEPT !.epoch = FALSE]
      BY <2>2
    <3> DEFINE quiet == IF Active(ble) THEN ble ELSE ReleaseAll(ble, ok)
    <3>2. ok \in SUBSET Slot
      BY <3>1 DEF IInv
    <3>3. Good(quiet, up) /\ (Active(quiet) => Active(ble))
      BY <3>2, ReleaseIdle DEF IInv
    <3>4. ble' = [quiet EXCEPT !.epoch = FALSE]
      BY <3>1
    <3> HIDE DEF quiet
    <3>5. quiet \in BleState
      BY <3>3 DEF Good
    <3>6. ble' \in BleState
      BY <3>4, <3>5 DEF BleState
    <3>7. Alike(ble', quiet)
      BY <3>4, <3>5 DEF BleState, Alike
    <3> QED
      BY <3>3, <3>6, <3>7, AlikeGood DEF Alike, Active
  <2> QED
    BY <2>1, <2>2 DEF Epoch
<1>3. MenuGood' /\ MenuAway'
  BY <1>1, <1>2, MenuStays DEF Step
<1> QED
  BY <1>1, <1>2, <1>3 DEF IInv

\* The inductive invariant holds after a request of the serial line.
LEMMA CommandsStep ==
    ASSUME IInv, Commands
    PROVE  IInv'
<1>1. UNCHANGED <<up, keys>> /\ step' = "drain"
  BY DEF Commands, Then
<1>2. step' \in Step /\ step' # "menu"
  BY <1>1 DEF Step
<1>3. CASE UNCHANGED <<ble, menu>>
  <2>1. Good(ble', up) /\ (Active(ble') => Active(ble))
    BY <1>3 DEF IInv, Active
  <2>2. MenuGood' /\ MenuAway'
    BY <1>1, <1>2, <1>3, <2>1, MenuStays
  <2> QED
    BY <1>1, <2>1, <2>2 DEF IInv
<1>4. ASSUME NEW ok \in {{}, up}, NEW back \in BOOLEAN, NEW saved \in BOOLEAN, NEW t \in Slot,
             ble' = SelectSlot(IF menu.page = "closed" THEN CancelCalibration(ble, FALSE, ok, back)
                               ELSE Closing(CancelCalibration(ble, FALSE, ok, back), ok), t, ok, saved),
             menu' = Close(menu)
      PROVE  IInv'
  <2> DEFINE idle == CancelCalibration(ble, FALSE, ok, back)
             quiet == IF menu.page = "closed" THEN idle ELSE Closing(idle, ok)
  <2>1. ok \in SUBSET Slot
    BY <1>4 DEF IInv
  <2>2. Good(idle, up) /\ ~Active(idle)
    BY <2>1, CancelKeeps DEF IInv
  <2>3. ble' = SelectSlot(quiet, t, ok, saved)
    BY <1>4
  <2> HIDE DEF idle
  <2>4. Good(quiet, up) /\ ~Active(quiet)
    BY <2>1, <2>2, ClosingIdle
  <2> HIDE DEF quiet
  <2>5. Good(ble', up)
    BY <2>1, <2>3, <2>4, SelectIdle
  <2>6. MenuGood' /\ MenuAway'
    BY <1>1, <1>2, <1>4, MenuCloses
  <2> QED
    BY <1>1, <2>5, <2>6 DEF IInv
<1>5. ASSUME NEW ok \in {{}, up}, NEW saved \in BOOLEAN,
             ble' = Closing(CancelCalibration(ble, FALSE, ok, saved), ok), menu' = Close(menu)
      PROVE  IInv'
  <2> DEFINE idle == CancelCalibration(ble, FALSE, ok, saved)
  <2>1. ok \in SUBSET Slot
    BY <1>5 DEF IInv
  <2>2. Good(idle, up) /\ ~Active(idle)
    BY <2>1, CancelKeeps DEF IInv
  <2>3. ble' = Closing(idle, ok)
    BY <1>5
  <2> HIDE DEF idle
  <2>4. Good(ble', up)
    BY <2>1, <2>2, <2>3, ClosingIdle
  <2>5. MenuGood' /\ MenuAway'
    BY <1>1, <1>2, <1>5, MenuCloses
  <2> QED
    BY <1>1, <2>4, <2>5 DEF IInv
<1>6. ASSUME NEW ok \in {{}, up}, NEW saved \in BOOLEAN,
             ble' = ReleaseAll(CancelCalibration(ble, FALSE, ok, saved), ok), UNCHANGED menu
      PROVE  IInv'
  <2> DEFINE idle == CancelCalibration(ble, FALSE, ok, saved)
  <2>1. ok \in SUBSET Slot
    BY <1>6 DEF IInv
  <2>2. Good(idle, up) /\ ~Active(idle)
    BY <2>1, CancelKeeps DEF IInv
  <2>3. ble' = ReleaseAll(idle, ok)
    BY <1>6
  <2> HIDE DEF idle
  <2>4. Good(ble', up) /\ ~Active(ble')
    BY <2>1, <2>2, <2>3, ReleaseIdle
  <2>5. MenuGood' /\ MenuAway'
    BY <1>1, <1>2, <1>6, <2>4, MenuStays
  <2> QED
    BY <1>1, <2>4, <2>5 DEF IInv
<1>7. ASSUME menu.page = "closed", ~Active(ble), Good(ble', up), UNCHANGED menu
      PROVE  IInv'
  BY <1>1, <1>2, <1>7 DEF IInv, MenuGood, MenuAway, CarriedSeen
<1>8. ASSUME NEW ok \in {{}, up}, NEW saved \in BOOLEAN, NEW mask \in SUBSET Slot, NEW enable \in BOOLEAN,
             CanBegin(ble, mask), ble' = BeginCalibration(ble, mask, enable, FALSE, ok, saved)
      PROVE  Good(ble', up)
  <2>1. ok \in SUBSET Slot
    BY <1>8 DEF IInv
  <2> QED
    BY <1>8, <2>1, BeginGood DEF IInv
<1>9. ASSUME NEW ok \in {{}, up}, NEW on \in BOOLEAN, ~Active(ble), ble' = SetSeamless(ble, on, ok)
      PROVE  Good(ble', up)
  <2>1. ok \in SUBSET Slot
    BY <1>9 DEF IInv
  <2> QED
    BY <1>9, <2>1, SeamlessIdle DEF IInv
<1>10. CASE \E ok \in {{}, up}, back, saved \in BOOLEAN :
            \/ \E t \in Slot :
                 /\ LET idle == CancelCalibration(ble, FALSE, ok, back)
                        quiet == IF menu.page = "closed" THEN idle ELSE Closing(idle, ok)
                    IN ble' = SelectSlot(quiet, t, ok, saved)
                 /\ menu' = Close(menu)
            \/ /\ ble' = Closing(CancelCalibration(ble, FALSE, ok, saved), ok)
               /\ menu' = Close(menu)
            \/ /\ menu.page = "closed"
               /\ ble' = ReleaseAll(CancelCalibration(ble, FALSE, ok, saved), ok)
               /\ UNCHANGED menu
            \/ /\ menu.page = "closed" /\ ~Active(ble)
               /\ \/ \E mask \in SUBSET Slot, enable \in BOOLEAN :
                       /\ CanBegin(ble, mask)
                       /\ ble' = BeginCalibration(ble, mask, enable, FALSE, ok, saved)
                  \/ \E on \in BOOLEAN : ble' = SetSeamless(ble, on, ok)
               /\ UNCHANGED menu
  BY <1>10, <1>4, <1>5, <1>6, <1>7, <1>8, <1>9
<1> QED
  BY <1>3, <1>10 DEF Commands

\* The inductive invariant holds after a mouse report of the queue.
LEMMA MouseReportStep ==
    ASSUME IInv, MouseReport
    PROVE  IInv'
<1>1. UNCHANGED <<step, up, menu, keys>> /\ Active(ble) /\ ~ble.talking
  BY DEF MouseReport
<1>2. Good(ble', up)
  <2>1. CASE \E ok \in {{}, up}, saved \in BOOLEAN : ble' = CancelCalibration(ble, FALSE, ok, saved)
    <3>1. PICK ok \in {{}, up}, saved \in BOOLEAN : ble' = CancelCalibration(ble, FALSE, ok, saved)
      BY <2>1
    <3>2. ok \in SUBSET Slot
      BY <3>1 DEF IInv
    <3> QED
      BY <3>1, <3>2, CancelKeeps DEF IInv
  <2>2. CASE \E moves, button \in BOOLEAN : (moves => Room(ble)) /\ ble' = Motion(ble, moves, button)
    BY <1>1, <2>2, MotionGood DEF IInv
  <2> QED
    BY <2>1, <2>2 DEF MouseReport
<1>3. step' # "menu" /\ step' \in Step
  BY <1>1 DEF MouseReport, IInv, MenuGood
<1>4. MenuGood' /\ MenuAway'
  BY <1>1, <1>2, <1>3, MenuStays
<1> QED
  BY <1>1, <1>2, <1>4 DEF IInv

\* What the menu has seen of a key leaves its page alone.
LEMMA SeenMenu ==
    ASSUME NEW m \in Menu, NEW key \in Key, NEW n, n = Seen(m, key)
    PROVE  n \in Menu /\ n.page = m.page /\ n.previous = key
<1>1. (m.released \/ (m.page # "closed" /\ key = "none")) \in BOOLEAN
  OBVIOUS
<1> QED
  BY <1>1 DEF Seen, Menu

\* The inductive invariant holds after a keyboard report: a carried key has been
\* seen by the menu, so that it chooses nothing.
LEMMA KeyboardReportStep ==
    ASSUME IInv, KeyboardReport
    PROVE  IInv'
<1>1. UNCHANGED <<step, up>> /\ step' # "menu" /\ step \in Step
  BY DEF KeyboardReport, IInv, MenuGood
<1>2. PICK key \in Key :
         /\ keys' = [key |-> key, carried |-> keys.carried /\ key = "option"]
         /\ \/ Active(ble) /\ UNCHANGED <<ble, menu>>
            \/ ~Active(ble) /\ menu' = Seen(menu, key) /\ UNCHANGED ble
            \/ /\ ~Active(ble) /\ Chooses(menu, key)
               /\ \E page \in {"main", "other", "start"} :
                    /\ menu' = [Seen(menu, key) EXCEPT !.page = page]
                    /\ \/ UNCHANGED ble
                       \/ \E on \in BOOLEAN, ok \in {{}, up} : ble' = SetSeamless(ble, on, ok)
  BY DEF KeyboardReport
<1>3. keys' \in Keys /\ keys'.key = key /\ (keys'.carried => keys.carried /\ key = "option")
  <2>1. (keys.carried /\ key = "option") \in BOOLEAN
    OBVIOUS
  <2> QED
    BY <1>2, <2>1 DEF Keys
<1>4. menu \in Menu
  BY DEF IInv, MenuGood
<1>5. CASE Active(ble) /\ UNCHANGED <<ble, menu>>
  BY <1>1, <1>3, <1>5 DEF IInv, MenuGood, MenuAway, CarriedSeen
<1>6. CASE ~Active(ble) /\ menu' = Seen(menu, key) /\ UNCHANGED ble
  <2>1. menu' \in Menu /\ menu'.page = menu.page /\ menu'.previous = key
    BY <1>4, <1>6, SeenMenu
  <2> QED
    BY <1>1, <1>3, <1>6, <2>1 DEF IInv, MenuGood, MenuAway, CarriedSeen
<1>7. ASSUME ~Active(ble), Chooses(menu, key), NEW page \in {"main", "other", "start"},
             menu' = [Seen(menu, key) EXCEPT !.page = page],
             UNCHANGED ble \/ \E on \in BOOLEAN, ok \in {{}, up} : ble' = SetSeamless(ble, on, ok)
      PROVE  IInv'
  <2> DEFINE seen == Seen(menu, key)
  <2>1. seen \in Menu
    BY <1>4, SeenMenu
  <2>2. menu' = [seen EXCEPT !.page = page]
    BY <1>7
  <2> HIDE DEF seen
  <2>3. menu' \in Menu
    BY <2>1, <2>2 DEF Menu, Page
  <2>4. ~keys'.carried
    BY <1>3, <1>7 DEF Chooses, IInv, MenuGood, CarriedSeen
  <2>5. Good(ble', up) /\ ~Active(ble')
    <3>1. CASE UNCHANGED ble
      BY <1>7, <3>1 DEF IInv
    <3>2. ASSUME NEW on \in BOOLEAN, NEW ok \in {{}, up}, ble' = SetSeamless(ble, on, ok)
          PROVE  Good(ble', up) /\ ~Active(ble')
      <4>1. ok \in SUBSET Slot
        BY <3>2 DEF IInv
      <4> QED
        BY <1>7, <3>2, <4>1, SeamlessIdle DEF IInv
    <3> QED
      BY <1>7, <3>1, <3>2
  <2> QED
    BY <1>1, <1>3, <2>3, <2>4, <2>5 DEF IInv, MenuGood, MenuAway, CarriedSeen
<1> QED
  BY <1>2, <1>5, <1>6, <1>7

\* The inductive invariant holds after ESC.
LEMMA EscapeStep ==
    ASSUME IInv, Escape
    PROVE  IInv'
<1>1. UNCHANGED <<step, up, keys>> /\ step = "drain" /\ step' # "menu" /\ step' \in Step
  BY DEF Escape, Step
<1>2. menu \in Menu /\ keys.key \in Key
  BY DEF IInv, MenuGood, Keys
<1> DEFINE seen == Seen(menu, keys.key)
<1>3. seen \in Menu /\ seen.page = menu.page /\ seen.previous = keys.key
  BY <1>2, SeenMenu
<1>4. PICK ok \in {{}, up}, saved \in BOOLEAN :
         \/ Active(ble) /\ ble' = CancelCalibration(ble, FALSE, ok, saved) /\ menu' = seen
         \/ menu.page = "main" /\ ble' = Closing(ble, ok) /\ menu' = Close(seen)
         \/ /\ menu.page \in {"start", "other"} /\ ble' = ReleaseAll(ble, ok)
            /\ menu' = [seen EXCEPT !.page = "main"]
  BY DEF Escape
<1> HIDE DEF seen
<1>5. ok \in SUBSET Slot
  BY <1>4 DEF IInv
<1>6. Good(ble', up) /\ ~Active(ble')
  <2>1. CASE Active(ble) /\ ble' = CancelCalibration(ble, FALSE, ok, saved)
    BY <1>5, <2>1, CancelKeeps DEF IInv
  <2>2. CASE menu.page # "closed" /\ (ble' = Closing(ble, ok) \/ ble' = ReleaseAll(ble, ok))
    BY <1>5, <2>2, ClosingIdle, ReleaseIdle DEF IInv, MenuAway
  <2> QED
    BY <1>4, <2>1, <2>2
<1>7. /\ menu' \in Menu /\ menu'.previous = keys.key
      /\ menu'.page \in {"closed", "main"} \/ menu'.page = menu.page
  BY <1>3, <1>4 DEF Close, Menu, Page
<1>8. MenuGood' /\ MenuAway'
  BY <1>1, <1>6, <1>7 DEF IInv, MenuGood, MenuAway, CarriedSeen
<1> QED
  BY <1>1, <1>6, <1>8 DEF IInv

\* A release in the middle of a capture throws away motion that stays counted.
LEMMA DiscardGood ==
    ASSUME NEW b, NEW on, Good(b, on), NEW ok \in SUBSET Slot,
           NEW c, c = [ReleaseAll(b, ok) EXCEPT
                         !.discarded = IF b.stage = "bottomright" THEN @ + b.queued ELSE @]
    PROVE  Good(c, on) /\ (Active(c) => Active(b))
<1> DEFINE quiet == ReleaseAll(b, ok)
           thrown == IF b.stage = "bottomright" THEN b.discarded + b.queued ELSE b.discarded
<1>1. /\ b \in BleState /\ b.counted \in Nat /\ b.queued \in Nat /\ b.delivered \in Nat
      /\ b.discarded \in Nat /\ b.counted <= MaxMotion /\ b.discarded <= MaxMotion
  BY CountsAreNatural DEF Good
<1>2. thrown \in Count
  BY <1>1, MotionAssumption DEF Good, Span, Count
<1>3. /\ quiet \in BleState /\ Same(quiet, b)
      /\ quiet.selected = b.selected /\ quiet.absolute = b.absolute
      /\ quiet.queued = 0 /\ quiet.typed \subseteq quiet.owed
  BY <1>1, Released
<1>4. c = [quiet EXCEPT !.discarded = thrown]
  BY <1>3 DEF Same, BleState
<1>5. /\ b.stage = "bottomright" => thrown = b.discarded + b.queued
      /\ b.stage # "bottomright" => thrown = b.discarded
  OBVIOUS
<1> HIDE DEF quiet, thrown
<1>6. /\ c \in BleState /\ c.stage = quiet.stage /\ c.absolute = quiet.absolute
      /\ c.seamless = quiet.seamless /\ c.talking = quiet.talking
      /\ c.selected = quiet.selected /\ c.slot = quiet.slot
  BY <1>2, <1>3, <1>4 DEF BleState
<1>7. /\ c.typed = quiet.typed /\ c.owed = quiet.owed /\ c.session = quiet.session
      /\ c.counted = quiet.counted /\ c.delivered = quiet.delivered
      /\ c.queued = 0 /\ c.discarded = thrown
  BY <1>3, <1>4 DEF BleState
<1>8. /\ c.stage = b.stage /\ c.absolute = b.absolute /\ c.seamless = b.seamless
      /\ c.talking = b.talking /\ c.selected = b.selected /\ c.slot = b.slot
      /\ c.session = b.session /\ c.counted = b.counted /\ c.delivered = b.delivered
  BY <1>3, <1>6, <1>7 DEF Same
<1>9. Owned(c) /\ Held(c, on) /\ Owing(c) /\ (Active(c) => Active(b))
  BY <1>3, <1>7, <1>8 DEF Good, Owned, Held, Owing, Active
<1>10. Span(c)
  <2>1. b.stage = "topleft" => c.delivered = 0 /\ c.discarded = 0
    BY <1>5, <1>7, <1>8 DEF Good, Span
  <2>2. b.stage = "bottomright" =>
           c.delivered + c.queued + c.discarded = b.delivered + b.queued + b.discarded
    BY <1>1, <1>5, <1>7, <1>8
  <2>3. b.stage = "ready" => c.discarded = b.discarded
    BY <1>5, <1>7
  <2> QED
    BY <1>8, <2>1, <2>2, <2>3 DEF Good, Span
<1> QED
  BY <1>6, <1>8, <1>9, <1>10 DEF Good

\* The inductive invariant holds at the end of the queue.
LEMMA DrainEndStep ==
    ASSUME IInv, DrainEnd
    PROVE  IInv'
<1>1. UNCHANGED <<up, menu>> /\ step' = "flush"
  BY DEF DrainEnd, Then
<1>2. Good(ble', up) /\ (Active(ble') => Active(ble))
  <2>1. CASE UNCHANGED ble
    BY <2>1 DEF IInv, Active
  <2>2. CASE \E ok \in {{}, up} :
               ble' = [ReleaseAll(ble, ok) EXCEPT
                         !.discarded = IF ble.stage = "bottomright" THEN @ + ble.queued ELSE @]
    <3>1. PICK ok \in {{}, up} :
            ble' = [ReleaseAll(ble, ok) EXCEPT
                      !.discarded = IF ble.stage = "bottomright" THEN @ + ble.queued ELSE @]
      BY <2>2
    <3>2. ok \in SUBSET Slot
      BY <3>1 DEF IInv
    <3> QED
      BY <3>1, <3>2, DiscardGood DEF IInv
  <2> QED
    BY <2>1, <2>2 DEF DrainEnd
<1>3. UNCHANGED keys \/ keys' = [key |-> "none", carried |-> FALSE]
  BY DEF DrainEnd
<1>4. keys' \in Keys /\ (keys'.carried => keys.carried /\ keys'.key = keys.key)
  <2>1. keys \in Keys
    BY DEF IInv, MenuGood
  <2>2. CASE UNCHANGED keys
    BY <2>1, <2>2
  <2>3. CASE keys' = [key |-> "none", carried |-> FALSE]
    <3>1. keys'.carried = FALSE
      BY <2>3
    <3>2. keys' \in Keys
      BY <2>3 DEF Keys, Key
    <3> QED
      BY <3>1, <3>2
  <2> QED
    BY <1>3, <2>2, <2>3
<1>5. MenuGood' /\ MenuAway'
  BY <1>1, <1>2, <1>4 DEF IInv, MenuGood, MenuAway, CarriedSeen, Step
<1> QED
  BY <1>1, <1>2, <1>5 DEF IInv

\* The inductive invariant holds after serviceCalibration().
LEMMA FlushStep ==
    ASSUME IInv, Flush
    PROVE  IInv'
<1>1. UNCHANGED <<up, menu, keys>> /\ step' \in Step /\ step' # "menu"
  BY DEF Flush, Then, AfterFlush, Step
<1>2. Good(ble', up)
  BY FlushGood DEF IInv
<1>3. Active(ble') => Active(ble)
  <2>1. ble.talking => Active(ble)
    BY DEF IInv, Good, Active
  <2> QED
    BY <2>1 DEF Flush, CaptureFails, SendMotion, SettleFirst, SettleSecond, MessageLost, Type
<1>4. MenuGood' /\ MenuAway'
  BY <1>1, <1>2, <1>3, MenuStays
<1> QED
  BY <1>1, <1>2, <1>4 DEF IInv

\* The inductive invariant holds after the menu came back: a key that is down is
\* one it has seen.
LEMMA ReturnStep ==
    ASSUME IInv, Return
    PROVE  IInv'
<1>1. UNCHANGED up /\ step' = "usb"
  BY DEF Return, Then
<1>2. None \in Slot \cup {None} /\ ble \in BleState /\ menu \in Menu /\ keys \in Keys
  BY DEF IInv, Good, MenuGood
<1>3. ASSUME ~Active(ble), NEW ok \in {{}, up},
             ble' = [ReleaseAll(ble, ok) EXCEPT !.resume = None, !.session = @ \cup {"menu"}],
             menu' = Resumed(menu), keys' = [keys EXCEPT !.carried = keys.key = "option"]
      PROVE  IInv'
  <2> DEFINE open == [ReleaseAll(ble, ok) EXCEPT !.session = @ \cup {"menu"}]
             quiet == ReleaseAll(ble, ok)
  <2>1. ok \in SUBSET Slot
    BY <1>3 DEF IInv
  <2>2. Good(quiet, up) /\ ~Active(quiet)
    BY <1>3, <2>1, ReleaseIdle DEF IInv
  <2>3. ble' = [quiet EXCEPT !.resume = None, !.session = @ \cup {"menu"}]
    BY <1>3
  <2> HIDE DEF quiet
  <2>4. quiet \in BleState
    BY <2>2 DEF Good
  <2>5. ble' \in BleState
    BY <1>2, <2>3, <2>4 DEF BleState
  <2>6. Alike(ble', quiet)
    BY <2>3, <2>4 DEF BleState, Alike
  <2>7. Good(ble', up) /\ ~Active(ble')
    BY <2>2, <2>5, <2>6, AlikeGood DEF Alike, Active
  <2>8. menu' \in Menu /\ menu'.page = "main" /\ menu'.previous = keys.key
    BY <1>2, <1>3 DEF Resumed, Menu, Page, Keys
  <2>9. keys' \in Keys /\ keys'.key = keys.key /\ (keys'.carried => keys.key = "option")
    BY <1>2, <1>3 DEF Keys
  <2>10. MenuGood' /\ MenuAway'
    BY <1>1, <2>7, <2>8, <2>9 DEF MenuGood, MenuAway, CarriedSeen, Step
  <2> QED
    BY <1>1, <2>7, <2>10 DEF IInv
<1>4. ASSUME ble' = [ble EXCEPT !.resume = None], UNCHANGED <<menu, keys>>
      PROVE  IInv'
  <2>1. ble' \in BleState
    BY <1>2, <1>4 DEF BleState
  <2>2. Alike(ble', ble)
    BY <1>2, <1>4 DEF BleState, Alike
  <2>3. Good(ble', up) /\ (Active(ble') => Active(ble))
    BY <2>1, <2>2, AlikeGood DEF IInv, Alike, Active
  <2>4. MenuGood' /\ MenuAway'
    BY <1>1, <1>4, <2>3, MenuStays DEF Step
  <2> QED
    BY <1>1, <2>3, <2>4 DEF IInv
<1> QED
  BY <1>3, <1>4 DEF Return

-----------------------------------------------------------------------------
\* Every step keeps the inductive invariant.
LEMMA NextKeeps == IInv /\ [Next]_vars => IInv'
<1> SUFFICES ASSUME IInv, [Next]_vars PROVE IInv'
  OBVIOUS
<1>1. CASE Next
  BY <1>1, UsbStep, BleEventStep, StalledStep, BleEndStep, BootStep, MenuTickStep, EpochStep,
     CommandsStep, MouseReportStep, KeyboardReportStep, EscapeStep, DrainEndStep, FlushStep,
     ReturnStep DEF Next
<1>2. CASE UNCHANGED vars
  BY <1>2 DEF vars, IInv, Good, Owned, Held, Span, Owing, Active, MenuGood, MenuAway, CarriedSeen
<1> QED
  BY <1>1, <1>2

\* The calibration, the path of the mouse, the keys typed and the menu agree in
\* every reachable state.
THEOREM Inductive == Spec => []IInv
BY InitGood, NextKeeps, PTL DEF Spec

\* Every variable stays in its range.
THEOREM TypeCorrect == Spec => []TypeOK
<1>1. IInv => TypeOK
  BY DEF IInv, Good, MenuGood, TypeOK
<1> QED
  BY <1>1, Inductive, PTL

\* The router sends absolute reports exactly when seamless switching is on and no
\* calibration runs.
THEOREM PathIsOwnedHolds == Spec => []PathIsOwned
<1>1. IInv => PathIsOwned
  BY DEF IInv, Good, Owned, PathIsOwned
<1> QED
  BY <1>1, Inductive, PTL

\* The span that is saved is the motion the computer received between the marks,
\* apart from what a reset of the Bluetooth input threw away.
THEOREM SpanIsDeliveredHolds == Spec => []SpanIsDelivered
<1>1. IInv => SpanIsDelivered
  BY DEF IInv, Good, Span, SpanIsDelivered
<1> QED
  BY <1>1, Inductive, PTL

\* A key of a message is released by it, or its release is owed to the computer.
THEOREM TypedIsReleasedHolds == Spec => []TypedIsReleased
<1>1. IInv => TypedIsReleased
  BY DEF IInv, Good, Owing, TypedIsReleased
<1> QED
  BY <1>1, Inductive, PTL

\* A key held down while the menu comes back chooses nothing in it.
THEOREM CarriedKeyHolds == Spec => []CarriedKeyChoosesNothing
<1>1. IInv => CarriedKeyChoosesNothing
  BY DEF IInv, MenuGood, CarriedSeen, CarriedKeyChoosesNothing
<1> QED
  BY <1>1, Inductive, PTL
=============================================================================
