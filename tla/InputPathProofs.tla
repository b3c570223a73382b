---------------------------- MODULE InputPathProofs ----------------------------
(***************************************************************************)
(* Proofs about InputPath, for every board, set of input devices, queue    *)
(* length and interleaving with the driver tasks.  A press is followed on  *)
(* its way: what a driver reported is in the queue, in the sources or lost *)
(* with a reset to come (QueueTells, SourcesTell); the input state is the  *)
(* merge of the sources, or blocked (Merges); what is on its way to the    *)
(* computer is held in the input state (LatestHeld); what BleHid takes for *)
(* the last report is what the selected computer holds (MenuState), and    *)
(* every other computer is owed the release of what it holds (Whole).      *)
(***************************************************************************)
EXTENDS InputPath, SequenceTheorems, TLAPS

-----------------------------------------------------------------------------
(***************************************************************************)
(* The inductive invariant.                                                *)
(***************************************************************************)
\* Nothing of the input is pending, or counts as accepted last.
Quiet(b) == \A d \in Device : b.pending[d] = <<>> /\ ~b.last[d]

\* What holds of the state of BleHid after each of its operations: a computer
\* that is not selected is owed the release of what it holds, one without a
\* link holds nothing, the reports counted as accepted are those of the selected
\* computer since its last release, and no push starts without a companion.
Whole(b) ==
  /\ b \in BleState
  /\ \A d \in Device : Len(b.pending[d]) <= PendingLength
  /\ \A s \in Slot : s # b.selected => b.held[s] \subseteq b.owed[s]
  /\ \A s \in Slot \ b.up : b.held[s] = {}
  /\ \A d \in b.owed[b.selected] : ~b.last[d]
  /\ ~IsConnected(b) => Quiet(b)
  /\ ~setup.edges => b.target = NoTarget /\ ~b.synced.allowed

\* The last report accepted is what the selected computer holds.
Known(b) ==
  IsConnected(b) => \A d \in Device \ b.owed[b.selected] : b.last[d] <=> d \in b.held[b.selected]

\* The state of d that the selected computer has, or will have.
Latest(d) == LatestState(ble, d)

\* The text menu types on a released computer.
MenuState == IF menu THEN Quiet(ble) ELSE Known(ble)

\* Application::select() has seen the selection; only an edge handoff is noticed
\* later, and nothing is sent in between.
SelectionShown ==
  shown # ble.selected => pc \in {"flush", "usb", "ble", "menu"} /\ Quiet(ble)

\* The input state counts a device as held when a source holds it; after a loss
\* also when none does, but then a barrier blocks it and nothing is sent.
Merges ==
  /\ Merged(sources) \subseteq input.held
  /\ \A d \in input.held : d \notin input.blocked \/ Latest(d) => d \in Merged(sources)

\* What the computer is told of d stops with d.  A barrier that releases nothing
\* breaks this for the keyboard, a push at the edge for the mouse.
LatestHeld ==
  \A d \in Device :
    /\ d = "keyboard" /\ ~Reselect /\ Latest(d) => d \in input.held \ input.blocked
    /\ d = "mouse" /\ ~setup.edges /\ Latest(d) => d \in input.held

\* Input of source s is lost, and a reset is on its way.
Lossy(s) == s \in lost \/ overflow \/ pc = "discard" \/ (s # 0 /\ (bleReset \/ resetting))

About(n, s, d) == queue[n].source = s /\ queue[n].device = d

\* The last report queued for a device of a source is its state.
QueueTells ==
  \A n \in 1 .. Len(queue) :
    LET s == queue[n].source
        d == queue[n].device
    IN /\ queue[n].down /\ d \notin down[s]
       /\ \A m \in n + 1 .. Len(queue) : ~About(m, s, d)
       => Lossy(s)

\* With none queued, the source holds what is physically held, unless a barrier
\* covers the loss.
SourcesTell ==
  \A s \in Source, d \in Device :
    /\ d \in sources[s] /\ d \notin down[s]
    /\ \A n \in 1 .. Len(queue) : ~About(n, s, d)
    /\ d \notin input.blocked \/ Latest(d)
    => Lossy(s)

\* What was held at a toggled menu or a switch stays held and blocked.
CarriedBlocked == carried \subseteq input.held \cap input.blocked

Draining == resetting => pc = "drain"

IInv ==
  /\ TypeOK /\ Whole(ble) /\ MenuState /\ SelectionShown /\ Merges /\ LatestHeld
  /\ QueueTells /\ SourcesTell /\ CarriedBlocked /\ Draining

-----------------------------------------------------------------------------
(***************************************************************************)
(* Operations on the state of BleHid.                                      *)
(***************************************************************************)
\* c comes from b without a report added: nothing is told that was not on its
\* way, and what is taken for the last report stays right.
Lessens(b, c) ==
  /\ Whole(c)
  /\ \A d \in Device : /\ Len(c.pending[d]) <= Len(b.pending[d])
                       /\ LatestState(c, d) => LatestState(b, d)
  /\ Quiet(b) => Quiet(c)
  /\ Known(b) => Known(c)

\* What a setup gives: slots are numbers, devices are kinds.
LEMMA SetupFacts ==
  ASSUME setup \in Setups
  PROVE  /\ setup.slots \in Nat \ {0} /\ 0 \in Slot /\ NoTarget \notin Slot
         /\ Device \subseteq Kind /\ \A s \in Source : setup.attached[s] \subseteq Device
         /\ setup.edges \in BOOLEAN
<1>1. setup \in Setup
  BY SetupAssumption
<1> QED
  BY <1>1 DEF Setup, Slot, NoTarget, Device

\* The fields of a state of BleHid.
LEMMA StateFields ==
  ASSUME NEW b \in BleState
  PROVE  /\ b.selected \in Slot /\ b.pending \in [Device -> Seq(BOOLEAN)]
         /\ b.last \in [Device -> BOOLEAN] /\ b.epoch \in BOOLEAN /\ b.synced \in Synced
         /\ b.target \in Slot \cup {NoTarget} /\ b.up \subseteq Slot
         /\ b.held \in [Slot -> SUBSET Device] /\ b.owed \in [Slot -> SUBSET Device]
BY DEF BleState

\* With nothing pending or accepted, there is no state to follow.
LEMMA QuietLatest ==
  ASSUME NEW b, Quiet(b)
  PROVE  \A d \in Device : ~LatestState(b, d)
BY DEF Quiet, LatestState

\* The two facts about reports make a quiet state stay quiet.
LEMMA FewerReports ==
  ASSUME NEW b \in BleState, NEW c \in BleState, NEW d \in Device
  PROVE  /\ c.pending[d] = <<>> => Len(c.pending[d]) <= Len(b.pending[d])
         /\ c.pending[d] = b.pending[d] => Len(c.pending[d]) <= Len(b.pending[d])
         /\ Len(c.pending[d]) <= 0 => c.pending[d] = <<>>
<1>1. b.pending[d] \in Seq(BOOLEAN) /\ c.pending[d] \in Seq(BOOLEAN)
  BY StateFields
<1>2. Len(b.pending[d]) \in Nat /\ Len(c.pending[d]) \in Nat
  BY <1>1
<1>3. Len(c.pending[d]) = 0 => c.pending[d] = <<>>
  BY <1>1, EmptySeq
<1>4. c.pending[d] = <<>> => Len(c.pending[d]) = 0
  OBVIOUS
<1> QED
  BY <1>2, <1>3, <1>4

\* A state whose queues are each as they were, or empty with the last report
\* taken for a release.
LEMMA ReportsDrop ==
  ASSUME NEW b \in BleState, Whole(b), NEW c \in BleState,
         \A d \in Device : \/ c.pending[d] = b.pending[d] /\ c.last[d] = b.last[d]
                           \/ c.pending[d] = <<>> /\ ~c.last[d]
  PROVE  /\ \A d \in Device : /\ Len(c.pending[d]) <= Len(b.pending[d])
                              /\ Len(c.pending[d]) <= PendingLength
                              /\ LatestState(c, d) => LatestState(b, d)
                              /\ c.last[d] => b.last[d]
         /\ Quiet(b) => Quiet(c)
<1>1. ASSUME NEW d \in Device
      PROVE  /\ Len(c.pending[d]) <= Len(b.pending[d])
             /\ Len(c.pending[d]) <= PendingLength
             /\ LatestState(c, d) => LatestState(b, d)
             /\ c.last[d] => b.last[d]
  <2>1. Len(b.pending[d]) <= PendingLength /\ PendingLength \in Nat /\ Len(b.pending[d]) \in Nat
    BY StateFields, LengthAssumption DEF Whole
  <2>2. CASE c.pending[d] = b.pending[d] /\ c.last[d] = b.last[d]
    BY <2>1, <2>2 DEF LatestState
  <2>3. CASE c.pending[d] = <<>> /\ ~c.last[d]
    <3>1. Len(c.pending[d]) = 0
      BY <2>3
    <3> QED
      BY <2>1, <2>3, <3>1 DEF LatestState
  <2> QED
    BY <2>2, <2>3
<1>2. Quiet(b) => Quiet(c)
  BY DEF Quiet
<1> QED
  BY <1>1, <1>2

\* Cleared(): the queues are empty, and the last reports count as releases.
LEMMA ClearedFacts ==
  ASSUME NEW b \in BleState, NEW c, c = Cleared(b)
  PROVE  /\ c \in BleState /\ Quiet(c)
         /\ c.selected = b.selected /\ c.epoch = b.epoch /\ c.synced = b.synced
         /\ c.target = b.target /\ c.up = b.up /\ c.held = b.held /\ c.owed = b.owed
<1> DEFINE p == [d \in Device |-> <<>>]
           l == [d \in Device |-> FALSE]
<1>1. p \in [Device -> Seq(BOOLEAN)] /\ l \in [Device -> BOOLEAN]
  BY EmptySeq
<1>2. c = [b EXCEPT !.pending = p, !.last = l]
  BY DEF Cleared
<1>3. \A d \in Device : p[d] = <<>> /\ ~l[d]
  OBVIOUS
<1> HIDE DEF p, l
<1>4. c \in BleState /\ c.pending = p /\ c.last = l
      /\ c.selected = b.selected /\ c.epoch = b.epoch /\ c.synced = b.synced
      /\ c.target = b.target /\ c.up = b.up /\ c.held = b.held /\ c.owed = b.owed
  BY <1>1, <1>2 DEF BleState
<1> QED
  BY <1>3, <1>4 DEF Quiet

\* Serve(): computers that accept let go of what they owe.
LEMMA ServeFacts ==
  ASSUME NEW b \in BleState, NEW ok, NEW c, c = Serve(b, ok)
  PROVE  /\ c \in BleState
         /\ c.selected = b.selected /\ c.epoch = b.epoch /\ c.synced = b.synced
         /\ c.target = b.target /\ c.up = b.up /\ c.pending = b.pending /\ c.last = b.last
         /\ \A s \in Slot : \/ s \in ok /\ c.held[s] = b.held[s] \ b.owed[s] /\ c.owed[s] = {}
                            \/ s \notin ok /\ c.held[s] = b.held[s] /\ c.owed[s] = b.owed[s]
<1> DEFINE h == [s \in Slot |-> IF s \in ok THEN b.held[s] \ b.owed[s] ELSE b.held[s]]
           o == [s \in Slot |-> IF s \in ok THEN {} ELSE b.owed[s]]
<1>1. h \in [Slot -> SUBSET Device] /\ o \in [Slot -> SUBSET Device]
  BY StateFields
<1>2. c = [b EXCEPT !.held = h, !.owed = o]
  BY DEF Serve
<1>3. \A s \in Slot : \/ s \in ok /\ h[s] = b.held[s] \ b.owed[s] /\ o[s] = {}
                      \/ s \notin ok /\ h[s] = b.held[s] /\ o[s] = b.owed[s]
  OBVIOUS
<1> HIDE DEF h, o
<1>4. c \in BleState /\ c.held = h /\ c.owed = o
      /\ c.selected = b.selected /\ c.epoch = b.epoch /\ c.synced = b.synced
      /\ c.target = b.target /\ c.up = b.up /\ c.pending = b.pending /\ c.last = b.last
  BY <1>1, <1>2 DEF BleState
<1> QED
  BY <1>3, <1>4

\* Owing(): every device of some computers is to be released.
LEMMA OwingFacts ==
  ASSUME NEW b \in BleState, NEW slots, NEW c, c = Owing(b, slots)
  PROVE  /\ c \in BleState
         /\ c.selected = b.selected /\ c.epoch = b.epoch /\ c.synced = b.synced
         /\ c.target = b.target /\ c.up = b.up /\ c.pending = b.pending /\ c.last = b.last
         /\ c.held = b.held
         /\ \A s \in Slot : c.owed[s] = IF s \in slots THEN Device ELSE b.owed[s]
<1> DEFINE o == [s \in Slot |-> IF s \in slots THEN Device ELSE b.owed[s]]
<1>1. o \in [Slot -> SUBSET Device]
  BY StateFields
<1>2. c = [b EXCEPT !.owed = o]
  BY DEF Owing
<1>3. \A s \in Slot : o[s] = IF s \in slots THEN Device ELSE b.owed[s]
  OBVIOUS
<1> HIDE DEF o
<1>4. c \in BleState /\ c.owed = o
      /\ c.selected = b.selected /\ c.epoch = b.epoch /\ c.synced = b.synced
      /\ c.target = b.target /\ c.up = b.up /\ c.pending = b.pending /\ c.last = b.last
      /\ c.held = b.held
  BY <1>1, <1>2 DEF BleState
<1> QED
  BY <1>3, <1>4

\* A pass of service() alone releases what is owed, and tells nothing else.
LEMMA ServeLessens ==
  ASSUME NEW b, Whole(b), NEW ok, NEW c, c = Serve(b, ok)
  PROVE  Lessens(b, c) /\ c.selected = b.selected /\ c.up = b.up /\ c.epoch = b.epoch
<1>1. b \in BleState /\ b.selected \in Slot
  BY StateFields DEF Whole
<1>2. /\ c \in BleState
      /\ c.selected = b.selected /\ c.epoch = b.epoch /\ c.synced = b.synced
      /\ c.target = b.target /\ c.up = b.up /\ c.pending = b.pending /\ c.last = b.last
      /\ \A s \in Slot : \/ s \in ok /\ c.held[s] = b.held[s] \ b.owed[s] /\ c.owed[s] = {}
                         \/ s \notin ok /\ c.held[s] = b.held[s] /\ c.owed[s] = b.owed[s]
  BY <1>1, ServeFacts
<1>3. /\ \A d \in Device : /\ Len(c.pending[d]) <= Len(b.pending[d])
                           /\ Len(c.pending[d]) <= PendingLength
                           /\ LatestState(c, d) => LatestState(b, d)
      /\ Quiet(b) => Quiet(c)
  BY <1>1, <1>2, ReportsDrop
<1>4. Whole(c)
  BY <1>1, <1>2, <1>3 DEF Whole, IsConnected
<1>5. ASSUME Known(b)
      PROVE  Known(c)
  <2>1. SUFFICES ASSUME IsConnected(c), NEW d \in Device \ c.owed[c.selected]
                 PROVE  c.last[d] <=> d \in c.held[c.selected]
    BY DEF Known
  <2>2. IsConnected(b)
    BY <1>2, <2>1 DEF IsConnected
  <2>3. CASE d \in b.owed[b.selected]
    BY <1>1, <1>2, <2>1, <2>3 DEF Whole
  <2>4. CASE d \notin b.owed[b.selected]
    BY <1>1, <1>2, <1>5, <2>2, <2>4 DEF Known
  <2> QED
    BY <2>3, <2>4
<1> QED
  BY <1>2, <1>3, <1>4, <1>5 DEF Lessens

\* Clearing the queues and owing a release to a set of computers that includes
\* the selected one, and then selecting one of them.
LEMMA GiveUpInput ==
  ASSUME NEW b, Whole(b), NEW slots, b.selected \in slots, NEW t \in Slot \cap slots,
         NEW ok, NEW x, x = Serve(Owing(Cleared(b), slots), ok),
         NEW c \in BleState, c.selected = t, c.synced = x.synced, c.target = x.target,
         c.up = x.up, c.pending = x.pending, c.last = x.last, c.held = x.held, c.owed = x.owed
  PROVE  Lessens(b, c) /\ Quiet(c) /\ Known(c) /\ c.up = b.up
<1> DEFINE y == Cleared(b)
           z == Owing(y, slots)
<1>1. b \in BleState /\ b.selected \in Slot
  BY StateFields DEF Whole
<1>2. /\ y \in BleState /\ Quiet(y)
      /\ y.synced = b.synced /\ y.target = b.target /\ y.up = b.up
      /\ y.held = b.held /\ y.owed = b.owed
  BY <1>1, ClearedFacts
<1> HIDE DEF y
<1>3. /\ z \in BleState
      /\ z.synced = y.synced /\ z.target = y.target /\ z.up = y.up
      /\ z.pending = y.pending /\ z.last = y.last /\ z.held = y.held
      /\ \A s \in Slot : z.owed[s] = IF s \in slots THEN Device ELSE y.owed[s]
  BY <1>2, OwingFacts
<1> HIDE DEF z
<1>4. /\ x \in BleState
      /\ x.synced = z.synced /\ x.target = z.target /\ x.up = z.up
      /\ x.pending = z.pending /\ x.last = z.last
      /\ \A s \in Slot : \/ s \in ok /\ x.held[s] = z.held[s] \ z.owed[s] /\ x.owed[s] = {}
                         \/ s \notin ok /\ x.held[s] = z.held[s] /\ x.owed[s] = z.owed[s]
  BY <1>3, ServeFacts DEF y, z
<1>5. Quiet(c)
  BY <1>2, <1>3, <1>4 DEF Quiet
<1>6. /\ \A d \in Device : /\ Len(c.pending[d]) <= Len(b.pending[d])
                           /\ Len(c.pending[d]) <= PendingLength
                           /\ LatestState(c, d) => LatestState(b, d)
  BY <1>1, <1>5, ReportsDrop DEF Quiet
<1>7. c.up = b.up /\ c.target = b.target /\ c.synced = b.synced
  BY <1>2, <1>3, <1>4
<1>8. \A s \in Slot : /\ c.held[s] \subseteq b.held[s]
                      /\ s \in slots => c.held[s] \subseteq c.owed[s]
                      /\ s \notin slots /\ b.held[s] \subseteq b.owed[s] => c.held[s] \subseteq c.owed[s]
                      /\ c.owed[s] \in SUBSET Device
  <2>1. \A s \in Slot : b.held[s] \subseteq Device
    BY <1>1, StateFields
  <2> QED
    BY <1>2, <1>3, <1>4, <2>1, StateFields
<1>9. \A s \in Slot : s \in slots /\ c.owed[s] # Device => c.held[s] = {}
  <2>1. \A s \in Slot : b.held[s] \subseteq Device
    BY <1>1, StateFields
  <2> QED
    BY <1>2, <1>3, <1>4, <2>1
<1>10. Whole(c)
  <2>1. \A s \in Slot : s # c.selected => c.held[s] \subseteq c.owed[s]
    BY <1>8 DEF Whole
  <2>2. \A s \in Slot \ c.up : c.held[s] = {}
    BY <1>7, <1>8 DEF Whole
  <2>3. \A d \in c.owed[c.selected] : ~c.last[d]
    BY <1>5, <1>8 DEF Quiet
  <2>4. ~setup.edges => c.target = NoTarget /\ ~c.synced.allowed
    BY <1>7 DEF Whole
  <2> QED
    BY <1>5, <1>6, <2>1, <2>2, <2>3, <2>4 DEF Whole
<1>11. Known(c)
  BY <1>5, <1>9 DEF Known, Quiet
<1> QED
  BY <1>5, <1>6, <1>7, <1>10, <1>11 DEF Lessens

\* releaseAll().
LEMMA ReleaseAllFacts ==
  ASSUME NEW b, Whole(b), NEW ok, NEW c, c = ReleaseAll(b, ok)
  PROVE  /\ Lessens(b, c) /\ Quiet(c) /\ Known(c)
         /\ c.selected = b.selected /\ c.up = b.up /\ c.epoch = b.epoch
<1>1. b \in BleState /\ b.selected \in Slot
  BY StateFields DEF Whole
<1>2. c = Serve(Owing(Cleared(b), Slot), ok)
  BY DEF ReleaseAll
<1>3. c \in BleState /\ c.selected = b.selected /\ c.epoch = b.epoch
  BY <1>1, <1>2, ClearedFacts, OwingFacts, ServeFacts
<1> QED
  BY <1>1, <1>2, <1>3, GiveUpInput

\* selectSlot() that moves releases the old computer and the new one.
LEMMA SelectSlotFacts ==
  ASSUME NEW b, Whole(b), NEW t \in Slot, NEW ok, NEW c, c = SelectSlot(b, t, ok)
  PROVE  /\ Lessens(b, c) /\ c.up = b.up /\ c.selected = t
         /\ t = b.selected => c = b
         /\ t # b.selected => Quiet(c) /\ Known(c)
<1>1. b \in BleState /\ b.selected \in Slot
  BY StateFields DEF Whole
<1>2. CASE t = b.selected
  <2>1. c = b
    BY <1>2 DEF SelectSlot
  <2>2. \A d \in Device : Len(b.pending[d]) <= Len(b.pending[d])
    BY <1>1, FewerReports
  <2> QED
    BY <1>2, <2>1, <2>2 DEF Lessens
<1>3. CASE t # b.selected
  <2> DEFINE x == Serve(Owing(Cleared(b), {b.selected, t}), ok)
  <2>1. c = [x EXCEPT !.selected = t]
    BY <1>3 DEF SelectSlot
  <2>2. x \in BleState
    BY <1>1, ClearedFacts, OwingFacts, ServeFacts
  <2>3. c \in BleState /\ c.selected = t /\ c.synced = x.synced /\ c.target = x.target
        /\ c.up = x.up /\ c.pending = x.pending /\ c.last = x.last /\ c.held = x.held
        /\ c.owed = x.owed
    <3> HIDE DEF x
    <3> QED
      BY <2>1, <2>2 DEF BleState
  <2> QED
    BY <1>3, <2>3, GiveUpInput
<1> QED
  BY <1>2, <1>3

\* Only the state of a push at the edge, or the epoch, is new.
LEMMA ReportsSame ==
  ASSUME NEW b, Whole(b), NEW c \in BleState,
         c.selected = b.selected, c.up = b.up, c.pending = b.pending, c.last = b.last,
         c.held = b.held, c.owed = b.owed,
         ~setup.edges => c.target = NoTarget /\ ~c.synced.allowed
  PROVE  Lessens(b, c)
<1>1. b \in BleState
  BY DEF Whole
<1>2. \A d \in Device : Len(c.pending[d]) <= Len(b.pending[d])
  BY <1>1, FewerReports
<1>3. Whole(c)
  BY DEF Whole, IsConnected, Quiet
<1> QED
  BY <1>2, <1>3 DEF Lessens, LatestState, Quiet, Known, IsConnected

\* Nothing at all is new.
LEMMA LessensItself ==
  ASSUME NEW b, Whole(b)
  PROVE  Lessens(b, b)
BY ReportsSame DEF Whole

\* One operation after another.
LEMMA LessensTransitive ==
  ASSUME NEW a, NEW b, NEW c, Lessens(a, b), Lessens(b, c)
  PROVE  Lessens(a, c)
BY DEF Lessens

\* EdgeSwitch::reset().
LEMMA EdgeResetFacts ==
  ASSUME NEW b, Whole(b), NEW c, c = EdgeReset(b)
  PROVE  Lessens(b, c) /\ c.selected = b.selected /\ c.up = b.up /\ c.target = NoTarget
<1>1. b \in BleState
  BY DEF Whole
<1>2. /\ c \in BleState /\ c.selected = b.selected /\ c.up = b.up /\ c.pending = b.pending
      /\ c.last = b.last /\ c.held = b.held /\ c.owed = b.owed /\ c.synced = b.synced
      /\ c.target = NoTarget
  BY <1>1 DEF EdgeReset, BleState
<1> QED
  BY <1>2, ReportsSame DEF Whole

\* EdgeSwitch::sync().
LEMMA EdgeSyncFacts ==
  ASSUME NEW b, Whole(b), NEW allowed \in BOOLEAN, allowed => setup.edges,
         NEW c, c = EdgeSync(b, allowed)
  PROVE  Lessens(b, c) /\ c.selected = b.selected /\ c.up = b.up
<1> DEFINE now == [slot |-> b.selected, ready |-> b.up, allowed |-> allowed]
           r == EdgeReset(b)
<1>1. b \in BleState /\ now \in Synced /\ now.allowed = allowed
  BY StateFields DEF Whole, Synced
<1> HIDE DEF now
<1>2. CASE now = b.synced
  BY <1>2, LessensItself DEF EdgeSync, now
<1>3. CASE now # b.synced
  <2>1. c = [r EXCEPT !.synced = now]
    BY <1>3 DEF EdgeSync, now
  <2>2. r \in BleState /\ r.selected = b.selected /\ r.up = b.up /\ r.target = NoTarget
        /\ r.pending = b.pending /\ r.last = b.last /\ r.held = b.held /\ r.owed = b.owed
    BY <1>1 DEF EdgeReset, BleState
  <2> HIDE DEF r
  <2>3. /\ c \in BleState /\ c.selected = r.selected /\ c.up = r.up /\ c.pending = r.pending
        /\ c.last = r.last /\ c.held = r.held /\ c.owed = r.owed /\ c.synced = now
        /\ c.target = NoTarget
    BY <1>1, <2>1, <2>2 DEF BleState
  <2> QED
    BY <1>1, <2>2, <2>3, ReportsSame
<1> QED
  BY <1>2, <1>3

\* The input epoch moves, or the application has seen it.
LEMMA EpochFacts ==
  ASSUME NEW b, Whole(b), NEW e \in BOOLEAN, NEW c, c = [b EXCEPT !.epoch = e]
  PROVE  Lessens(b, c) /\ c.selected = b.selected /\ c.up = b.up
<1>1. b \in BleState
  BY DEF Whole
<1>2. /\ c \in BleState /\ c.selected = b.selected /\ c.up = b.up /\ c.pending = b.pending
      /\ c.last = b.last /\ c.held = b.held /\ c.owed = b.owed /\ c.synced = b.synced
      /\ c.target = b.target
  BY <1>1 DEF BleState
<1> QED
  BY <1>2, ReportsSame DEF Whole

\* A link that is lost takes what its computer held and was owed.
LEMMA LinkLostFacts ==
  ASSUME NEW b, Whole(b), NEW s \in Slot, NEW c, c = LinkLost(b, s)
  PROVE  Lessens(b, c) /\ c.selected = b.selected
<1> DEFINE x == IF s = b.selected THEN Cleared(b) ELSE b
<1>1. b \in BleState /\ b.selected \in Slot
  BY StateFields DEF Whole
<1>2. c = [x EXCEPT !.up = @ \ {s}, !.held[s] = {}, !.owed[s] = {}]
  BY DEF LinkLost
<1>3. /\ x \in BleState /\ x.selected = b.selected /\ x.up = b.up /\ x.held = b.held
      /\ x.owed = b.owed /\ x.synced = b.synced /\ x.target = b.target
      /\ IF s = b.selected THEN Quiet(x) ELSE x.pending = b.pending /\ x.last = b.last
  BY <1>1, ClearedFacts
<1> HIDE DEF x
<1> DEFINE h == [x.held EXCEPT ![s] = {}]
           o == [x.owed EXCEPT ![s] = {}]
           u == x.up \ {s}
<1>4. /\ x.held \in [Slot -> SUBSET Device] /\ x.owed \in [Slot -> SUBSET Device]
      /\ x.up \subseteq Slot
  BY <1>3, StateFields
<1>5. /\ h \in [Slot -> SUBSET Device] /\ o \in [Slot -> SUBSET Device] /\ u \subseteq Slot
      /\ h[s] = {} /\ o[s] = {} /\ s \notin u /\ u \subseteq x.up
      /\ \A t \in Slot \ {s} : h[t] = x.held[t] /\ o[t] = x.owed[t] /\ (t \in u <=> t \in x.up)
  BY <1>4
<1>6. c = [x EXCEPT !.up = u, !.held = h, !.owed = o]
  BY <1>2, <1>3 DEF BleState
<1> HIDE DEF h, o, u
<1>7. /\ c \in BleState /\ c.up = u /\ c.held = h /\ c.owed = o
      /\ c.selected = x.selected /\ c.synced = x.synced /\ c.target = x.target
      /\ c.pending = x.pending /\ c.last = x.last
  BY <1>3, <1>5, <1>6 DEF BleState
<1>8. \A d \in Device : \/ c.pending[d] = b.pending[d] /\ c.last[d] = b.last[d]
                        \/ c.pending[d] = <<>> /\ ~c.last[d]
  BY <1>3, <1>7 DEF Quiet
<1>9. /\ \A d \in Device : /\ Len(c.pending[d]) <= Len(b.pending[d])
                           /\ Len(c.pending[d]) <= PendingLength
                           /\ LatestState(c, d) => LatestState(b, d)
                           /\ c.last[d] => b.last[d]
      /\ Quiet(b) => Quiet(c)
  BY <1>1, <1>7, <1>8, ReportsDrop
<1>10. Whole(c)
  <2>1. \A t \in Slot : t # c.selected => c.held[t] \subseteq c.owed[t]
    BY <1>3, <1>5, <1>7 DEF Whole
  <2>2. \A t \in Slot \ c.up : c.held[t] = {}
    BY <1>3, <1>5, <1>7 DEF Whole
  <2>3. \A d \in c.owed[c.selected] : ~c.last[d]
    <3>1. c.owed[c.selected] \subseteq b.owed[b.selected]
      BY <1>1, <1>3, <1>5, <1>7
    <3>2. c.owed[c.selected] \subseteq Device
      BY <1>7, StateFields
    <3> QED
      BY <1>9, <3>1, <3>2 DEF Whole
  <2>4. ~IsConnected(c) => Quiet(c)
    <3>1. CASE s = b.selected
      BY <1>3, <1>7, <3>1 DEF Quiet
    <3>2. CASE s # b.selected
      BY <1>1, <1>3, <1>5, <1>7, <1>9, <3>2 DEF Whole, IsConnected
    <3> QED
      BY <3>1, <3>2
  <2>5. ~setup.edges => c.target = NoTarget /\ ~c.synced.allowed
    BY <1>3, <1>7 DEF Whole
  <2> QED
    BY <1>7, <1>9, <2>1, <2>2, <2>3, <2>4, <2>5 DEF Whole
<1>11. Known(b) => Known(c)
  <2>1. CASE s = b.selected
    BY <1>3, <1>5, <1>7, <2>1 DEF Known, IsConnected
  <2>2. CASE s # b.selected
    BY <1>1, <1>3, <1>5, <1>7, <2>2 DEF Known, IsConnected
  <2> QED
    BY <2>1, <2>2
<1> QED
  BY <1>3, <1>7, <1>9, <1>10, <1>11 DEF Lessens

\* A link that comes up owes a release of everything.
LEMMA LinkReadyFacts ==
  ASSUME NEW b, Whole(b), NEW s \in Slot \ b.up, NEW c, c = LinkReady(b, s)
  PROVE  Lessens(b, c) /\ c.selected = b.selected
<1>1. b \in BleState /\ b.selected \in Slot /\ b.up \subseteq Slot
      /\ b.owed \in [Slot -> SUBSET Device]
  BY StateFields DEF Whole
<1> DEFINE o == [b.owed EXCEPT ![s] = Device]
           u == b.up \cup {s}
<1>2. /\ o \in [Slot -> SUBSET Device] /\ u \subseteq Slot
      /\ o[s] = Device /\ s \in u /\ b.up \subseteq u
      /\ \A t \in Slot \ {s} : o[t] = b.owed[t] /\ (t \in u <=> t \in b.up)
  BY <1>1
<1>3. c = [b EXCEPT !.up = u, !.owed = o]
  BY <1>1 DEF LinkReady, BleState
<1> HIDE DEF o, u
<1>4. /\ c \in BleState /\ c.up = u /\ c.held = b.held /\ c.owed = o
      /\ c.selected = b.selected /\ c.synced = b.synced /\ c.target = b.target
      /\ c.pending = b.pending /\ c.last = b.last
  BY <1>1, <1>2, <1>3 DEF BleState
<1>5. /\ \A d \in Device : /\ Len(c.pending[d]) <= Len(b.pending[d])
                           /\ Len(c.pending[d]) <= PendingLength
                           /\ LatestState(c, d) => LatestState(b, d)
      /\ Quiet(b) => Quiet(c)
  BY <1>1, <1>4, ReportsDrop
<1>6. s = b.selected => Quiet(b)
  BY DEF Whole, IsConnected
<1>7. b.held[s] \subseteq Device
  BY <1>1, StateFields
<1>8. Whole(c)
  <2>1. \A t \in Slot : t # c.selected => c.held[t] \subseteq c.owed[t]
    BY <1>2, <1>4, <1>7 DEF Whole
  <2>2. \A t \in Slot \ c.up : c.held[t] = {}
    BY <1>2, <1>4 DEF Whole
  <2>3. \A d \in c.owed[c.selected] : ~c.last[d]
    <3>1. CASE s = b.selected
      BY <1>2, <1>4, <1>6, <3>1 DEF Quiet
    <3>2. CASE s # b.selected
      BY <1>1, <1>2, <1>4, <3>2 DEF Whole
    <3> QED
      BY <3>1, <3>2
  <2>4. ~IsConnected(c) => Quiet(c)
    BY <1>2, <1>4, <1>5 DEF Whole, IsConnected
  <2>5. ~setup.edges => c.target = NoTarget /\ ~c.synced.allowed
    BY <1>4 DEF Whole
  <2> QED
    BY <1>4, <1>5, <2>1, <2>2, <2>3, <2>4, <2>5 DEF Whole
<1>9. Known(b) => Known(c)
  <2>1. CASE s = b.selected
    BY <1>2, <1>4, <2>1 DEF Known
  <2>2. CASE s # b.selected
    BY <1>1, <1>2, <1>4, <2>2 DEF Known, IsConnected
  <2> QED
    BY <2>1, <2>2
<1> QED
  BY <1>4, <1>5, <1>8, <1>9 DEF Lessens

\* The end of loop(): service, and no input without a computer.
LEMMA ServicedFacts ==
  ASSUME NEW b, Whole(b), Serviced(b)
  PROVE  Lessens(b, ble') /\ ble'.selected = b.selected
<1>1. PICK ok \in SUBSET b.up :
        ble' = IF IsConnected(Serve(b, ok)) THEN Serve(b, ok) ELSE Cleared(Serve(b, ok))
  BY DEF Serviced
<1> DEFINE x == Serve(b, ok)
<1>2. Lessens(b, x) /\ x.selected = b.selected /\ x.up = b.up
  BY ServeLessens
<1> HIDE DEF x
<1>3. CASE IsConnected(x)
  BY <1>1, <1>2, <1>3 DEF x
<1>4. CASE ~IsConnected(x)
  <2>1. x \in BleState /\ Whole(x)
    BY <1>2 DEF Lessens, Whole
  <2>2. ble' = Cleared(x)
    BY <1>1, <1>4 DEF x
  <2>3. /\ ble' \in BleState /\ Quiet(ble')
        /\ ble'.selected = x.selected /\ ble'.synced = x.synced
        /\ ble'.target = x.target /\ ble'.up = x.up /\ ble'.held = x.held /\ ble'.owed = x.owed
    BY <2>1, <2>2, ClearedFacts
  <2>4. /\ \A d \in Device : /\ Len(ble'.pending[d]) <= Len(x.pending[d])
                             /\ Len(ble'.pending[d]) <= PendingLength
                             /\ LatestState(ble', d) => LatestState(x, d)
                             /\ ble'.last[d] => x.last[d]
    BY <2>1, <2>3, ReportsDrop DEF Quiet
  <2>5. Whole(ble')
    <3>1. \A d \in ble'.owed[ble'.selected] : ~ble'.last[d]
      BY <2>3, StateFields DEF Quiet
    <3> QED
      BY <2>1, <2>3, <2>4, <3>1 DEF Whole
  <2>6. Known(ble')
    BY <1>4, <2>3 DEF Known, IsConnected
  <2>7. Lessens(x, ble')
    BY <2>3, <2>4, <2>5, <2>6 DEF Lessens
  <2> QED
    BY <1>2, <2>3, <2>7, LessensTransitive
<1> QED
  BY <1>3, <1>4

\* A key of the text menu, which opens on a released computer.
LEMMA TypesFacts ==
  ASSUME NEW b, Whole(b), IsConnected(b), "keyboard" \in Device, NEW state \in BOOLEAN,
         NEW c, c = Types(b, state)
  PROVE  /\ Whole(c) /\ c.selected = b.selected /\ c.up = b.up /\ c.epoch = b.epoch
         /\ c.pending = b.pending /\ c.last = b.last
<1>1. b \in BleState /\ b.selected \in Slot /\ b.held \in [Slot -> SUBSET Device]
  BY StateFields DEF Whole
<1> DEFINE k == IF state THEN b.held[b.selected] \cup {"keyboard"}
                         ELSE b.held[b.selected] \ {"keyboard"}
           h == [b.held EXCEPT ![b.selected] = k]
<1>2. k \in SUBSET Device
  BY <1>1
<1>3. c = [b EXCEPT !.held = h]
  BY <1>1 DEF Types, BleState
<1> HIDE DEF k
<1>4. h \in [Slot -> SUBSET Device] /\ \A s \in Slot \ {b.selected} : h[s] = b.held[s]
  BY <1>1, <1>2
<1> HIDE DEF h
<1>5. /\ c \in BleState /\ c.held = h /\ c.selected = b.selected /\ c.synced = b.synced
      /\ c.target = b.target /\ c.pending = b.pending /\ c.last = b.last /\ c.up = b.up
      /\ c.owed = b.owed /\ c.epoch = b.epoch
  BY <1>1, <1>3, <1>4 DEF BleState
<1> QED
  BY <1>1, <1>4, <1>5 DEF Whole, IsConnected, Quiet

\* One more report in the queue of d, below its capacity.
LEMMA AppendFacts ==
  ASSUME NEW b, Whole(b), IsConnected(b), NEW d \in Device, NEW state \in BOOLEAN,
         Len(b.pending[d]) < PendingLength, NEW c, c = [b EXCEPT !.pending[d] = Append(@, state)]
  PROVE  /\ Whole(c) /\ c.selected = b.selected
         /\ Known(b) => Known(c)
         /\ LatestState(c, d) = state
         /\ \A e \in Device \ {d} : c.pending[e] = b.pending[e] /\ c.last[e] = b.last[e]
<1>1. b \in BleState /\ b.pending \in [Device -> Seq(BOOLEAN)] /\ PendingLength \in Nat
  BY StateFields, LengthAssumption DEF Whole
<1> DEFINE q == Append(b.pending[d], state)
           p == [b.pending EXCEPT ![d] = q]
<1>2. /\ q \in Seq(BOOLEAN) /\ Len(q) = Len(b.pending[d]) + 1 /\ q # <<>>
      /\ q[Len(q)] = state /\ Len(q) <= PendingLength
  BY <1>1
<1>3. c = [b EXCEPT !.pending = p]
  BY <1>1 DEF BleState
<1> HIDE DEF q
<1>4. /\ p \in [Device -> Seq(BOOLEAN)] /\ p[d] = q
      /\ \A e \in Device \ {d} : p[e] = b.pending[e]
  BY <1>1, <1>2
<1> HIDE DEF p
<1>5. /\ c \in BleState /\ c.pending = p /\ c.held = b.held /\ c.selected = b.selected
      /\ c.synced = b.synced /\ c.target = b.target /\ c.last = b.last /\ c.up = b.up
      /\ c.owed = b.owed
  BY <1>1, <1>3, <1>4 DEF BleState
<1>6. \A e \in Device : Len(c.pending[e]) <= PendingLength
  BY <1>2, <1>4, <1>5 DEF Whole
<1>7. Whole(c)
  BY <1>5, <1>6 DEF Whole, IsConnected
<1>8. LatestState(c, d) = state
  BY <1>2, <1>4, <1>5 DEF LatestState
<1> QED
  BY <1>4, <1>5, <1>7, <1>8 DEF Known, IsConnected

\* Without a computer a report is forgotten.
LEMMA ForgottenReport ==
  ASSUME NEW b, Whole(b), ~IsConnected(b), NEW d \in Device,
         NEW c, c = [b EXCEPT !.pending[d] = <<>>, !.last[d] = FALSE]
  PROVE  Lessens(b, c) /\ c.selected = b.selected /\ c.pending[d] = <<>> /\ ~LatestState(c, d)
<1>1. /\ b \in BleState /\ b.pending \in [Device -> Seq(BOOLEAN)]
      /\ b.last \in [Device -> BOOLEAN] /\ Quiet(b)
  BY StateFields DEF Whole
<1> DEFINE p == [b.pending EXCEPT ![d] = <<>>]
           l == [b.last EXCEPT ![d] = FALSE]
<1>2. c = [b EXCEPT !.pending = p, !.last = l]
  BY <1>1 DEF BleState
<1>3. p \in [Device -> Seq(BOOLEAN)] /\ l \in [Device -> BOOLEAN]
  BY <1>1, EmptySeq
<1>4. \A e \in Device : p[e] = <<>> /\ ~l[e]
  BY <1>1 DEF Quiet
<1> HIDE DEF p, l
<1>5. /\ c \in BleState /\ c.pending = p /\ c.held = b.held /\ c.selected = b.selected
      /\ c.synced = b.synced /\ c.target = b.target /\ c.last = l /\ c.up = b.up
      /\ c.owed = b.owed
  BY <1>1, <1>2, <1>3 DEF BleState
<1>6. Quiet(c)
  BY <1>4, <1>5 DEF Quiet
<1>7. \A e \in Device : /\ Len(c.pending[e]) <= Len(b.pending[e])
                        /\ Len(c.pending[e]) <= PendingLength
                        /\ LatestState(c, e) => LatestState(b, e)
  BY <1>1, <1>5, <1>6, ReportsDrop DEF Quiet
<1>8. Whole(c)
  <2>1. \A e \in c.owed[c.selected] : ~c.last[e]
    BY <1>5, <1>6, StateFields DEF Quiet
  <2> QED
    BY <1>5, <1>6, <1>7, <2>1 DEF Whole
<1>9. Known(c)
  BY <1>5 DEF Known, IsConnected
<1> QED
  BY <1>4, <1>5, <1>6, <1>7, <1>8, <1>9 DEF Lessens, LatestState

\* sendKeyboardReport(), sendMouseReport(): afterwards the state that d will
\* have is the one reported, or released; every other device has fewer reports.
LEMMA SendFacts ==
  ASSUME NEW b, Whole(b), NEW d \in Device, NEW state \in BOOLEAN, NEW moves \in BOOLEAN,
         NEW ok, NEW c, c = Send(b, d, state, moves, ok)
  PROVE  /\ Whole(c) /\ c.selected = b.selected
         /\ Known(b) => Known(c)
         /\ LatestState(c, d) => state
         /\ \A e \in Device \ {d} : /\ LatestState(c, e) => LatestState(b, e)
                                   /\ Len(c.pending[e]) <= Len(b.pending[e])
<1>1. CASE ~IsConnected(b)
  <2>1. c = [b EXCEPT !.pending[d] = <<>>, !.last[d] = FALSE]
    BY <1>1 DEF Send
  <2> QED
    BY <1>1, <2>1, ForgottenReport DEF Lessens
<1>2. CASE IsConnected(b) /\ LatestState(b, d) = state /\ (b.pending[d] # <<>> \/ ~moves)
  <2>1. c = b
    BY <1>2 DEF Send
  <2> QED
    BY <1>2, <2>1, LessensItself DEF Lessens
<1> DEFINE Drops == LatestState(b, d) = state /\ (b.pending[d] # <<>> \/ ~moves)
<1>3. CASE IsConnected(b) /\ ~Drops /\ Len(b.pending[d]) < PendingLength
  <2>1. c = [b EXCEPT !.pending[d] = Append(@, state)]
    BY <1>3 DEF Send
  <2>2. \A e \in Device \ {d} : LatestState(c, e) => LatestState(b, e)
    BY <1>3, <2>1, AppendFacts DEF LatestState
  <2>3. \A e \in Device \ {d} : Len(c.pending[e]) <= Len(b.pending[e])
    BY <1>3, <2>1, AppendFacts, FewerReports DEF Whole
  <2>4. /\ Whole(c) /\ c.selected = b.selected /\ LatestState(c, d) = state
        /\ Known(b) => Known(c)
    BY <1>3, <2>1, AppendFacts
  <2> HIDE DEF Drops
  <2>5. LatestState(c, d) => state
    BY <2>4
  <2> QED
    BY <2>2, <2>3, <2>4, <2>5
<1>4. CASE IsConnected(b) /\ ~Drops /\ ~(Len(b.pending[d]) < PendingLength)
  <2> DEFINE r == ReleaseAll(b, ok)
  <2>1. Lessens(b, r) /\ Quiet(r) /\ Known(r) /\ r.selected = b.selected /\ Whole(r)
    BY ReleaseAllFacts DEF Lessens
  <2>2. c = NextEpoch(r) \/ c = r
    BY <1>4 DEF Send
  <2> HIDE DEF r
  <2>3. Lessens(r, c) /\ c.selected = r.selected
    BY <2>1, <2>2, EpochFacts, LessensItself DEF NextEpoch
  <2>4. Lessens(b, c)
    BY <2>1, <2>3, LessensTransitive
  <2>5. Quiet(c) /\ Known(c)
    BY <2>1, <2>3 DEF Lessens
  <2>6. ~LatestState(c, d)
    BY <2>5, QuietLatest
  <2> QED
    BY <2>1, <2>3, <2>4, <2>5, <2>6 DEF Lessens
<1> QED
  BY <1>1, <1>2, <1>3, <1>4

\* What flushInput() leaves of a queue: fewer reports, the same last one.
LEMMA RestFacts ==
  ASSUME NEW q \in Seq(BOOLEAN), NEW n \in 1 .. Len(q), NEW m \in {n, n + 1},
         NEW r, r = SubSeq(q, m, Len(q))
  PROVE  /\ r \in Seq(BOOLEAN) /\ Len(r) <= Len(q)
         /\ r # <<>> => r[Len(r)] = q[Len(q)]
         /\ r = <<>> => q[n] = q[Len(q)]
<1>1. Len(q) \in Nat /\ n \in Int /\ m \in Int /\ m >= 1 /\ n <= Len(q) /\ m <= Len(q) + 1
  OBVIOUS
<1>2. \A i \in m .. Len(q) : q[i] \in BOOLEAN
  BY <1>1
<1>3. /\ r \in Seq(BOOLEAN)
      /\ Len(r) = IF m <= Len(q) THEN Len(q) - m + 1 ELSE 0
      /\ \A i \in 1 .. Len(q) - m + 1 : r[i] = q[m + i - 1]
  BY <1>1, <1>2, SubSeqProperties
<1>4. CASE m <= Len(q)
  <2>1. Len(r) = Len(q) - m + 1 /\ Len(r) \in 1 .. Len(q) - m + 1 /\ Len(r) <= Len(q)
    BY <1>1, <1>3, <1>4
  <2>2. r[Len(r)] = q[m + Len(r) - 1]
    BY <1>3, <2>1
  <2>3. m + Len(r) - 1 = Len(q)
    BY <1>1, <2>1
  <2>4. Len(r) # 0
    BY <1>1, <1>4, <2>1
  <2>5. r # <<>>
    BY <2>4
  <2> QED
    BY <1>3, <2>1, <2>2, <2>3, <2>5
<1>5. CASE ~(m <= Len(q))
  <2>1. n = Len(q) /\ Len(r) = 0
    BY <1>1, <1>3, <1>5
  <2>2. r = <<>>
    BY <1>3, <2>1, EmptySeq
  <2> QED
    BY <1>1, <1>3, <2>1, <2>2
<1> QED
  BY <1>4, <1>5

\* A number of reports of d that flushInput() may find accepted.
Acceptable(b, d, n) ==
  n \in Nat /\ (n = 0 \/ (d \in Device /\ CanSend(b, d) /\ n <= Len(b.pending[d])))

\* The computer accepts the first reports of a queue.
LEMMA AcceptFacts ==
  ASSUME NEW b, Whole(b), NEW d, NEW n \in Nat, Acceptable(b, d, n), NEW rest \in BOOLEAN,
         NEW c, c = Accept(b, d, n, rest)
  PROVE  /\ Lessens(b, c) /\ c.selected = b.selected /\ c.up = b.up /\ c.owed = b.owed
         /\ \A e \in Device \ {d} : c.pending[e] = b.pending[e]
<1>0. n \in Nat /\ (n = 0 \/ (d \in Device /\ CanSend(b, d) /\ n <= Len(b.pending[d])))
  BY DEF Acceptable
<1>1. CASE n = 0
  BY <1>1, LessensItself DEF Accept
<1>2. CASE n # 0
  <2> DEFINE q == b.pending[d]
             state == q[n]
             r == SubSeq(q, IF rest THEN n ELSE n + 1, Len(q))
             p == [b.pending EXCEPT ![d] = r]
             l == [b.last EXCEPT ![d] = state]
             k == IF state THEN b.held[b.selected] \cup {d} ELSE b.held[b.selected] \ {d}
             h == [b.held EXCEPT ![b.selected] = k]
  <2>1. /\ d \in Device /\ IsConnected(b) /\ d \notin b.owed[b.selected]
        /\ b \in BleState /\ b.selected \in Slot
        /\ b.pending \in [Device -> Seq(BOOLEAN)] /\ b.last \in [Device -> BOOLEAN]
        /\ b.held \in [Slot -> SUBSET Device]
    BY <1>0, <1>2, StateFields DEF Whole, CanSend
  <2>2. q \in Seq(BOOLEAN) /\ n \in 1 .. Len(q) /\ Len(q) \in Nat
    BY <1>0, <1>2, <2>1
  <2>3. c = [b EXCEPT !.pending = p, !.last = l, !.held = h]
    BY <1>2, <2>1 DEF Accept, BleState
  <2>4. state \in BOOLEAN
    BY <2>2
  <2>5. /\ r \in Seq(BOOLEAN) /\ Len(r) <= Len(q)
        /\ r # <<>> => r[Len(r)] = q[Len(q)]
        /\ r = <<>> => state = q[Len(q)]
    <3> DEFINE m == IF rest THEN n ELSE n + 1
    <3>1. m \in {n, n + 1} /\ r = SubSeq(q, m, Len(q))
      OBVIOUS
    <3> HIDE DEF m, r, q
    <3>2. /\ r \in Seq(BOOLEAN) /\ Len(r) <= Len(q)
          /\ r # <<>> => r[Len(r)] = q[Len(q)]
          /\ r = <<>> => q[n] = q[Len(q)]
      BY ONLY <2>2, <3>1, RestFacts
    <3> QED
      BY <3>2
  <2> HIDE DEF r
  <2>6. /\ p \in [Device -> Seq(BOOLEAN)] /\ p[d] = r
        /\ \A e \in Device \ {d} : p[e] = b.pending[e]
    BY <2>1, <2>5
  <2>7. /\ l \in [Device -> BOOLEAN] /\ l[d] = state
        /\ \A e \in Device \ {d} : l[e] = b.last[e]
    BY <2>1, <2>4
  <2>8. /\ k \in SUBSET Device /\ (d \in k <=> state)
        /\ \A e \in Device \ {d} : e \in k <=> e \in b.held[b.selected]
    BY <2>1
  <2> HIDE DEF k
  <2>9. /\ h \in [Slot -> SUBSET Device] /\ h[b.selected] = k
        /\ \A s \in Slot \ {b.selected} : h[s] = b.held[s]
    BY <2>1, <2>8
  <2> HIDE DEF p, l, h
  <2>10. /\ c \in BleState /\ c.pending = p /\ c.last = l /\ c.held = h
         /\ c.selected = b.selected /\ c.synced = b.synced /\ c.target = b.target
         /\ c.up = b.up /\ c.owed = b.owed
    BY <2>1, <2>3, <2>6, <2>7, <2>9 DEF BleState
  <2>11. Len(q) <= PendingLength /\ Len(r) <= PendingLength
    <3>1. Len(q) <= PendingLength /\ PendingLength \in Nat /\ Len(r) \in Nat
      BY <2>1, <2>5, LengthAssumption DEF Whole
    <3> QED
      BY <2>2, <2>5, <3>1
  <2>12. \A e \in Device : /\ Len(c.pending[e]) <= Len(b.pending[e])
                           /\ Len(c.pending[e]) <= PendingLength
                           /\ LatestState(c, e) => LatestState(b, e)
    <3>1. ASSUME NEW e \in Device \ {d}
          PROVE  /\ Len(c.pending[e]) <= Len(b.pending[e])
                 /\ Len(c.pending[e]) <= PendingLength
                 /\ LatestState(c, e) => LatestState(b, e)
      BY <2>1, <2>6, <2>7, <2>10, FewerReports DEF LatestState, Whole
    <3>2. /\ Len(c.pending[d]) <= Len(b.pending[d]) /\ Len(c.pending[d]) <= PendingLength
      BY <2>5, <2>6, <2>10, <2>11
    <3>3. LatestState(b, d) = q[Len(q)]
      BY <2>2 DEF LatestState
    <3>4. LatestState(c, d) = q[Len(q)]
      BY <2>5, <2>6, <2>7, <2>10 DEF LatestState
    <3> QED
      BY <3>1, <3>2, <3>3, <3>4
  <2>13. Whole(c)
    <3>1. \A s \in Slot \ c.up : c.held[s] = {}
      BY <2>1, <2>9, <2>10 DEF Whole, IsConnected
    <3>2. \A s \in Slot : s # c.selected => c.held[s] \subseteq c.owed[s]
      BY <2>9, <2>10 DEF Whole
    <3>3. \A e \in c.owed[c.selected] : ~c.last[e]
      <4>1. b.owed[b.selected] \subseteq Device
        BY <2>1, StateFields
      <4> QED
        BY <2>1, <2>7, <2>10, <4>1 DEF Whole
    <3>4. IsConnected(c)
      BY <2>1, <2>10 DEF IsConnected
    <3>5. ~setup.edges => c.target = NoTarget /\ ~c.synced.allowed
      BY <2>10 DEF Whole
    <3> QED
      BY <2>10, <2>12, <3>1, <3>2, <3>3, <3>4, <3>5 DEF Whole
  <2>14. Known(b) => Known(c)
    BY <2>1, <2>7, <2>8, <2>9, <2>10 DEF Known
  <2>15. ~Quiet(b)
    <3>1. q # <<>>
      BY <2>2
    <3> QED
      BY <2>1, <3>1 DEF Quiet
  <2> QED
    BY <2>6, <2>10, <2>12, <2>13, <2>14, <2>15 DEF Lessens
<1> QED
  BY <1>1, <1>2

-----------------------------------------------------------------------------
(***************************************************************************)
(* What the conjuncts of IInv need of a step.                              *)
(***************************************************************************)
\* A behaviour keeps its setup, and with it every set built from it.
LEMMA SetupSame ==
  ASSUME UNCHANGED setup
  PROVE  /\ Slot' = Slot /\ Device' = Device /\ NoTarget' = NoTarget /\ BleState' = BleState
         /\ InputState' = InputState /\ Report' = Report
BY DEF Slot, Device, NoTarget, BleState, Synced, InputState, Report

\* What holds of the new state of BleHid holds of BleHid in the new state.
LEMMA BleNext ==
  ASSUME UNCHANGED setup, Whole(ble')
  PROVE  /\ Whole(ble)'
         /\ Quiet(ble') => Quiet(ble)'
         /\ Known(ble') => Known(ble)'
         /\ \A d \in Device : Latest(d)' <=> LatestState(ble', d)
<1>1. Slot' = Slot /\ Device' = Device /\ NoTarget' = NoTarget /\ BleState' = BleState
  BY SetupSame
<1>2. Quiet(ble)' <=> Quiet(ble')
  BY <1>1 DEF Quiet
<1>3. Whole(ble)'
  BY <1>1, <1>2 DEF Whole, IsConnected
<1>4. Known(ble') => Known(ble)'
  BY <1>1 DEF Known, IsConnected
<1>5. \A d \in Device : Latest(d)' <=> LatestState(ble', d)
  BY DEF Latest, LatestState
<1> QED
  BY <1>2, <1>3, <1>4, <1>5

\* The types, from the sets of the state before.
LEMMA TypesNext ==
  ASSUME setup \in Setups, UNCHANGED setup, down' \in [Source -> SUBSET Device],
         queue' \in Seq(Report), Len(queue') <= QueueLength,
         overflow' \in BOOLEAN, bleReset' \in BOOLEAN, lost' \subseteq Source, flooded' \in BOOLEAN,
         resetting' \in BOOLEAN, menu' \in BOOLEAN,
         sources' \in [Source -> SUBSET Device], input' \in InputState, shown' \in Slot,
         Whole(ble'), pc' \in Step, uncertain' \subseteq Device, carried' \subseteq Device
  PROVE  TypeOK'
<1>1. /\ Slot' = Slot /\ Device' = Device /\ BleState' = BleState
      /\ InputState' = InputState /\ Report' = Report
  BY SetupSame
<1>2. ble' \in BleState /\ \A d \in Device : Len(ble'.pending[d]) <= PendingLength
  BY DEF Whole
<1> QED
  BY <1>1, <1>2 DEF TypeOK

\* The parts of TypeOK that most steps leave alone.
LEMMA TypeParts ==
  ASSUME TypeOK
  PROVE  /\ setup \in Setups /\ down \in [Source -> SUBSET Device]
         /\ queue \in Seq(Report) /\ Len(queue) <= QueueLength
         /\ overflow \in BOOLEAN /\ bleReset \in BOOLEAN /\ flooded \in BOOLEAN /\ lost \subseteq Source
         /\ resetting \in BOOLEAN /\ menu \in BOOLEAN
         /\ sources \in [Source -> SUBSET Device] /\ input \in InputState
         /\ input.held \subseteq Device /\ input.blocked \subseteq Device
         /\ shown \in Slot /\ pc \in Step /\ uncertain \subseteq Device /\ carried \subseteq Device
BY DEF TypeOK, InputState

\* A step that takes no report from the queue, unless it drops them all, and
\* lifts no barrier from a device that is held.
LEMMA RoutingKeeps ==
  ASSUME IInv, UNCHANGED <<setup, down, sources>>,
         Whole(ble'), \A d \in Device : LatestState(ble', d) => Latest(d),
         input' \in InputState, input'.held = input.held,
         \A d \in input.held : d \in input.blocked => d \in input'.blocked,
         \/ queue' = queue /\ \A s \in Source : Lossy(s) => Lossy(s)'
         \/ queue' = <<>> /\ input.held \subseteq input'.blocked /\ Quiet(ble'),
         Quiet(ble') \/ input' = input \/ Reselect
  PROVE  Merges' /\ LatestHeld' /\ QueueTells' /\ SourcesTell'
<1>1. /\ Device' = Device /\ Merged(sources)' = Merged(sources)
      /\ input.held \subseteq Device
  BY SetupSame DEF Merged, IInv, TypeOK, InputState
<1>2. /\ \A d \in Device : Latest(d)' => Latest(d)
      /\ Quiet(ble') => \A d \in Device : ~Latest(d)'
  BY BleNext, QuietLatest
<1>3. Merges'
  BY <1>1, <1>2 DEF IInv, Merges
<1>4. LatestHeld'
  BY <1>1, <1>2 DEF IInv, LatestHeld
<1>5. QueueTells'
  <2>1. CASE queue' = queue /\ \A s \in Source : Lossy(s) => Lossy(s)'
    <3>1. ASSUME NEW n \in 1 .. Len(queue)
          PROVE  queue[n].source \in Source
      <4>1. queue \in Seq(Report)
        BY DEF IInv, TypeOK
      <4>2. queue[n] \in Report
        BY <4>1
      <4> QED
        BY <4>2 DEF Report
    <3> QED
      BY <2>1, <3>1 DEF IInv, QueueTells, About
  <2>2. CASE queue' = <<>>
    BY <2>2 DEF QueueTells
  <2> QED
    BY <2>1, <2>2
<1>6. SourcesTell'
  <2>1. SUFFICES ASSUME NEW s \in Source, NEW d \in Device, d \in sources[s], d \notin down[s],
                        \A n \in 1 .. Len(queue') : ~About(n, s, d)',
                        d \notin input'.blocked \/ Latest(d)'
                 PROVE  Lossy(s)'
    BY <1>1 DEF SourcesTell
  <2>2. d \in input.held
    BY <2>1 DEF IInv, Merges, Merged
  <2>3. d \notin input.blocked \/ Latest(d)
    BY <1>2, <2>1, <2>2
  <2>4. CASE queue' = queue /\ \A t \in Source : Lossy(t) => Lossy(t)'
    BY <2>1, <2>3, <2>4 DEF IInv, SourcesTell, About
  <2>5. CASE queue' = <<>> /\ input.held \subseteq input'.blocked /\ Quiet(ble')
    BY <1>2, <2>1, <2>2, <2>5
  <2> QED
    BY <2>4, <2>5
<1> QED
  BY <1>3, <1>4, <1>5, <1>6

\* A step of the loop that leaves queue, input and menu alone.
LEMMA PlainStep ==
  ASSUME IInv, UNCHANGED <<setup, down, queue, sources, input, shown, menu, uncertain, carried>>,
         overflow' \in BOOLEAN, bleReset' \in BOOLEAN, lost' \subseteq Source, flooded' \in BOOLEAN,
         resetting' \in BOOLEAN, pc' \in Step,
         \A s \in Source : Lossy(s) => Lossy(s)', resetting' => pc' = "drain",
         Lessens(ble, ble'), ble'.selected = ble.selected,
         shown # ble.selected => pc' \in {"flush", "usb", "ble", "menu"}
  PROVE  IInv'
<1>1. /\ Whole(ble') /\ \A d \in Device : LatestState(ble', d) => Latest(d)
      /\ Quiet(ble) => Quiet(ble')
      /\ Known(ble) => Known(ble')
  BY DEF Lessens, Latest
<1>2. Merges' /\ LatestHeld' /\ QueueTells' /\ SourcesTell'
  BY <1>1, RoutingKeeps, TypeParts DEF IInv
<1>3. TypeOK'
  BY <1>1, TypesNext, TypeParts DEF IInv
<1>4. Whole(ble)' /\ MenuState' /\ SelectionShown'
  BY <1>1, BleNext DEF IInv, MenuState, SelectionShown
<1>5. CarriedBlocked' /\ Draining'
  BY DEF IInv, CarriedBlocked, Draining
<1> QED
  BY <1>2, <1>3, <1>4, <1>5 DEF IInv

-----------------------------------------------------------------------------
(***************************************************************************)
(* The steps of tick() that leave the queue alone.                         *)
(***************************************************************************)
\* loop() of BleHid.
LEMMA BleLoopKeeps ==
  ASSUME IInv, BleLoop
  PROVE  IInv' /\ \A d \in Device : Len(ble'.pending[d]) <= Len(ble.pending[d])
<1>1. /\ pc = "ble" /\ pc' = "menu"
      /\ UNCHANGED <<flooded, setup, down, overflow, bleReset, lost, queue, resetting, sources, input,
                     shown, menu, uncertain, carried>>
  BY DEF BleLoop, driverVars, flags, ghosts
<1>2. Whole(ble) /\ ble \in BleState /\ ble.up \subseteq Slot /\ ble.selected \in Slot
  BY StateFields DEF IInv, Whole
<1>3. Lessens(ble, ble') /\ ble'.selected = ble.selected
  <2>1. CASE Serviced(ble)
    BY <1>2, <2>1, ServicedFacts
  <2>2. ASSUME NEW s \in Slot, Serviced(LinkLost(ble, s))
        PROVE  Lessens(ble, ble') /\ ble'.selected = ble.selected
    <3> DEFINE x == LinkLost(ble, s)
    <3>1. Lessens(ble, x) /\ x.selected = ble.selected
      BY <1>2, LinkLostFacts
    <3> HIDE DEF x
    <3>2. Lessens(x, ble') /\ ble'.selected = x.selected
      BY <2>2, <3>1, ServicedFacts DEF x, Lessens
    <3> QED
      BY <3>1, <3>2, LessensTransitive
  <2>3. ASSUME NEW s \in Slot \ ble.up, Serviced(LinkReady(ble, s))
        PROVE  Lessens(ble, ble') /\ ble'.selected = ble.selected
    <3> DEFINE x == LinkReady(ble, s)
    <3>1. Lessens(ble, x) /\ x.selected = ble.selected
      BY <1>2, LinkReadyFacts
    <3> HIDE DEF x
    <3>2. Lessens(x, ble') /\ ble'.selected = x.selected
      BY <2>3, <3>1, ServicedFacts DEF x, Lessens
    <3> QED
      BY <3>1, <3>2, LessensTransitive
  <2>4. ASSUME NEW ok, Serviced(LinkLost(ReleaseAll(NextEpoch(ble), ok), ble.selected))
        PROVE  Lessens(ble, ble') /\ ble'.selected = ble.selected
    <3> DEFINE x == NextEpoch(ble)
               y == ReleaseAll(x, ok)
               z == LinkLost(y, ble.selected)
    <3>1. Lessens(ble, x) /\ x.selected = ble.selected
      BY <1>2, EpochFacts DEF NextEpoch
    <3> HIDE DEF x
    <3>2. Lessens(x, y) /\ y.selected = x.selected
      BY <3>1, ReleaseAllFacts DEF Lessens
    <3> HIDE DEF y
    <3>3. Lessens(y, z) /\ z.selected = y.selected
      BY <1>2, <3>2, LinkLostFacts DEF Lessens
    <3> HIDE DEF z
    <3>4. Lessens(z, ble') /\ ble'.selected = z.selected
      BY <2>4, <3>3, ServicedFacts DEF x, y, z, Lessens
    <3> QED
      BY <3>1, <3>2, <3>3, <3>4, LessensTransitive
  <2> QED
    BY <1>2, <2>1, <2>2, <2>3, <2>4 DEF BleLoop
<1>4. \A s \in Source : Lossy(s) => Lossy(s)'
  BY <1>1 DEF Lossy
<1>5. "menu" \in Step /\ resetting' = FALSE
  BY <1>1, TypeParts DEF Step, IInv, Draining
<1>6. IInv'
  BY <1>1, <1>3, <1>4, <1>5, PlainStep, TypeParts DEF IInv
<1> QED
  BY <1>3, <1>6 DEF Lessens

\* The overflow of the queue is noted.
LEMMA OverflowKeeps ==
  ASSUME IInv, Overflow
  PROVE  IInv'
<1>1. /\ pc = "overflow" /\ overflow' = FALSE /\ flooded' = overflow
      /\ pc' = IF overflow THEN "discard" ELSE "begin"
      /\ UNCHANGED <<setup, down, queue, bleReset, lost, resetting, sources, input, shown, menu,
                     ble, uncertain, carried>>
  BY DEF Overflow, ghosts
<1>2. pc' \in Step /\ resetting' = FALSE
  BY <1>1, TypeParts DEF Step, IInv, Draining
<1>3. \A s \in Source : Lossy(s) => Lossy(s)'
  BY <1>1 DEF Lossy
<1>4. Lessens(ble, ble')
  BY <1>1, LessensItself DEF IInv
<1>5. shown = ble.selected
  BY <1>1 DEF IInv, SelectionShown
<1> QED
  BY <1>1, <1>2, <1>3, <1>4, <1>5, PlainStep, TypeParts DEF IInv

\* The reset of the Bluetooth sources is taken up.
LEMMA BeginDrainKeeps ==
  ASSUME IInv, BeginDrain
  PROVE  IInv'
<1>1. /\ pc = "begin" /\ pc' = "drain" /\ resetting' = bleReset /\ bleReset' = FALSE
      /\ UNCHANGED <<setup, flooded, down, queue, overflow, lost, sources, input, shown, menu,
                     ble, uncertain, carried>>
  BY DEF BeginDrain, ghosts
<1>2. pc' \in Step /\ resetting = FALSE
  BY <1>1, TypeParts DEF Step, IInv, Draining
<1>3. \A s \in Source : Lossy(s) => Lossy(s)'
  BY <1>1, <1>2 DEF Lossy
<1>4. Lessens(ble, ble')
  BY <1>1, LessensItself DEF IInv
<1>5. shown = ble.selected
  BY <1>1 DEF IInv, SelectionShown
<1> QED
  BY <1>1, <1>2, <1>3, <1>4, <1>5, PlainStep, TypeParts DEF IInv

\* flushInput().
LEMMA FlushKeeps ==
  ASSUME IInv, Flush
  PROVE  IInv' /\ \A d \in Device : Len(ble'.pending[d]) <= Len(ble.pending[d])
<1>1. /\ pc = "flush" /\ pc' = "usb" /\ flooded' = FALSE
      /\ UNCHANGED <<setup, down, overflow, bleReset, lost, queue, resetting, sources, input, shown,
                     menu, uncertain, carried>>
  BY DEF Flush, driverVars, flags, ghosts
<1>2. PICK k \in Acceptances("keyboard"), m \in Acceptances("mouse"), rest \in BOOLEAN :
         ble' = Accept(Accept(ble, "keyboard", k, FALSE), "mouse", m, rest)
  BY DEF Flush
<1>3. k \in Nat /\ m \in Nat /\ Acceptable(ble, "keyboard", k) /\ Acceptable(ble, "mouse", m) /\ Whole(ble)
  BY DEF Acceptances, Acceptable, IInv
<1> DEFINE none == FALSE
           x == Accept(ble, "keyboard", k, none)
<1>4. /\ Lessens(ble, x) /\ x.selected = ble.selected /\ x.up = ble.up /\ x.owed = ble.owed
      /\ \A e \in Device \ {"keyboard"} : x.pending[e] = ble.pending[e]
  <2>1. none \in BOOLEAN /\ x = Accept(ble, "keyboard", k, none)
    OBVIOUS
  <2> HIDE DEF none, x
  <2> QED
    BY <1>3, <2>1, AcceptFacts
<1> HIDE DEF x
<1>5. Acceptable(x, "mouse", m)
  BY <1>3, <1>4 DEF Acceptable, CanSend, IsConnected
<1>6. Lessens(x, ble') /\ ble'.selected = x.selected
  <2>1. Whole(x) /\ ble' = Accept(x, "mouse", m, rest)
    BY <1>2, <1>4 DEF x, Lessens
  <2> QED
    BY <1>3, <1>5, <2>1, AcceptFacts
<1>7. Lessens(ble, ble') /\ ble'.selected = ble.selected
  BY <1>4, <1>6, LessensTransitive
<1>8. \A s \in Source : Lossy(s) => Lossy(s)'
  BY <1>1 DEF Lossy
<1>9. pc' \in Step /\ resetting' = FALSE
  BY <1>1, TypeParts DEF Step, IInv, Draining
<1>10. IInv'
  BY <1>1, <1>7, <1>8, <1>9, PlainStep, TypeParts DEF IInv
<1> QED
  BY <1>7, <1>10 DEF Lessens

\* barrier() and barrier(true) change what is blocked, never what is held.
LEMMA BarrierFacts ==
  ASSUME NEW i \in InputState
  PROVE  /\ Barrier(i) \in InputState /\ Barrier(i).held = i.held
         /\ Barrier(i).blocked = i.held
         /\ UncertainBarrier(i) \in InputState /\ UncertainBarrier(i).held = i.held
         /\ UncertainBarrier(i).blocked = Device
BY DEF InputState, Barrier, UncertainBarrier

\* A step that drops the queue, or raises a barrier with everything released.
LEMMA BarrierStep ==
  ASSUME IInv, UNCHANGED <<setup, down, sources, overflow, bleReset, lost, resetting>>,
         flooded' \in BOOLEAN, menu' \in BOOLEAN, pc' \in Step, pc' # "drain" => ~resetting,
         (queue' = <<>> /\ Quiet(ble')) \/ (queue' = queue /\ pc # "discard"),
         input' \in InputState, input'.held = input.held, input.held \subseteq input'.blocked,
         Whole(ble'), \A d \in Device : LatestState(ble', d) => Latest(d),
         Quiet(ble') \/ Reselect,
         IF menu' THEN Quiet(ble') ELSE Known(ble'),
         shown' \in Slot, shown' = ble'.selected, uncertain' \subseteq Device,
         carried' \subseteq carried \cup input.held
  PROVE  IInv'
<1>1. TypeOK /\ carried \subseteq input.held /\ input.held \subseteq Device
  BY TypeParts DEF IInv, CarriedBlocked
<1>2. pc # "discard" => \A s \in Source : Lossy(s) => Lossy(s)'
  BY DEF Lossy
<1>3. Merges' /\ LatestHeld' /\ QueueTells' /\ SourcesTell'
  BY <1>2, RoutingKeeps
<1>4. queue' \in Seq(Report) /\ Len(queue') <= QueueLength
  <2>1. CASE queue' = <<>>
    BY <2>1, EmptySeq, LengthAssumption
  <2>2. CASE queue' = queue
    BY <1>1, <2>2, TypeParts
  <2> QED
    BY <2>1, <2>2
<1>5. TypeOK'
  BY <1>1, <1>4, TypesNext, TypeParts
<1>6. Whole(ble)' /\ MenuState' /\ SelectionShown'
  BY BleNext DEF MenuState, SelectionShown
<1>7. CarriedBlocked' /\ Draining'
  BY <1>1 DEF CarriedBlocked, Draining
<1> QED
  BY <1>3, <1>5, <1>6, <1>7 DEF IInv

\* The overflow: everything is dropped and released.
LEMMA DiscardKeeps ==
  ASSUME IInv, Discard
  PROVE  IInv' /\ \A d \in Device : Len(ble'.pending[d]) <= Len(ble.pending[d])
<1>1. /\ pc = "discard" /\ pc' = "begin" /\ menu' = FALSE /\ queue' = <<>>
      /\ input' = UncertainBarrier(input) /\ uncertain' = Device
      /\ UNCHANGED <<flooded, setup, down, overflow, bleReset, lost, resetting, sources, shown>>
      /\ \E ok \in SUBSET ble.up : ble' = ReleaseAll(ble, ok)
      /\ carried' \subseteq carried \cup input.held
  BY DEF Discard, Carried, driverVars, flags
<1>2. Lessens(ble, ble') /\ Quiet(ble') /\ Known(ble') /\ ble'.selected = ble.selected
  BY <1>1, ReleaseAllFacts DEF IInv
<1>3. /\ input' \in InputState /\ input'.held = input.held /\ input.held \subseteq input'.blocked
  BY <1>1, BarrierFacts, TypeParts DEF IInv
<1>4. /\ pc' \in Step /\ ~resetting /\ shown = ble.selected /\ shown \in Slot
      /\ flooded \in BOOLEAN
  BY <1>1, TypeParts DEF Step, IInv, Draining, SelectionShown
<1>5. Whole(ble') /\ \A d \in Device : LatestState(ble', d) => Latest(d)
  BY <1>2 DEF Lessens, Latest
<1>6. IInv'
  BY <1>1, <1>2, <1>3, <1>4, <1>5, BarrierStep
<1> QED
  BY <1>2, <1>6 DEF Lessens

\* A recovery of the USB stack.
LEMMA UsbKeeps ==
  ASSUME IInv, Usb
  PROVE  IInv' /\ \A d \in Device : Len(ble'.pending[d]) <= Len(ble.pending[d])
<1>1. /\ pc = "usb" /\ pc' = "ble"
      /\ UNCHANGED <<flooded, setup, down, overflow, bleReset, lost, resetting, shown, menu, carried>>
  BY DEF Usb, driverVars, flags
<1>2. pc' \in Step /\ ~resetting /\ \A s \in Source : Lossy(s) => Lossy(s)'
  BY <1>1, TypeParts DEF Step, IInv, Draining, Lossy
<1>3. CASE UNCHANGED <<queue, sources, input, ble, uncertain>>
  <2>1. Lessens(ble, ble')
    BY <1>3, LessensItself DEF IInv
  <2>2. IInv'
    BY <1>1, <1>2, <1>3, <2>1, PlainStep, TypeParts DEF IInv
  <2> QED
    BY <2>1, <2>2 DEF Lessens
<1>4. CASE /\ sources' = [sources EXCEPT ![0] = {}]
           /\ queue' = <<>>
           /\ \E ok \in SUBSET ble.up : ble' = ReleaseAll(ble, ok)
           /\ input' = UncertainBarrier(input)
           /\ uncertain' = Device
  <2>1. Lessens(ble, ble') /\ Quiet(ble') /\ Known(ble') /\ ble'.selected = ble.selected
    BY <1>4, ReleaseAllFacts DEF IInv
  <2>2. Whole(ble') /\ \A d \in Device : ~LatestState(ble', d)
    BY <2>1, QuietLatest DEF Lessens
  <2>3. /\ input' \in InputState /\ input'.held = input.held /\ input'.blocked = Device
        /\ input.held \subseteq Device
    BY <1>4, BarrierFacts, TypeParts DEF IInv
  <2>4. sources' \in [Source -> SUBSET Device] /\ \A s \in Source : sources'[s] \subseteq sources[s]
    BY <1>4, TypeParts DEF IInv
  <2>5. Device' = Device /\ \A d \in Device : ~Latest(d)'
    BY <1>1, <2>2, SetupSame, BleNext
  <2>6. Merges'
    BY <2>3, <2>4, <2>5 DEF IInv, Merges, Merged
  <2>7. LatestHeld' /\ SourcesTell'
    BY <2>3, <2>5 DEF LatestHeld, SourcesTell
  <2>8. QueueTells' /\ queue' \in Seq(Report) /\ Len(queue') <= QueueLength
    BY <1>4, EmptySeq, LengthAssumption DEF QueueTells
  <2>9. TypeOK'
    BY <1>1, <1>2, <1>4, <2>2, <2>3, <2>4, <2>8, TypesNext, TypeParts DEF IInv
  <2>10. Whole(ble)' /\ MenuState' /\ SelectionShown'
    BY <1>1, <2>1, <2>2, BleNext DEF MenuState, SelectionShown
  <2>11. CarriedBlocked' /\ Draining'
    BY <1>1, <1>2, <2>3 DEF IInv, CarriedBlocked, Draining
  <2> QED
    BY <2>1, <2>6, <2>7, <2>8, <2>9, <2>10, <2>11 DEF IInv, Lessens
<1> QED
  BY <1>3, <1>4 DEF Usb

\* The end of the menu's part of a tick: a toggled menu, a new epoch and a new
\* selection each raise a barrier; what was on its way is gone by then.
LEMMA MenuStepKeeps ==
  ASSUME IInv, pc = "menu", pc' = "commands",
         UNCHANGED <<flooded, setup, down, overflow, bleReset, lost, resetting, sources>>,
         NEW b, NEW opened \in BOOLEAN, MenuStep(b, opened), Whole(b),
         \A d \in Device : /\ LatestState(b, d) => Latest(d)
                           /\ Len(b.pending[d]) <= Len(ble.pending[d]),
         b.selected # shown \/ opened # menu => Quiet(b),
         b.selected # ble.selected => opened # menu,
         IF opened THEN Quiet(b) ELSE Known(b)
  PROVE  IInv' /\ \A d \in Device : Len(ble'.pending[d]) <= Len(ble.pending[d])
<1> DEFINE toggled == opened # menu
           moved == b.selected # shown
           first == IF toggled THEN Barrier(input) ELSE input
           second == IF b.epoch THEN UncertainBarrier(first) ELSE first
           third == IF moved THEN Barrier(second) ELSE second
<1>1. PICK ok \in SUBSET b.up :
         ble' = IF b.epoch THEN [ReleaseAll(b, ok) EXCEPT !.epoch = FALSE] ELSE b
  BY DEF MenuStep
<1>2. /\ menu' = opened /\ input' = third /\ shown' = b.selected
      /\ queue' = IF b.epoch \/ moved THEN <<>> ELSE queue
      /\ uncertain' = IF b.epoch THEN Device ELSE uncertain
      /\ carried' = IF menu' # menu \/ ble'.selected # ble.selected
                    THEN carried \cup input.held ELSE carried
  BY DEF MenuStep, Carried
<1>3. /\ Lessens(b, ble') /\ ble'.selected = b.selected
      /\ b.epoch => Quiet(ble') /\ Known(ble')
  <2>1. CASE b.epoch
    <3> DEFINE r == ReleaseAll(b, ok)
    <3>1. Lessens(b, r) /\ Quiet(r) /\ Known(r) /\ r.selected = b.selected
      BY ReleaseAllFacts
    <3>2. ble' = [r EXCEPT !.epoch = FALSE] /\ FALSE \in BOOLEAN
      BY <1>1, <2>1
    <3> HIDE DEF r
    <3>3. Lessens(r, ble') /\ ble'.selected = r.selected
      BY <3>1, <3>2, EpochFacts DEF Lessens
    <3> QED
      BY <3>1, <3>3, LessensTransitive DEF Lessens
  <2>2. CASE ~b.epoch
    BY <1>1, <2>2, LessensItself
  <2> QED
    BY <2>1, <2>2
<1>4. \A d \in Device : Len(ble'.pending[d]) <= Len(b.pending[d])
  BY <1>3 DEF Lessens
<1>5. \A d \in Device : Len(ble'.pending[d]) <= Len(ble.pending[d])
  BY <1>4
<1>6. /\ Whole(ble') /\ \A d \in Device : LatestState(ble', d) => Latest(d)
      /\ IF menu' THEN Quiet(ble') ELSE Known(ble')
      /\ toggled \/ b.epoch \/ moved => Quiet(ble')
  BY <1>2, <1>3 DEF Lessens
<1>7. /\ input \in InputState /\ input.held \subseteq Device /\ ~resetting
      /\ pc' \in Step /\ b.selected \in Slot /\ flooded \in BOOLEAN /\ uncertain' \subseteq Device
  BY <1>2, TypeParts, StateFields DEF Step, IInv, Draining, Whole
<1>8. /\ first \in InputState /\ first.held = input.held
      /\ toggled => first.blocked = input.held
  BY <1>7, BarrierFacts
<1> HIDE DEF first
<1>9. /\ second \in InputState /\ second.held = input.held
      /\ toggled \/ b.epoch => input.held \subseteq second.blocked
  BY <1>7, <1>8, BarrierFacts
<1> HIDE DEF second
<1>10. /\ third \in InputState /\ third.held = input.held
       /\ toggled \/ b.epoch \/ moved => input.held \subseteq third.blocked
  BY <1>7, <1>9, BarrierFacts
<1> HIDE DEF third
<1>11. CASE toggled \/ b.epoch \/ moved
  <2>1. Quiet(ble') /\ input' \in InputState /\ input'.held = input.held
        /\ input.held \subseteq input'.blocked
    BY <1>2, <1>6, <1>10, <1>11
  <2>2. (queue' = <<>> /\ Quiet(ble')) \/ (queue' = queue /\ pc # "discard")
    BY <1>2, <2>1
  <2>3. /\ flooded' \in BOOLEAN /\ menu' \in BOOLEAN /\ shown' \in Slot /\ shown' = ble'.selected
        /\ carried' \subseteq carried \cup input.held
    BY <1>2, <1>3, <1>7
  <2> HIDE DEF toggled, moved
  <2> QED
    BY <1>5, <1>6, <1>7, <2>1, <2>2, <2>3, BarrierStep
<1>12. CASE ~(toggled \/ b.epoch \/ moved)
  <2>1. input' = input
    BY <1>2, <1>12 DEF third, second, first
  <2>2. /\ queue' = queue /\ carried' = carried /\ uncertain' = uncertain
        /\ shown' = ble'.selected /\ shown' \in Slot
    BY <1>2, <1>3, <1>7, <1>12
  <2>3. \A s \in Source : Lossy(s) => Lossy(s)'
    BY DEF Lossy
  <2>4. Merges' /\ LatestHeld' /\ QueueTells' /\ SourcesTell'
    <3> HIDE DEF toggled, moved
    <3> QED
      BY <1>6, <1>7, <2>1, <2>2, <2>3, RoutingKeeps
  <2>5. TypeOK'
    BY <1>2, <1>6, <1>7, <2>1, <2>2, TypesNext, TypeParts DEF IInv
  <2>6. Whole(ble)' /\ MenuState' /\ SelectionShown'
    BY <1>6, <2>2, BleNext DEF MenuState, SelectionShown
  <2>7. CarriedBlocked' /\ Draining'
    BY <1>7, <2>1, <2>2 DEF IInv, CarriedBlocked, Draining
  <2> QED
    BY <1>5, <2>4, <2>5, <2>6, <2>7 DEF IInv
<1> QED
  BY <1>11, <1>12

\* The text menu opens, closes and types.
LEMMA MenuKeeps ==
  ASSUME IInv, Menu
  PROVE  IInv' /\ \A d \in Device : Len(ble'.pending[d]) <= Len(ble.pending[d])
<1>1. /\ pc = "menu" /\ pc' = "commands"
      /\ UNCHANGED <<flooded, setup, down, overflow, bleReset, lost, resetting, sources>>
  BY DEF Menu, MenuOpens, driverVars, flags
<1>2. Whole(ble) /\ menu \in BOOLEAN
  BY TypeParts DEF IInv
<1>3. \A d \in Device : Len(ble.pending[d]) <= Len(ble.pending[d])
  BY <1>2, LessensItself DEF Lessens
<1>4. (menu => Quiet(ble)) /\ (~menu => Known(ble)) /\ (shown # ble.selected => Quiet(ble))
  BY DEF IInv, MenuState, SelectionShown
<1>5. ASSUME MenuStep(ble, menu)
      PROVE  IInv' /\ \A d \in Device : Len(ble'.pending[d]) <= Len(ble.pending[d])
  BY <1>1, <1>2, <1>3, <1>4, <1>5, MenuStepKeeps DEF Latest
<1>6. ASSUME NEW ok, ~menu, MenuStep(ReleaseAll(ble, ok), TRUE)
      PROVE  IInv' /\ \A d \in Device : Len(ble'.pending[d]) <= Len(ble.pending[d])
  <2> DEFINE b == ReleaseAll(ble, ok)
  <2>1. Lessens(ble, b) /\ Quiet(b) /\ b.selected = ble.selected
    BY <1>2, ReleaseAllFacts
  <2>2. MenuStep(b, TRUE)
    BY <1>6
  <2> HIDE DEF b
  <2> QED
    BY <1>1, <1>6, <2>1, <2>2, MenuStepKeeps DEF Latest, Lessens
<1>7. ASSUME NEW ok, NEW t \in Slot, menu, MenuStep(SelectSlot(ReleaseAll(ble, ok), t, ok), FALSE)
      PROVE  IInv' /\ \A d \in Device : Len(ble'.pending[d]) <= Len(ble.pending[d])
  <2> DEFINE a == ReleaseAll(ble, ok)
             b == SelectSlot(a, t, ok)
  <2>1. Lessens(ble, a) /\ Quiet(a) /\ Known(a)
    BY <1>2, ReleaseAllFacts
  <2>2. MenuStep(b, FALSE)
    BY <1>7
  <2> HIDE DEF a
  <2>3. Lessens(a, b) /\ Quiet(b) /\ Known(b)
    BY <2>1, SelectSlotFacts DEF Lessens
  <2> HIDE DEF b
  <2>4. Lessens(ble, b)
    BY <2>1, <2>3, LessensTransitive
  <2> QED
    BY <1>1, <1>7, <2>2, <2>3, <2>4, MenuStepKeeps DEF Latest, Lessens
<1>8. ASSUME NEW state \in BOOLEAN, menu, IsConnected(ble), "keyboard" \in Device,
             MenuStep(Types(ble, state), TRUE)
      PROVE  IInv' /\ \A d \in Device : Len(ble'.pending[d]) <= Len(ble.pending[d])
  <2> DEFINE b == Types(ble, state)
  <2>1. Whole(b) /\ b.selected = ble.selected /\ b.pending = ble.pending /\ b.last = ble.last
    BY <1>2, <1>8, TypesFacts
  <2>2. MenuStep(b, TRUE)
    BY <1>8
  <2> HIDE DEF b
  <2>3. Quiet(b) /\ \A d \in Device : LatestState(b, d) => Latest(d)
    BY <1>4, <1>8, <2>1 DEF Quiet, Latest, LatestState
  <2> QED
    BY <1>1, <1>3, <1>4, <1>8, <2>1, <2>2, <2>3, MenuStepKeeps
<1> QED
  BY <1>2, <1>5, <1>6, <1>7, <1>8 DEF Menu, MenuOpens

\* Commands of the serial line.
LEMMA CommandsKeeps ==
  ASSUME IInv, Commands
  PROVE  IInv' /\ \A d \in Device : Len(ble'.pending[d]) <= Len(ble.pending[d])
<1>1. /\ pc = "commands" /\ pc' = "overflow"
      /\ UNCHANGED <<flooded, setup, down, overflow, bleReset, lost, queue, resetting, sources, uncertain>>
  BY DEF Commands, driverVars, flags
<1>2. /\ Whole(ble) /\ menu \in BOOLEAN /\ shown = ble.selected /\ ~resetting
      /\ pc' \in Step /\ input \in InputState /\ flooded \in BOOLEAN /\ uncertain \subseteq Device
  BY <1>1, TypeParts DEF IInv, SelectionShown, Draining, Step
<1>3. (menu => Quiet(ble)) /\ (~menu => Known(ble))
  BY DEF IInv, MenuState
<1>4. carried' \subseteq carried \cup input.held
  BY DEF Commands, Carried
<1>5. ASSUME menu' \in BOOLEAN, NEW b, Lessens(ble, b), ble' = b,
             input' = Barrier(input), shown' = ble'.selected,
             Quiet(b) \/ Reselect, IF menu' THEN Quiet(b) ELSE Known(b)
      PROVE  IInv' /\ \A d \in Device : Len(ble'.pending[d]) <= Len(ble.pending[d])
  <2>1. /\ input' \in InputState /\ input'.held = input.held /\ input.held \subseteq input'.blocked
    BY <1>2, <1>5, BarrierFacts
  <2>2. /\ Whole(ble') /\ \A d \in Device : LatestState(ble', d) => Latest(d)
        /\ \A d \in Device : Len(ble'.pending[d]) <= Len(ble.pending[d])
    BY <1>5 DEF Lessens, Latest
  <2>3. shown' \in Slot
    BY <1>5, <2>2, StateFields DEF Whole
  <2> QED
    BY <1>1, <1>2, <1>4, <1>5, <2>1, <2>2, <2>3, BarrierStep
<1>6. CASE UNCHANGED <<input, shown, menu, ble>>
  <2>1. carried' = carried
    BY <1>6 DEF Commands, Carried
  <2>2. Lessens(ble, ble') /\ \A s \in Source : Lossy(s) => Lossy(s)'
    BY <1>1, <1>2, <1>6, LessensItself DEF Lossy
  <2>3. IInv'
    BY <1>1, <1>2, <1>6, <2>1, <2>2, PlainStep, TypeParts DEF IInv
  <2> QED
    BY <2>2, <2>3 DEF Lessens
<1>7. ASSUME NEW t \in Slot, NEW ok, t # ble.selected \/ Reselect,
             Choose(IF menu THEN ReleaseAll(ble, ok) ELSE ble, t, ok), menu' = FALSE
      PROVE  IInv' /\ \A d \in Device : Len(ble'.pending[d]) <= Len(ble.pending[d])
  <2> DEFINE a == IF menu THEN ReleaseAll(ble, ok) ELSE ble
             b == SelectSlot(a, t, ok)
  <2>1. Lessens(ble, a) /\ Known(a) /\ a.selected = ble.selected /\ Whole(a)
    BY <1>2, <1>3, ReleaseAllFacts, LessensItself DEF Lessens
  <2>2. /\ ble' = b /\ shown' = ble'.selected /\ input' = Barrier(input)
    BY <1>7 DEF Choose
  <2> HIDE DEF a
  <2>3. Lessens(a, b) /\ (t # a.selected => Quiet(b)) /\ Known(b)
    <3>1. Lessens(a, b) /\ (t # a.selected => Quiet(b))
      BY <2>1, SelectSlotFacts
    <3> QED
      BY <2>1, <3>1 DEF Lessens
  <2> HIDE DEF b
  <2>4. Lessens(ble, b) /\ (Quiet(b) \/ Reselect)
    BY <1>7, <2>1, <2>3, LessensTransitive
  <2> QED
    BY <1>5, <1>7, <2>2, <2>3, <2>4
<1>8. ASSUME NEW t \in Slot, NEW ok, NEW ok2, ~menu,
             ble' = ReleaseAll(SelectSlot(ble, t, ok), ok2), shown' = ble'.selected,
             input' = Barrier(input), menu' = menu
      PROVE  IInv' /\ \A d \in Device : Len(ble'.pending[d]) <= Len(ble.pending[d])
  <2> DEFINE a == SelectSlot(ble, t, ok)
             b == ReleaseAll(a, ok2)
  <2>1. Lessens(ble, a) /\ Whole(a)
    BY <1>2, SelectSlotFacts DEF Lessens
  <2>2. ble' = b
    BY <1>8
  <2> HIDE DEF a
  <2>3. Lessens(a, b) /\ Quiet(b) /\ Known(b)
    BY <2>1, ReleaseAllFacts
  <2> HIDE DEF b
  <2>4. Lessens(ble, b) /\ menu' \in BOOLEAN
    BY <1>2, <1>8, <2>1, <2>3, LessensTransitive
  <2> QED
    BY <1>5, <1>8, <2>2, <2>3, <2>4
<1> QED
  BY <1>6, <1>7, <1>8 DEF Commands

\* serviceEdges(): with a handoff nothing is held, and what the computer left
\* still holds is owed a release.
LEMMA EdgesKeep ==
  ASSUME IInv, ServiceEdges
  PROVE  /\ IInv'
         /\ \A d \in Device : Len(ble'.pending[d]) <= Len(ble.pending[d])
         /\ ble'.selected # ble.selected => HandoffAllowed
<1>1. /\ pc = "edges" /\ pc' = "flush"
      /\ UNCHANGED <<flooded, setup, down, overflow, bleReset, lost, queue, resetting, sources, input,
                     shown, menu, uncertain>>
      /\ carried' = IF ble'.selected # ble.selected THEN carried \cup input.held ELSE carried
  BY DEF ServiceEdges, Carried, driverVars, flags
<1> DEFINE allowed == HandoffAllowed
           b == EdgeSync(ble, allowed)
           r == EdgeReset(b)
<1>2. allowed \in BOOLEAN /\ (allowed => setup.edges /\ ~menu /\ input.held = {})
  BY SetupFacts, TypeParts DEF HandoffAllowed, IInv
<1>3. \/ ble' = b
      \/ ble' = r
      \/ /\ allowed /\ b.target \in b.up
         /\ \E ok \in SUBSET b.up : ble' = EdgeSync(SelectSlot(r, b.target, ok), allowed)
  BY DEF ServiceEdges
<1> HIDE DEF allowed
<1>4. Lessens(ble, b) /\ b.selected = ble.selected /\ b.up = ble.up /\ Whole(b)
  BY <1>2, EdgeSyncFacts DEF IInv, Lessens
<1> HIDE DEF b
<1>5. Lessens(b, r) /\ r.selected = b.selected /\ r.up = b.up /\ Whole(r)
  BY <1>4, EdgeResetFacts DEF Lessens
<1> HIDE DEF r
<1>6. Lessens(ble, r)
  BY <1>4, <1>5, LessensTransitive
<1>7. /\ Lessens(ble, ble')
      /\ ble'.selected # ble.selected => allowed /\ Quiet(ble')
  <2>1. ASSUME allowed, b.target \in b.up, NEW ok,
               ble' = EdgeSync(SelectSlot(r, b.target, ok), allowed)
        PROVE  /\ Lessens(ble, ble')
               /\ ble'.selected # ble.selected => allowed /\ Quiet(ble')
    <3> DEFINE c == SelectSlot(r, b.target, ok)
    <3>1. b.target \in Slot
      BY <1>4, <2>1, StateFields DEF Whole
    <3>2. Lessens(r, c) /\ (c.selected # r.selected => Quiet(c)) /\ Whole(c)
      BY <1>5, <3>1, SelectSlotFacts DEF Lessens
    <3>3. ble' = EdgeSync(c, allowed)
      BY <2>1
    <3> HIDE DEF c
    <3>4. Lessens(c, ble') /\ ble'.selected = c.selected
      BY <1>2, <3>2, <3>3, EdgeSyncFacts
    <3>5. Lessens(ble, ble')
      BY <1>6, <3>2, <3>4, LessensTransitive
    <3> QED
      BY <1>4, <1>5, <2>1, <3>2, <3>4, <3>5 DEF Lessens
  <2> QED
    BY <1>3, <1>4, <1>5, <1>6, <2>1
<1>8. /\ ~resetting /\ pc' \in Step /\ shown = ble.selected
      /\ \A s \in Source : Lossy(s) => Lossy(s)'
      /\ Whole(ble') /\ \A d \in Device : LatestState(ble', d) => Latest(d)
  BY <1>1, <1>7, TypeParts DEF IInv, Step, SelectionShown, Draining, Lossy, Lessens, Latest
<1>9. carried' = carried
  BY <1>1, <1>2, <1>7
<1>10. Merges' /\ LatestHeld' /\ QueueTells' /\ SourcesTell'
  BY <1>1, <1>8, RoutingKeeps, TypeParts DEF IInv
<1>11. TypeOK'
  BY <1>1, <1>8, <1>9, TypesNext, TypeParts DEF IInv
<1>12. Whole(ble)' /\ MenuState' /\ SelectionShown'
  BY <1>1, <1>7, <1>8, BleNext DEF IInv, MenuState, SelectionShown, Lessens
<1>13. CarriedBlocked' /\ Draining'
  BY <1>1, <1>8, <1>9 DEF IInv, CarriedBlocked, Draining
<1> QED
  BY <1>7, <1>10, <1>11, <1>12, <1>13 DEF IInv, Lessens, allowed

-----------------------------------------------------------------------------
(***************************************************************************)
(* The driver tasks.                                                       *)
(***************************************************************************)
\* Only the queue, its flags and what is held move: the loop's state is the same.
LEMMA DriverStep ==
  ASSUME IInv, UNCHANGED loopVars, down' \in [Source -> SUBSET Device],
         queue' \in Seq(Report), Len(queue') <= QueueLength,
         overflow' \in BOOLEAN, bleReset' \in BOOLEAN, lost' \subseteq Source, QueueTells', SourcesTell'
  PROVE  IInv'
<1>1. UNCHANGED <<setup, flooded, resetting, sources, input, shown, menu, ble, pc, uncertain, carried>>
  BY DEF loopVars, ghosts
<1>2. Device' = Device /\ Merged(sources)' = Merged(sources)
  BY <1>1, SetupSame DEF Merged
<1>3. Whole(ble') /\ (Quiet(ble) => Quiet(ble')) /\ (Known(ble) => Known(ble'))
      /\ \A d \in Device : Latest(d)' <=> Latest(d)
  BY <1>1 DEF IInv, Latest, LatestState
<1>4. TypeOK'
  BY <1>1, <1>3, TypesNext, TypeParts DEF IInv
<1>5. Whole(ble)' /\ MenuState' /\ SelectionShown'
  BY <1>1, <1>3, BleNext DEF IInv, MenuState, SelectionShown
<1>6. Merges' /\ LatestHeld'
  <2>1. input.held \subseteq Device
    BY TypeParts DEF IInv
  <2>2. Merges'
    BY <1>1, <1>2, <1>3, <2>1 DEF IInv, Merges
  <2>3. LatestHeld'
    BY <1>1, <1>2, <1>3 DEF IInv, LatestHeld
  <2> QED
    BY <2>2, <2>3
<1>7. CarriedBlocked' /\ Draining'
  BY <1>1 DEF IInv, CarriedBlocked, Draining
<1> QED
  BY <1>4, <1>5, <1>6, <1>7 DEF IInv

\* A report is queued behind the others of its device, or the loss is noted.
LEMMA DeviceReportKeeps ==
  ASSUME IInv, NEW s \in Source, NEW d \in Device, NEW state \in BOOLEAN,
         NEW outward \in BOOLEAN, DeviceReport(s, d, state, outward)
  PROVE  IInv'
<1> DEFINE r == [source |-> s, device |-> d, down |-> state, outward |-> outward]
<1>1. /\ down' = [down EXCEPT ![s] = IF state THEN @ \cup {d} ELSE @ \ {d}]
      /\ UNCHANGED loopVars
      /\ IF Len(queue) < QueueLength
         THEN queue' = Append(queue, r) /\ UNCHANGED lost
         ELSE lost' = lost \cup {r.source} /\ UNCHANGED queue
      /\ UNCHANGED <<overflow, bleReset>>
  BY DEF DeviceReport, Enqueue, flags
<1>2. /\ TypeOK /\ queue \in Seq(Report) /\ Len(queue) \in Nat /\ Len(queue) <= QueueLength
      /\ QueueLength \in Nat /\ down \in [Source -> SUBSET Device]
  BY TypeParts, LengthAssumption DEF IInv
<1>3. /\ down' \in [Source -> SUBSET Device] /\ (d \in down'[s] <=> state)
      /\ \A t \in Source, e \in Device : t # s \/ e # d => (e \in down'[t] <=> e \in down[t])
  BY <1>1, <1>2
<1>4. r \in Report /\ r.source = s /\ r.device = d /\ r.down = state
  BY DEF Report
<1>5. UNCHANGED <<setup, sources, input, ble, pc, resetting>> /\ Device' = Device
  BY <1>1, SetupSame DEF loopVars
<1> HIDE DEF r
<1>6. CASE Len(queue) < QueueLength
  <2>1. /\ queue' = Append(queue, r) /\ UNCHANGED <<overflow, bleReset, lost>>
    BY <1>1, <1>6
  <2>2. /\ queue' \in Seq(Report) /\ Len(queue') = Len(queue) + 1
        /\ queue'[Len(queue) + 1] = r
        /\ \A n \in 1 .. Len(queue) : queue'[n] = queue[n] /\ queue[n] \in Report
    BY <1>2, <1>4, <2>1
  <2>3. \A t : Lossy(t) => Lossy(t)'
    BY <1>5, <2>1 DEF Lossy
  <2>4. QueueTells'
    <3>1. SUFFICES ASSUME NEW n \in 1 .. Len(queue'), NEW t, NEW e,
                          t = queue'[n].source, e = queue'[n].device,
                          queue'[n].down, e \notin down'[t],
                          \A m \in n + 1 .. Len(queue') :
                             ~(queue'[m].source = t /\ queue'[m].device = e)
                   PROVE  Lossy(t)'
      BY DEF QueueTells, About, Lossy
    <3>2. n # Len(queue) + 1
      BY <1>3, <1>4, <2>2, <3>1
    <3>3. n \in 1 .. Len(queue)
      BY <1>2, <2>2, <3>1, <3>2
    <3>4. queue'[n] = queue[n] /\ t \in Source /\ e \in Device
      BY <2>2, <3>1, <3>3 DEF Report
    <3>5. Len(queue) + 1 \in n + 1 .. Len(queue')
      BY <1>2, <2>2, <3>3
    <3>6. t # s \/ e # d
      BY <1>4, <2>2, <3>1, <3>5
    <3>7. queue[n].down /\ e \notin down[t]
      BY <1>3, <3>1, <3>4, <3>6
    <3>8. \A m \in n + 1 .. Len(queue) : ~About(m, t, e)
      <4>1. SUFFICES ASSUME NEW m \in n + 1 .. Len(queue), About(m, t, e)
                     PROVE  FALSE
        OBVIOUS
      <4>2. m \in 1 .. Len(queue) /\ m \in n + 1 .. Len(queue')
        BY <1>2, <2>2, <3>3, <4>1
      <4>3. queue'[m] = queue[m]
        BY <2>2, <4>2
      <4> QED
        BY <3>1, <4>1, <4>2, <4>3 DEF About
    <3>9. Lossy(t)
      BY <3>1, <3>3, <3>4, <3>7, <3>8 DEF IInv, QueueTells
    <3> QED
      BY <2>3, <3>9
  <2>5. SourcesTell'
    <3>1. SUFFICES ASSUME NEW t \in Source, NEW e \in Device, e \in sources[t], e \notin down'[t],
                          \A n \in 1 .. Len(queue') :
                             ~(queue'[n].source = t /\ queue'[n].device = e),
                          e \notin input.blocked \/ Latest(e)
                   PROVE  Lossy(t)'
      BY <1>5 DEF SourcesTell, Latest, LatestState, About, Lossy
    <3>2. Len(queue) + 1 \in 1 .. Len(queue')
      BY <1>2, <2>2
    <3>3. t # s \/ e # d
      BY <1>4, <2>2, <3>1, <3>2
    <3>4. \A n \in 1 .. Len(queue) : ~About(n, t, e)
      BY <1>2, <2>2, <3>1 DEF About
    <3> QED
      BY <1>3, <2>3, <3>1, <3>3, <3>4 DEF IInv, SourcesTell
  <2>6. overflow' \in BOOLEAN /\ bleReset' \in BOOLEAN /\ lost' \subseteq Source /\ Len(queue') <= QueueLength
    BY <1>2, <1>6, <2>1, <2>2, TypeParts
  <2> QED
    BY <1>1, <1>3, <2>2, <2>4, <2>5, <2>6, DriverStep
<1>7. CASE ~(Len(queue) < QueueLength)
  <2>1. /\ overflow' \in BOOLEAN /\ bleReset' \in BOOLEAN /\ queue' = queue
        /\ lost' = lost \cup {s} /\ lost' \subseteq Source
    BY <1>1, <1>2, <1>4, <1>7, TypeParts
  <2>2. Lossy(s)' /\ \A t : Lossy(t) => Lossy(t)'
    BY <1>1, <1>5, <2>1 DEF Lossy
  <2>3. ASSUME NEW n \in 1 .. Len(queue)
        PROVE  queue[n].source \in Source /\ queue[n].device \in Device
    <3>1. queue[n] \in Report
      BY <1>2
    <3> QED
      BY <3>1 DEF Report
  <2>4. QueueTells'
    BY <1>3, <2>1, <2>2, <2>3 DEF IInv, QueueTells, About
  <2>5. SourcesTell'
    BY <1>3, <1>5, <2>1, <2>2 DEF IInv, SourcesTell, About, Latest, LatestState
  <2> QED
    BY <1>1, <1>2, <1>3, <2>1, <2>4, <2>5, DriverStep
<1> QED
  BY <1>6, <1>7

\* The loss is noted: from here on every source is.
LEMMA FlagOverflowKeeps ==
  ASSUME IInv, NEW s \in Source, FlagOverflow(s)
  PROVE  IInv'
<1>1. /\ lost' = lost \ {s} /\ overflow' = TRUE /\ bleReset' = (bleReset \/ s # 0)
      /\ UNCHANGED <<down, queue>> /\ UNCHANGED loopVars
  BY DEF FlagOverflow
<1>2. /\ down' \in [Source -> SUBSET Device] /\ queue' \in Seq(Report)
      /\ Len(queue') <= QueueLength /\ overflow' \in BOOLEAN /\ bleReset' \in BOOLEAN
      /\ lost' \subseteq Source
  BY <1>1, TypeParts DEF IInv
<1>3. QueueTells' /\ SourcesTell'
  BY <1>1 DEF QueueTells, SourcesTell, Lossy
<1> QED
  BY <1>1, <1>2, <1>3, DriverStep

\* A wireless input device is gone: its source is to be cleared.
LEMMA BleInputLostKeeps ==
  ASSUME IInv, BleInputLost
  PROVE  IInv'
<1>1. /\ down' = [s \in Source |-> IF s = 0 THEN down[s] ELSE {}]
      /\ bleReset' = TRUE /\ UNCHANGED <<queue, overflow, lost, loopVars>>
  BY DEF BleInputLost
<1>2. UNCHANGED <<setup, sources, input, ble, pc, resetting>> /\ Device' = Device
  BY <1>1, SetupSame DEF loopVars
<1>3. /\ down' \in [Source -> SUBSET Device] /\ (0 \in Source => down'[0] = down[0])
      /\ queue \in Seq(Report)
  BY <1>1, TypeParts DEF IInv
<1>4. \A s \in Source : s # 0 => Lossy(s)'
  BY <1>1 DEF Lossy
<1>5. Lossy(0) => Lossy(0)'
  BY <1>1, <1>2 DEF Lossy
<1>6. QueueTells'
  <2>1. ASSUME NEW n \in 1 .. Len(queue)
        PROVE  queue[n].source \in Source
    <3>1. queue[n] \in Report
      BY <1>3
    <3> QED
      BY <3>1 DEF Report
  <2> QED
    BY <1>1, <1>3, <1>4, <1>5, <2>1 DEF IInv, QueueTells, About
<1>7. SourcesTell'
  BY <1>1, <1>2, <1>3, <1>4, <1>5 DEF IInv, SourcesTell, About, Latest, LatestState
<1>8. overflow' \in BOOLEAN /\ bleReset' \in BOOLEAN /\ lost' \subseteq Source /\ Len(queue') <= QueueLength
  BY <1>1, TypeParts DEF IInv
<1> QED
  BY <1>1, <1>3, <1>6, <1>7, <1>8, DriverStep

-----------------------------------------------------------------------------
(***************************************************************************)
(* drainInput().                                                           *)
(***************************************************************************)
\* The end of a drain; with a reset on hand, what the Bluetooth sources held
\* is forgotten, and what USB still holds is blocked until it is released.
LEMMA DrainEndKeeps ==
  ASSUME IInv, DrainEnd
  PROVE  IInv' /\ \A d \in Device : Len(ble'.pending[d]) <= Len(ble.pending[d])
<1>1. /\ pc = "drain" /\ queue = <<>> /\ pc' = "edges" /\ resetting' = FALSE
      /\ UNCHANGED <<flooded, setup, down, overflow, bleReset, lost, queue, shown, menu, uncertain>>
  BY DEF DrainEnd, driverVars, flags
<1>2. pc' \in Step /\ shown = ble.selected
  BY <1>1 DEF IInv, Step, SelectionShown
<1>3. CASE ~resetting
  <2>1. UNCHANGED <<sources, input, carried, ble>>
    BY <1>3 DEF DrainEnd
  <2>2. Lessens(ble, ble') /\ \A s \in Source : Lossy(s) => Lossy(s)'
    BY <1>1, <1>3, <2>1, LessensItself DEF IInv, Lossy
  <2>3. IInv'
    BY <1>1, <1>2, <2>1, <2>2, PlainStep, TypeParts DEF IInv
  <2> QED
    BY <2>2, <2>3 DEF Lessens
<1>4. CASE resetting
  <2> DEFINE srcs == [s \in Source |-> IF s = 0 THEN sources[0] ELSE {}]
  <2>1. /\ sources' = srcs /\ carried' = carried \cap Merged(srcs)
        /\ input' = [held |-> Merged(srcs), blocked |-> Merged(srcs)]
        /\ \E ok \in SUBSET ble.up : ble' = ReleaseAll(ble, ok)
    BY <1>4 DEF DrainEnd
  <2>2. srcs \in [Source -> SUBSET Device]
    BY SourceAssumption, TypeParts DEF IInv
  <2> HIDE DEF srcs
  <2>3. Lessens(ble, ble') /\ Quiet(ble') /\ Known(ble') /\ ble'.selected = ble.selected
    BY <2>1, ReleaseAllFacts DEF IInv
  <2>4. Whole(ble') /\ \A d \in Device : ~LatestState(ble', d)
    BY <2>3, QuietLatest DEF Lessens
  <2>5. Device' = Device /\ Merged(sources)' = Merged(srcs) /\ \A d \in Device : ~Latest(d)'
    BY <1>1, <2>1, <2>4, SetupSame, BleNext DEF Merged
  <2>6. /\ input' \in InputState /\ input'.held = Merged(srcs) /\ input'.blocked = Merged(srcs)
        /\ \A s \in Source : sources'[s] \cap Device \subseteq Merged(srcs)
    BY <2>1 DEF InputState, Merged
  <2>7. Merges' /\ LatestHeld' /\ SourcesTell'
    BY <2>5, <2>6 DEF Merges, LatestHeld, SourcesTell
  <2>8. QueueTells'
    BY <1>1 DEF QueueTells
  <2>9. TypeOK'
    BY <1>1, <1>2, <2>1, <2>2, <2>4, <2>6, TypesNext, TypeParts DEF IInv
  <2>10. Whole(ble)' /\ MenuState' /\ SelectionShown'
    BY <1>1, <1>2, <2>3, <2>4, BleNext DEF MenuState, SelectionShown
  <2>11. CarriedBlocked' /\ Draining'
    BY <1>1, <2>1, <2>6 DEF CarriedBlocked, Draining
  <2> QED
    BY <2>3, <2>7, <2>8, <2>9, <2>10, <2>11 DEF IInv, Lessens
<1> QED
  BY <1>3, <1>4

\* The queue without its first report.
LEMMA TailFacts ==
  ASSUME NEW q \in Seq(Report), q # <<>>
  PROVE  /\ Tail(q) \in Seq(Report) /\ Head(q) \in Report /\ Head(q) = q[1]
         /\ Len(q) \in Nat \ {0} /\ Len(Tail(q)) = Len(q) - 1
         /\ \A n \in 1 .. Len(Tail(q)) : Tail(q)[n] = q[n + 1]
BY HeadTailProperties

\* What a queue of reports is once its first has been taken.
LEMMA TailQueue ==
  ASSUME NEW q \in Seq(Report), q # <<>>, NEW r, r = Tail(q),
         Len(q) <= QueueLength
  PROVE  Head(q) \in Report /\ r \in Seq(Report) /\ Len(r) <= QueueLength
BY TailFacts, LengthAssumption

\* Taking the first report keeps what the others tell; what it told itself is
\* up to its effect.
LEMMA TailTells ==
  ASSUME IInv, queue # <<>>, queue' = Tail(queue),
         UNCHANGED <<setup, down, overflow, bleReset, lost, pc, resetting>>
  PROVE  /\ QueueTells'
         /\ \A t \in Source, e \in Device :
              (\A n \in 1 .. Len(queue') :
                  ~(queue'[n].source = t /\ queue'[n].device = e))
              => IF Head(queue).source = t /\ Head(queue).device = e
                 THEN Head(queue).down /\ e \notin down[t] => Lossy(t)
                 ELSE \A n \in 1 .. Len(queue) : ~About(n, t, e)
<1>1. /\ queue' \in Seq(Report) /\ Head(queue) \in Report /\ Head(queue) = queue[1]
      /\ Len(queue) \in Nat \ {0} /\ Len(queue') = Len(queue) - 1
      /\ \A n \in 1 .. Len(queue') : queue'[n] = queue[n + 1]
  BY TailFacts, TypeParts DEF IInv
<1>2. \A t : Lossy(t) => Lossy(t)'
  BY DEF Lossy
<1>3. QueueTells'
  <2>1. SUFFICES ASSUME NEW n \in 1 .. Len(queue'), NEW t, NEW e,
                        t = queue'[n].source, e = queue'[n].device,
                        queue'[n].down, e \notin down[t],
                        \A m \in n + 1 .. Len(queue') :
                           ~(queue'[m].source = t /\ queue'[m].device = e)
                 PROVE  Lossy(t)'
    BY DEF QueueTells, About, Lossy
  <2>2. n + 1 \in 1 .. Len(queue) /\ queue'[n] = queue[n + 1]
    BY <1>1
  <2>3. ASSUME NEW m \in n + 2 .. Len(queue)
        PROVE  ~About(m, t, e)
    <3>1. m - 1 \in n + 1 .. Len(queue') /\ m - 1 \in 1 .. Len(queue')
      BY <1>1
    <3>2. queue'[m - 1] = queue[m]
      BY <1>1, <3>1
    <3> QED
      BY <2>1, <3>1, <3>2 DEF About
  <2>4. (n + 1) + 1 = n + 2
    BY <1>1
  <2>5. Lossy(t)
    BY <2>1, <2>2, <2>3, <2>4 DEF IInv, QueueTells
  <2> QED
    BY <1>2, <2>5
<1>4. ASSUME NEW t \in Source, NEW e \in Device,
             \A n \in 1 .. Len(queue') : ~(queue'[n].source = t /\ queue'[n].device = e)
      PROVE  IF Head(queue).source = t /\ Head(queue).device = e
             THEN Head(queue).down /\ e \notin down[t] => Lossy(t)
             ELSE \A n \in 1 .. Len(queue) : ~About(n, t, e)
  <2>1. ASSUME NEW m \in 2 .. Len(queue)
        PROVE  ~About(m, t, e)
    <3>1. m - 1 \in 1 .. Len(queue')
      BY <1>1
    <3>2. queue'[m - 1] = queue[m]
      BY <1>1, <3>1
    <3> QED
      BY <1>4, <3>1, <3>2 DEF About
  <2>2. 1 \in 1 .. Len(queue) /\ 1 + 1 = 2
    BY <1>1
  <2>3. CASE Head(queue).source = t /\ Head(queue).device = e
    BY <1>1, <2>1, <2>2, <2>3 DEF IInv, QueueTells
  <2>4. CASE ~(Head(queue).source = t /\ Head(queue).device = e)
    <3>1. ~About(1, t, e)
      BY <1>1, <2>4 DEF About
    <3>2. \A n \in 1 .. Len(queue) : n = 1 \/ n \in 2 .. Len(queue)
      BY <1>1
    <3> QED
      BY <2>1, <2>4, <3>1, <3>2
  <2> QED
    BY <2>3, <2>4
<1> QED
  BY <1>3, <1>4

\* A report of a source that is about to be cleared is dropped.
LEMMA SkipKeeps ==
  ASSUME IInv, pc = "drain", queue # <<>>, queue' = Tail(queue),
         resetting, Head(queue).source # 0,
         UNCHANGED <<flooded, setup, down, overflow, bleReset, lost, resetting, pc, sources, input, shown,
                     menu, ble, uncertain, carried>>
  PROVE  IInv' /\ \A d \in Device : Len(ble'.pending[d]) <= Len(ble.pending[d])
<1>1. Lessens(ble, ble') /\ shown = ble.selected
  BY LessensItself DEF IInv, SelectionShown
<1>2. /\ Whole(ble') /\ Device' = Device /\ Merged(sources)' = Merged(sources)
      /\ \A d \in Device : Latest(d)' <=> Latest(d)
      /\ input.held \subseteq Device
  BY SetupSame, TypeParts DEF IInv, Latest, LatestState, Merged
<1>3. queue' \in Seq(Report) /\ Len(queue') <= QueueLength
  BY TailFacts, TypeParts, LengthAssumption DEF IInv
<1>4. TypeOK'
  BY <1>2, <1>3, TypesNext, TypeParts DEF IInv
<1>5. Whole(ble)' /\ MenuState' /\ SelectionShown'
  BY <1>1, <1>2, BleNext DEF IInv, MenuState, SelectionShown
<1>6. Merges'
  BY <1>2 DEF IInv, Merges
<1>7. LatestHeld'
  BY <1>2 DEF IInv, LatestHeld
<1>8. CarriedBlocked' /\ Draining'
  BY DEF IInv, CarriedBlocked, Draining
<1>9. SourcesTell'
  <2>1. SUFFICES ASSUME NEW t \in Source, NEW e \in Device, e \in sources[t], e \notin down[t],
                        \A n \in 1 .. Len(queue') :
                           ~(queue'[n].source = t /\ queue'[n].device = e),
                        e \notin input.blocked \/ Latest(e)
                 PROVE  Lossy(t)'
    BY <1>2 DEF SourcesTell, About, Lossy
  <2>2. CASE Head(queue).source = t /\ Head(queue).device = e
    BY <2>2 DEF Lossy
  <2>3. CASE ~(Head(queue).source = t /\ Head(queue).device = e)
    <3>1. \A n \in 1 .. Len(queue) : ~About(n, t, e)
      BY <2>1, <2>3, TailTells
    <3> QED
      BY <2>1, <3>1 DEF IInv, SourcesTell, Lossy
  <2> QED
    BY <2>2, <2>3
<1> QED
  BY <1>1, <1>4, <1>5, <1>6, <1>7, <1>8, <1>9, TailTells DEF IInv, Lessens

\* A device that is pressed is one whose last pending report presses it.
LEMMA PressedTells ==
  ASSUME Whole(ble), Whole(ble'), NEW e \in Device, Pressed(e)
  PROVE  LatestState(ble', e) /\ ~(Len(ble'.pending[e]) <= Len(ble.pending[e]))
<1>1. ble \in BleState /\ ble' \in BleState
  BY DEF Whole
<1>2. ble.pending[e] \in Seq(BOOLEAN) /\ ble'.pending[e] \in Seq(BOOLEAN)
  BY <1>1, StateFields
<1>3. Len(ble.pending[e]) \in Nat /\ Len(ble'.pending[e]) \in Nat
  BY <1>2
<1>4. /\ Len(ble'.pending[e]) > Len(ble.pending[e])
      /\ ble'.pending[e][Len(ble'.pending[e])]
  BY DEF Pressed
<1>5. ble'.pending[e] # <<>>
  BY <1>3, <1>4
<1> QED
  BY <1>3, <1>4, <1>5 DEF LatestState

\* A report that is worked off: its source and the input state follow it, no
\* barrier is lifted from a device that is held, and what is sent of its device
\* is what is held and not blocked.
LEMMA ReportStep ==
  ASSUME IInv, pc = "drain", queue # <<>>, queue' = Tail(queue),
         UNCHANGED <<flooded, setup, down, overflow, bleReset, lost, resetting, pc>>,
         NEW s, NEW d, s = Head(queue).source, d = Head(queue).device,
         sources' = [sources EXCEPT ![s] = IF Head(queue).down THEN @ \cup {d} ELSE @ \ {d}],
         NEW i, i = Observed(sources', d), NEW seen, seen = IF d \in i.held THEN {} ELSE {d},
         input' \in InputState, input'.held = i.held,
         \A e \in i.held : e \in input.blocked => e \in input'.blocked,
         Whole(ble'),
         \A e \in Device : /\ LatestState(ble', e) =>
                                Latest(e) \/ (e = d /\ d \in input'.held \ input'.blocked)
                           /\ \/ Len(ble'.pending[e]) <= Len(ble.pending[e])
                              \/ e = d /\ (LatestState(ble', d) => d \in input'.held \ input'.blocked),
         LatestHeld', menu' \in BOOLEAN, IF menu' THEN Quiet(ble') ELSE Known(ble'),
         shown' = ble'.selected, uncertain' = uncertain \ seen,
         carried' = Carried(i, carried \ seen),
         menu' # menu \/ ble'.selected # ble.selected => i.held \subseteq input'.blocked
  PROVE  IInv' /\ \A e \in carried : ~Pressed(e)
<1>1. /\ TypeOK /\ input \in InputState /\ input.held \subseteq Device /\ queue \in Seq(Report)
      /\ sources \in [Source -> SUBSET Device] /\ carried \subseteq input.held \cap input.blocked
  BY TypeParts DEF IInv, CarriedBlocked
<1>2. Head(queue) \in Report /\ queue' \in Seq(Report) /\ Len(queue') <= QueueLength
  <2>1. Len(queue) <= QueueLength
    BY <1>1, TypeParts
  <2> QED
    BY <1>1, <2>1, TailQueue
<1>3. s \in Source /\ d \in Device /\ Head(queue).down \in BOOLEAN
  BY <1>2 DEF Report
<1>4. /\ sources' \in [Source -> SUBSET Device]
      /\ \A t \in Source, e \in Device : t # s \/ e # d => (e \in sources'[t] <=> e \in sources[t])
      /\ d \in sources'[s] <=> Head(queue).down
  BY <1>1, <1>3
<1>5. /\ Device' = Device /\ Merged(sources)' = Merged(sources')
      /\ \A e \in Device : e \in Merged(sources') <=> \E t \in Source : e \in sources'[t]
      /\ \A e \in Device : e \in Merged(sources) <=> \E t \in Source : e \in sources[t]
  BY SetupSame DEF Merged
<1>6. \A e \in Device \ {d} : e \in Merged(sources') <=> e \in Merged(sources)
  BY <1>4, <1>5
<1>7. /\ i.held \subseteq Device
      /\ \A e \in Device \ {d} : e \in i.held <=> e \in input.held
      /\ d \in i.held <=> d \in Merged(sources')
  BY <1>1, <1>3 DEF Observed, InputState
<1>8. \A e \in Device : /\ Latest(e)' <=> LatestState(ble', e)
                        /\ Latest(e)' => Latest(e) \/ (e = d /\ d \in i.held \ input'.blocked)
  BY <1>5, BleNext
<1>9. Merges'
  <2>1. Merged(sources') \subseteq i.held
    BY <1>6, <1>7 DEF IInv, Merges, Merged
  <2>2. ASSUME NEW e \in i.held, e \notin input'.blocked \/ Latest(e)'
        PROVE  e \in Merged(sources')
    <3>1. CASE e = d
      BY <1>7, <2>2, <3>1
    <3>2. CASE e # d
      <4>1. e \in Device \ {d} /\ e \in input.held
        BY <1>7, <2>2, <3>2
      <4>2. e \notin input.blocked \/ Latest(e)
        BY <1>8, <2>2, <4>1
      <4> QED
        BY <1>6, <4>1, <4>2 DEF IInv, Merges
    <3> QED
      BY <3>1, <3>2
  <2> QED
    BY <1>5, <2>1, <2>2 DEF Merges
<1>10. SourcesTell'
  <2>1. SUFFICES ASSUME NEW t \in Source, NEW e \in Device, e \in sources'[t], e \notin down[t],
                        \A n \in 1 .. Len(queue') :
                           ~(queue'[n].source = t /\ queue'[n].device = e),
                        e \notin input'.blocked \/ Latest(e)'
                 PROVE  Lossy(t)
    BY <1>5 DEF SourcesTell, About, Lossy
  <2>2. CASE s = t /\ d = e
    <3>1. Head(queue).down
      BY <1>4, <2>1, <2>2
    <3> QED
      BY <2>1, <2>2, <3>1, TailTells
  <2>3. CASE ~(s = t /\ d = e)
    <3>1. \A n \in 1 .. Len(queue) : ~About(n, t, e)
      BY <2>1, <2>3, TailTells
    <3>2. e \in sources[t] /\ e \in Merged(sources) /\ e \in Merged(sources')
      BY <1>4, <1>5, <2>1, <2>3
    <3>3. e \in i.held
      BY <1>6, <1>7, <3>2 DEF IInv, Merges
    <3>4. e \notin input.blocked \/ Latest(e)
      BY <1>8, <2>1, <3>3
    <3> QED
      BY <2>1, <3>1, <3>2, <3>4 DEF IInv, SourcesTell
  <2> QED
    BY <2>2, <2>3
<1>11. CarriedBlocked'
  <2>1. ASSUME NEW e \in carried \ seen
        PROVE  e \in i.held /\ e \in input'.blocked
    <3>1. e \in i.held
      BY <1>1, <1>7, <2>1
    <3> QED
      BY <1>1, <2>1, <3>1
  <2> QED
    BY <2>1 DEF CarriedBlocked, Carried
<1>12. shown' \in Slot /\ uncertain' \subseteq Device /\ carried' \subseteq Device
  BY <1>1, <1>7, StateFields, TypeParts DEF Whole, Carried
<1>13. TypeOK'
  BY <1>1, <1>2, <1>4, <1>12, TypesNext, TypeParts
<1>14. Whole(ble)' /\ MenuState' /\ SelectionShown' /\ Draining'
  BY BleNext DEF IInv, MenuState, SelectionShown, Draining
<1>15. ASSUME NEW e \in carried, Pressed(e)
       PROVE  FALSE
  <2>1. e \in Device
    BY <1>1
  <2>2. LatestState(ble', e) /\ ~(Len(ble'.pending[e]) <= Len(ble.pending[e]))
    BY <1>15, <2>1, PressedTells DEF IInv
  <2>3. e = d /\ (LatestState(ble', d) => d \in input'.held \ input'.blocked)
    BY <2>1, <2>2
  <2>4. e = d /\ d \in i.held /\ d \notin input'.blocked
    BY <2>2, <2>3
  <2>5. d \in carried \ seen
    BY <2>4
  <2> QED
    BY <1>11, <2>4, <2>5 DEF CarriedBlocked, Carried
<1> QED
  BY <1>9, <1>10, <1>11, <1>13, <1>14, <1>15, TailTells DEF IInv

\* A push at the edge takes the report away only where a companion runs.
LEMMA MotionFacts ==
  ASSUME NEW b, Whole(b), NEW i, NEW outward, NEW m \in Motion(b, i, outward)
  PROVE  /\ Lessens(b, m.ble) /\ m.ble.selected = b.selected
         /\ m.swallowed \in BOOLEAN /\ (m.swallowed => setup.edges)
<1>1. b \in BleState /\ b.synced \in Synced /\ Lessens(b, b)
  BY StateFields, LessensItself DEF Whole
<1>2. CASE m = [swallowed |-> FALSE, ble |-> EdgeReset(b)]
  BY <1>2, EdgeResetFacts
<1>3. CASE m = [swallowed |-> FALSE, ble |-> b]
  BY <1>1, <1>3
<1>4. CASE m = [swallowed |-> TRUE, ble |-> b] /\ b.target # NoTarget
  BY <1>1, <1>4 DEF Whole
<1>5. ASSUME NEW t \in b.synced.ready, b.synced.allowed,
             m = [swallowed |-> TRUE, ble |-> [b EXCEPT !.target = t]]
      PROVE  /\ Lessens(b, m.ble) /\ m.ble.selected = b.selected
             /\ m.swallowed \in BOOLEAN /\ (m.swallowed => setup.edges)
  <2> DEFINE c == [b EXCEPT !.target = t]
  <2>1. t \in Slot /\ setup.edges
    BY <1>1, <1>5 DEF Synced, Whole
  <2>2. /\ c \in BleState /\ c.selected = b.selected /\ c.up = b.up /\ c.pending = b.pending
        /\ c.last = b.last /\ c.held = b.held /\ c.owed = b.owed /\ c.synced = b.synced
    BY <1>1, <2>1 DEF BleState
  <2> HIDE DEF c
  <2>3. Lessens(b, c)
    BY <2>1, <2>2, ReportsSame
  <2>4. m.ble = c /\ m.swallowed = TRUE
    BY <1>5 DEF c
  <2> QED
    BY <2>1, <2>2, <2>3, <2>4
<1> QED
  BY <1>2, <1>3, <1>4, <1>5 DEF Motion

\* What a report of d does beyond its source and the input state i it makes.
Worked(i, d) ==
  /\ input' \in InputState /\ input'.held = i.held
  /\ \A e \in i.held : e \in input.blocked => e \in input'.blocked
  /\ Whole(ble')
  /\ \A e \in Device : /\ LatestState(ble', e) =>
                              Latest(e) \/ (e = d /\ d \in input'.held \ input'.blocked)
                       /\ \/ Len(ble'.pending[e]) <= Len(ble.pending[e])
                          \/ e = d /\ (LatestState(ble', d) => d \in input'.held \ input'.blocked)
  /\ LatestHeld'
  /\ menu' \in BOOLEAN /\ IF menu' THEN Quiet(ble') ELSE Known(ble')
  /\ shown' = ble'.selected
  /\ menu' # menu \/ ble'.selected # ble.selected => i.held \subseteq input'.blocked

\* The input state that a report of d makes.
MadeBy(i, d) ==
  /\ i \in InputState /\ i.blocked = input.blocked
  /\ \A e \in Device \ {d} : e \in i.held <=> e \in input.held

\* Nothing is sent: everything is released, or was before.
LEMMA QuietWork ==
  ASSUME IInv, UNCHANGED setup, NEW d \in Device, NEW i, MadeBy(i, d),
         input' \in InputState, input'.held = i.held, i.held \subseteq input'.blocked,
         Lessens(ble, ble'), Quiet(ble'), shown' = ble'.selected,
         menu' \in BOOLEAN, ~menu' => Known(ble')
  PROVE  Worked(i, d)
<1>1. Whole(ble') /\ \A e \in Device : ~LatestState(ble', e)
  BY QuietLatest DEF Lessens
<1>2. LatestHeld'
  <2>1. Device' = Device /\ \A e \in Device : ~Latest(e)'
    BY <1>1, SetupSame, BleNext
  <2> QED
    BY <2>1 DEF LatestHeld
<1> QED
  BY <1>1, <1>2 DEF Worked, Lessens

\* A report that the menu consumes.
LEMMA ConsumeWorks ==
  ASSUME IInv, pc = "drain", UNCHANGED setup, NEW d \in Device, NEW i, MadeBy(i, d), Consume(i, d)
  PROVE  Worked(i, d)
<1>1. /\ menu /\ input' = Barrier(i) /\ shown' = ble.selected
      /\ Quiet(ble) /\ Whole(ble)
  BY DEF Consume, IInv, MenuState, SelectionShown
<1>2. input' \in InputState /\ input'.held = i.held /\ i.held \subseteq input'.blocked
  BY <1>1, BarrierFacts DEF MadeBy
<1>3. CASE UNCHANGED <<menu, ble>>
  BY <1>1, <1>2, <1>3, LessensItself, QuietWork
<1>4. ASSUME menu' = FALSE, NEW ok, ble' = ReleaseAll(ble, ok)
      PROVE  Worked(i, d)
  <2>1. Lessens(ble, ble') /\ Quiet(ble') /\ Known(ble') /\ ble'.selected = ble.selected
    BY <1>1, <1>4, ReleaseAllFacts
  <2> QED
    BY <1>1, <1>2, <1>4, <2>1, QuietWork
<1> QED
  BY <1>3, <1>4 DEF Consume

\* A keyboard report that a barrier blocks.
LEMMA BlockWorks ==
  ASSUME IInv, pc = "drain", UNCHANGED setup, NEW d \in Device, NEW i, MadeBy(i, d), Block(i, d)
  PROVE  Worked(i, d)
<1>1. /\ ~menu /\ d = "keyboard" /\ d \in input.blocked /\ input' = Unblock(i, d)
      /\ UNCHANGED <<menu, ble, shown>>
      /\ shown = ble.selected /\ Known(ble) /\ Whole(ble) /\ LatestHeld /\ menu \in BOOLEAN
  BY TypeParts DEF Block, MadeBy, IInv, MenuState, SelectionShown
<1>2. /\ input' \in InputState /\ input'.held = i.held
      /\ \A e \in i.held : e \in input.blocked => e \in input'.blocked
  BY <1>1 DEF MadeBy, Unblock, InputState
<1>3. \A e \in Device : LatestState(ble', e) => Latest(e)
  BY <1>1 DEF Latest
<1>4. \A e \in Device : Len(ble'.pending[e]) <= Len(ble.pending[e])
  BY <1>1, LessensItself DEF Lessens
<1>5. LatestHeld'
  <2>1. Device' = Device /\ \A e \in Device : Latest(e)' => Latest(e)
    BY <1>1, SetupSame DEF Latest, LatestState
  <2>2. ASSUME NEW e \in Device, Latest(e)
        PROVE  /\ e = "keyboard" => Reselect
               /\ e = "mouse" /\ ~setup.edges => e \in input'.held
    BY <1>1, <1>2, <2>2 DEF LatestHeld, MadeBy
  <2> QED
    BY <2>1, <2>2 DEF LatestHeld
<1> QED
  BY <1>1, <1>2, <1>3, <1>4, <1>5 DEF Worked

\* A shortcut selects a slot and releases everything.
LEMMA ShortcutWorks ==
  ASSUME IInv, UNCHANGED setup, NEW d \in Device, NEW i, MadeBy(i, d), Shortcut(i, d)
  PROVE  Worked(i, d)
<1>1. PICK t \in Slot, ok \in SUBSET ble.up, ok2 \in SUBSET ble.up :
         ble' = ReleaseAll(SelectSlot(ble, t, ok), ok2)
  BY DEF Shortcut
<1>2. /\ ~menu /\ menu' = menu /\ shown' = ble'.selected
      /\ input' = IF d = "keyboard"
                  THEN [i EXCEPT !.blocked = (i.held \cap {"mouse"}) \cup {"keyboard"}]
                  ELSE Barrier(i)
      /\ Whole(ble) /\ Device \subseteq Kind /\ menu \in BOOLEAN
  BY SetupFacts, TypeParts DEF Shortcut, IInv
<1>3. input' \in InputState /\ input'.held = i.held /\ i.held \subseteq input'.blocked
  <2>1. CASE d = "keyboard"
    <3>1. i.held \subseteq {"keyboard", "mouse"} /\ i \in InputState
      BY <1>2 DEF MadeBy, InputState, Kind
    <3> QED
      BY <1>2, <2>1, <3>1 DEF InputState
  <2>2. CASE d # "keyboard"
    BY <1>2, <2>2, BarrierFacts DEF MadeBy
  <2> QED
    BY <2>1, <2>2
<1> DEFINE a == SelectSlot(ble, t, ok)
<1>4. Lessens(ble, a) /\ Whole(a) /\ ble' = ReleaseAll(a, ok2)
  BY <1>1, <1>2, SelectSlotFacts DEF Lessens
<1> HIDE DEF a
<1>5. Lessens(a, ble') /\ Quiet(ble') /\ Known(ble')
  BY <1>4, ReleaseAllFacts
<1>6. Lessens(ble, ble')
  BY <1>4, <1>5, LessensTransitive
<1> QED
  BY <1>2, <1>3, <1>5, <1>6, QuietWork

\* A report that goes to the selected computer, or that a push takes away.
LEMMA ForwardWorks ==
  ASSUME IInv, pc = "drain", UNCHANGED setup, NEW d \in Device, NEW i, MadeBy(i, d),
         NEW outward \in BOOLEAN, Forward(i, d, outward)
  PROVE  Worked(i, d)
<1> DEFINE free == IF d = "mouse" THEN Unblock(i, d) ELSE i
           state == d \in free.held \ free.blocked
<1>1. /\ ~menu /\ UNCHANGED <<menu, shown>> /\ (d = "keyboard" => d \notin i.blocked)
      /\ shown = ble.selected /\ Known(ble) /\ Whole(ble) /\ LatestHeld /\ ble \in BleState
      /\ Device \subseteq Kind /\ menu \in BOOLEAN /\ i \in InputState /\ i.blocked = input.blocked
      /\ Device' = Device
  BY SetupFacts, SetupSame, TypeParts
     DEF Forward, MadeBy, IInv, MenuState, SelectionShown, Whole
<1>2. PICK m \in IF d = "mouse" THEN Motion(ble, i, outward)
                 ELSE {[swallowed |-> FALSE, ble |-> ble]} :
         IF m.swallowed THEN ble' = m.ble /\ input' = i
         ELSE /\ \E moves \in {outward, d = "mouse"}, ok \in SUBSET ble.up :
                    ble' = Send(m.ble, d, state, moves, ok)
              /\ input' = free
  BY DEF Forward
<1>3. /\ Lessens(ble, m.ble) /\ m.ble.selected = ble.selected
      /\ m.swallowed \in BOOLEAN
      /\ m.swallowed => setup.edges /\ d = "mouse"
  <2>1. CASE d = "mouse"
    BY <1>1, <1>2, <2>1, MotionFacts
  <2>2. CASE d # "mouse"
    <3>1. m = [swallowed |-> FALSE, ble |-> ble]
      BY <1>2, <2>2
    <3> QED
      BY <1>1, <3>1, LessensItself
  <2> QED
    BY <2>1, <2>2
<1>4. /\ free \in InputState /\ free.held = i.held
      /\ \A e \in i.held : e \in input.blocked => e \in free.blocked
      /\ \A e \in Device \ {d} : e \in free.blocked <=> e \in input.blocked
  BY <1>1 DEF Unblock, InputState
<1>5. state \in BOOLEAN
  OBVIOUS
<1>6. CASE m.swallowed
  <2>1. ble' = m.ble /\ input' = i
    BY <1>2, <1>6
  <2>2. \A e \in Device : Len(ble'.pending[e]) <= Len(ble.pending[e])
    BY <1>3, <2>1 DEF Lessens
  <2>3. Whole(ble') /\ Known(ble') /\ \A e \in Device : LatestState(ble', e) => Latest(e)
    BY <1>1, <1>3, <2>1 DEF Lessens, Latest
  <2>4. LatestHeld'
    <3>1. \A e \in Device : Latest(e)' => Latest(e)
      BY <2>3, BleNext
    <3>2. ASSUME NEW e \in Device, Latest(e)
          PROVE  /\ e = "keyboard" /\ ~Reselect => e \in input'.held \ input'.blocked
                 /\ e = "mouse" => setup.edges
      BY <1>1, <1>3, <1>6, <2>1, <3>2 DEF LatestHeld, MadeBy
    <3>3. setup'.edges = setup.edges
      OBVIOUS
    <3> QED
      BY <1>1, <3>1, <3>2, <3>3 DEF LatestHeld
  <2> QED
    BY <1>1, <1>3, <2>1, <2>2, <2>3, <2>4 DEF Worked
<1>7. CASE ~m.swallowed
  <2>1. PICK moves \in {outward, d = "mouse"}, ok \in SUBSET ble.up :
           ble' = Send(m.ble, d, state, moves, ok) /\ input' = free
    BY <1>2, <1>7
  <2>2. moves \in BOOLEAN
    BY <2>1
  <2> DEFINE now == state
  <2>3. now \in BOOLEAN /\ (now <=> d \in free.held \ free.blocked) /\ ble' = Send(m.ble, d, now, moves, ok)
    BY <2>1
  <2> HIDE DEF now, free
  <2>4. /\ Whole(ble') /\ ble'.selected = m.ble.selected
        /\ Known(m.ble) => Known(ble')
        /\ LatestState(ble', d) => now
        /\ \A e \in Device \ {d} : /\ LatestState(ble', e) => LatestState(m.ble, e)
                                   /\ Len(ble'.pending[e]) <= Len(m.ble.pending[e])
    BY <1>3, <2>2, <2>3, SendFacts DEF Lessens
  <2>5. ASSUME NEW e \in Device \ {d}
        PROVE  /\ LatestState(ble', e) => Latest(e)
               /\ Len(ble'.pending[e]) <= Len(ble.pending[e])
    <3>1. /\ Len(ble'.pending[e]) <= Len(m.ble.pending[e])
          /\ Len(m.ble.pending[e]) <= Len(ble.pending[e])
      BY <1>3, <2>4 DEF Lessens
    <3>2. Len(ble'.pending[e]) \in Nat /\ Len(m.ble.pending[e]) \in Nat /\ Len(ble.pending[e]) \in Nat
      <4>1. /\ ble'.pending[e] \in Seq(BOOLEAN) /\ m.ble.pending[e] \in Seq(BOOLEAN)
            /\ ble.pending[e] \in Seq(BOOLEAN)
        BY <1>1, <1>3, <2>4, StateFields DEF Whole, Lessens
      <4> QED
        BY <4>1
    <3>3. LatestState(ble', e) => Latest(e)
      BY <1>3, <2>4 DEF Lessens, Latest
    <3> QED
      BY <3>1, <3>2, <3>3
  <2>6. input' = free /\ (LatestState(ble', d) => d \in input'.held \ input'.blocked)
    BY <2>1, <2>3, <2>4
  <2>7. LatestHeld'
    <3>1. \A e \in Device : Latest(e)' <=> LatestState(ble', e)
      BY <2>4, BleNext
    <3>2. ASSUME NEW e \in Device \ {d}, Latest(e)
          PROVE  /\ e = "keyboard" /\ ~Reselect => e \in input'.held \ input'.blocked
                 /\ e = "mouse" /\ ~setup.edges => e \in input'.held
      BY <1>1, <1>4, <2>6, <3>2 DEF LatestHeld, MadeBy
    <3>3. setup'.edges = setup.edges
      OBVIOUS
    <3> QED
      BY <1>1, <2>5, <2>6, <3>1, <3>2, <3>3 DEF LatestHeld
  <2>8. Known(ble') /\ shown' = ble'.selected /\ ble'.selected = ble.selected
    BY <1>1, <1>3, <2>4 DEF Lessens
  <2> QED
    BY <1>1, <1>4, <2>4, <2>5, <2>6, <2>7, <2>8 DEF Worked
<1> QED
  BY <1>3, <1>6, <1>7

\* Without a report more in its queue, a device is not pressed.
LEMMA FewerNotPressed ==
  ASSUME IInv, IInv', UNCHANGED setup, NEW e \in Device,
         Len(ble'.pending[e]) <= Len(ble.pending[e])
  PROVE  ~Pressed(e)
<1>1. Device' = Device /\ BleState' = BleState
  BY SetupSame
<1>2. ble'.pending[e] \in Seq(BOOLEAN) /\ ble.pending[e] \in Seq(BOOLEAN)
  <2>1. ble' \in BleState /\ ble \in BleState
    BY <1>1 DEF IInv, TypeOK
  <2> QED
    BY <2>1 DEF BleState
<1>3. Len(ble'.pending[e]) \in Nat /\ Len(ble.pending[e]) \in Nat
  BY <1>2
<1> QED
  BY <1>3 DEF Pressed

\* One report is taken from the queue and worked off, or skipped.
LEMMA DrainKeeps ==
  ASSUME IInv, Drain
  PROVE  IInv' /\ \A e \in carried : ~Pressed(e)
<1> DEFINE r == Head(queue)
           s == r.source
           d == r.device
           srcs == [sources EXCEPT ![s] = IF r.down THEN @ \cup {d} ELSE @ \ {d}]
           i == Observed(srcs, d)
           seen == IF d \in i.held THEN {} ELSE {d}
<1>1. /\ pc = "drain" /\ queue # <<>> /\ queue' = Tail(queue)
      /\ UNCHANGED <<flooded, setup, down, overflow, bleReset, lost, resetting, pc>>
  BY DEF Drain, driverVars, flags
<1>2. r \in Report /\ d \in Device /\ r.outward \in BOOLEAN
  <2>1. r \in Report
    BY <1>1, TailFacts, TypeParts DEF IInv
  <2> QED
    BY <2>1 DEF Report
<1>3. CASE resetting /\ s # 0
  <2>1. UNCHANGED <<sources, input, shown, menu, ble, uncertain, carried>>
    BY <1>3 DEF Drain, ghosts
  <2>2. IInv' /\ \A e \in Device : Len(ble'.pending[e]) <= Len(ble.pending[e])
    BY <1>1, <1>3, <2>1, SkipKeeps
  <2>3. carried \subseteq Device
    BY TypeParts DEF IInv
  <2> QED
    BY <1>1, <2>2, <2>3, FewerNotPressed
<1>4. CASE ~(resetting /\ s # 0)
  <2>1. /\ sources' = srcs
        /\ Consume(i, d) \/ Block(i, d) \/ Shortcut(i, d) \/ Forward(i, d, r.outward)
        /\ uncertain' = uncertain \ seen
        /\ carried' = Carried(i, carried \ seen)
    BY <1>4 DEF Drain
  <2>2. MadeBy(i, d)
    <3>1. input \in InputState
      BY TypeParts DEF IInv
    <3> QED
      BY <1>2, <3>1 DEF MadeBy, Observed, InputState
  <2>3. i = Observed(sources', d) /\ s = Head(queue).source /\ d = Head(queue).device
        /\ sources' = [sources EXCEPT ![s] = IF Head(queue).down THEN @ \cup {d} ELSE @ \ {d}]
    BY <2>1
  <2> HIDE DEF i
  <2>4. Worked(i, d)
    BY <1>1, <1>2, <2>1, <2>2, ConsumeWorks, BlockWorks, ShortcutWorks, ForwardWorks
  <2> HIDE DEF s, d, srcs
  <2>5. seen = IF d \in i.held THEN {} ELSE {d}
    OBVIOUS
  <2> HIDE DEF seen
  <2> QED
    BY <1>1, <2>1, <2>3, <2>4, <2>5, ReportStep DEF Worked
<1> QED
  BY <1>3, <1>4

-----------------------------------------------------------------------------
(***************************************************************************)
(* The invariant holds.                                                    *)
(***************************************************************************)
\* Nothing is held or on its way in an initial state.
LEMMA InitIInv ==
  ASSUME Init
  PROVE  IInv
<1>1. /\ setup \in Setups /\ down = [s \in Source |-> {}] /\ queue = <<>>
      /\ overflow = FALSE /\ bleReset = FALSE /\ lost = {} /\ flooded = FALSE /\ resetting = FALSE
      /\ sources = [s \in Source |-> {}] /\ input = [held |-> {}, blocked |-> {}]
      /\ menu = FALSE /\ shown = ble.selected /\ pc = "usb" /\ uncertain = {} /\ carried = {}
  BY DEF Init
<1>2. PICK s \in Slot, up \in SUBSET Slot :
         ble = [selected |-> s, pending |-> [d \in Device |-> <<>>],
                last |-> [d \in Device |-> FALSE], epoch |-> FALSE,
                synced |-> [slot |-> 0, ready |-> {}, allowed |-> FALSE],
                target |-> NoTarget, up |-> up, held |-> [t \in Slot |-> {}],
                owed |-> [t \in Slot |-> IF t \in up THEN Device ELSE {}]]
  BY DEF Init
<1> DEFINE p == [d \in Device |-> <<>>]
           l == [d \in Device |-> FALSE]
           h == [t \in Slot |-> {}]
           o == [t \in Slot |-> IF t \in up THEN Device ELSE {}]
           y == [slot |-> 0, ready |-> {}, allowed |-> FALSE]
<1>3. /\ p \in [Device -> Seq(BOOLEAN)] /\ l \in [Device -> BOOLEAN]
      /\ h \in [Slot -> SUBSET Device] /\ o \in [Slot -> SUBSET Device]
      /\ y \in Synced /\ ~y.allowed
  BY <1>1, EmptySeq, SetupFacts DEF Synced
<1>4. /\ \A d \in Device : p[d] = <<>> /\ ~l[d]
      /\ \A t \in Slot : h[t] = {}
  OBVIOUS
<1>5. ble = [selected |-> s, pending |-> p, last |-> l, epoch |-> FALSE, synced |-> y,
             target |-> NoTarget, up |-> up, held |-> h, owed |-> o]
  BY <1>2
<1> HIDE DEF p, l, h, o, y
<1>6. ble \in BleState
  BY <1>3, <1>5 DEF BleState
<1>7. Quiet(ble)
  BY <1>4, <1>5 DEF Quiet
<1>8. PendingLength \in Nat /\ QueueLength \in Nat /\ \A d \in Device : Len(ble.pending[d]) <= PendingLength
  BY <1>4, <1>5, LengthAssumption
<1>9. Whole(ble)
  <2>1. ble.owed[ble.selected] \subseteq Device
    BY <1>6, StateFields
  <2> QED
    BY <1>3, <1>4, <1>5, <1>6, <1>7, <1>8, <2>1 DEF Whole, Quiet
<1>10. Known(ble)
  BY <1>4, <1>5 DEF Known
<1>11. \A d \in Device : ~Latest(d)
  BY <1>7, QuietLatest DEF Latest
<1>12. TypeOK
  <2>1. queue \in Seq(Report) /\ Len(queue) <= QueueLength
    BY <1>1, <1>8, EmptySeq
  <2>2. shown \in Slot
    BY <1>1, <1>5
  <2>3. /\ down \in [Source -> SUBSET Device] /\ lost \subseteq Source
        /\ sources \in [Source -> SUBSET Device]
        /\ input \in InputState /\ pc \in Step
        /\ {overflow, bleReset, flooded, resetting, menu} \subseteq BOOLEAN
    BY <1>1 DEF InputState, Step
  <2> QED
    BY <1>1, <1>6, <1>8, <2>1, <2>2, <2>3 DEF TypeOK
<1>13. Merges /\ LatestHeld /\ SourcesTell
  BY <1>1, <1>11 DEF Merges, Merged, LatestHeld, SourcesTell
<1>14. QueueTells
  BY <1>1 DEF QueueTells
<1>15. MenuState /\ SelectionShown /\ CarriedBlocked /\ Draining
  BY <1>1, <1>10 DEF MenuState, SelectionShown, CarriedBlocked, Draining
<1> QED
  BY <1>9, <1>12, <1>13, <1>14, <1>15 DEF IInv

\* A step that changes nothing.
LEMMA StutterKeeps ==
  ASSUME IInv, UNCHANGED vars
  PROVE  IInv'
<1>1. UNCHANGED <<setup, down, queue, overflow, bleReset, lost, flooded, resetting, sources, input,
                  shown, menu, ble, pc, uncertain, carried>>
  BY DEF vars, flags, ghosts
<1>2. Lessens(ble, ble') /\ \A s \in Source : Lossy(s) => Lossy(s)'
  BY <1>1, LessensItself DEF IInv, Lossy
<1> QED
  BY <1>1, <1>2, PlainStep, TypeParts DEF IInv, Draining, SelectionShown

\* Every step of the loop and of the driver tasks keeps IInv and presses nothing
\* that was carried over.
LEMMA NextKeeps ==
  ASSUME IInv, [Next]_vars
  PROVE  IInv' /\ \A d \in carried : ~Pressed(d)
<1>1. carried \subseteq Device
  BY TypeParts DEF IInv
<1>2. ASSUME IInv', UNCHANGED setup, \A d \in Device : Len(ble'.pending[d]) <= Len(ble.pending[d])
      PROVE  \A d \in carried : ~Pressed(d)
  BY <1>1, <1>2, FewerNotPressed
<1>3. ASSUME IInv', UNCHANGED <<setup, ble>>
      PROVE  \A d \in carried : ~Pressed(d)
  <2>1. \A d \in Device : Len(ble'.pending[d]) <= Len(ble.pending[d])
    BY <1>3, LessensItself DEF IInv, Lessens
  <2> QED
    BY <1>2, <1>3, <2>1
<1>4. ASSUME NEW s \in Source, NEW d \in Device, NEW state \in BOOLEAN, NEW outward \in BOOLEAN,
             DeviceReport(s, d, state, outward)
      PROVE  IInv' /\ UNCHANGED <<setup, ble>>
  <2>1. UNCHANGED <<setup, ble>>
    BY <1>4 DEF DeviceReport, Enqueue, loopVars
  <2> QED
    BY <1>4, <2>1, DeviceReportKeeps
<1>18. ASSUME NEW s \in Source, FlagOverflow(s)
       PROVE  IInv' /\ UNCHANGED <<setup, ble>>
  <2>1. UNCHANGED <<setup, ble>>
    BY <1>18 DEF FlagOverflow, loopVars
  <2> QED
    BY <1>18, <2>1, FlagOverflowKeeps
<1>5. CASE BleInputLost
  BY <1>3, <1>5, BleInputLostKeeps DEF BleInputLost, loopVars
<1>6. CASE Usb
  BY <1>2, <1>6, UsbKeeps DEF Usb, driverVars
<1>7. CASE BleLoop
  BY <1>2, <1>7, BleLoopKeeps DEF BleLoop, driverVars
<1>8. CASE Menu
  BY <1>2, <1>8, MenuKeeps DEF Menu, MenuOpens, driverVars
<1>9. CASE Commands
  BY <1>2, <1>9, CommandsKeeps DEF Commands, driverVars
<1>10. CASE Overflow
  BY <1>3, <1>10, OverflowKeeps DEF Overflow
<1>11. CASE Discard
  BY <1>2, <1>11, DiscardKeeps DEF Discard, driverVars
<1>12. CASE BeginDrain
  BY <1>3, <1>12, BeginDrainKeeps DEF BeginDrain
<1>13. CASE Drain
  BY <1>13, DrainKeeps
<1>14. CASE DrainEnd
  BY <1>2, <1>14, DrainEndKeeps DEF DrainEnd, driverVars
<1>15. CASE ServiceEdges
  BY <1>2, <1>15, EdgesKeep DEF ServiceEdges, driverVars
<1>16. CASE Flush
  BY <1>2, <1>16, FlushKeeps DEF Flush, driverVars
<1>17. CASE UNCHANGED vars
  BY <1>3, <1>17, StutterKeeps DEF vars
<1> QED
  BY <1>3, <1>4, <1>5, <1>6, <1>7, <1>8, <1>9, <1>10, <1>11, <1>12, <1>13, <1>14, <1>15, <1>16,
     <1>17, <1>18 DEF Next, Drivers, Tick

\* The inductive invariant holds in every reachable state of every instance.
THEOREM Inductive == Spec => []IInv
<1>1. Init => IInv
  BY InitIInv
<1>2. IInv /\ [Next]_vars => IInv'
  BY NextKeeps
<1> QED
  BY <1>1, <1>2, PTL DEF Spec

\* The type invariant of the module.
THEOREM TypeCorrect == Spec => []TypeOK
<1>1. IInv => TypeOK
  BY DEF IInv
<1> QED
  BY <1>1, Inductive, PTL

-----------------------------------------------------------------------------
(***************************************************************************)
(* The properties.                                                         *)
(***************************************************************************)
\* With nothing on its way, what a computer still holds was sent to it by a
\* device that the input state no longer counts as held.
LEMMA StillHeld ==
  ASSUME IInv, NEW d \in Device, Released(d), NEW s \in Slot, d \in ble.held[s]
  PROVE  s = ble.selected /\ Latest(d) /\ d \notin input.held
<1>1. /\ pc = "usb" /\ queue = <<>> /\ lost = {} /\ ~overflow /\ ~bleReset /\ ~menu
      /\ ble.pending[d] = <<>> /\ d \notin ble.owed[s]
      /\ \A t \in Source : d \notin down[t]
  BY DEF Released, Settled
<1>2. s = ble.selected /\ IsConnected(ble)
  BY <1>1 DEF IInv, Whole, IsConnected
<1>3. Latest(d)
  BY <1>1, <1>2 DEF IInv, MenuState, Known, Latest, LatestState
<1>4. d \notin input.held
  <2>1. SUFFICES ASSUME d \in input.held
                 PROVE  FALSE
    OBVIOUS
  <2>2. PICK t \in Source : d \in sources[t]
    BY <1>3, <2>1 DEF IInv, Merges, Merged
  <2>3. Lossy(t)
    BY <1>1, <1>3, <2>2 DEF IInv, SourcesTell
  <2> QED
    BY <1>1, <2>3 DEF IInv, Lossy, Draining
<1> QED
  BY <1>2, <1>3, <1>4

\* "Preserve keyboard transitions" (docs/architecture.md): with every key up and
\* nothing on its way no computer holds a key, as long as no command raises a
\* barrier without a release.
THEOREM KeysReleasedHolds ==
  ASSUME ~Reselect
  PROVE  Spec => []KeysReleased
<1>1. IInv => KeysReleased
  BY StillHeld DEF KeysReleased, IInv, LatestHeld
<1> QED
  BY <1>1, Inductive, PTL

\* The same for the buttons: only where a companion runs may the selected
\* computer hold one that is up, after a push at the edge took the release.
THEOREM ButtonsReleasedHolds == Spec => []ButtonsReleased
<1>1. IInv => ButtonsReleased
  <2>1. SUFFICES ASSUME IInv, "mouse" \in Device, Released("mouse"), NEW s \in Slot,
                        "mouse" \in ble.held[s]
                 PROVE  setup.edges /\ s = ble.selected
    BY DEF ButtonsReleased
  <2>2. s = ble.selected /\ Latest("mouse") /\ "mouse" \notin input.held
    BY <2>1, StillHeld
  <2> QED
    BY <2>1, <2>2 DEF IInv, LatestHeld
<1> QED
  BY <1>1, Inductive, PTL

\* KeyboardPending and MousePending take for the last report what the selected
\* computer holds, so they drop no press as a repetition.
THEOREM DuplicatesKnownHolds == Spec => []DuplicatesKnown
<1>1. IInv => DuplicatesKnown
  BY DEF DuplicatesKnown, IInv, MenuState, Known
<1> QED
  BY <1>1, Inductive, PTL

\* What was held when the menu opened or closed, in any way, or another computer
\* was selected is not pressed before its device was seen up.
THEOREM CarriedInputWaitsHolds == Spec => CarriedInputWaits
<1>1. IInv /\ [Next]_vars => [\A d \in carried : ~Pressed(d)]_vars
  BY NextKeeps
<1> QED
  BY <1>1, Inductive, PTL DEF Spec, CarriedInputWaits

\* An edge handoff is made with no menu and nothing held, and what the other
\* computers still hold is owed a release.
THEOREM HandoffIsCleanHolds == Spec => HandoffIsClean
<1>1. ASSUME IInv, ServiceEdges, ble'.selected # ble.selected
      PROVE  /\ ~menu /\ input.held = {}
             /\ \A s \in Slot \ {ble'.selected} : ble'.held[s] \subseteq ble'.owed[s]
  <2>1. IInv' /\ HandoffAllowed
    BY <1>1, EdgesKeep
  <2>2. Slot' = Slot
    BY <1>1, SetupSame DEF ServiceEdges, driverVars
  <2> QED
    BY <2>1, <2>2 DEF HandoffAllowed, IInv, Whole
<1>2. IInv => [ServiceEdges /\ ble'.selected # ble.selected =>
                 /\ ~menu /\ input.held = {}
                 /\ \A s \in Slot \ {ble'.selected} : ble'.held[s] \subseteq ble'.owed[s]]_vars
  BY <1>1
<1> QED
  BY <1>2, Inductive, PTL DEF HandoffIsClean
================================================================================
