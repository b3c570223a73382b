----------------------------- MODULE UsbInputProofs -----------------------------
(***************************************************************************)
(* The invariants of UsbInput, proved for any number of devices on the     *)
(* bus, any interfaces of a device, any addresses and any capacities.      *)
(*                                                                         *)
(* MiceAreActive and HeldHasOwner are not inductive: the worker of UsbHost *)
(* goes on with a handle whose interface may have been removed, and whose  *)
(* address may have been given to another one.  IInv says what still holds *)
(* at each of its steps: an interface that is ready is the one the worker  *)
(* claimed (Claimed), and the mouse of its handle is attached just when    *)
(* that helps (WorkersMouse).                                              *)
(***************************************************************************)
EXTENDS UsbInput, FiniteSetTheorems, SequenceTheorems, TLAPS

\* The mice that have one of the places.
Attached == {h \in Handle : mice[h] # "out"}

\* The tables are finite, so that their sizes are numbers.
Finite == IsFiniteSet(entries) /\ IsFiniteSet(Attached)

\* The worker has a handle from the claim to the end of open().
WorkerHolds ==
  /\ (worker.step = "idle") = (worker.handle = None)
  /\ worker.step \in {"descriptor", "attach", "reject"} => worker.kind = "mouse"
  /\ worker.waiting => worker.step \in Request

\* An interface that is ready is the worker's: it is the one that was claimed,
\* since an address that is used again begins as idle.
Claimed ==
  \A h \in Handle : iface[h].state = "ready" =>
    /\ worker.handle = h /\ worker.kind = iface[h].kind
    /\ worker.step \in Request \cup {"attach", "reject", "start"}

\* Whoever ends an opened interface tells UsbHost.
HasCallback == \A h \in Handle : iface[h].state \in {"ready", "active"} => iface[h].cb

\* The interface that the client closes is out of use.
Closing ==
  client.handle # None =>
    client.device # None /\ iface[client.handle].state \in {"wait", "none"}

\* Where the worker is ahead of MiceAreActive, and how it gets even again.
WorkersMouse ==
  LET h == worker.handle IN
  /\ worker.step \in {"descriptor", "attach", "reject"} => mice[h] = "out"
  /\ worker.step \in Request \cup {"attach", "reject", "start"} => iface[h].state # "active"
  /\ worker.step \in {"protocol", "rate", "start"} /\ iface[h].state = "ready"
       => (mice[h] # "out") = (worker.kind = "mouse")
  /\ worker.step = "track"
       => (mice[h] # "out") = (iface[h].state = "active" /\ iface[h].kind = "mouse")
  /\ worker.step = "undo" =>
       told.keys # h /\ mice[h] # "held" /\ (iface[h].state = "active" => iface[h].dead)

\* A button is down only on an interface in use.
HeldActive == \A h \in Held(mice) : iface[h].state = "active"

IInv ==
  /\ TypeOK /\ Finite
  /\ WorkerHolds /\ Claimed /\ HasCallback /\ Closing /\ WorkersMouse
  /\ HeldActive /\ MiceAreActive /\ HeldHasOwner

-----------------------------------------------------------------------------
\* Power and plugs, transfers and the recovery policy touch none of what the
\* invariants relate.
LEMMA Elsewhere ==
  ASSUME IInv, UNCHANGED <<iface, worker, queue, entries, mice, told>>,
         bus' \in [Device -> BusState],
         ctrl' \in [Device -> [flight : BOOLEAN, given : BOOLEAN]],
         client' \in Client, Closing',
         recovery' \subseteq Flag
  PROVE  IInv'
<1>1. TypeOK' /\ Finite'
  BY DEF IInv, TypeOK, Finite, Attached
<1>2. WorkerHolds' /\ Claimed' /\ HasCallback' /\ WorkersMouse'
  BY DEF IInv, WorkerHolds, Claimed, HasCallback, WorkersMouse
<1>3. HeldActive' /\ MiceAreActive' /\ HeldHasOwner'
  BY DEF IInv, HeldActive, Held, MiceAreActive, HeldHasOwner
<1> QED
  BY <1>1, <1>2, <1>3 DEF IInv

\* A loss of power or plug changes only the library's view.
LEMMA LoseType ==
  ASSUME TypeOK, NEW set
  PROVE  Lose(set) \in [Device -> BusState]
BY DEF TypeOK, Lose, BusState

\* A device is enumerated, unplugged, or its control transfer completes.
LEMMA LibraryKeeps ==
  ASSUME IInv, Library
  PROVE  IInv'
<1>1. PICK d \in Device : Enumerate(d) \/ Unplug(d) \/ CtrlDone(d)
  BY DEF Library
<1>2. CASE Enumerate(d)
  <2>1. bus' \in [Device -> BusState]
    BY <1>2 DEF Enumerate, IInv, TypeOK, BusState
  <2> QED
    BY <1>2, <2>1, Elsewhere DEF Enumerate, quietVars, IInv, TypeOK, Client, Closing, Flag
<1>3. CASE Unplug(d)
  BY <1>3, LoseType, Elsewhere DEF Unplug, quietVars, IInv, TypeOK, Client, Closing
<1>4. CASE CtrlDone(d)
  <2>1. ctrl' \in [Device -> [flight : BOOLEAN, given : BOOLEAN]]
    BY <1>4 DEF CtrlDone, IInv, TypeOK
  <2> QED
    BY <1>4, <2>1, Elsewhere DEF CtrlDone, quietVars, IInv, TypeOK, Client, Closing
<1> QED
  BY <1>1, <1>2, <1>3, <1>4

\* The power is cycled.
LEMMA HostTaskKeeps ==
  ASSUME IInv, HostTask
  PROVE  IInv'
<1>1. CASE PowerOff
  BY <1>1, LoseType, Elsewhere DEF PowerOff, faultVars, IInv, TypeOK, Client, Closing, Flag
<1>2. CASE PowerOn
  BY <1>2, Elsewhere DEF PowerOn, faultVars, IInv, TypeOK, Client, Closing, Flag
<1> QED
  BY <1>1, <1>2 DEF HostTask

\* A recovery attempt forgets what the source held, its back-off ends, or the
\* user asks for one.
LEMMA LoopTaskKeeps ==
  ASSUME IInv, LoopTask
  PROVE  IInv'
<1>1. CASE Service
  <2> DEFINE attempt == "pending" \in Latched /\ "cooling" \notin Latched
  <2>1. recovery' \subseteq Flag
    BY <1>1 DEF Service, Polled, Latched, IInv, TypeOK, Flag
  <2>2. CASE ~attempt
    BY <1>1, <2>1, <2>2, Elsewhere DEF Service, faultVars, IInv, TypeOK, Client, Closing
  <2>3. CASE attempt
    <3>1. told' = [keys |-> None, buttons |-> FALSE] /\ UNCHANGED <<bus, faultVars>>
      BY <1>1, <2>3 DEF Service
    <3>2. TypeOK' /\ Finite'
      BY <2>1, <3>1 DEF IInv, TypeOK, Finite, Attached, faultVars
    <3>3. WorkerHolds' /\ Claimed' /\ HasCallback' /\ Closing' /\ WorkersMouse'
      BY <3>1, NoneAssumption
      DEF IInv, WorkerHolds, Claimed, HasCallback, Closing, WorkersMouse, faultVars
    <3>4. HeldActive' /\ MiceAreActive' /\ HeldHasOwner'
      BY <3>1 DEF IInv, HeldActive, Held, MiceAreActive, HeldHasOwner, faultVars
    <3> QED
      BY <3>2, <3>3, <3>4 DEF IInv
  <2> QED
    BY <2>2, <2>3
<1>2. CASE BackoffEnds
  BY <1>2, Elsewhere DEF BackoffEnds, faultVars, IInv, TypeOK, Client, Closing, Flag
<1>3. CASE RequestRecovery
  BY <1>3, Elsewhere DEF RequestRecovery, faultVars, IInv, TypeOK, Client, Closing, Flag
<1> QED
  BY <1>1, <1>2, <1>3 DEF LoopTask

-----------------------------------------------------------------------------
\* The worker's requests: they move only its own place.
LEMMA WorkerMoves ==
  ASSUME IInv, UNCHANGED <<bus, iface, client, queue, entries, mice, told, recovery>>,
         ctrl' \in [Device -> [flight : BOOLEAN, given : BOOLEAN]],
         worker' \in Worker, worker'.handle = worker.handle, worker'.kind = worker.kind,
         worker'.waiting => worker'.step \in Request,
         worker.step \in Request,
         \/ worker'.step = worker.step
         \/ worker.step = "descriptor" /\ worker'.step \in {"attach", "reject"}
         \/ worker.step = "protocol" /\ worker'.step \in {"rate", "start"}
         \/ worker.step = "rate" /\ worker'.step = "start"
  PROVE  IInv'
<1>1. TypeOK' /\ Finite'
  BY DEF IInv, TypeOK, Finite, Attached
<1>2. WorkerHolds' /\ Claimed' /\ HasCallback' /\ Closing'
  BY DEF IInv, WorkerHolds, Claimed, HasCallback, Closing, Request
<1>3. WorkersMouse'
  BY DEF IInv, WorkersMouse, Request
<1>4. HeldActive' /\ MiceAreActive' /\ HeldHasOwner'
  BY DEF IInv, HeldActive, Held, MiceAreActive, HeldHasOwner
<1> QED
  BY <1>1, <1>2, <1>3, <1>4 DEF IInv

\* What open() does after a request.
LEMMA AfterMoves ==
  ASSUME IInv, UNCHANGED <<bus, iface, client, queue, entries, mice, told, recovery>>,
         ctrl' \in [Device -> [flight : BOOLEAN, given : BOOLEAN]],
         worker.step \in Request, NEW ok \in BOOLEAN, worker' = After(ok)
  PROVE  IInv'
<1>1. worker \in Worker
  BY DEF IInv, TypeOK
<1>2. /\ worker' \in Worker /\ worker'.handle = worker.handle /\ worker'.kind = worker.kind
      /\ ~worker'.waiting
  BY <1>1 DEF After, Worker, Request
<1>3. \/ worker.step = "descriptor" /\ worker'.step \in {"attach", "reject"}
      \/ worker.step = "protocol" /\ worker'.step \in {"rate", "start"}
      \/ worker.step = "rate" /\ worker'.step = "start"
  BY <1>1 DEF After, Worker, Request
<1> QED
  BY <1>2, <1>3, WorkerMoves

\* A request is submitted and waited for, or fails at once.
LEMMA SubmitMoves ==
  ASSUME IInv, worker.step \in Request, Submit(worker.handle) \/ Refuse
  PROVE  IInv'
<1> DEFINE d == iface[worker.handle].device
<1>1. CASE bus[d] = "open" /\ ~ctrl[d].flight /\ Submit(worker.handle)
  <2>1. /\ ctrl' = [ctrl EXCEPT ![d].flight = TRUE]
        /\ worker' = [worker EXCEPT !.waiting = TRUE]
        /\ UNCHANGED <<bus, iface, client, queue, entries, mice, told, recovery>>
    BY <1>1 DEF Submit
  <2>2. ctrl' \in [Device -> [flight : BOOLEAN, given : BOOLEAN]]
    <3> HIDE DEF d
    <3> QED
      BY <2>1 DEF IInv, TypeOK
  <2>3. /\ worker' \in Worker /\ worker'.handle = worker.handle /\ worker'.kind = worker.kind
        /\ worker'.step = worker.step
    BY <2>1 DEF IInv, TypeOK, Worker
  <2> QED
    BY <2>1, <2>2, <2>3, WorkerMoves
<1>2. CASE ~(bus[d] = "open" /\ ~ctrl[d].flight /\ Submit(worker.handle))
  <2>1. /\ worker' = After(FALSE)
        /\ UNCHANGED <<devices, iface, client, queue, entries, mice, told, recovery>>
    BY <1>2 DEF Submit, Refuse, devices
  <2> QED
    BY <2>1, AfterMoves DEF devices, IInv, TypeOK
<1> QED
  BY <1>1, <1>2

\* A request is answered, or given up after its time.
LEMMA AnswerMoves ==
  ASSUME IInv, Answer \/ Timeout
  PROVE  IInv'
<1>1. worker.step \in Request
  BY DEF Answer, Timeout, IInv, WorkerHolds
<1>2. CASE Answer
  <2> DEFINE d == iface[worker.handle].device
  <2>1. ctrl' = [ctrl EXCEPT ![d].given = FALSE]
    BY <1>2 DEF Answer
  <2>2. ctrl' \in [Device -> [flight : BOOLEAN, given : BOOLEAN]]
    <3> HIDE DEF d
    <3> QED
      BY <2>1 DEF IInv, TypeOK
  <2> QED
    BY <1>1, <1>2, <2>2, AfterMoves DEF Answer
<1>3. CASE Timeout
  BY <1>1, <1>3, AfterMoves DEF Timeout, devices, IInv, TypeOK
<1> QED
  BY <1>2, <1>3

-----------------------------------------------------------------------------
\* The worker's steps with an interface.

\* A copy of an announcement is taken; the interface it names, perhaps another
\* one by now, is claimed, or left alone.
LEMMA ReceiveKeeps ==
  ASSUME IInv, Receive
  PROVE  IInv'
<1> DEFINE h == Head(queue)
<1>1. /\ worker.step = "idle" /\ worker.handle = None
      /\ queue' = Tail(queue) /\ h \in Handle /\ queue' \in Seq(Handle)
      /\ Len(queue') <= QueueLength
      /\ UNCHANGED <<bus, ctrl, client, entries, mice, told, recovery>>
  <2>1. queue # <<>> /\ queue \in Seq(Handle) /\ Len(queue) <= QueueLength
    BY DEF Receive, IInv, TypeOK
  <2>2. h \in Handle /\ Tail(queue) \in Seq(Handle) /\ Len(Tail(queue)) = Len(queue) - 1
    BY <2>1, HeadTailProperties
  <2>3. Len(queue) - 1 <= QueueLength
    BY <2>1, CapacityAssumption
  <2> QED
    BY <2>1, <2>2, <2>3 DEF Receive, IInv, WorkerHolds, devices
<1>2. CASE UNCHANGED <<iface, worker>>
  <2>1. TypeOK' /\ Finite'
    BY <1>1, <1>2 DEF IInv, TypeOK, Finite, Attached
  <2>2. WorkerHolds' /\ Claimed' /\ HasCallback' /\ Closing' /\ WorkersMouse'
    BY <1>1, <1>2 DEF IInv, WorkerHolds, Claimed, HasCallback, Closing, WorkersMouse
  <2>3. HeldActive' /\ MiceAreActive' /\ HeldHasOwner'
    BY <1>1, <1>2 DEF IInv, HeldActive, Held, MiceAreActive, HeldHasOwner
  <2> QED
    BY <2>1, <2>2, <2>3 DEF IInv
<1>3. CASE CanOpen(h) /\ Claim(h) /\ ~UNCHANGED <<iface, worker>>
  <2>1. iface \in [Handle -> Interface] /\ iface[h].state = "idle"
    BY <1>3 DEF CanOpen, IInv, TypeOK
  <2>2. iface' = [iface EXCEPT ![h].state = "ready", ![h].cb = TRUE, ![h].dead = FALSE]
    BY <1>3 DEF Claim
  <2>3. worker' = [step |-> IF iface[h].kind = "keyboard" THEN "protocol" ELSE "descriptor",
                   handle |-> h, kind |-> iface[h].kind, waiting |-> FALSE]
    BY <1>3 DEF Receive
  <2>4. mice[h] = "out"
    BY <1>1, <2>1, NoneAssumption DEF IInv, MiceAreActive
  <2> HIDE DEF h
  <2>5. /\ iface' \in [Handle -> Interface]
        /\ iface'[h].state = "ready" /\ iface'[h].cb /\ iface'[h].kind = iface[h].kind
        /\ \A x \in Handle \ {h} : iface'[x] = iface[x]
    <3>1. /\ iface[h] \in Interface /\ iface' = [x \in Handle |-> iface'[x]]
          /\ iface'[h] = [iface[h] EXCEPT !.state = "ready", !.cb = TRUE, !.dead = FALSE]
          /\ \A x \in Handle \ {h} : iface'[x] = iface[x]
      BY <1>1, <2>1, <2>2
    <3>2. /\ iface'[h] \in Interface /\ iface'[h].state = "ready" /\ iface'[h].cb
          /\ iface'[h].kind = iface[h].kind
      BY <3>1 DEF Interface
    <3>3. iface' \in [Handle -> Interface]
      BY <2>1, <3>1, <3>2
    <3> QED
      BY <3>1, <3>2, <3>3
  <2>6. /\ worker' \in Worker /\ worker'.handle = h /\ worker'.kind = iface[h].kind
        /\ ~worker'.waiting
        /\ \/ worker'.step = "protocol" /\ iface[h].kind = "keyboard"
           \/ worker'.step = "descriptor" /\ iface[h].kind = "mouse"
    BY <1>1, <2>1, <2>3 DEF Interface, Kind, Worker, Request
  <2>7. TypeOK' /\ Finite'
    BY <1>1, <2>5, <2>6 DEF IInv, TypeOK, Finite, Attached
  <2>8. WorkerHolds' /\ Claimed' /\ HasCallback'
    BY <1>1, <2>5, <2>6, NoneAssumption DEF IInv, WorkerHolds, Claimed, HasCallback, Request
  <2>9. Closing'
    BY <1>1, <2>1, <2>5 DEF IInv, TypeOK, Client, Closing
  <2>10. WorkersMouse'
    BY <1>1, <2>4, <2>5, <2>6 DEF WorkersMouse, Request
  <2>11. HeldActive' /\ MiceAreActive'
    BY <1>1, <2>1, <2>4, <2>5, <2>6, NoneAssumption
    DEF IInv, HeldActive, Held, MiceAreActive
  <2>12. HeldHasOwner'
    <3>1. told.keys \in Handle \cup {None}
      BY DEF IInv, TypeOK
    <3> QED
      BY <1>1, <2>1, <2>4, <2>5, <3>1 DEF IInv, HeldHasOwner, Held
  <2> QED
    BY <2>7, <2>8, <2>9, <2>10, <2>11, <2>12 DEF IInv
<1> QED
  BY <1>2, <1>3 DEF Receive

\* The capacity of the mice is looked at before one more is attached.
LEMMA AttachKeeps ==
  ASSUME IInv, Attach
  PROVE  IInv'
<1> DEFINE h == worker.handle
<1>1. /\ worker.step = "attach" /\ worker.kind = "mouse" /\ worker \in Worker
      /\ h \in Handle /\ mice[h] = "out" /\ iface[h].state # "active" /\ ~worker.waiting
      /\ UNCHANGED <<bus, ctrl, iface, client, queue, entries, told, recovery>>
  BY DEF Attach, IInv, TypeOK, Worker, WorkerHolds, WorkersMouse, Request, devices
<1>2. CASE worker' = [worker EXCEPT !.step = "reject"] /\ UNCHANGED mice
  <2>1. worker' \in Worker /\ worker'.step = "reject" /\ worker'.handle = h
        /\ worker'.kind = "mouse" /\ ~worker'.waiting
    BY <1>1, <1>2 DEF Worker
  <2>2. TypeOK' /\ Finite'
    BY <1>1, <1>2, <2>1 DEF IInv, TypeOK, Finite, Attached
  <2>3. WorkerHolds' /\ Claimed' /\ HasCallback' /\ Closing' /\ WorkersMouse'
    BY <1>1, <1>2, <2>1 DEF IInv, WorkerHolds, Claimed, HasCallback, Closing, WorkersMouse, Request
  <2>4. HeldActive' /\ MiceAreActive' /\ HeldHasOwner'
    BY <1>1, <1>2, <2>1 DEF IInv, HeldActive, Held, MiceAreActive, HeldHasOwner
  <2> QED
    BY <2>2, <2>3, <2>4 DEF IInv
<1>3. ASSUME CanAttach(h), mice' = [mice EXCEPT ![h] = "up"],
             NEW step \in {"protocol", "start"}, worker' = [worker EXCEPT !.step = step]
      PROVE  IInv'
  <2>1. worker' \in Worker /\ worker'.step = step /\ worker'.handle = h
        /\ worker'.kind = "mouse" /\ ~worker'.waiting
    BY <1>1, <1>3 DEF Worker, Request
  <2>2. mice \in [Handle -> {"out", "up", "held"}]
    BY DEF IInv, TypeOK
  <2> HIDE DEF h
  <2>3. /\ mice' \in [Handle -> {"out", "up", "held"}] /\ mice'[h] = "up"
        /\ \A x \in Handle \ {h} : mice'[x] = mice[x]
    BY <1>1, <1>3, <2>2
  <2>4. Attached' = Attached \cup {h}
    BY <1>1, <2>2, <2>3 DEF Attached
  <2>5. IsFiniteSet(Attached') /\ Cardinality(Attached') <= MouseCount
    <3>1. IsFiniteSet(Attached) /\ Cardinality(Attached) \in Nat
      BY FS_CardinalityType DEF IInv, Finite
    <3>2. Cardinality(Attached) < MouseCount
      BY <1>3 DEF CanAttach, Attached
    <3> QED
      BY <2>4, <3>1, <3>2, FS_AddElement, CapacityAssumption
  <2>6. TypeOK' /\ Finite'
    BY <1>1, <2>1, <2>3, <2>5 DEF IInv, TypeOK, Finite, Attached
  <2>7. WorkerHolds' /\ Claimed' /\ HasCallback' /\ Closing' /\ WorkersMouse'
    BY <1>1, <2>1, <2>3 DEF IInv, WorkerHolds, Claimed, HasCallback, Closing, WorkersMouse, Request, h
  <2>8. HeldActive' /\ MiceAreActive' /\ HeldHasOwner'
    BY <1>1, <2>1, <2>3 DEF IInv, HeldActive, Held, MiceAreActive, HeldHasOwner, h
  <2> QED
    BY <2>6, <2>7, <2>8 DEF IInv
<1> QED
  BY <1>2, <1>3 DEF Attach

\* The interface ends outside "ready" and "active".
LEMMA ClosedFacts ==
  ASSUME TypeOK, NEW h \in Handle, NEW c, c = Closed(h)
  PROVE  /\ c \in [Handle -> Interface]
         /\ \A x \in Handle \ {h} : c[x] = iface[x]
         /\ c[h].state \in {"none", "idle"}
         /\ iface[h].state \in {"wait", "none"} => c[h].state = "none"
<1>1. iface \in [Handle -> Interface]
  BY DEF TypeOK
<1>2. CASE iface[h].state \in {"ready", "active"}
  BY <1>1, <1>2 DEF Closed, Interface
<1>3. CASE iface[h].state \notin {"ready", "active"}
  BY <1>1, <1>3 DEF Closed, Interface, NoInterface, Kind
<1> QED
  BY <1>2, <1>3

\* UsbMice::detach(): a place becomes free, if any changes.
LEMMA DetachedFacts ==
  ASSUME TypeOK, Finite, NEW h \in Handle, mice' = Detached(h)
  PROVE  /\ mice' \in [Handle -> {"out", "up", "held"}]
         /\ mice'[h] = "out" /\ \A x \in Handle \ {h} : mice'[x] = mice[x]
         /\ IsFiniteSet(Attached') /\ Cardinality(Attached') <= MouseCount
<1>1. mice \in [Handle -> {"out", "up", "held"}]
  BY DEF TypeOK
<1>2. /\ mice' \in [Handle -> {"out", "up", "held"}]
      /\ mice'[h] = "out" /\ \A x \in Handle \ {h} : mice'[x] = mice[x]
  BY <1>1 DEF Detached
<1>3. Attached' \in SUBSET Attached
  BY <1>2 DEF Attached
<1>4. /\ IsFiniteSet(Attached) /\ Cardinality(Attached) \in Nat
      /\ Cardinality(Attached) <= MouseCount
  BY FS_CardinalityType DEF Finite, TypeOK, Attached
<1>5. IsFiniteSet(Attached') /\ Cardinality(Attached') <= Cardinality(Attached)
  BY <1>3, <1>4, FS_Subset
<1> QED
  BY <1>2, <1>4, <1>5, FS_CardinalityType, CapacityAssumption

\* The worker closes an interface whose descriptor is no mouse's, or for
\* which there is no place.
LEMMA RejectKeeps ==
  ASSUME IInv, Reject
  PROVE  IInv'
<1> DEFINE h == worker.handle
<1>1. /\ worker.step = "reject" /\ worker \in Worker /\ h \in Handle /\ iface' = Closed(h)
      /\ mice[h] = "out" /\ iface[h].state # "active" /\ worker' = Idle
      /\ UNCHANGED <<bus, ctrl, client, queue, entries, mice, told, recovery>>
  BY DEF Reject, IInv, TypeOK, Worker, WorkerHolds, WorkersMouse, Request, devices
<1>2. /\ iface' \in [Handle -> Interface] /\ iface'[h].state \in {"none", "idle"}
      /\ iface[h].state \in {"wait", "none"} => iface'[h].state = "none"
      /\ \A x \in Handle \ {h} : iface'[x] = iface[x]
  BY <1>1, ClosedFacts DEF IInv
<1>3. worker' \in Worker /\ worker'.step = "idle" /\ worker'.handle = None /\ ~worker'.waiting
  BY <1>1 DEF Idle, Worker, Kind
<1> HIDE DEF h
<1>4. TypeOK' /\ Finite'
  BY <1>1, <1>2, <1>3 DEF IInv, TypeOK, Finite, Attached
<1>5. WorkerHolds' /\ Claimed' /\ HasCallback' /\ WorkersMouse'
  BY <1>1, <1>2, <1>3 DEF IInv, WorkerHolds, Claimed, HasCallback, WorkersMouse, Request, h
<1>6. Closing'
  BY <1>1, <1>2 DEF IInv, TypeOK, Client, Closing
<1>7. HeldActive' /\ MiceAreActive'
  BY <1>1, <1>2, <1>3 DEF IInv, HeldActive, Held, MiceAreActive, h
<1>8. HeldHasOwner'
  <2>1. told.keys \in Handle \cup {None}
    BY DEF IInv, TypeOK
  <2> QED
    BY <1>1, <1>2, <2>1 DEF IInv, HeldHasOwner, Held
<1> QED
  BY <1>4, <1>5, <1>6, <1>7, <1>8 DEF IInv

\* The start failed: whatever became of the interface, its mouse is detached.
LEMMA UndoKeeps ==
  ASSUME IInv, Undo
  PROVE  IInv'
<1> DEFINE h == worker.handle
<1>1. /\ worker.step = "undo" /\ worker \in Worker /\ h \in Handle /\ iface' = Closed(h)
      /\ mice' = Detached(h) /\ worker' = Idle /\ recovery' = recovery \cup {"fault"}
      /\ told.keys # h /\ mice[h] # "held" /\ (iface[h].state = "active" => iface[h].dead)
      /\ UNCHANGED <<bus, ctrl, client, queue, entries, told>>
  BY DEF Undo, IInv, TypeOK, Worker, WorkerHolds, WorkersMouse, devices
<1>2. /\ iface' \in [Handle -> Interface] /\ iface'[h].state \in {"none", "idle"}
      /\ iface[h].state \in {"wait", "none"} => iface'[h].state = "none"
      /\ \A x \in Handle \ {h} : iface'[x] = iface[x]
  BY <1>1, ClosedFacts DEF IInv
<1>3. worker' \in Worker /\ worker'.step = "idle" /\ worker'.handle = None /\ ~worker'.waiting
  BY <1>1 DEF Idle, Worker, Kind
<1>4. /\ mice' \in [Handle -> {"out", "up", "held"}] /\ mice'[h] = "out"
      /\ \A x \in Handle \ {h} : mice'[x] = mice[x]
      /\ IsFiniteSet(Attached') /\ Cardinality(Attached') <= MouseCount
  BY <1>1, DetachedFacts DEF IInv
<1> HIDE DEF h
<1>5. TypeOK' /\ Finite'
  BY <1>1, <1>2, <1>3, <1>4 DEF IInv, TypeOK, Finite, Attached, Flag
<1>6. WorkerHolds' /\ Claimed' /\ HasCallback' /\ WorkersMouse'
  BY <1>1, <1>2, <1>3 DEF IInv, WorkerHolds, Claimed, HasCallback, WorkersMouse, Request, h
<1>7. Closing'
  BY <1>1, <1>2 DEF IInv, TypeOK, Client, Closing
<1>8. HeldActive' /\ MiceAreActive'
  BY <1>1, <1>2, <1>3, <1>4 DEF IInv, HeldActive, Held, MiceAreActive, h
<1>9. HeldHasOwner'
  <2>1. told.keys \in Handle \cup {None}
    BY DEF IInv, TypeOK
  <2> QED
    BY <1>1, <1>2, <1>4, <2>1 DEF IInv, HeldHasOwner, Held
<1> QED
  BY <1>5, <1>6, <1>7, <1>8, <1>9 DEF IInv

\* hid_host_device_start(): a ready interface becomes active; without it, or
\* when the submit fails, the start is undone.
LEMMA StartKeeps ==
  ASSUME IInv, Start
  PROVE  IInv'
<1> DEFINE h == worker.handle
           started == iface[h].state = "ready"
<1>1. /\ worker.step = "start" /\ worker \in Worker /\ h \in Handle /\ ~worker.waiting
      /\ iface[h].state # "active" /\ mice[h] # "held"
      /\ started => (mice[h] # "out") = (worker.kind = "mouse") /\ worker.kind = iface[h].kind
                    /\ iface[h].cb
      /\ UNCHANGED <<bus, ctrl, client, queue, entries, mice, told, recovery>>
  BY DEF Start, IInv, TypeOK, Worker, WorkerHolds, WorkersMouse, Request, devices, Claimed,
         HasCallback, HeldActive, Held
<1>2. PICK ok \in BOOLEAN :
        /\ ok => started
        /\ iface' = IF started THEN [iface EXCEPT ![h].state = "active", ![h].dead = ~ok] ELSE iface
        /\ worker' = [worker EXCEPT !.step = IF ok THEN "track" ELSE "undo"]
  BY DEF Start
<1>3. /\ worker' \in Worker /\ worker'.step = (IF ok THEN "track" ELSE "undo")
      /\ worker'.handle = h /\ worker'.kind = worker.kind /\ ~worker'.waiting
  BY <1>1, <1>2 DEF Worker
<1>4. told.keys # h /\ told.keys \in Handle \cup {None}
  BY <1>1, NoneAssumption DEF IInv, TypeOK, HeldHasOwner
<1> HIDE DEF h
<1>5. /\ iface' \in [Handle -> Interface]
      /\ \A x \in Handle \ {h} : iface'[x] = iface[x]
      /\ iface'[h].state # "ready" /\ iface'[h].kind = iface[h].kind
      /\ iface'[h].cb = iface[h].cb
      /\ started => iface'[h].state = "active" /\ (~ok => iface'[h].dead)
      /\ ~started => iface'[h].state = iface[h].state
  <2>1. iface \in [Handle -> Interface]
    BY DEF IInv, TypeOK
  <2>2. CASE started
    BY <1>1, <1>2, <2>1, <2>2 DEF Interface
  <2>3. CASE ~started
    BY <1>1, <1>2, <2>1, <2>3
  <2> QED
    BY <2>2, <2>3
<1>6. TypeOK' /\ Finite'
  BY <1>1, <1>3, <1>5 DEF IInv, TypeOK, Finite, Attached
<1>7. WorkerHolds' /\ Claimed' /\ HasCallback'
  BY <1>1, <1>3, <1>5 DEF IInv, WorkerHolds, Claimed, HasCallback, h
<1>8. Closing'
  BY <1>1, <1>5 DEF IInv, TypeOK, Client, Closing
<1>9. WorkersMouse'
  <2>1. CASE ok
    BY <1>1, <1>2, <1>3, <1>5, <2>1 DEF WorkersMouse, Request, Interface, IInv, TypeOK, Kind
  <2>2. CASE ~ok
    BY <1>1, <1>2, <1>3, <1>4, <1>5, <2>2 DEF WorkersMouse, Request
  <2> QED
    BY <2>1, <2>2
<1>10. HeldActive' /\ MiceAreActive'
  BY <1>1, <1>3, <1>5 DEF IInv, HeldActive, Held, MiceAreActive, h
<1>11. HeldHasOwner'
  BY <1>1, <1>4, <1>5 DEF IInv, HeldHasOwner, Held
<1> QED
  BY <1>6, <1>7, <1>8, <1>9, <1>10, <1>11 DEF IInv

\* track(): the worker rests; the interface it recorded may be gone, and so
\* then is its mouse.
LEMMA TrackKeeps ==
  ASSUME IInv, Track
  PROVE  IInv'
<1>1. /\ worker.step = "track" /\ worker \in Worker /\ worker.handle \in Handle
      /\ worker' = Idle
      /\ UNCHANGED <<bus, ctrl, iface, client, queue, mice, told, recovery>>
  BY DEF Track, IInv, TypeOK, Worker, WorkerHolds, devices
<1>2. worker' \in Worker /\ worker'.step = "idle" /\ worker'.handle = None /\ ~worker'.waiting
  BY <1>1 DEF Idle, Worker, Kind
<1>3. entries' \subseteq Handle /\ IsFiniteSet(entries') /\ Cardinality(entries') <= EntryCount
  <2>1. /\ IsFiniteSet(entries) /\ Cardinality(entries) \in Nat /\ entries \subseteq Handle
        /\ Cardinality(entries) <= EntryCount /\ EntryCount \in Nat
    BY FS_CardinalityType, CapacityAssumption DEF IInv, Finite, TypeOK
  <2>2. CASE Cardinality(entries) < EntryCount
    <3>1. entries' = entries \cup {worker.handle}
      BY <2>2 DEF Track
    <3> DEFINE n == Cardinality(entries)
               more == entries \cup {worker.handle}
    <3>2. IsFiniteSet(more) /\ Cardinality(more) = IF worker.handle \in entries THEN n ELSE n + 1
      BY <2>1, FS_AddElement
    <3> HIDE DEF n
    <3>3. Cardinality(more) <= EntryCount
      <4> HIDE DEF more
      <4> QED
        BY <2>1, <2>2, <3>2 DEF n
    <3> QED
      BY <1>1, <2>1, <3>1, <3>2, <3>3
  <2>3. CASE ~(Cardinality(entries) < EntryCount)
    BY <2>1, <2>3 DEF Track
  <2> QED
    BY <2>2, <2>3
<1>4. TypeOK' /\ Finite'
  BY <1>1, <1>2, <1>3 DEF IInv, TypeOK, Finite, Attached
<1>5. WorkerHolds' /\ Claimed' /\ HasCallback' /\ Closing' /\ WorkersMouse'
  BY <1>1, <1>2 DEF IInv, WorkerHolds, Claimed, HasCallback, Closing, WorkersMouse, Request
<1>6. HeldActive' /\ MiceAreActive' /\ HeldHasOwner'
  BY <1>1, <1>2 DEF IInv, HeldActive, Held, MiceAreActive, HeldHasOwner, WorkersMouse
<1> QED
  BY <1>4, <1>5, <1>6 DEF IInv

-----------------------------------------------------------------------------
\* The client task.

\* A new interface gets an address that is free, and begins as idle.
LEMMA ListedFacts ==
  ASSUME TypeOK, NEW d \in Device, NEW kinds \in Models, NEW at \in [DOMAIN kinds -> Free],
         iface' = Listed(d, kinds, at)
  PROVE  /\ iface' \in [Handle -> Interface]
         /\ \A h \in Handle : \/ iface'[h] = iface[h]
                              \/ iface[h].state = "none" /\ iface'[h].state = "idle"
<1>1. /\ iface \in [Handle -> Interface] /\ Free \subseteq Handle
      /\ kinds \in [DOMAIN kinds -> Kind]
  BY ModelsAssumption DEF TypeOK, Free
<1> DEFINE i(h) == CHOOSE j \in DOMAIN at : at[j] = h
           New(h) == [state |-> "idle", device |-> d, kind |-> kinds[i(h)],
                      cb |-> FALSE, dead |-> FALSE]
           Given(h) == \E j \in DOMAIN at : at[j] = h
<1>2. iface' = [h \in Handle |-> IF Given(h) THEN New(h) ELSE iface[h]]
  BY DEF Listed
<1>3. ASSUME NEW h \in Handle
      PROVE  /\ iface'[h] \in Interface
             /\ \/ iface'[h] = iface[h]
                \/ iface[h].state = "none" /\ iface'[h].state = "idle"
  <2>1. CASE ~Given(h)
    <3> HIDE DEF New, Given
    <3> QED
      BY <1>1, <1>2, <2>1
  <2>2. CASE Given(h)
    <3>1. i(h) \in DOMAIN at /\ at[i(h)] = h
      BY <2>2
    <3>2. iface'[h] = New(h)
      <4> HIDE DEF New, Given
      <4> QED
        BY <1>2, <2>2
    <3>3. kinds[i(h)] \in Kind /\ h \in Free
      BY <1>1, <3>1
    <3> HIDE DEF i
    <3>4. New(h) \in Interface /\ New(h).state = "idle"
      BY <3>3 DEF Interface
    <3> HIDE DEF New
    <3> QED
      BY <3>2, <3>3, <3>4 DEF Free, InList
  <2> QED
    BY <2>1, <2>2
<1>4. iface' \in [Handle -> Interface]
  <2> HIDE DEF New, Given
  <2> QED
    BY <1>2, <1>3
<1> QED
  BY <1>3, <1>4

\* hid_host_device_init_attempt(): addresses are used again.
LEMMA NewDeviceKeeps ==
  ASSUME IInv, NEW d \in Device, NewDevice(d)
  PROVE  IInv'
<1>1. /\ client = ClientIdle
      /\ bus' = [bus EXCEPT ![d] = "open"] /\ ctrl' = [ctrl EXCEPT ![d] = NoTransfer]
      /\ UNCHANGED <<worker, queue, entries, mice, told, recovery>>
  BY DEF NewDevice
<1>2. PICK kinds \in Models, at \in Seats :
        /\ DOMAIN at = DOMAIN kinds /\ iface' = Listed(d, kinds, at)
        /\ client' = [client EXCEPT !.announce = at]
  BY DEF NewDevice
<1>3. at \in [DOMAIN kinds -> Free]
  BY <1>2 DEF Seats
<1>4. /\ iface' \in [Handle -> Interface]
      /\ \A h \in Handle : \/ iface'[h] = iface[h]
                           \/ iface[h].state = "none" /\ iface'[h].state = "idle"
  BY <1>2, <1>3, ListedFacts DEF IInv
<1>5. client' \in Client /\ client'.handle = None
  <2>1. at \in Seq(Handle)
    <3>1. kinds \in Seq(Kind)
      BY ModelsAssumption
    <3>2. Len(kinds) \in Nat /\ DOMAIN kinds = 1..Len(kinds)
      BY <3>1
    <3>3. at \in [1..Len(kinds) -> Handle]
      BY <1>3, <3>2 DEF Free
    <3> QED
      BY <3>2, <3>3, SeqDef
  <2>2. client' = [announce |-> at, device |-> None, handle |-> None]
    BY <1>1, <1>2 DEF ClientIdle
  <2> QED
    BY <2>1, <2>2 DEF Client
<1>6. TypeOK' /\ Finite'
  <2>1. bus' \in [Device -> BusState] /\ ctrl' \in [Device -> [flight : BOOLEAN, given : BOOLEAN]]
    BY <1>1 DEF IInv, TypeOK, BusState, NoTransfer
  <2> QED
    BY <1>1, <1>4, <1>5, <2>1 DEF IInv, TypeOK, Finite, Attached
<1>7. WorkerHolds' /\ Claimed' /\ HasCallback' /\ Closing'
  BY <1>1, <1>4, <1>5 DEF IInv, WorkerHolds, Claimed, HasCallback, Closing
<1>8. WorkersMouse'
  BY <1>1, <1>4, NoneAssumption DEF IInv, TypeOK, Worker, WorkersMouse, WorkerHolds, Request
<1>9. HeldActive' /\ MiceAreActive'
  BY <1>1, <1>4 DEF IInv, HeldActive, Held, MiceAreActive
<1>10. HeldHasOwner'
  <2>1. told.keys \in Handle \cup {None}
    BY DEF IInv, TypeOK
  <2> QED
    BY <1>1, <1>4, <2>1 DEF IInv, HeldHasOwner, Held
<1> QED
  BY <1>6, <1>7, <1>8, <1>9, <1>10 DEF IInv

\* An interface is shut down: if it was ever opened, UsbHost is told, detaches
\* its mouse and releases what it held.
LEMMA GoneNotifyKeeps ==
  ASSUME IInv, GoneNotify
  PROVE  IInv'
<1>1. PICK h \in Handle : /\ InList(h) /\ client' = [client EXCEPT !.handle = h] /\ ShutDown(h)
  BY DEF GoneNotify
<1>2. /\ client.device # None /\ client' \in Client
      /\ client'.device = client.device /\ client'.handle = h
      /\ UNCHANGED <<bus, ctrl, worker, queue, recovery>>
  BY <1>1 DEF GoneNotify, devices, IInv, TypeOK, Client
<1>3. /\ iface' \in [Handle -> Interface] /\ iface'[h].state = "wait"
      /\ \A x \in Handle \ {h} : iface'[x] = iface[x]
  <2>1. /\ iface \in [Handle -> Interface] /\ iface[h] \in Interface
        /\ iface' = [iface EXCEPT ![h].state = "wait"]
    BY <1>1 DEF ShutDown, IInv, TypeOK
  <2>2. /\ iface' = [x \in Handle |-> iface'[x]]
        /\ iface'[h] = [iface[h] EXCEPT !.state = "wait"]
        /\ \A x \in Handle \ {h} : iface'[x] = iface[x]
    BY <2>1
  <2>3. iface'[h] \in Interface /\ iface'[h].state = "wait"
    BY <2>1, <2>2 DEF Interface
  <2>4. iface' \in [Handle -> Interface]
    BY <2>1, <2>2, <2>3
  <2> QED
    BY <2>2, <2>3, <2>4
<1>4. told.keys \in Handle \cup {None}
  BY DEF IInv, TypeOK
<1>5. CASE iface[h].cb
  <2>1. /\ entries' = entries \ {h} /\ mice' = Detached(h)
        /\ told' = [keys |-> IF iface[h].kind = "keyboard" THEN None ELSE told.keys,
                    buttons |-> IF mice[h] # "out" THEN Held(mice') # {} ELSE told.buttons]
    BY <1>1, <1>5 DEF ShutDown, Forget
  <2>2. entries' \subseteq Handle /\ IsFiniteSet(entries') /\ Cardinality(entries') <= EntryCount
    <3>1. /\ IsFiniteSet(entries) /\ Cardinality(entries) \in Nat /\ entries \subseteq Handle
          /\ Cardinality(entries) <= EntryCount /\ EntryCount \in Nat
      BY FS_CardinalityType, CapacityAssumption DEF IInv, Finite, TypeOK
    <3>2. IsFiniteSet(entries') /\ Cardinality(entries') <= Cardinality(entries)
      BY <2>1, <3>1, FS_Subset
    <3> QED
      BY <2>1, <3>1, <3>2, FS_CardinalityType
  <2>3. /\ mice' \in [Handle -> {"out", "up", "held"}]
        /\ mice'[h] = "out" /\ \A x \in Handle \ {h} : mice'[x] = mice[x]
        /\ IsFiniteSet(Attached') /\ Cardinality(Attached') <= MouseCount
    BY <2>1, DetachedFacts DEF IInv
  <2>4. /\ told'.keys \in {None, told.keys} /\ (told.keys = h => told'.keys = None)
        /\ told'.buttons = IF mice[h] # "out" THEN Held(mice') # {} ELSE told.buttons
        /\ told' \in [keys : Handle \cup {None}, buttons : BOOLEAN]
    <3>1. told.keys = h => iface[h].kind = "keyboard"
      BY NoneAssumption DEF IInv, HeldHasOwner
    <3>2. told.buttons \in BOOLEAN
      BY DEF IInv, TypeOK
    <3>3. /\ told'.keys = IF iface[h].kind = "keyboard" THEN None ELSE told.keys
          /\ told'.buttons = IF mice[h] # "out" THEN Held(mice') # {} ELSE told.buttons
      BY <2>1
    <3>4. told'.keys \in Handle \cup {None} /\ told'.buttons \in BOOLEAN
      BY <1>4, <3>2, <3>3
    <3>5. told' \in [keys : Handle \cup {None}, buttons : BOOLEAN]
      BY <2>1, <3>3, <3>4
    <3>6. told'.keys \in {None, told.keys} /\ (told.keys = h => told'.keys = None)
      BY <3>1, <3>3
    <3> QED
      BY <3>3, <3>5, <3>6
  <2>5. TypeOK' /\ Finite'
    BY <1>2, <1>3, <2>2, <2>3, <2>4 DEF IInv, TypeOK, Finite, Attached
  <2>6. WorkerHolds' /\ Claimed' /\ HasCallback' /\ Closing'
    BY <1>2, <1>3 DEF IInv, WorkerHolds, Claimed, HasCallback, Closing
  <2>7. WorkersMouse'
    BY <1>2, <1>3, <2>3, <2>4, NoneAssumption DEF IInv, TypeOK, Worker, WorkersMouse, WorkerHolds, Request
  <2>8. HeldActive' /\ MiceAreActive'
    BY <1>2, <1>3, <2>3 DEF IInv, HeldActive, Held, MiceAreActive
  <2>9. HeldHasOwner'
    BY <1>3, <1>4, <2>3, <2>4, <2>8 DEF IInv, HeldHasOwner, Held, HeldActive
  <2> QED
    BY <2>5, <2>6, <2>7, <2>8, <2>9 DEF IInv
<1>6. CASE ~iface[h].cb
  <2>1. UNCHANGED <<entries, mice, told>>
    BY <1>1, <1>6 DEF ShutDown
  <2>2. iface[h].state \notin {"ready", "active"}
    BY <1>6 DEF IInv, HasCallback
  <2>3. TypeOK' /\ Finite'
    BY <1>2, <1>3, <2>1 DEF IInv, TypeOK, Finite, Attached
  <2>4. WorkerHolds' /\ Claimed' /\ HasCallback' /\ Closing'
    BY <1>2, <1>3, <2>1 DEF IInv, WorkerHolds, Claimed, HasCallback, Closing
  <2>5. WorkersMouse'
    BY <1>2, <1>3, <2>1, <2>2, NoneAssumption DEF IInv, TypeOK, Worker, WorkersMouse, WorkerHolds, Request
  <2>6. HeldActive' /\ MiceAreActive'
    BY <1>2, <1>3, <2>1, <2>2 DEF IInv, HeldActive, Held, MiceAreActive
  <2>7. HeldHasOwner'
    BY <1>3, <1>4, <2>1, <2>2 DEF IInv, HeldHasOwner, Held
  <2> QED
    BY <2>3, <2>4, <2>5, <2>6, <2>7 DEF IInv
<1> QED
  BY <1>5, <1>6

\* The interface that was shut down is freed.
LEMMA GoneFreeKeeps ==
  ASSUME IInv, GoneFree
  PROVE  IInv'
<1> DEFINE h == client.handle
<1>1. /\ h \in Handle /\ iface[h].state \in {"wait", "none"}
      /\ client' = [client EXCEPT !.handle = None] /\ iface' = [iface EXCEPT ![h] = NoInterface]
      /\ UNCHANGED <<bus, ctrl, worker, queue, entries, mice, told, recovery>>
  BY DEF GoneFree, IInv, TypeOK, Client, Closing, devices
<1>2. client' \in Client /\ client'.handle = None
  BY <1>1 DEF IInv, TypeOK, Client
<1> HIDE DEF h
<1>3. /\ iface' \in [Handle -> Interface] /\ iface'[h].state = "none"
      /\ \A x \in Handle \ {h} : iface'[x] = iface[x]
  <2>1. NoInterface \in Interface /\ NoInterface.state = "none"
    BY DEF NoInterface, Interface, Kind
  <2>2. iface \in [Handle -> Interface]
    BY DEF IInv, TypeOK
  <2> QED
    BY <1>1, <2>1, <2>2
<1>4. TypeOK' /\ Finite'
  BY <1>1, <1>2, <1>3 DEF IInv, TypeOK, Finite, Attached
<1>5. WorkerHolds' /\ Claimed' /\ HasCallback' /\ Closing'
  BY <1>1, <1>2, <1>3 DEF IInv, WorkerHolds, Claimed, HasCallback, Closing
<1>6. WorkersMouse'
  BY <1>1, <1>3, NoneAssumption DEF IInv, TypeOK, Worker, WorkersMouse, WorkerHolds, Request
<1>7. HeldActive' /\ MiceAreActive'
  BY <1>1, <1>3 DEF IInv, HeldActive, Held, MiceAreActive
<1>8. HeldHasOwner'
  <2>1. told.keys \in Handle \cup {None}
    BY DEF IInv, TypeOK
  <2> QED
    BY <1>1, <1>3, <2>1 DEF IInv, HeldHasOwner, Held
<1> QED
  BY <1>4, <1>5, <1>6, <1>7, <1>8 DEF IInv

\* The removal of a device: it begins, each interface is shut down and freed,
\* and it ends.
LEMMA RemovalKeeps ==
  ASSUME IInv, Removal
  PROVE  IInv'
<1>1. CASE \E d \in Device : GoneBegin(d)
  BY <1>1, NoneAssumption, Elsewhere DEF GoneBegin, ClientIdle, devices, IInv, TypeOK, Client, Closing
<1>2. CASE Uninstall
  <2>1. bus' \in [Device -> BusState]
    BY <1>2 DEF Uninstall, IInv, TypeOK, BusState
  <2> QED
    BY <1>2, <2>1, Elsewhere DEF Uninstall, IInv, TypeOK, Client, Closing
<1> QED
  BY <1>1, <1>2, GoneNotifyKeeps, GoneFreeKeeps DEF Removal

\* Which interfaces are dead matters to none of the invariants but for the
\* interface that the worker could not start.
LEMMA DeadKeeps ==
  ASSUME IInv, NEW h \in Handle, NEW gone \in BOOLEAN,
         iface' = [iface EXCEPT ![h].dead = @ \/ gone],
         UNCHANGED <<bus, ctrl, worker, entries, mice, told>>,
         client' \in Client, client'.device = client.device, client'.handle = client.handle,
         queue' \in Seq(Handle), Len(queue') <= QueueLength, recovery' \subseteq Flag
  PROVE  IInv'
<1>1. /\ iface' \in [Handle -> Interface]
      /\ \A x \in Handle : /\ iface'[x].state = iface[x].state /\ iface'[x].kind = iface[x].kind
                           /\ iface'[x].cb = iface[x].cb /\ (iface[x].dead => iface'[x].dead)
  <2>1. iface \in [Handle -> Interface] /\ iface[h] \in Interface
    BY DEF IInv, TypeOK
  <2>2. /\ iface' = [x \in Handle |-> iface'[x]]
        /\ iface'[h] = [iface[h] EXCEPT !.dead = @ \/ gone]
        /\ \A x \in Handle \ {h} : iface'[x] = iface[x]
    BY <2>1
  <2>3. iface[h].dead \in BOOLEAN /\ (iface[h].dead \/ gone) \in BOOLEAN
    BY <2>1 DEF Interface
  <2>4. /\ iface'[h] \in Interface /\ iface'[h].state = iface[h].state
        /\ iface'[h].kind = iface[h].kind /\ iface'[h].cb = iface[h].cb
        /\ iface'[h].dead = (iface[h].dead \/ gone)
    BY <2>1, <2>2, <2>3 DEF Interface
  <2>5. iface' \in [Handle -> Interface]
    BY <2>1, <2>2, <2>4
  <2> QED
    BY <2>2, <2>4, <2>5
<1>2. TypeOK' /\ Finite'
  BY <1>1 DEF IInv, TypeOK, Finite, Attached
<1>3. WorkerHolds' /\ Claimed' /\ HasCallback' /\ Closing'
  BY <1>1 DEF IInv, TypeOK, Client, WorkerHolds, Claimed, HasCallback, Closing
<1>4. WorkersMouse'
  BY <1>1 DEF IInv, TypeOK, Worker, WorkersMouse, WorkerHolds, Request
<1>5. HeldActive' /\ MiceAreActive'
  BY <1>1 DEF IInv, HeldActive, Held, MiceAreActive
<1>6. HeldHasOwner'
  <2>1. told.keys \in Handle \cup {None}
    BY DEF IInv, TypeOK
  <2> QED
    BY <1>1, <2>1 DEF IInv, HeldHasOwner, Held
<1> QED
  BY <1>2, <1>3, <1>4, <1>5, <1>6 DEF IInv

\* An event goes to the queue while it has room; a dropped one leaves the
\* interface with nothing to serve it.
LEMMA AnnounceKeeps ==
  ASSUME IInv, Announce
  PROVE  IInv'
<1> DEFINE h == Head(client.announce)
<1>1. /\ client \in Client /\ client.announce \in Seq(Handle) /\ client.announce # <<>>
      /\ client' = [client EXCEPT !.announce = Tail(@)]
      /\ UNCHANGED <<bus, ctrl, worker, entries, mice, told>>
  BY DEF Announce, IInv, TypeOK, Client, devices
<1>2. h \in Handle /\ Tail(client.announce) \in Seq(Handle)
  BY <1>1, HeadTailProperties
<1>3. client' \in Client /\ client'.device = client.device /\ client'.handle = client.handle
  BY <1>1, <1>2 DEF Client
<1>4. /\ iface \in [Handle -> Interface] /\ queue \in Seq(Handle) /\ Len(queue) <= QueueLength
      /\ recovery \subseteq Flag
  BY DEF IInv, TypeOK
<1>5. \/ Room /\ queue' = Append(queue, h) /\ UNCHANGED <<iface, recovery>>
      \/ /\ iface' = [iface EXCEPT ![h].dead = @ \/ iface[h].state = "idle"]
         /\ recovery' = recovery \cup {"fault"} /\ UNCHANGED queue
  BY DEF Announce
<1> HIDE DEF h
<1>6. CASE Room /\ queue' = Append(queue, h) /\ UNCHANGED <<iface, recovery>>
  <2>1. queue' \in Seq(Handle) /\ Len(queue') <= QueueLength
    <3>1. queue' \in Seq(Handle) /\ Len(queue') = Len(queue) + 1 /\ Len(queue) \in Nat
      BY <1>2, <1>4, <1>6, AppendProperties, LenProperties
    <3> QED
      BY <1>6, <3>1, CapacityAssumption DEF Room
  <2>2. iface' = [iface EXCEPT ![h].dead = @ \/ FALSE]
    <3>1. iface[h] \in Interface /\ iface[h].dead \in BOOLEAN
      BY <1>2, <1>4 DEF Interface
    <3>2. iface[h] = [iface[h] EXCEPT !.dead = @ \/ FALSE]
      BY <3>1 DEF Interface
    <3> QED
      BY <1>2, <1>4, <1>6, <3>2
  <2>3. recovery' \subseteq Flag
    BY <1>4, <1>6
  <2> QED
    BY <1>1, <1>2, <1>3, <2>1, <2>2, <2>3, DeadKeeps
<1>7. CASE /\ iface' = [iface EXCEPT ![h].dead = @ \/ iface[h].state = "idle"]
           /\ recovery' = recovery \cup {"fault"} /\ UNCHANGED queue
  <2>1. recovery' \subseteq Flag /\ queue' \in Seq(Handle) /\ Len(queue') <= QueueLength
    BY <1>4, <1>7 DEF Flag
  <2>2. (iface[h].state = "idle") \in BOOLEAN
    OBVIOUS
  <2> QED
    BY <1>1, <1>2, <1>3, <1>7, <2>1, <2>2, DeadKeeps
<1> QED
  BY <1>5, <1>6, <1>7

\* A transfer fails: its interface stays active, with nothing to serve it.
LEMMA TransferErrorKeeps ==
  ASSUME IInv, NEW h \in Handle, TransferError(h)
  PROVE  IInv'
<1>1. /\ iface' = [iface EXCEPT ![h].dead = TRUE] /\ recovery' = recovery \cup {"fault"}
      /\ UNCHANGED <<bus, ctrl, client, worker, queue, entries, mice, told>>
  BY DEF TransferError, devices
<1>2. iface' = [iface EXCEPT ![h].dead = @ \/ TRUE]
  BY <1>1
<1>3. /\ client' \in Client /\ queue' \in Seq(Handle) /\ Len(queue') <= QueueLength
      /\ recovery' \subseteq Flag
  BY <1>1 DEF IInv, TypeOK, Flag
<1> QED
  BY <1>1, <1>2, <1>3, DeadKeeps

\* A report of an interface in use: a keyboard's has no mouse, and a mouse
\* that holds a button is in use.
LEMMA InputReportKeeps ==
  ASSUME IInv, NEW h \in Handle, NEW down \in BOOLEAN, InputReport(h, down)
  PROVE  IInv'
<1>1. /\ iface[h].state = "active" /\ ~iface[h].dead /\ mice' = Decoded(h, down)
      /\ UNCHANGED <<bus, ctrl, iface, client, worker, queue, entries, recovery>>
  BY DEF InputReport, Transferring, devices
<1>2. worker.handle = h => worker.step = "track"
  BY <1>1, NoneAssumption DEF IInv, TypeOK, Worker, Request, WorkersMouse, WorkerHolds
<1>3. (mice[h] # "out") = (iface[h].kind = "mouse")
  <2>1. CASE worker.handle = h
    BY <1>1, <1>2, <2>1 DEF IInv, WorkersMouse
  <2>2. CASE worker.handle # h
    BY <1>1, <2>2 DEF IInv, MiceAreActive
  <2> QED
    BY <2>1, <2>2
<1>4. iface[h].kind \in Kind /\ told \in [keys : Handle \cup {None}, buttons : BOOLEAN]
  BY DEF IInv, TypeOK, Interface
<1>5. /\ mice' \in [Handle -> {"out", "up", "held"}]
      /\ \A x \in Handle \ {h} : mice'[x] = mice[x]
      /\ (mice'[h] # "out") = (mice[h] # "out")
  <2>1. mice \in [Handle -> {"out", "up", "held"}]
    BY DEF IInv, TypeOK
  <2> QED
    BY <1>1, <2>1 DEF Decoded
<1>6. HeldActive'
  BY <1>1, <1>5 DEF IInv, HeldActive, Held
<1>7. told' \in [keys : Handle \cup {None}, buttons : BOOLEAN] /\ HeldHasOwner'
  <2>1. CASE iface[h].kind = "keyboard"
    <3>1. told' = [told EXCEPT !.keys = IF down THEN h ELSE None] /\ UNCHANGED mice
      BY <1>1, <1>3, <2>1 DEF InputReport, Decoded
    <3>2. /\ told' \in [keys : Handle \cup {None}, buttons : BOOLEAN]
          /\ told'.keys \in {h, None} /\ told'.buttons = told.buttons
      BY <1>4, <3>1
    <3> QED
      BY <1>1, <2>1, <3>1, <3>2 DEF IInv, HeldHasOwner
  <2>2. CASE iface[h].kind = "mouse"
    <3>1. told' = [told EXCEPT !.buttons = Held(mice') # {}]
      BY <1>3, <2>2 DEF InputReport, Kind
    <3>2. /\ told' \in [keys : Handle \cup {None}, buttons : BOOLEAN]
          /\ told'.keys = told.keys /\ told'.buttons = (Held(mice') # {})
      BY <1>4, <3>1
    <3> QED
      BY <1>1, <1>6, <3>2 DEF IInv, HeldHasOwner, HeldActive
  <2> QED
    BY <1>4, <2>1, <2>2 DEF Kind
<1>8. Attached' = Attached
  BY <1>5 DEF Attached
<1>9. TypeOK' /\ Finite'
  BY <1>1, <1>5, <1>7, <1>8 DEF IInv, TypeOK, Finite, Attached
<1>10. WorkerHolds' /\ Claimed' /\ HasCallback' /\ Closing'
  BY <1>1 DEF IInv, WorkerHolds, Claimed, HasCallback, Closing
<1>11. WorkersMouse'
  <2>1. CASE worker.handle = h
    BY <1>1, <1>2, <1>5, <2>1 DEF IInv, WorkersMouse, Request
  <2>2. CASE worker.handle # h
    BY <1>1, <1>4, <1>5, <1>7, <2>2 DEF IInv, TypeOK, Worker, WorkersMouse, WorkerHolds, Request, InputReport
  <2> QED
    BY <2>1, <2>2
<1>12. MiceAreActive'
  BY <1>1, <1>5 DEF IInv, MiceAreActive
<1> QED
  BY <1>6, <1>7, <1>9, <1>10, <1>11, <1>12 DEF IInv

-----------------------------------------------------------------------------
\* At the start no interface is known and the worker rests.
LEMMA InitIInv ==
  ASSUME Init
  PROVE  IInv
<1>1. /\ entries = {} /\ Attached = {} /\ mice = [h \in Handle |-> "out"] /\ worker = Idle
      /\ iface = [h \in Handle |-> NoInterface] /\ client = ClientIdle
      /\ told = [keys |-> None, buttons |-> FALSE]
  BY DEF Init, Attached
<1>2. TypeOK /\ Finite
  <2>1. /\ iface \in [Handle -> Interface] /\ worker \in Worker
        /\ bus \in [Device -> BusState]
        /\ ctrl \in [Device -> [flight : BOOLEAN, given : BOOLEAN]]
    BY DEF Init, NoInterface, Interface, Kind, Idle, Worker, BusState, NoTransfer
  <2>2. IsFiniteSet({}) /\ Cardinality({}) = 0
    BY FS_EmptySet
  <2>3. queue \in Seq(Handle) /\ Len(queue) = 0
    BY DEF Init
  <2>4. 0 <= QueueLength /\ 0 <= EntryCount /\ 0 <= MouseCount
    BY CapacityAssumption
  <2>5. recovery \subseteq Flag
    BY DEF Init
  <2>6. client \in Client
    BY <1>1 DEF Client, ClientIdle
  <2> QED
    BY <1>1, <2>1, <2>2, <2>3, <2>4, <2>5, <2>6 DEF TypeOK, Finite, Attached
<1>3. WorkerHolds /\ Claimed /\ HasCallback /\ Closing /\ WorkersMouse
  BY <1>1 DEF ClientIdle, WorkerHolds, Claimed, HasCallback, Closing, WorkersMouse, Idle, NoInterface, Request
<1>4. HeldActive /\ MiceAreActive /\ HeldHasOwner
  BY <1>1 DEF HeldActive, Held, MiceAreActive, HeldHasOwner, NoInterface
<1> QED
  BY <1>2, <1>3, <1>4 DEF IInv

\* IInv is an invariant, whatever the order of the four tasks' steps.
THEOREM Inductive == Spec => []IInv
<1>1. IInv /\ Next => IInv'
  <2> SUFFICES ASSUME IInv, Next
               PROVE  IInv'
    OBVIOUS
  <2>1. CASE ClientTask
    BY <2>1, NewDeviceKeeps, AnnounceKeeps, RemovalKeeps, TransferErrorKeeps,
       InputReportKeeps DEF ClientTask
  <2>2. CASE WorkerTask
    <3>1. CASE RequestDescriptor \/ RequestProtocol \/ RequestIdle
      BY <3>1, SubmitMoves DEF RequestDescriptor, RequestProtocol, RequestIdle, Request
    <3> QED
      BY <2>2, <3>1, ReceiveKeeps, AnswerMoves, AttachKeeps, RejectKeeps, StartKeeps, TrackKeeps,
         UndoKeeps DEF WorkerTask
  <2> QED
    BY <2>1, <2>2, LibraryKeeps, LoopTaskKeeps, HostTaskKeeps DEF Next
<1>2. IInv /\ UNCHANGED vars => IInv'
  BY Elsewhere DEF vars, devices, IInv, TypeOK, Client, Closing
<1> QED
  BY InitIInv, <1>1, <1>2, PTL DEF Spec

\* Types, and the capacities of the queue, the table of entries and the mice.
THEOREM TypeCorrect == Spec => []TypeOK
<1>1. IInv => TypeOK
  BY DEF IInv
<1> QED
  BY <1>1, Inductive, PTL

\* The mice attached are the ones that work, whatever is unplugged or used
\* again while the worker waits (UsbHost.cpp, open()).
THEOREM MiceAreActiveHolds == Spec => []MiceAreActive
<1>1. IInv => MiceAreActive
  BY DEF IInv
<1> QED
  BY <1>1, Inductive, PTL

\* No key or button is left held by an interface that cannot release it
\* (UsbHost.cpp, input() and open()).
THEOREM HeldHasOwnerHolds == Spec => []HeldHasOwner
<1>1. IInv => HeldHasOwner
  BY DEF IInv
<1> QED
  BY <1>1, Inductive, PTL
================================================================================
