# Verification of the HID switcher

TLA+ specifications of the firmware in `src/src`, model-checked with TLC, and
proofs about them checked with TLAPS. `PROJECT.json` lists the runs, the lines
of code each definition stands for, the hazards the properties are aimed at,
one plausible bug for each property, and the theorems.

The board takes the input of a USB or wireless keyboard and mouse and forwards
it over Bluetooth LE to one of three computers. What must not happen: a key or
button that stays down on a computer the user left, input that reaches a
computer it was not meant for, a pairing that moves to another computer, and
input that is silently blocked for good.

## 1. The system

| Component | State | Operations | Talks to |
|---|---|---|---|
| Application (`Application.cpp`) | report queue, overflow and reset flags, current slot | `tick`, `enqueue` from driver tasks, `drainInput`, `select`, serial commands | everything below |
| Barriers and sources (`InputState.h`, `InputSources.h`) | what is held, what is blocked until released, state of each source | `barrier`, `keyboard`, `consumeKeyboard`, merge, clear | Application |
| Router (`MultiHostRouter.h`) | a link per slot: handle, ready, subscriptions, owed releases, pointer position | connect, disconnect, ready, select, releaseAll, service, reorder, try... | BleHid sends its reports |
| BleHid, connections (`BleHid.cpp`) | event queue, peers, configuration in RAM and flash | `handle`, `loop`, `configure`, `forgetComputer`, `selectSlot` | router, NimBLE host task, flash |
| BleHid, input (`KeyboardPending.h`, `MousePending.h`) | reports not yet accepted, last accepted report | push, peek, accepted, clear, `flushInput` | router |
| Edge switching (`EdgeSwitch.h`) and companion | samples per computer, epoch, pending target | sync, sample, motion, finish | companion over GATT |
| Wireless input (`BleInput.cpp`) | busy, cancelled, accept, ready, comparison, saved target | commands, cancel, confirm, worker, callbacks | Application's queue, bond store |
| USB host (`UsbHost.cpp`, `UsbMice.h`, `RecoveryPolicy.h`) | queue of new interfaces, tracked interfaces, attached mice, fault, port power | open, input, service, port recovery | vendored driver, Application's queue |
| HID driver (`hid_host.c`, vendored) | the interfaces and their states, a control transfer for each device | install, open, start, stop, close, class requests, removal | USB host library, `UsbHost` |
| Menu and console (`DeviceMenu.h`, `TextConsole.h`) | page, pending text, owner connection | keys, tick, close | Application, BleHid, BleInput |
| Calibration (`PointerCalibration.h`, `CalibrationFeedback.h`) | stage, slot, computers that remain, counts, mark, the message being typed | start, motion, settle, message, cancel | Application, BleHid, menu |
| Pointer, layout, tuning | positions and scales for each slot | conversions | BleHid, router |
| Serial protocol, web page, CLI | a frame, a pending request | feed, request, answer | Application |
| Reconnect guard, recovery, cadence, health | deadlines | poll | BleHid, UsbHost |

Three kinds of concurrency make the code hard. Callbacks of the Bluetooth host
task and of the USB tasks put events into queues, or set flags, while the loop
task is in the middle of a tick. Everything sent may be refused and is tried
again later, when the routing may have changed. And the table of pairings is
kept in three places, in RAM, in flash and in the bond store of the Bluetooth
stack, that cannot be changed together.

What makes each part correct:

- *router*: held input is on the selected computer or owed a release; the
  release arrives, over the right mouse path and without moving a pointer;
- *pairings*: one slot for a computer, changed by nothing but a completed
  removal, also across crashes; links and peers agree; handles are reused
  safely; a lost callback does not lose a link;
- *input path*: every release gets through, whatever barriers, switches and
  overflows came after the press; what is held at a switch waits;
- *wireless input*: input only over a secured link, nothing held after it is
  gone, a confirmation answers the open prompt, operations end;
- *edge switching*: one push, one switch; samples of an old epoch or of another
  computer do not count;
- *USB host*: the mice attached are the interfaces that are active; what was
  told to be held belongs to an interface that can still report; what nothing
  serves any more is removed by a power cycle, and the port comes back on;
- *calibration*: one mouse path owns the selected computer; the span saved is
  what the computer was sent; no key of a message stays down; a key that was
  down when the menu comes back does nothing in it;
- *menu and serial*: text goes to the computer the session began with; a bad
  frame has no effect.

`PROJECT.json` lists 40 hazards at their lines. One has no property: a crash
during a connection-interval request (`BleHid.cpp:373`) is guarded by a flag in
the flash, and the timing of `tuneInterval()` is not modelled.

## 2. Modules

| Module | Models | Used by |
|---|---|---|
| `InputFocus` | abstract: a focus, held reports, owed releases | refined by `HostRouter` |
| `HostRouter` | `MultiHostRouter` and the handlers of `BleHid` that drive it | runs `router_*` |
| `HostRouterProofs` | the inductive invariant of `HostRouter` and what follows from it | |
| `HostRouterPressProofs` | the action property `PressesGoToSelected` | |
| `HostRouterFocusProofs` | the refinement of `InputFocus`; `ReleasesKeepPosition` and `NoTeleport` | |
| `PairingTable` | events, peers, slots, removal, crash, restart | runs `pairing_*` |
| `PairingTableProofs` | the inductive invariant of `PairingTable` and what follows from it | |
| `InputPath` | a tick of `Application` step by step, with `BleHid`'s pending queues | runs `input_*` |
| `InputPathProofs` | the inductive invariant of `InputPath` and what follows from it | |
| `BleInput` | worker, loop and host task of the wireless input | run `ble_input` |
| `BleInputProofs` | the inductive invariant of `BleInput` and what follows from it | |
| `UsbInput` | `UsbHost`, `UsbMice`, `RecoveryPolicy` and the HID driver | runs `usb_*` |
| `UsbInputProofs` | the inductive invariant of `UsbInput` and what follows from it | |
| `Calibration` | a calibration through the tick, with its message and the menu | run `calibration` |
| `CalibrationProofs` | the inductive invariant of `Calibration` and what follows from it | |
| `MC...` | symmetry sets, subscription masks, setups and devices for TLC | |

### HostRouter

`links`, `selected` and `absoluteOutput` are the fields of `MultiHostRouter`;
`host` is what each computer has been told, the ground truth the firmware's
records are compared with. A report is reduced to whether it holds something
down and, for the absolute mouse, to a position. `service()` is run inside
every operation that runs it in the code (`Serve`). Which sends are accepted is
nondeterministic (`Outcomes`), but follows `notifyOne`: after the first refusal
all further ones of the pass are refused (`BleHid.cpp:403`, taking a pass to be
shorter than the 8 ms of the back-off; the proofs do not use this). Hosts drop
held input when a link goes down. `host[c].at` is where the pointer stands as
far as absolute reports say; a relative report that moves makes it `Unknown`
again, so that an absolute neutral after relative motion is seen as the teleport
it is (`NoTeleport`). Subscription changes before a computer is
authenticated are left out, as are `send()`, which tests alone use, and the
contents of reports.

### PairingTable

The host task connects, secures, reports and loses connections, and appends
events (`Enqueue`, which overflows); the loop handles them (`HandleEvent`),
resets after an overflow, restores links from the live connection and gives up
on stalled ones, in any order, which allows more than the code's fixed order.
`forgetPairing()` is cut between its writes: marker, bond, cleared slot. A
`Crash` keeps the flash and the bond store and starts the boot loop that
completes marked removals. A write to flash happens or not, as a whole. Every
change carries a new `generation`; the bound `Generations` stops a run before
the counter would wrap (2^32 on the device), and `Generations = 1` leaves the
counter out. Taken for granted: pairing needs several exchanges and does not
fit between the deletion of a bond and the following write. The import of the
configuration format of old firmware at first boot is left out.

### InputPath

`pc` walks through `Application::tick`; `DeviceReport`, `FlagOverflow` and
`BleInputLost` are the callbacks, enabled between any two steps (a report
refused by the full queue and the flags set for it are two steps). `flooded` and `resetting` are
the local copies `tick` and `drainInput` take of the flags. A report is reduced
to "this device holds something". The router is summarised by what each
computer holds and is owed. The board, its devices and whether a companion
runs are a `setup` that `Init` picks from `Setups`, so that one run covers
several of them. `uncertain` and `carried` are history: devices
whose last state was lost, or that were down when the menu opened or closed, in
whichever way, or the selection changed. Left
out: calibration (a module of its own) and the recorder (they consume reports
as the menu does), the
absolute pointer's arithmetic, and everything of the companion except that a
push may be recognised or not. `Reselect` says whether the serial commands
`1`, `2`, `3` may name the selected slot, or fail to save; see the findings.
`ButtonsReleased` leaves out a release that an unfinished edge handoff
swallowed (`EdgeSwitch.h:62`).

### BleInput

`busy`, `cancelled`, `accept`, `ready` and `comparison` are the atomics of the
class, `pc` the place of the worker in `run()` and `connect()`, `hpc` that of
the host task within a callback. A closing link still counts as connected, and
the handle is cleared before `onDisconnect` runs. The history `prompt` and
`answer` remembers the open prompt and what was confirmed. A computer
may pair at any time (`PairComputer`), and a store that is full loses some other
bond (`Storing`); `raced` is history, whether one has paired since the worker
looked for room. Taken for granted: the device does not ask for security on its
own; the attempt check and the exchange of a confirmation are one step, since no
whole connection fits between them. Left out: names, messages, decoding, the display of a
passkey, restart.

### UsbInput

Four tasks share the interfaces. The client task of the driver installs a
device, announces its interfaces one by one, delivers its reports and removes it
(`client`); the connection task of
`UsbHost` takes an interface from `_connections` and attaches, asks, starts and
tracks it (`worker` holds its next step and local variables); the host task
cycles the power of the port; the loop asks for a cycle after a fault. A step is
one call of the driver or one critical section of `UsbHost`. A control transfer
is cut in two: the worker waits for it (`waiting`), the transfer completes when
it likes (`CtrlDone`), and the worker may give up before, after which the late
completion leaves the semaphore given and the next request returns early
(`ctrl[d].given`). Whatever such a request answers, `MiceAreActive` has to hold.
A handle is the address of an interface, and may be used again.

The library below the driver is external: it completes the transfers of a
device before it reports the device gone, refuses to claim an interface of a
lost device, and stops an endpoint without failing. `GoneFree` waits while the
worker is inside a transfer of the interface, which the driver does not
guarantee: a call that overlaps the removal would read freed memory, which no
model can follow. The interleavings between calls are all there. The errors with
which the removal of an interface could break off are not: the library returns
none for an interface in these states. Reading the parameters of an interface and opening
it are one step. Devices without HID interface, malformed descriptors and
failed allocations are left out.

### Calibration

`ble` holds the fields of `PointerCalibration`, `CalibrationFeedback` and the
part of `BleHid` they use; `step` walks through a tick: recovery of the port,
Bluetooth events and the releases, BOOT, menu, change of the input epoch,
serial requests, the queue, `serviceCalibration()`, the return of the menu.
Steps with nothing to do are passed over. A calibration of several computers is
the set `remaining`; `First` gives the order of the slots. The connection
revision is reduced to who still holds the current one (`session`). `delivered`
and `discarded` are history: the counts since the first mark that reached the
computer, or that a reset of the Bluetooth input threw away
(`Application.cpp:133`; `docs/absolute-pointer.md:41` does not mention it, the
hazard does).

Simplified: one owed release stands for all reports of a computer; the guard
that drops a silent link is a lost link; the 120 s may be over at any time; the
queue of motion has room, since its reports hold no button; the menu's text is
typed for as long as it likes; of its pages only those that lead to a
calibration are kept, and its mouse buttons are left out, so that it takes more
options than the code. Left out: the shared scale estimated at the end, the
masks of requested and saved slots, the indicator, the build with absolute
reports alone, and the button that BOOT leaves to be released after it cancelled
a calibration. The menu never asks to enable seamless switching afterwards, as
in the code. Shortcuts and edges do not select while a calibration runs, and
otherwise select as `1` to `3` do.

## 3. Runs

| Run | Instance | What it shows |
|---|---|---|
| `router_absolute` | 2 slots, 2 connections, 2 positions, absolute build | held input is accounted for, mouse paths and positions are respected |
| `router_relative` | the same, relative build, with fairness | the router implements `InputFocus`; releases are delivered |
| `pairing_reuse` | 2 computers, 2 slots, one handle, queue of 2, 4 generations | input reaches the owner of the slot; assignments change only by removal; the generation check is enough |
| `pairing_links` | 1 computer, 1 slot, 2 handles, queue of 2, with fairness | links and peers agree; a lost callback does not lose the link |
| `pairing_stale_events` | 1 computer, 2 slots, one handle | finding 3 |
| `input_paths` | five setups: a USB keyboard, or a wireless one, with 2 computers; both keyboards with one computer; a mouse with a companion and 2 computers; keyboard and mouse with one computer | key and button releases get through; duplicates are recognised rightly; carried input waits; an edge handoff is clean |
| `input_reselect`, `input_ble_reset` | | findings 1 and 2 |
| `ble_input` | 2 devices, 1 computer, 2 bonds, 2 codes, 2 attempts, with fairness | all properties of `BleInput` |
| `usb_input` | one place on the bus, for a keyboard or a receiver with two mice, 2 handles, queue of 1, room for 2 entries and 2 mice, with fairness | mice and held input follow the interfaces; the port comes back and dead interfaces are removed |
| `usb_entries` | the same | finding 4 |
| `calibration` | 2 computers that take relative reports, 2 counts | all properties of `Calibration`; the model has no deadlock |

*Bounds.* Two slots are enough for "the selected one and another one"; a third
adds no new relation between them, and the proofs cover every number. One
handle forces reuse, two allow the overlap of an old and a new connection. A
queue of one or two is full often, so overflow is met on short paths. Two
positions tell "kept" from "moved". In `BleInput` two attempts give a prompt
and a later one, two codes a right and a wrong confirmation, and a store of
two bonds is full with one computer and another input, or with a computer that
pairs after the check. A device with two
interfaces makes the two arrive, fail and leave in every order around the
worker's single place; a queue of one drops announcements, which is where dead
interfaces come from. In `Calibration` two computers give a first and a last
one, an origin that is not the one measured, and one that is skipped; two counts
tell motion that was sent from motion that is pending.

*Deadlock.* None of these systems stops on the device. `calibration` checks it;
the other instances are bounded (generations, attempts, devices), so deadlock is
not checked there, and `LinkRestored`, `ReleaseDelivered`, `OperationEnds`,
`PowerReturns` and `DeadIsReset` say that the systems go on.

*Fairness.* The loop task calls `service()`, drains the event queue and looks
at every peer on each tick, so these steps are taken again and again; they may
be disabled in between, hence strong fairness. `ReleaseDelivered` assumes in
addition that a live connection accepts a notification again and again. A
connection that the firmware asked to close does close: the stack guarantees
it by the supervision timeout. In `BleInput` the worker's waits are all
bounded (5 s, 12 s, 30 s) and a callback that has begun ends. In `UsbInput` the
four tasks run on, a control transfer completes (the library's promise), the
back-off of 30 s ends, and a power command is not refused for ever; nothing
forces a device to be plugged in or to report.

*Mutants.* For each property of a passing run a mutated definition stands next
to the original one, marked "Mutant", with which TLC finds the property
violated.

## 4. Findings

1. `input_reselect` (`Application.cpp:192`): `1`, `2` or `3` on the serial line
   raises the release barrier before `select()`. If the slot is already
   selected nothing is released, and the release of a held key is then consumed
   by the barrier: the computer keeps the key down.
2. `input_ble_reset` (`Application.cpp:133`): a Bluetooth report lost to a full
   queue sets both the overflow and the reset flag. The reset, in the same tick,
   rebuilds the input from cleared sources and lifts the barrier that the
   overflow had raised on them.
3. `pairing_stale_events` (`BleHid.cpp:582`): the removal of a pairing blocks
   stale events of peers that have the slot, but not of a connection whose
   first event is still queued: the computer is paired again while its
   connection ends.
4. `usb_entries` (`UsbHost.cpp:124`): a device that goes away between the start
   of its interface and `track()` leaves an entry for a handle that is gone. It
   is reported as active and takes one of 16 places, though
   `docs/usb-diagnostics.md:25` says that only started interfaces do.

Two further observations are hazards with a note rather than findings, since no
document says otherwise. A handoff that is not completed can swallow a button
release (`EdgeSwitch.h:62`). And the bond store is checked long before the bond
is stored (`BleInput.cpp:121`): a computer that pairs in between fills it, and
the stack evicts a bond. `BondsAreKept` says that this is the only way to lose
one; `docs/ble-input.md` asks to finish pairing an input first.

## 5. Proofs

Every safety property that a passing run checks, invariant or action property,
and the refinement of `InputFocus` is a theorem: it holds for every value of the
constants, and TLC shows on a small instance that it is not vacuous. Each
strengthened invariant `IInv` named below was checked by TLC on the instances of
section 3 before it was proved.

The theorems rest on the `ASSUME`s of the modules: capacities are at least one,
the values that stand for "none" are none of the values they are told from, sets
that are written down in the `.cfg` contain what their names say. One says more:
`BleInputAssumption` takes devices and computers to be finitely many, so that
the bonds can be counted.

*Router.* `HostRouterProofs` proves, for every number of slots, connections and
positions and for both builds, `TypeOK`, `InputAccounted`, `ButtonsTracked` and
`OldPathOwed`. None of the last three is inductive by itself. The firmware skips
the release of the absolute mouse when its record says that no button is down,
so `InputAccounted` needs `ButtonsTracked`; a report of the old mouse path would
escape both without `OldPathOwed`; and all three need that no connection is in
two slots. `IInv` is the conjunction of these facts over connections that are
open, that is, live and not closing. It is stated over the tables as parameters
(`Good(links, host, selected, mode, open)`), so that each operation is a
composition of a few functions, each with a lemma: serving keeps `Good`
(`ServeKeeps`), owing everything keeps it (`OweKeeps`) and frees the choice of
the selected slot and of the mouse path (`OwingFrees`), disconnecting keeps it
for the connections that remain (`DisconnectKeeps`). One lemma for each action
follows from these, and `Inductive` puts them together.

`HostRouterPressProofs` proves the action property `PressesGoToSelected` from
the same invariant. What the environment and the routing do only shrinks what
the computers hold (`Shrinks`: every routing step is one or two passes of
`service()`), so a press is a step of forwarding; there `TellPresses` gives the
computer and the report, and the guard `CanSend` the absence of a debt.

`HostRouterFocusProofs` proves `Spec => FocusSpec`, that the router implements
`InputFocus` step by step, and with the same lemmas `ReleasesKeepPosition` and
`NoTeleport`. A step either forwards one report (`Forwards`) or is `Quiet`:
nothing is pressed, what stays held stays owed (`Calms`), no known pointer moves
(`Steady`). A quiet step is a `Settle` of `InputFocus`: that the computer which
loses the focus is owed all it still holds is `InputAccounted` of the state
after the step, not of the one before (`CalmIsSettle`). A press is a `Press`,
and the debt its guard excludes in the one slot is excluded in all, since no
connection is in two. That a neutral report moves no pointer needs the invariant
to know where the pointers are: the link of an open computer carries the
position of its pointer, where absolute reports tell it (`Placed`); a connection
that is gone has none (`Absent`). `NoTeleport` rests on the same lemmas: while
output is relative no step gives a position to a pointer that has none, whether
it has not had one yet or has moved relatively since, unless the computer holds
an absolute button.

*Pairings.* `PairingTableProofs` proves the four invariants of `PairingTable`
and `SlotsChangeOnlyByRemoval`, for any number of slots, computers and handles
and any capacity of the queue and of the table of peers. `IInv` ties the tables
together between any two steps, crashes included: flash holds what memory holds
(`Written`); a peer that has a slot and is not being forgotten is the slot's
owner, the slot being marked only while the loop task has not reached the peer
yet (`PeersMatchSlots`); a removal that is about to clear a slot has marked it
and deleted its bond (`RemovalMarked`); what a client has read of the configuration is not newer than it
(`SnapshotOlder`), and identical at the same generation. The router's links
follow from the peers (`LinksMatchPeers`).

*Input path.* `InputPathProofs` proves the invariants of `InputPath`,
`CarriedInputWaits` and `HandoffIsClean`, for every board, set of devices,
length of the queue and interleaving with the driver tasks. A press is followed
on its way. What the driver last said of a device is in the queue, in the
sources, or lost with a reset to come (`QueueTells`, `SourcesTell`); the input
state is the merge of the sources, or it is blocked (`Merges`); what is on its
way to the computer is held in the input state (`LatestHeld`); what BleHid takes
for the last report is what the selected computer holds (`MenuState`), and every
other computer is owed the release of what it holds (`Whole`). With everything up
and nothing on its way these empty one another in turn. `KeysReleasedHolds` has
the hypothesis `~Reselect`: with `Reselect`, `LatestHeld` and the theorem are
false, which is finding 1. All other theorems of the module hold either way.

*Wireless input.* `BleInputProofs` proves the five invariants of `BleInput` and
the action property `BondsAreKept` for any devices, codes, number of attempts and
capacity of the bond store. The
three tasks share flags without a lock, so `IInv` says what each of them relies
on at each of its places: that one operation runs at a time (`OneOperation`),
that no input is taken from the release in `connect()` to its last check
(`Connecting`), what a callback that has begun may expect of the link
(`Callbacks`), whose code is on display (`PromptShown`), that after a cancel
only a worker still under way has the link open (`CancelCloses`), and that
pairing which has begun finds its bond or room, or that a computer has paired
since (`RoomToPair`). The last gives `BondsAreKept`: with room, storing a bond
evicts none (`StoringFits`).

*USB.* `UsbInputProofs` proves `MiceAreActive` and `HeldHasOwner` for any number
of devices, any interfaces and addresses and any capacities. The worker goes on
with a handle whose interface may be gone and whose address may be in use again.
What saves it is that an interface which is ready is the one it claimed
(`Claimed`), because an address that is used again begins as idle; that whoever
ends an opened interface tells `UsbHost` (`HasCallback`); and, for each of its
steps, whether the mouse of its handle is attached (`WorkersMouse`).

*Calibration.* `CalibrationProofs` proves the five invariants of `Calibration`
for every set of computers among the three slots, every choice of those that
take relative reports and every bound on the counts. `PathIsOwned` is nearly
inductive; the others are not. The equality of `SpanIsDelivered` at the second
mark needs that the capture's session still holds, and a session is only worth
something if the selected computer is the one measured and has its link
(`Held`): else `BleEnd` would throw away motion that stays counted. While the
session is over but the capture not yet cancelled, counts and deliveries may
part, but the deliveries never exceed the counts (`Span`), which is what keeps
them in range. A key that was carried into the menu is one the menu has seen
(`CarriedSeen`), which holds because the menu is closed while a calibration runs
(`MenuAway`) and tracks keys also while closed. `Good` joins what concerns
`ble`; `Alike` and `IdleGood` are the two ways it is preserved without looking
at every part, and each operation on `ble` (release, select, cancel, begin,
continue, announce) has a lemma that its callers use.

*Only model-checked:* the liveness properties `ReleaseDelivered`,
`LinkRestored`, `OperationEnds`, `CancelTakesEffect`, `PowerReturns` and
`DeadIsReset`, since liveness under fairness, `ENABLED` and induction over data
are out of the prover's reach; and the counterexamples of section 4, which
refute what they state on an instance. The proofs are about the modules: they
say nothing of the abstractions of section 2.

## 6. Not modelled yet, and the plan

In order of importance:

1. `EdgeSwitch` with the companion: samples, epochs, freshness and cooldown, a
   handoff against a disconnection; abstract promise "one push, one switch"
   (`InputPath` has the handoff as the input path sees it);
2. `DeviceMenu` and `TextConsole` beyond what `Calibration` has of them: pages
   that start and cancel input pairing, the text and its owner;
3. serial frames and the client in `web/serial.mjs`: timeouts and late answers;
4. pure operators: clamping and rounding of `AbsolutePointer`, `MonitorLayout`,
   `PointerTuning`, `SharedPointerScale`; matching of shortcuts; the pending
   queues with their contents;
5. deadlines: `ReconnectGuard`, the shared back-off of `notifyOne`.

Theorems planned: none for the modules there are, but for those of any property
added to them; for a module of `EdgeSwitch`, that a push selects at most once.

Left out for good: report descriptors and bit fields (byte strings that TLC
cannot enumerate usefully), the Bluetooth stack and the USB host library
(modelled by what their callers see), the parts of the vendored HID driver the
firmware does not use, LEDs, statistics and diagnostics, the web
page's presentation, build scripts, and the case.

## 7. Running

    tlc -config MCHostRouterAbsolute.cfg MCHostRouter
    tlc -config MCBleInput.cfg BleInput
    tlapm HostRouterProofs.tla

and so on for each module `...Proofs`; the two largest, `CalibrationProofs` and
`InputPathProofs`, take some minutes each from nothing. The other runs pair each `MC<Module><Name>.cfg` with `MC<Module>.tla`. Each
takes less than three minutes with two workers.
