------------------------------- MODULE UsbInput -------------------------------
(***************************************************************************)
(* Keyboards and mice on the USB port: UsbHost with UsbMice and            *)
(* RecoveryPolicy, and the HID driver hid_host.c below it.                 *)
(*                                                                         *)
(* Four tasks share the interfaces.  The driver's client task installs and *)
(* removes devices and delivers reports; the worker of UsbHost opens new   *)
(* interfaces; the host task cycles the power of the port; the loop asks   *)
(* for a cycle after a fault.  A step is one call of the driver or one     *)
(* critical section of UsbHost; the worker's steps interleave with the     *)
(* client's, also with those that end a device.  A handle is the address   *)
(* of an interface's memory, and may be used again.  The USB host library  *)
(* below the driver is external.                                           *)
(***************************************************************************)
EXTENDS Naturals, Sequences, FiniteSets

CONSTANTS
    Device,         \* places on the bus where a HID device can be
    Models,         \* the devices there are: sequences of the kinds of their interfaces
    Handle,         \* addresses an interface may get
    None,           \* no device or handle
    QueueLength,    \* capacity of _connections (10 on the device)
    EntryCount,     \* UsbHost::_interfaces (16)
    MouseCount      \* UsbMice::Capacity (4)

\* A boot keyboard, or any other interface: its descriptor tells if it is a mouse.
Kind == {"keyboard", "mouse"}

ASSUME NoneAssumption == None \notin Device \cup Handle
ASSUME ModelsAssumption == Models \subseteq Seq(Kind) \ {<<>>}
ASSUME CapacityAssumption == {QueueLength, EntryCount, MouseCount} \subseteq Nat \ {0}

VARIABLES
    bus,       \* the host library's view of each device
    iface,     \* hid_ifaces_tailq: the interface at each address
    ctrl,      \* the control transfer of each device and its semaphore
    client,    \* the client task: the interfaces it has yet to announce, the
               \* device it removes, the interface it closes
    worker,    \* connectionTask: its next step and local variables
    queue,     \* UsbHost::_connections
    entries,   \* UsbHost::_interfaces: the handles tracked
    mice,      \* UsbHost::_mice: the buttons of each attached mouse
    told,      \* what the sink was told last is held down
    recovery   \* set flags of RecoveryPolicy and of UsbHost's reset of the port

devices == <<bus, ctrl>>
vars == <<devices, iface, client, worker, queue, entries, mice, told, recovery>>

\* "new": enumerated, not opened by the driver yet; "lost": gone or without
\* power, but still opened by the driver.
BusState == {"absent", "new", "open", "lost"}

\* state: hid_iface_state_t; cb: user_cb is set; dead: after a failure nothing
\* will serve the interface again.
NoInterface == [state |-> "none", device |-> None, kind |-> "mouse", cb |-> FALSE, dead |-> FALSE]
Interface == [state : {"none", "idle", "ready", "active", "wait"}, device : Device \cup {None},
              kind : Kind, cb : BOOLEAN, dead : BOOLEAN]

Client == [announce : Seq(Handle), device : Device \cup {None}, handle : Handle \cup {None}]
ClientIdle == [announce |-> <<>>, device |-> None, handle |-> None]

Idle == [step |-> "idle", handle |-> None, kind |-> "mouse", waiting |-> FALSE]
Request == {"descriptor", "protocol", "rate"}
Worker == [step : {"idle", "attach", "reject", "start", "track", "undo"} \cup Request,
           handle : Handle \cup {None}, kind : Kind, waiting : BOOLEAN]

\* _fault; RecoveryPolicy::pending and its 30 s after an attempt; _resetRequested; _portOff.
Flag == {"fault", "pending", "cooling", "requested", "off"}

InList(h) == iface[h].state # "none"
Free == {h \in Handle : ~InList(h)}

-----------------------------------------------------------------------------
(***************************************************************************)
(* The host library and the physical devices (external).                   *)
(***************************************************************************)
quietVars == <<iface, client, worker, queue, entries, mice, told>>

\* A device without power or plug is lost: one that no client opened is freed.
Lose(set) == [d \in Device |-> IF d \notin set THEN bus[d]
                               ELSE IF bus[d] \in {"open", "lost"} THEN "lost" ELSE "absent"]

\* A device is attached, or still is when the power returns.
Enumerate(d) ==
    /\ bus[d] = "absent" /\ "off" \notin recovery
    /\ bus' = [bus EXCEPT ![d] = "new"]
    /\ UNCHANGED <<ctrl, recovery, quietVars>>

Unplug(d) ==
    /\ bus[d] \in {"new", "open"}
    /\ bus' = Lose({d})
    /\ UNCHANGED <<ctrl, recovery, quietVars>>

\* ctrl_xfer_done(), late or because the device is lost.
CtrlDone(d) ==
    /\ client = ClientIdle
    /\ ctrl[d].flight
    /\ ctrl' = [ctrl EXCEPT ![d] = [flight |-> FALSE, given |-> TRUE]]
    /\ UNCHANGED <<bus, recovery, quietVars>>

-----------------------------------------------------------------------------
(***************************************************************************)
(* The client task: client_event_cb() and in_xfer_done().                  *)
(***************************************************************************)
\* hid_host_add_interface(): the addresses that new interfaces may get.
Seats == {at \in UNION {[DOMAIN kinds -> Free] : kinds \in Models} :
            \A i, j \in DOMAIN at : i # j => at[i] # at[j]}

\* hid_host_interface_list_create()
Listed(d, kinds, at) ==
    [h \in Handle |->
        IF \E i \in DOMAIN at : at[i] = h
        THEN LET i == CHOOSE j \in DOMAIN at : at[j] = h
             IN [state |-> "idle", device |-> d, kind |-> kinds[i], cb |-> FALSE, dead |-> FALSE]
        ELSE iface[h]]

\* hid_host_install_device(): a new semaphore, no transfer.
NoTransfer == [flight |-> FALSE, given |-> FALSE]

\* hid_host_device_init_attempt()
NewDevice(d) ==
    /\ client = ClientIdle /\ bus[d] = "new"
    /\ bus' = [bus EXCEPT ![d] = "open"]
    /\ ctrl' = [ctrl EXCEPT ![d] = NoTransfer]
    /\ \E kinds \in Models, at \in Seats :
         /\ DOMAIN at = DOMAIN kinds
         /\ iface' = Listed(d, kinds, at)
         /\ client' = [client EXCEPT !.announce = at]
    /\ UNCHANGED <<worker, queue, entries, mice, told, recovery>>

\* Mutant: a queue that is full takes one handle more.
RoomOffByOne == Len(queue) <= QueueLength

\* Whether _connections takes another handle.
Room == Len(queue) < QueueLength

\* hid_host_notify_interface_connected() and connected(), for one interface; to
\* drop its event is a fault, and it is dead unless the worker has opened it
\* already, for an older event of the same address.
Announce ==
    /\ client.announce # <<>>
    /\ client' = [client EXCEPT !.announce = Tail(@)]
    /\ LET h == Head(client.announce) IN
         \/ /\ Room
            /\ queue' = Append(queue, h)
            /\ UNCHANGED <<iface, recovery>>
         \/ /\ ~Room
            /\ iface' = [iface EXCEPT ![h].dead = @ \/ iface[h].state = "idle"]
            /\ recovery' = recovery \cup {"fault"}
            /\ UNCHANGED queue
    /\ UNCHANGED <<devices, worker, entries, mice, told>>

\* DEV_GONE; the library has completed the transfers of the device before.
GoneBegin(d) ==
    /\ client = ClientIdle /\ bus[d] = "lost" /\ ~ctrl[d].flight
    /\ client' = [client EXCEPT !.device = d]
    /\ UNCHANGED <<devices, iface, worker, queue, entries, mice, told, recovery>>

\* UsbMice::buttons(), and detach()
Held(m) == {h \in Handle : m[h] = "held"}
Detached(h) == [mice EXCEPT ![h] = "out"]

\* Mutant: the last position of a mouse that leaves is not sent.
ForgetQuietly(h) ==
    /\ entries' = entries \ {h}
    /\ mice' = Detached(h)
    /\ told' = [told EXCEPT !.keys = IF iface[h].kind = "keyboard" THEN None ELSE @]

\* UsbHost::input() for a disconnection, up to the close.
Forget(h) ==
    /\ entries' = entries \ {h}
    /\ mice' = Detached(h)
    /\ told' = [keys |-> IF iface[h].kind = "keyboard" THEN None ELSE told.keys,
                buttons |-> IF mice[h] # "out" THEN Held(mice') # {} ELSE told.buttons]

\* hid_host_interface_shutdown(): an interface that was ever opened still has
\* its callback and is reported.
ShutDown(h) ==
    /\ iface' = [iface EXCEPT ![h].state = "wait"]
    /\ IF iface[h].cb THEN Forget(h) ELSE UNCHANGED <<entries, mice, told>>

\* hid_host_device_disconnected(): the next interface is closed and shut down.
GoneNotify ==
    /\ client.device # None /\ client.handle = None
    /\ \E h \in Handle :
         /\ InList(h) /\ iface[h].device = client.device
         /\ client' = [client EXCEPT !.handle = h]
         /\ ShutDown(h)
    /\ UNCHANGED <<devices, worker, queue, recovery>>

\* The close that follows removes the interface, unless the worker already did.
\* The worker has left the call in which it waits for this interface.
GoneFree ==
    /\ client.handle # None
    /\ ~(worker.waiting /\ worker.handle = client.handle)
    /\ client' = [client EXCEPT !.handle = None]
    /\ iface' = [iface EXCEPT ![client.handle] = NoInterface]
    /\ UNCHANGED <<devices, worker, queue, entries, mice, told, recovery>>

\* hid_host_uninstall_device()
Uninstall ==
    /\ client.device # None /\ client.handle = None
    /\ \A h \in Handle : ~(InList(h) /\ iface[h].device = client.device)
    /\ client' = [client EXCEPT !.device = None]
    /\ bus' = [bus EXCEPT ![client.device] = "absent"]
    /\ UNCHANGED <<ctrl, iface, worker, queue, entries, mice, told, recovery>>

\* in_xfer_done() comes for this interface and its transfer is launched again.
Transferring(h) ==
    /\ client = ClientIdle
    /\ iface[h].state = "active" /\ ~iface[h].dead /\ bus[iface[h].device] = "open"

\* UsbMice::decode(); a handle that is not attached is ignored.
Decoded(h, down) ==
    IF mice[h] = "out" THEN mice ELSE [mice EXCEPT ![h] = IF down THEN "held" ELSE "up"]

\* UsbHost::input(): the mice are merged, the keyboards overwrite each other.
InputReport(h, down) ==
    /\ Transferring(h)
    /\ mice' = Decoded(h, down)
    /\ told' = IF iface[h].kind = "keyboard"
               THEN [told EXCEPT !.keys = IF down THEN h ELSE None]
               ELSE IF mice[h] # "out" THEN [told EXCEPT !.buttons = Held(mice') # {}] ELSE told
    /\ UNCHANGED <<devices, iface, client, worker, queue, entries, recovery>>

\* Any other transfer status: the transfer is not launched again.
TransferError(h) ==
    /\ Transferring(h)
    /\ iface' = [iface EXCEPT ![h].dead = TRUE]
    /\ recovery' = recovery \cup {"fault"}
    /\ UNCHANGED <<devices, client, worker, queue, entries, mice, told>>

-----------------------------------------------------------------------------
(***************************************************************************)
(* The worker: connectionTask and UsbHost::open().                         *)
(***************************************************************************)
\* hid_host_disable_interface() and hid_host_interface_release_and_free_transfer(),
\* or the removal of an interface that waits for it.
Closed(h) == [iface EXCEPT ![h] = IF @.state \in {"ready", "active"} THEN [@ EXCEPT !.state = "idle"]
                                  ELSE IF @.state = "wait" THEN NoInterface ELSE @]

\* hid_host_device_open() refuses an interface that is not idle.
CanOpen(h) == InList(h) /\ iface[h].state = "idle"

\* hid_host_interface_claim_and_prepare_transfer(); the callback is set.
Claim(h) ==
    /\ bus[iface[h].device] = "open"
    /\ iface' = [iface EXCEPT ![h].state = "ready", ![h].cb = TRUE, ![h].dead = FALSE]

\* connectionTask() and the first half of open(), with a copy of the parameters.
\* An interface that cannot be claimed, for want of channels or memory, is left alone.
Receive ==
    /\ worker.step = "idle" /\ queue # <<>>
    /\ queue' = Tail(queue)
    /\ LET h == Head(queue) IN
         \/ /\ CanOpen(h) /\ Claim(h)
            /\ worker' = [step |-> IF iface[h].kind = "keyboard" THEN "protocol" ELSE "descriptor",
                          handle |-> h, kind |-> iface[h].kind, waiting |-> FALSE]
         \/ UNCHANGED <<iface, worker>>
    /\ UNCHANGED <<devices, client, entries, mice, told, recovery>>

\* What open() does after a request; only the result of the first matters.
After(ok) ==
    [worker EXCEPT !.waiting = FALSE,
                   !.step = IF @ = "descriptor" THEN (IF ok THEN "attach" ELSE "reject")
                            ELSE IF @ = "protocol" /\ worker.kind = "keyboard" THEN "rate" ELSE "start"]

\* hid_control_transfer(), up to the wait; the lock of the device is free, as
\* only the worker makes requests.
Submit(h) ==
    /\ IF bus[iface[h].device] = "open" /\ ~ctrl[iface[h].device].flight
       THEN /\ ctrl' = [ctrl EXCEPT ![iface[h].device].flight = TRUE]
            /\ worker' = [worker EXCEPT !.waiting = TRUE]
       ELSE worker' = After(FALSE) /\ UNCHANGED ctrl
    /\ UNCHANGED <<bus, iface, client, queue, entries, mice, told, recovery>>

Refuse ==
    /\ worker' = After(FALSE)
    /\ UNCHANGED <<devices, iface, client, queue, entries, mice, told, recovery>>

\* hid_host_get_report_descriptor()
RequestDescriptor ==
    /\ worker.step = "descriptor" /\ ~worker.waiting
    /\ IF iface[worker.handle].state \in {"ready", "active"} THEN Submit(worker.handle) ELSE Refuse

\* hid_class_request_set_protocol()
RequestProtocol ==
    /\ worker.step = "protocol" /\ ~worker.waiting
    /\ IF InList(worker.handle) THEN Submit(worker.handle) ELSE Refuse

\* hid_class_request_set_idle()
RequestIdle ==
    /\ worker.step = "rate" /\ ~worker.waiting
    /\ IF InList(worker.handle) THEN Submit(worker.handle) ELSE Refuse

\* The semaphore is taken, whichever transfer gave it.
Answer ==
    /\ worker.waiting /\ ctrl[iface[worker.handle].device].given
    /\ ctrl' = [ctrl EXCEPT ![iface[worker.handle].device].given = FALSE]
    /\ worker' = After(TRUE)
    /\ UNCHANGED <<bus, iface, client, queue, entries, mice, told, recovery>>

\* After 5 s; the transfer that is flushed completes by itself.
Timeout ==
    /\ worker.waiting /\ ~ctrl[iface[worker.handle].device].given
    /\ worker' = After(FALSE)
    /\ UNCHANGED <<devices, iface, client, queue, entries, mice, told, recovery>>

\* UsbMice::attach()
CanAttach(h) == mice[h] = "out" /\ Cardinality({x \in Handle : mice[x] # "out"}) < MouseCount

\* The descriptor may be that of a mouse; a boot mouse is asked for its protocol.
Attach ==
    /\ worker.step = "attach"
    /\ \/ /\ CanAttach(worker.handle)
          /\ mice' = [mice EXCEPT ![worker.handle] = "up"]
          /\ \E step \in {"protocol", "start"} : worker' = [worker EXCEPT !.step = step]
       \/ /\ worker' = [worker EXCEPT !.step = "reject"]
          /\ UNCHANGED mice
    /\ UNCHANGED <<devices, iface, client, queue, entries, told, recovery>>

Reject ==
    /\ worker.step = "reject"
    /\ iface' = Closed(worker.handle)
    /\ worker' = Idle
    /\ UNCHANGED <<devices, client, queue, entries, mice, told, recovery>>

\* hid_host_device_start(): the interface is active even when the submit fails.
Start ==
    /\ worker.step = "start"
    /\ LET h == worker.handle
           started == iface[h].state = "ready"
       IN \E ok \in BOOLEAN :
            /\ ok => started /\ bus[iface[h].device] = "open"
            /\ iface' = IF started THEN [iface EXCEPT ![h].state = "active", ![h].dead = ~ok] ELSE iface
            /\ worker' = [worker EXCEPT !.step = IF ok THEN "track" ELSE "undo"]
    /\ UNCHANGED <<devices, client, queue, entries, mice, told, recovery>>

\* track(): a critical section of its own, after the first reports may have come.
Track ==
    /\ worker.step = "track"
    /\ entries' = IF Cardinality(entries) < EntryCount THEN entries \cup {worker.handle} ELSE entries
    /\ worker' = Idle
    /\ UNCHANGED <<devices, iface, client, queue, mice, told, recovery>>

\* Mutant: the mouse stays attached when its start fails.
UndoKeepsMouse ==
    /\ worker.step = "undo"
    /\ iface' = Closed(worker.handle)
    /\ recovery' = recovery \cup {"fault"}
    /\ worker' = Idle
    /\ UNCHANGED <<devices, client, queue, entries, mice, told>>

\* The start failed: detach, close and ask for a recovery.
Undo ==
    /\ worker.step = "undo"
    /\ mice' = Detached(worker.handle)
    /\ iface' = Closed(worker.handle)
    /\ recovery' = recovery \cup {"fault"}
    /\ worker' = Idle
    /\ UNCHANGED <<devices, client, queue, entries, told>>

-----------------------------------------------------------------------------
(***************************************************************************)
(* The loop and the host task: UsbHost::service(), servicePortRecovery().  *)
(***************************************************************************)
faultVars == <<ctrl, iface, client, worker, queue, entries, mice>>

\* service(): the fault is latched for the policy.
Latched == IF "fault" \in recovery THEN (recovery \ {"fault"}) \cup {"pending"} ELSE recovery

\* Mutant: a fault during the back-off is dropped.
PolledForgetful(attempt) ==
    IF attempt THEN (Latched \ {"pending"}) \cup {"cooling", "requested"} ELSE Latched \ {"pending"}

\* RecoveryPolicy::poll() and the request: attempts are 30 s apart.
Polled(attempt) ==
    IF attempt THEN (Latched \ {"pending"}) \cup {"cooling", "requested"} ELSE Latched

\* service() and the loop that calls it: with an attempt Application clears
\* source 0 and discards its input.
Service ==
    LET attempt == "pending" \in Latched /\ "cooling" \notin Latched
    IN /\ recovery' = Polled(attempt)
       /\ told' = IF attempt THEN [keys |-> None, buttons |-> FALSE] ELSE told
       /\ UNCHANGED <<bus, faultVars>>

BackoffEnds ==
    /\ "cooling" \in recovery
    /\ recovery' = recovery \ {"cooling"}
    /\ UNCHANGED <<bus, told, faultVars>>

\* The 'u' command.
RequestRecovery ==
    /\ recovery' = recovery \cup {"fault"}
    /\ UNCHANGED <<bus, told, faultVars>>

\* A refused command is repeated 100 ms later.
PowerOff ==
    /\ "requested" \in recovery /\ "off" \notin recovery
    /\ recovery' = (recovery \ {"requested"}) \cup {"off"}
    /\ bus' = Lose(Device)
    /\ UNCHANGED <<told, faultVars>>

\* Mutant: the power stays off while another cycle is requested.
PowerOnUnrequested ==
    /\ {"off", "requested"} \cap recovery = {"off"} /\ \A d \in Device : bus[d] = "absent"
    /\ recovery' = recovery \ {"off"}
    /\ UNCHANGED <<bus, told, faultVars>>

\* At least 100 ms later, when the library has no device left.
PowerOn ==
    /\ "off" \in recovery /\ \A d \in Device : bus[d] = "absent"
    /\ recovery' = recovery \ {"off"}
    /\ UNCHANGED <<bus, told, faultVars>>

-----------------------------------------------------------------------------
Init ==
    /\ bus = [d \in Device |-> "absent"]
    /\ iface = [h \in Handle |-> NoInterface]
    /\ ctrl = [d \in Device |-> NoTransfer]
    /\ client = ClientIdle
    /\ worker = Idle
    /\ queue = <<>>
    /\ entries = {}
    /\ mice = [h \in Handle |-> "out"]
    /\ told = [keys |-> None, buttons |-> FALSE]
    /\ recovery = {}

Library == \E d \in Device : Enumerate(d) \/ Unplug(d) \/ CtrlDone(d)

Removal == (\E d \in Device : GoneBegin(d)) \/ GoneNotify \/ GoneFree \/ Uninstall

ClientTask ==
    \/ \E d \in Device : NewDevice(d)
    \/ Announce \/ Removal
    \/ \E h \in Handle : TransferError(h) \/ \E down \in BOOLEAN : InputReport(h, down)

WorkerTask ==
    \/ Receive \/ RequestDescriptor \/ RequestProtocol \/ RequestIdle \/ Answer \/ Timeout
    \/ Attach \/ Reject \/ Start \/ Track \/ Undo

LoopTask == Service \/ BackoffEnds \/ RequestRecovery

HostTask == PowerOff \/ PowerOn

Next == Library \/ ClientTask \/ WorkerTask \/ LoopTask \/ HostTask

Spec == Init /\ [][Next]_vars

\* Every task runs on: FreeRTOS schedules all four, and each has its watchdog or
\* is the driver's.  Transfers complete, and a power command is not refused for
\* ever.  Nothing forces a device to be plugged in, or the input to come.
FairSpec ==
    /\ Spec
    /\ WF_vars(Announce \/ Removal) /\ WF_vars(WorkerTask) /\ WF_vars(HostTask)
    /\ WF_vars(Service) /\ WF_vars(BackoffEnds)
    /\ \A d \in Device : WF_vars(CtrlDone(d))

-----------------------------------------------------------------------------
\* Every variable stays in its range; the queue, the table of entries and the
\* mice keep within their capacity.
TypeOK ==
    /\ bus \in [Device -> BusState]
    /\ iface \in [Handle -> Interface]
    /\ ctrl \in [Device -> [flight : BOOLEAN, given : BOOLEAN]]
    /\ client \in Client
    /\ worker \in Worker
    /\ queue \in Seq(Handle) /\ Len(queue) <= QueueLength
    /\ entries \subseteq Handle /\ Cardinality(entries) <= EntryCount
    /\ mice \in [Handle -> {"out", "up", "held"}]
    /\ Cardinality({h \in Handle : mice[h] # "out"}) <= MouseCount
    /\ told \in [keys : Handle \cup {None}, buttons : BOOLEAN]
    /\ recovery \subseteq Flag

\* A mouse is attached exactly while its interface is active, whatever was
\* unplugged, used again or reset while the worker waited for the device: else
\* a mouse that is gone holds one of the four places and its buttons, or one
\* that works is ignored.  Only the worker is ahead, between attach and start.
MiceAreActive ==
    \A h \in Handle :
        \/ worker.handle = h
        \/ (mice[h] # "out") = (iface[h].state = "active" /\ iface[h].kind = "mouse")

\* What the sink was told is held down belongs to an interface that can still
\* report or whose disconnection will: no key or button is left behind by an
\* unplugged device, a failed start or a cycle of the port.
HeldHasOwner ==
    /\ told.keys # None => iface[told.keys].state = "active" /\ iface[told.keys].kind = "keyboard"
    /\ told.buttons => \E h \in Held(mice) : iface[h].state = "active"

\* docs/usb-diagnostics.md:25 "Only successfully started HID interfaces occupy
\* application tracking entries": the worker records an interface after it
\* started it, and the interface may be gone by then.
EntriesAreActive == \A h \in entries : client.handle = h \/ iface[h].state = "active"

\* The port is not left without power.
PowerReturns == ("off" \in recovery) ~> ("off" \notin recovery)

\* An interface that nothing serves any more, its announcement dropped, its
\* start or its transfer failed, is removed by a cycle of the port, also when
\* the fault came during another recovery or its back-off.
DeadIsReset == \A h \in Handle : iface[h].dead ~> ~iface[h].dead
=============================================================================
