---------------------------- MODULE PairingTable ----------------------------
(***************************************************************************)
(* Pairings and connections of the computers: the part of BleHid that      *)
(* turns Bluetooth events into peers, slot assignments and router links,   *)
(* removes pairings in crash-safe steps and reorders the slots.            *)
(*                                                                         *)
(* Two tasks share the state.  The Bluetooth host task owns `stack` and    *)
(* `bonds` and appends to the event queue; the Arduino loop task owns the  *)
(* rest.  One action is one event handled, one check of the loop, one      *)
(* command, or, for the removal of a pairing, one step between two writes  *)
(* to flash: the host task and a crash may come between any two of them.   *)
(* Subscriptions and reports are left to module HostRouter.                *)
(***************************************************************************)
EXTENDS Naturals, Sequences, FiniteSets

CONSTANTS
    SlotCount,     \* Board::slots
    Computer,      \* computers, known by their identity address
    NoComputer,    \* an address that resolves to no computer
    Handle,        \* connection handles, reused after a disconnection
    NoHandle,      \* MultiHostRouter::NONE
    QueueLength,   \* capacity of _events (32 on the device)
    PeerCount,     \* size of _peers (3 on the device)
    Generations,   \* values of SlotConfig::generation before it wraps
    NoPeer, NoLink, NoSnapshot

Slot == 0 .. SlotCount - 1
NoSlot == SlotCount            \* Peer::slot = -1

ASSUME SlotCountAssumption == SlotCount \in Nat \ {0}
ASSUME ComputerAssumption == NoComputer \notin Computer
ASSUME HandleAssumption == NoHandle \notin Handle
ASSUME QueueAssumption == QueueLength \in Nat \ {0}
ASSUME PeerCountAssumption == PeerCount \in Nat \ {0}
ASSUME GenerationsAssumption == Generations \in Nat \ {0}

VARIABLES
    config,    \* BleHid::_config
    disk,      \* the "config" record in flash
    peers,     \* BleHid::_peers, by handle
    links,     \* handle of each link of the router
    queue,     \* BleHid::_events
    overflow,  \* BleHid::_eventOverflow
    task,      \* what the loop task is doing
    stack,     \* connections of the Bluetooth stack, by handle
    bonds,     \* computers in the bond store of the stack
    snapshot   \* the configuration a client of configure() has read

vars == <<config, disk, peers, links, queue, overflow, task, stack, bonds, snapshot>>
ramVars == <<peers, links, queue, overflow>>
radioVars == <<stack, bonds>>

\* assigned: 0 free, 1 paired, 2 marked for removal.
SlotRecord == [assigned : 0 .. 2, owner : Computer \cup {NoComputer}]
FreeSlot == [assigned |-> 0, owner |-> NoComputer]

SlotConfig == [slots : [Slot -> SlotRecord], selected : Slot,
               generation : 0 .. Generations - 1]

Peer == [slot : Slot \cup {NoSlot}, pairingSlot : Slot, encrypted : BOOLEAN,
         forgetting : BOOLEAN, identity : Computer \cup {NoComputer}]

\* A connection: the computer at the far end, its address as far as the
\* stack has resolved it, encrypted and bonded, and disconnect() requested.
Connection == [computer : Computer, identity : Computer \cup {NoComputer},
               secure : BOOLEAN, closing : BOOLEAN]

\* Connected, Subscribed and the other kinds change the peer table alike.
Event == [kind : {"disconnected", "authenticated", "other"}, handle : Handle,
          identity : Computer \cup {NoComputer}]

Snapshot == [generation : 0 .. Generations - 1, slots : [Slot -> SlotRecord]]

ASSUME NothingAssumption ==
    NoPeer \notin Peer /\ NoLink \notin Connection /\ NoSnapshot \notin Snapshot

\* The loop task runs, or is between two writes of forgetPairing(), or
\* completes pending removals of slot `slot` on at boot.
Task == [phase : {"run", "boot", "unpair", "clear"}, slot : Slot, booting : BOOLEAN]
Run == [phase |-> "run", slot |-> 0, booting |-> FALSE]
\* Mutant: the boot loop runs one slot too far.
BootAtPast(s) == IF s <= SlotCount THEN [phase |-> "boot", slot |-> s, booting |-> TRUE] ELSE Run
BootAt(s) == IF s \in Slot THEN [phase |-> "boot", slot |-> s, booting |-> TRUE] ELSE Run
AfterRemoval == IF task.booting THEN BootAt(task.slot + 1) ELSE Run

Running == task.phase = "run"

-----------------------------------------------------------------------------
(***************************************************************************)
(* Lookups.                                                                *)
(***************************************************************************)
Marked(c) == \E s \in Slot : config.slots[s] = [assigned |-> 2, owner |-> c]

\* knownSlot(): the first slot paired with an identity.
KnownIn(slots, c) ==
    LET matching == {s \in Slot : slots[s] = [assigned |-> 1, owner |-> c]}
    IN IF matching = {} THEN NoSlot
       ELSE CHOOSE s \in matching : \A t \in matching : s <= t

\* Mutant: only the selected slot is searched.
KnownSelected(c) ==
    IF config.slots[config.selected] = [assigned |-> 1, owner |-> c]
    THEN config.selected ELSE NoSlot

KnownSlot(c) == KnownIn(config.slots, c)

UsedPeers == {h \in Handle : peers[h] # NoPeer}
Pairing == \E h \in UsedPeers : peers[h].slot = NoSlot
Live == {h \in Handle : stack[h] # NoLink}

NewPeer(c) == [slot |-> NoSlot, pairingSlot |-> config.selected, encrypted |-> FALSE,
               forgetting |-> FALSE, identity |-> c]

\* Server disconnect(): the connection ends some time later.
Terminate(hs) == [h \in Handle |-> IF h \in hs \cap Live
                                   THEN [stack[h] EXCEPT !.closing = TRUE] ELSE stack[h]]

Unlink(hs) == [s \in Slot |-> IF links[s] \in hs THEN NoHandle ELSE links[s]]

\* A write is refused or replaces the record; its generation always moves.
\* Generations = 1 leaves the counter and the clients' check of it out of a
\* run; otherwise a run stops short of the wrap (2^32 changes on the device).
NextGeneration(g) == (g + 1) % Generations
MayChange == Generations = 1 \/ config.generation < Generations - 1
Save(next) == config' = next /\ disk' = next

-----------------------------------------------------------------------------
(***************************************************************************)
(* The Bluetooth host task: connections, security and the callbacks that   *)
(* enqueue() events.                                                       *)
(***************************************************************************)
Enqueue(kind, h, c) ==
    IF Len(queue) < QueueLength
    THEN /\ queue' = Append(queue, [kind |-> kind, handle |-> h, identity |-> c])
         /\ UNCHANGED overflow
    ELSE /\ overflow' = TRUE
         /\ UNCHANGED queue

loopVars == <<config, disk, peers, links, task, snapshot>>

\* A bonded computer's address resolves at once, another one's may not.
Connected(h, c, identity) ==
    /\ ~task.booting
    /\ stack[h] = NoLink
    /\ \A g \in Live : stack[g].computer # c
    /\ identity = c \/ (identity = NoComputer /\ c \notin bonds)
    /\ stack' = [stack EXCEPT ![h] = [computer |-> c, identity |-> identity,
                                      secure |-> FALSE, closing |-> FALSE]]
    /\ Enqueue("other", h, identity)
    /\ UNCHANGED <<bonds, loopVars>>

\* The connection becomes encrypted and bonded, by an existing bond or by
\* pairing.  A restored bond may come without the callback.  Pairing takes
\* several exchanges: it does not fit between the deletion of the bond and
\* the write that follows it.
Secured(h, announced) ==
    /\ h \in Live
    /\ ~stack[h].secure
    /\ LET c == stack[h].computer
       IN /\ c \in bonds \/ task.phase # "clear"
          /\ bonds' = bonds \cup {c}
          /\ stack' = [stack EXCEPT ![h].secure = TRUE, ![h].identity = c]
          /\ IF announced THEN Enqueue("authenticated", h, c)
             ELSE UNCHANGED <<queue, overflow>>
    /\ UNCHANGED loopVars

\* Authentication fails; or a subscription or another event of the link.
Reported(h, kind) ==
    /\ h \in Live
    /\ kind = "authenticated" => ~stack[h].secure
    /\ Enqueue(kind, h, stack[h].identity)
    /\ UNCHANGED <<radioVars, loopVars>>

Lost(h) ==
    /\ h \in Live
    /\ stack' = [stack EXCEPT ![h] = NoLink]
    /\ Enqueue("disconnected", h, stack[h].identity)
    /\ UNCHANGED <<bonds, loopVars>>

-----------------------------------------------------------------------------
(***************************************************************************)
(* BleHid::handle() for an event of a connection.                          *)
(***************************************************************************)
PeerFor(e) == IF peers[e.handle] # NoPeer THEN peers[e.handle] ELSE NewPeer(e.identity)

HasRoom(e) == peers[e.handle] # NoPeer \/ Cardinality(UsedPeers) < PeerCount

\* A new peer is not admitted when the selected slot is taken and no slot
\* knows the computer.
Unwelcome(e) == /\ peers[e.handle] = NoPeer
                /\ KnownSlot(e.identity) = NoSlot
                /\ config.slots[config.selected].assigned # 0

Forgotten(e) == peers[e.handle] # NoPeer /\ peers[e.handle].forgetting

Admitted(e) == /\ ~Marked(stack[e.handle].identity)
               /\ ~Forgotten(e)
               /\ HasRoom(e)
               /\ ~Unwelcome(e)

Refuse(e) == stack' = Terminate({e.handle})
Record(e, p) == peers' = [peers EXCEPT ![e.handle] = p]

Disregard(e) ==
    /\ stack[e.handle] = NoLink
    /\ UNCHANGED <<config, disk, peers, links, stack>>

Reject(e) ==
    /\ stack[e.handle] # NoLink
    /\ ~Admitted(e)
    /\ IF Marked(stack[e.handle].identity) \/ ~HasRoom(e)
       THEN UNCHANGED peers ELSE Record(e, PeerFor(e))
    /\ Refuse(e)
    /\ UNCHANGED <<config, disk, links>>

Note(e) ==
    /\ stack[e.handle] # NoLink
    /\ Admitted(e)
    /\ Record(e, PeerFor(e))
    /\ \/ /\ PeerFor(e).encrypted \/ (e.kind # "authenticated" /\ ~stack[e.handle].secure)
          /\ UNCHANGED stack
       \/ /\ ~PeerFor(e).encrypted /\ e.kind = "authenticated" /\ ~stack[e.handle].secure
          /\ Refuse(e)
    /\ UNCHANGED <<config, disk, links>>

\* Mutant: two peers of one computer share its slot.
ClaimShared(e, p, s) ==
    /\ Record(e, [p EXCEPT !.slot = s, !.encrypted = TRUE,
                           !.identity = stack[e.handle].identity])
    /\ links' = [links EXCEPT ![s] = e.handle]
    /\ UNCHANGED stack

\* The peer takes the slot, unless another peer still holds it.
Claim(e, p, s) ==
    IF \E g \in UsedPeers \ {e.handle} : peers[g].slot = s
    THEN /\ Record(e, p)
         /\ Refuse(e)
         /\ UNCHANGED links
    ELSE /\ Record(e, [p EXCEPT !.slot = s, !.encrypted = TRUE,
                                !.identity = stack[e.handle].identity])
         /\ links' = [links EXCEPT ![s] = e.handle]
         /\ UNCHANGED stack

Authenticate(e) ==
    LET p == PeerFor(e)
        c == stack[e.handle].identity
        known == KnownSlot(c)
    IN /\ stack[e.handle] # NoLink
       /\ Admitted(e)
       /\ ~p.encrypted /\ stack[e.handle].secure
       /\ \/ /\ known # NoSlot
             /\ Claim(e, p, known)
             /\ UNCHANGED <<config, disk>>
          \/ /\ known = NoSlot
             /\ Record(e, p)        \* slot taken, or the write failed
             /\ Refuse(e)
             /\ UNCHANGED <<config, disk, links>>
          \/ /\ known = NoSlot
             /\ config.slots[p.pairingSlot].assigned = 0
             /\ MayChange
             /\ Save([config EXCEPT
                        !.slots[p.pairingSlot] = [assigned |-> 1, owner |-> c],
                        !.generation = NextGeneration(@)])
             /\ Claim(e, p, p.pairingSlot)

Process(e) == Disregard(e) \/ Reject(e) \/ Note(e) \/ Authenticate(e)

HandleEvent ==
    /\ Running
    /\ queue # <<>>
    /\ queue' = Tail(queue)
    /\ LET e == Head(queue)
       IN IF e.kind = "disconnected"
          THEN /\ links' = Unlink({e.handle})
               /\ Record(e, NoPeer)
               /\ UNCHANGED <<config, disk, stack>>
          ELSE Process(e)
    /\ UNCHANGED <<overflow, task, bonds, snapshot>>

-----------------------------------------------------------------------------
(***************************************************************************)
(* The other steps of BleHid::loop().                                      *)
(***************************************************************************)
ResetOverflow ==
    /\ Running
    /\ overflow
    /\ overflow' = FALSE
    /\ queue' = <<>>
    /\ links' = Unlink(UsedPeers)
    /\ peers' = [h \in Handle |-> NoPeer]
    /\ stack' = Terminate(Live)
    /\ UNCHANGED <<config, disk, task, bonds, snapshot>>

\* Mutant: only peers that have a slot are looked at.
RestoreSlotted(h) ==
    /\ Running
    /\ h \in UsedPeers /\ ~peers[h].forgetting /\ peers[h].slot # NoSlot
    /\ h \in Live /\ ~peers[h].encrypted /\ stack[h].secure
    /\ Process([kind |-> "authenticated", handle |-> h, identity |-> stack[h].identity])
    /\ UNCHANGED <<queue, overflow, task, bonds, snapshot>>

\* The live state of the stack stands in for a callback that never came.
Restore(h) ==
    /\ Running
    /\ h \in UsedPeers /\ ~peers[h].forgetting
    /\ h \in Live /\ ~peers[h].encrypted /\ stack[h].secure
    /\ Process([kind |-> "authenticated", handle |-> h, identity |-> stack[h].identity])
    /\ UNCHANGED <<queue, overflow, task, bonds, snapshot>>

\* Reconnect guard or send recovery gives a connection up.
GiveUp(h) ==
    /\ Running
    /\ h \in UsedPeers
    /\ links' = Unlink({h})
    /\ stack' = Terminate({h})
    /\ UNCHANGED <<config, disk, peers, queue, overflow, task, bonds, snapshot>>

-----------------------------------------------------------------------------
(***************************************************************************)
(* Commands of the main loop.                                              *)
(***************************************************************************)
SelectSlot(s) ==
    /\ Running
    /\ s # config.selected
    /\ MayChange
    /\ Save([config EXCEPT !.selected = s, !.generation = NextGeneration(@)])
    /\ UNCHANGED <<ramVars, task, radioVars, snapshot>>

ReadConfig ==
    /\ Running
    /\ Generations > 1
    /\ snapshot' = [generation |-> config.generation, slots |-> config.slots]
    /\ UNCHANGED <<config, disk, ramVars, task, radioVars>>

Orders == {order \in [Slot -> Slot] : \A t \in Slot : \E s \in Slot : order[s] = t}

\* The generation a client passes is the one of the configuration.
Current == Generations = 1 \/ (snapshot # NoSnapshot /\ snapshot.generation = config.generation)

\* A client writes the order it made from what it has read.
Configure(order) ==
    /\ Running
    /\ Current
    /\ ~Pairing
    /\ MayChange
    /\ LET slots == [s \in Slot |-> config.slots[order[s]]]
       IN /\ Save([slots |-> slots,
                   selected |-> CHOOSE s \in Slot : order[s] = config.selected,
                   generation |-> NextGeneration(config.generation)])
          /\ peers' = [h \in Handle |->
                IF h \in UsedPeers
                THEN [peers[h] EXCEPT !.slot = KnownIn(slots, peers[h].identity)]
                ELSE NoPeer]
    /\ links' = [s \in Slot |-> links[order[s]]]
    /\ UNCHANGED <<queue, overflow, task, radioVars, snapshot>>

\* forgetComputer() up to the first write of forgetPairing().
Forget(s) ==
    /\ Running
    /\ ~Pairing
    /\ config.slots[s].assigned # 0
    /\ IF config.slots[s].assigned = 1
       THEN /\ MayChange
            /\ Save([config EXCEPT !.slots[s].assigned = 2, !.generation = NextGeneration(@)])
       ELSE UNCHANGED <<config, disk>>
    /\ task' = [phase |-> "unpair", slot |-> s, booting |-> FALSE]
    /\ UNCHANGED <<ramVars, radioVars, snapshot>>

\* Mutant: a failure to delete the bond is not noticed.
UnpairUnchecked(removed) ==
    LET mine == {h \in UsedPeers : peers[h].slot = task.slot}
    IN /\ task.phase = "unpair"
       /\ peers' = [h \in Handle |->
             IF h \in mine THEN [peers[h] EXCEPT !.forgetting = TRUE] ELSE peers[h]]
       /\ links' = Unlink(mine)
       /\ bonds' = IF removed THEN bonds \ {config.slots[task.slot].owner} ELSE bonds
       /\ stack' = Terminate(mine)
       /\ task' = [task EXCEPT !.phase = "clear"]
       /\ UNCHANGED <<config, disk, queue, overflow, snapshot>>

\* Disconnect the computer and delete its bond; either may fail, and a
\* failure may leave the bond deleted.
Unpair(removed) ==
    LET s == task.slot
        c == config.slots[s].owner
        mine == {h \in UsedPeers : peers[h].slot = s}
        theirs == {h \in Live : stack[h].identity = c}
    IN /\ task.phase = "unpair"
       /\ peers' = [h \in Handle |->
             IF h \in mine THEN [peers[h] EXCEPT !.forgetting = TRUE] ELSE peers[h]]
       /\ links' = Unlink(mine)
       /\ \/ /\ removed
             /\ bonds' = bonds \ {c}
             /\ stack' = Terminate(mine \cup theirs)
             /\ task' = [task EXCEPT !.phase = "clear"]
          \/ /\ ~removed
             /\ bonds' \in {bonds, bonds \ {c}}
             /\ stack' = Terminate(mine \cup theirs) \/ stack' = Terminate(mine)
             /\ task' = AfterRemoval
       /\ UNCHANGED <<config, disk, queue, overflow, snapshot>>

\* Mutant: the slot is cleared without a new generation.
ClearSlotSilently(saved) ==
    /\ task.phase = "clear"
    /\ IF saved THEN Save([config EXCEPT !.slots[task.slot] = FreeSlot])
       ELSE UNCHANGED <<config, disk>>
    /\ task' = AfterRemoval
    /\ UNCHANGED <<ramVars, radioVars, snapshot>>

\* The second write of forgetPairing().
ClearSlot(saved) ==
    /\ task.phase = "clear"
    /\ IF saved
       THEN /\ MayChange
            /\ Save([config EXCEPT !.slots[task.slot] = FreeSlot,
                                   !.generation = NextGeneration(@)])
       ELSE UNCHANGED <<config, disk>>
    /\ task' = AfterRemoval
    /\ UNCHANGED <<ramVars, radioVars, snapshot>>

\* begin(): removals a restart interrupted are taken up, slot by slot.
Boot ==
    /\ task.phase = "boot"
    /\ task' = IF config.slots[task.slot].assigned = 2 THEN [task EXCEPT !.phase = "unpair"]
               ELSE BootAt(task.slot + 1)
    /\ UNCHANGED <<config, disk, ramVars, radioVars, snapshot>>

\* Power loss or reset, at any time: flash and bonds stay.
Crash ==
    /\ config' = disk
    /\ peers' = [h \in Handle |-> NoPeer]
    /\ links' = [s \in Slot |-> NoHandle]
    /\ queue' = <<>>
    /\ overflow' = FALSE
    /\ stack' = [h \in Handle |-> NoLink]
    /\ task' = BootAt(0)
    /\ UNCHANGED <<disk, bonds, snapshot>>

-----------------------------------------------------------------------------
Init ==
    /\ config = [slots |-> [s \in Slot |-> FreeSlot], selected |-> 0, generation |-> 0]
    /\ disk = config
    /\ peers = [h \in Handle |-> NoPeer]
    /\ links = [s \in Slot |-> NoHandle]
    /\ queue = <<>>
    /\ overflow = FALSE
    /\ task = BootAt(0)
    /\ stack = [h \in Handle |-> NoLink]
    /\ bonds = {}
    /\ snapshot = NoSnapshot

Radio ==
    \/ \E h \in Handle, c \in Computer : \E identity \in {c, NoComputer} :
          Connected(h, c, identity)
    \/ \E h \in Handle : \/ \E announced \in BOOLEAN : Secured(h, announced)
                         \/ \E kind \in {"authenticated", "other"} : Reported(h, kind)
                         \/ Lost(h)

Loop ==
    \/ HandleEvent
    \/ ResetOverflow
    \/ \E h \in Handle : Restore(h) \/ GiveUp(h)

Command ==
    \/ \E s \in Slot : SelectSlot(s) \/ Forget(s)
    \/ ReadConfig
    \/ \E order \in Orders : Configure(order)

Removal ==
    \/ \E removed \in BOOLEAN : Unpair(removed)
    \/ \E saved \in BOOLEAN : ClearSlot(saved)
    \/ Boot

Next == Radio \/ Loop \/ Command \/ Removal \/ Crash

Spec == Init /\ [][Next]_vars

-----------------------------------------------------------------------------
(***************************************************************************)
(* Properties.                                                             *)
(***************************************************************************)
\* Every variable has its type.
TypeOK ==
    /\ config \in SlotConfig /\ disk \in SlotConfig
    /\ peers \in [Handle -> Peer \cup {NoPeer}]
    /\ links \in [Slot -> Handle \cup {NoHandle}]
    /\ queue \in Seq(Event) /\ Len(queue) <= QueueLength
    /\ overflow \in BOOLEAN
    /\ task \in Task
    /\ stack \in [Handle -> Connection \cup {NoLink}]
    /\ bonds \subseteq Computer
    /\ snapshot \in Snapshot \cup {NoSnapshot}

\* Mutant: the connection is not checked against the slot's computer.
ReachableByHandle(s) ==
    LET h == links[s]
    IN /\ h # NoHandle
       /\ peers[h] # NoPeer /\ peers[h].slot # NoSlot /\ peers[h].encrypted
       /\ stack[h] # NoLink /\ stack[h].secure

\* notifyOne() would hand a report for slot s to the stack.
Reachable(s) ==
    LET h == links[s]
    IN /\ h # NoHandle
       /\ peers[h] # NoPeer /\ peers[h].slot # NoSlot /\ peers[h].encrypted
       /\ stack[h] # NoLink /\ stack[h].secure
       /\ KnownSlot(stack[h].identity) = peers[h].slot

\* A report for slot s reaches the computer paired with slot s and no other:
\* not a computer that reuses the handle, not one whose pairing is being
\* removed, not the one a reordering moved away.
InputReachesOwner ==
    \A s \in Slot : Reachable(s) =>
        config.slots[s] = [assigned |-> 1, owner |-> stack[links[s]].computer]

\* No computer has two slots, even while one is marked for removal.
OneSlotPerComputer ==
    \A s, t \in Slot : /\ config.slots[s].assigned # 0
                       /\ config.slots[s].owner = config.slots[t].owner
                       => s = t

\* A link of the router belongs to an authenticated peer of the same slot, and
\* no two peers in use have one slot: pairing, removal, reordering and overflow change
\* both tables alike, a computer that comes back on a second handle waits.
LinksMatchPeers ==
    /\ \A s \in Slot : links[s] # NoHandle =>
          /\ peers[links[s]] # NoPeer
          /\ peers[links[s]].slot = s
          /\ peers[links[s]].encrypted /\ ~peers[links[s]].forgetting
    /\ \A g, h \in {p \in UsedPeers : peers[p].slot # NoSlot /\ ~peers[p].forgetting} :
          peers[g].slot = peers[h].slot => g = h

\* Equal generations mean equal assignments: a client that passes the
\* generation check of configure() reorders the slots it has seen.
GenerationIdentifies ==
    snapshot # NoSnapshot /\ snapshot.generation = config.generation =>
        snapshot.slots = config.slots

Owners(slots, marks) == {slots[s].owner : s \in {t \in Slot : slots[t].assigned \in marks}}

\* "Do not replace an occupied slot with a new computer": a computer keeps its
\* slot until its removal is marked, stays marked across restarts until its
\* bond is deleted, and only then makes room.
SlotsChangeOnlyByRemoval ==
    [][\A c \in Computer :
          /\ c \in Owners(config.slots, {1}) => c \in Owners(config'.slots, {1, 2})
          /\ c \in Owners(config.slots, {2}) =>
                \/ c \in Owners(config'.slots, {2})
                \/ c \notin Owners(config'.slots, {1}) /\ c \notin bonds']_vars

\* "Block stale queued authentication/subscription events until disconnect"
\* (BleHid::forgetComputer): a computer whose bond the removal deleted is not
\* paired again by an event of the connection the removal ended.
RemovalBlocksStaleEvents ==
    [][\A c \in Owners(config'.slots, {1}) \ Owners(config.slots, {1}) :
          \E h \in Live : stack[h].computer = c /\ (c \in bonds \/ ~stack[h].closing)]_vars

-----------------------------------------------------------------------------
(***************************************************************************)
(* Liveness.  The loop task repeats its checks forever, and a connection   *)
(* the firmware asked to end does end.                                     *)
(***************************************************************************)
Ends(h) == h \in Live /\ stack[h].closing /\ Lost(h)

Fairness ==
    /\ SF_vars(HandleEvent) /\ SF_vars(ResetOverflow)
    /\ \A h \in Handle : SF_vars(Restore(h)) /\ WF_vars(Ends(h))
    /\ WF_vars(\E removed \in BOOLEAN : Unpair(removed))
    /\ WF_vars(\E saved \in BOOLEAN : ClearSlot(saved))
    /\ WF_vars(Boot)

FairSpec == Spec /\ Fairness

\* The computer of slot s is connected and secure, its link is not in place.
Waiting(h, s) ==
    /\ h \in Live /\ stack[h].secure /\ ~stack[h].closing
    /\ config.slots[s] = [assigned |-> 1, owner |-> stack[h].computer]
    /\ links[s] # h

\* A paired computer that stays connected gets its link, whatever callback
\* was missing, late or dropped by a full queue.
LinkRestored == \A h \in Handle, s \in Slot : Waiting(h, s) ~> ~Waiting(h, s)
=============================================================================
