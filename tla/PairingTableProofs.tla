-------------------------- MODULE PairingTableProofs --------------------------
(***************************************************************************)
(* The invariants of PairingTable, proved for any number of slots, any     *)
(* computers and handles, and any capacity of the queue and of the peers.  *)
(*                                                                         *)
(* InputReachesOwner and SlotsChangeOnlyByRemoval are not inductive.  IInv *)
(* adds what ties the tables together between two steps: flash holds what  *)
(* memory holds (Written), a peer that has a slot is its owner's, marked   *)
(* only while the removal has not reached the peer (PeersMatchSlots), and  *)
(* a removal about to clear a slot has deleted the bond (RemovalMarked),   *)
(* whatever crash, event or reordering comes in between.                   *)
(***************************************************************************)
EXTENDS PairingTable, FiniteSetTheorems, SequenceTheorems, TLAPS

\* The record in flash is the one in memory, whenever the power may fail.
Written == disk = config

\* A slot is free, or has a computer; no computer has two slots.
SlotShape ==
  \A s \in Slot : \/ config.slots[s] = FreeSlot
                  \/ config.slots[s].assigned # 0 /\ config.slots[s].owner \in Computer

\* The address of a secure connection is resolved.
SecureKnown ==
  \A h \in Live : stack[h].secure => stack[h].identity = stack[h].computer

\* The loop task is removing slot s, and has not touched its peers yet.
Leaving(s) == task.phase = "unpair" /\ task.slot = s

\* A peer that has a slot, and is not being removed, is the computer's that the
\* slot is paired with.
PeersMatchSlots ==
  \A h \in UsedPeers : peers[h].slot # NoSlot /\ ~peers[h].forgetting =>
    LET s == peers[h].slot IN
      /\ config.slots[s].owner = peers[h].identity
      /\ config.slots[s].assigned = (IF Leaving(s) THEN 2 ELSE 1)

\* A removal has its mark; its bond is gone before the slot is cleared.
RemovalMarked ==
  /\ task.phase \in {"unpair", "clear"} => config.slots[task.slot].assigned = 2
  /\ task.phase = "clear" => config.slots[task.slot].owner \notin bonds

\* What a client has read is older, or the same.
SnapshotOlder ==
  snapshot # NoSnapshot =>
    /\ Generations > 1 /\ snapshot.generation <= config.generation
    /\ snapshot.generation = config.generation => snapshot.slots = config.slots

IInv ==
  /\ TypeOK /\ Written /\ SlotShape /\ OneSlotPerComputer /\ SecureKnown
  /\ LinksMatchPeers /\ PeersMatchSlots /\ RemovalMarked /\ SnapshotOlder

-----------------------------------------------------------------------------
\* Lookups and tables.

\* Where a computer has one slot at most, knownSlot() is that slot or none.
LEMMA KnownInFacts ==
  ASSUME NEW slots \in [Slot -> SlotRecord], NEW c,
         \A s, t \in Slot : slots[s] = [assigned |-> 1, owner |-> c]
                            /\ slots[t] = [assigned |-> 1, owner |-> c] => s = t,
         NEW known, known = KnownIn(slots, c)
  PROVE  /\ known \in Slot \cup {NoSlot}
         /\ known \in Slot => slots[known] = [assigned |-> 1, owner |-> c]
         /\ \A s \in Slot : slots[s] = [assigned |-> 1, owner |-> c] => known = s
<1> DEFINE Mine(s) == slots[s] = [assigned |-> 1, owner |-> c]
           matching == {s \in Slot : Mine(s)}
<1>1. known = IF matching = {} THEN NoSlot
              ELSE CHOOSE s \in matching : \A t \in matching : s <= t
  BY DEF KnownIn
<1>2. NoSlot \notin Slot /\ \A s \in Slot : s <= s
  BY SlotCountAssumption DEF NoSlot, Slot
<1>3. \A s, t \in Slot : Mine(s) /\ Mine(t) => s = t
  OBVIOUS
<1> HIDE DEF Mine
<1>4. CASE matching = {}
  BY <1>1, <1>2, <1>4 DEF Mine
<1>5. CASE matching # {}
  <2>1. PICK s \in Slot : Mine(s)
    BY <1>5
  <2>2. matching = {s}
    BY <1>3, <2>1
  <2>3. known = s
    BY <1>1, <1>2, <2>1, <2>2
  <2> QED
    BY <1>3, <2>1, <2>3 DEF Mine
<1>6. known \in Slot \cup {NoSlot} /\ (known \in Slot => Mine(known))
      /\ \A s \in Slot : Mine(s) => known = s
  BY <1>1, <1>2, <1>3, <1>4, <1>5 DEF Mine
<1> QED
  BY <1>6 DEF Mine

\* In the states of the table, the slot of a computer is unique.
LEMMA KnownSlotFacts ==
  ASSUME IInv, NEW c, NEW known, known = KnownSlot(c)
  PROVE  /\ known \in Slot \cup {NoSlot}
         /\ known \in Slot => config.slots[known] = [assigned |-> 1, owner |-> c]
         /\ \A s \in Slot : config.slots[s] = [assigned |-> 1, owner |-> c] => known = s
<1>1. config.slots \in [Slot -> SlotRecord]
  BY DEF IInv, TypeOK, SlotConfig
<1>2. \A s, t \in Slot : config.slots[s] = [assigned |-> 1, owner |-> c]
                         /\ config.slots[t] = [assigned |-> 1, owner |-> c] => s = t
  BY DEF IInv, OneSlotPerComputer
<1> QED
  BY <1>1, <1>2, KnownInFacts DEF KnownSlot

\* One entry of the peer table.
LEMMA RecordFacts ==
  ASSUME TypeOK, NEW h \in Handle, NEW p \in Peer \cup {NoPeer},
         peers' = [peers EXCEPT ![h] = p]
  PROVE  /\ peers' \in [Handle -> Peer \cup {NoPeer}]
         /\ peers'[h] = p /\ \A g \in Handle \ {h} : peers'[g] = peers[g]
BY DEF TypeOK

\* disconnect() ends connections later: who is connected, and how, stays.
LEMMA TerminateFacts ==
  ASSUME TypeOK, SecureKnown, NEW hs, stack' = Terminate(hs)
  PROVE  stack' \in [Handle -> Connection \cup {NoLink}] /\ SecureKnown'
<1>1. stack \in [Handle -> Connection \cup {NoLink}]
  BY DEF TypeOK
<1>2. stack' = [h \in Handle |-> IF h \in hs \cap Live THEN [stack[h] EXCEPT !.closing = TRUE]
                                ELSE stack[h]]
  BY DEF Terminate
<1>3. ASSUME NEW h \in Handle
      PROVE  /\ stack'[h] \in Connection \cup {NoLink}
             /\ stack'[h] # NoLink => /\ h \in Live /\ stack'[h].secure = stack[h].secure
                                     /\ stack'[h].identity = stack[h].identity
                                     /\ stack'[h].computer = stack[h].computer
  <2>1. CASE h \in hs \cap Live
    <3>1. stack'[h] = [stack[h] EXCEPT !.closing = TRUE] /\ stack[h] \in Connection
      BY <1>1, <1>2, <2>1 DEF Live
    <3> QED
      BY <2>1, <3>1 DEF Connection
  <2>2. CASE h \notin hs \cap Live
    BY <1>1, <1>2, <2>2 DEF Live
  <2> QED
    BY <2>1, <2>2
<1>4. stack' \in [Handle -> Connection \cup {NoLink}]
  BY <1>2, <1>3
<1>5. SecureKnown'
  BY <1>3 DEF SecureKnown, Live
<1> QED
  BY <1>4, <1>5

\* An event that finds the queue full is dropped.
LEMMA EnqueueFacts ==
  ASSUME TypeOK, NEW kind \in {"disconnected", "authenticated", "other"}, NEW h \in Handle,
         NEW c \in Computer \cup {NoComputer}, Enqueue(kind, h, c)
  PROVE  queue' \in Seq(Event) /\ Len(queue') <= QueueLength /\ overflow' \in BOOLEAN
<1> DEFINE e == [kind |-> kind, handle |-> h, identity |-> c]
<1>1. e \in Event /\ queue \in Seq(Event) /\ Len(queue) \in Nat /\ overflow \in BOOLEAN
  BY DEF Event, TypeOK
<1>2. CASE Len(queue) < QueueLength
  <2>1. queue' = Append(queue, e) /\ UNCHANGED overflow
    BY <1>2 DEF Enqueue
  <2> HIDE DEF e
  <2>2. queue' \in Seq(Event) /\ Len(queue') = Len(queue) + 1
    BY <1>1, <2>1, AppendProperties
  <2> QED
    BY <1>1, <1>2, <2>1, <2>2, QueueAssumption
<1>3. CASE ~(Len(queue) < QueueLength)
  BY <1>3 DEF Enqueue, TypeOK
<1> QED
  BY <1>2, <1>3

\* The first of the queue is taken.
LEMMA TailFacts ==
  ASSUME TypeOK, queue # <<>>
  PROVE  /\ Head(queue) \in Event
         /\ Tail(queue) \in Seq(Event) /\ Len(Tail(queue)) <= QueueLength
<1>1. queue \in Seq(Event) /\ Len(queue) <= QueueLength /\ Len(queue) \in Nat
  BY DEF TypeOK
<1>2. Head(queue) \in Event /\ Tail(queue) \in Seq(Event) /\ Len(Tail(queue)) = Len(queue) - 1
  BY <1>1, HeadTailProperties
<1> QED
  BY <1>1, <1>2, QueueAssumption

-----------------------------------------------------------------------------
\* What each invariant depends on.

\* The assignments and the marks stay as they are.
LEMMA AssignmentsSame ==
  ASSUME IInv, UNCHANGED <<config, disk, task, bonds, snapshot>>
  PROVE  Written' /\ SlotShape' /\ OneSlotPerComputer' /\ RemovalMarked' /\ SnapshotOlder'
BY DEF IInv, Written, SlotShape, OneSlotPerComputer, RemovalMarked, SnapshotOlder

\* Peers and links stay as they are.
LEMMA TablesSame ==
  ASSUME IInv, UNCHANGED <<config, task, peers, links>>
  PROVE  LinksMatchPeers' /\ PeersMatchSlots'
BY DEF IInv, LinksMatchPeers, PeersMatchSlots, UsedPeers, Leaving

\* The host task: connections come and go, are secured and reported.  It
\* deletes no bond, and adds none that a removal has just deleted.
LEMMA RadioKeeps ==
  ASSUME IInv, UNCHANGED loopVars,
         stack' \in [Handle -> Connection \cup {NoLink}], SecureKnown',
         bonds' \subseteq Computer,
         task.phase = "clear" => bonds' = bonds,
         queue' \in Seq(Event), Len(queue') <= QueueLength, overflow' \in BOOLEAN
  PROVE  IInv'
<1>1. UNCHANGED <<config, disk, peers, links, task, snapshot>>
  BY DEF loopVars
<1>2. TypeOK'
  BY <1>1 DEF IInv, TypeOK
<1>3. Written' /\ SlotShape' /\ OneSlotPerComputer' /\ RemovalMarked' /\ SnapshotOlder'
  BY <1>1 DEF IInv, Written, SlotShape, OneSlotPerComputer, RemovalMarked, SnapshotOlder
<1>4. LinksMatchPeers' /\ PeersMatchSlots'
  BY <1>1, TablesSame
<1> QED
  BY <1>2, <1>3, <1>4 DEF IInv

\* A computer connects: its address may not resolve yet.
LEMMA ConnectedKeeps ==
  ASSUME IInv, NEW h \in Handle, NEW c \in Computer, NEW identity \in {c, NoComputer},
         Connected(h, c, identity)
  PROVE  IInv'
<1> DEFINE new == [computer |-> c, identity |-> identity, secure |-> FALSE, closing |-> FALSE]
<1>1. stack' = [stack EXCEPT ![h] = new] /\ UNCHANGED <<bonds, loopVars>>
  BY DEF Connected
<1>2. new \in Connection /\ ~new.secure
  BY DEF Connection
<1>3. stack \in [Handle -> Connection \cup {NoLink}]
  BY DEF IInv, TypeOK
<1> HIDE DEF new
<1>4. stack' \in [Handle -> Connection \cup {NoLink}]
  BY <1>1, <1>2, <1>3
<1>5. SecureKnown'
  BY <1>1, <1>2, <1>3 DEF IInv, SecureKnown, Live
<1>6. queue' \in Seq(Event) /\ Len(queue') <= QueueLength /\ overflow' \in BOOLEAN
  <2>1. Enqueue("other", h, identity)
    BY DEF Connected
  <2> QED
    BY <2>1, EnqueueFacts DEF IInv
<1>7. bonds' \subseteq Computer
  BY <1>1 DEF IInv, TypeOK
<1> QED
  BY <1>1, <1>4, <1>5, <1>6, <1>7, RadioKeeps

\* A connection becomes secure, and its address resolves.
LEMMA SecuredKeeps ==
  ASSUME IInv, NEW h \in Handle, NEW announced \in BOOLEAN, Secured(h, announced)
  PROVE  IInv'
<1> DEFINE c == stack[h].computer
<1>1. /\ h \in Live /\ stack \in [Handle -> Connection \cup {NoLink}]
      /\ stack[h] \in Connection /\ c \in Computer
  BY DEF Secured, IInv, TypeOK, Live, Connection
<1>2. /\ c \in bonds \/ task.phase # "clear"
      /\ bonds' = bonds \cup {c} /\ UNCHANGED loopVars
      /\ stack' = [stack EXCEPT ![h].secure = TRUE, ![h].identity = c]
      /\ Enqueue("authenticated", h, c) \/ UNCHANGED <<queue, overflow>>
  BY DEF Secured
<1> HIDE DEF c
<1>3. /\ stack'[h] \in Connection /\ stack'[h].identity = c /\ stack'[h].computer = stack[h].computer
      /\ \A g \in Handle \ {h} : stack'[g] = stack[g]
      /\ stack' = [g \in Handle |-> stack'[g]]
  BY <1>1, <1>2 DEF Connection
<1>4. stack' \in [Handle -> Connection \cup {NoLink}]
  BY <1>1, <1>3
<1>5. SecureKnown'
  BY <1>1, <1>3 DEF IInv, SecureKnown, Live, c
<1>6. queue' \in Seq(Event) /\ Len(queue') <= QueueLength /\ overflow' \in BOOLEAN
  <2>1. CASE Enqueue("authenticated", h, c)
    BY <1>1, <2>1, EnqueueFacts DEF IInv
  <2>2. CASE UNCHANGED <<queue, overflow>>
    BY <2>2 DEF IInv, TypeOK
  <2> QED
    BY <1>2, <2>1, <2>2
<1>7. bonds' \subseteq Computer
  BY <1>1, <1>2 DEF IInv, TypeOK
<1>8. task.phase = "clear" => bonds' = bonds
  BY <1>2
<1> QED
  BY <1>2, <1>4, <1>5, <1>6, <1>7, <1>8, RadioKeeps

\* An event of a connection, or its end.
LEMMA ReportedKeeps ==
  ASSUME IInv, NEW h \in Handle,
         Lost(h) \/ \E kind \in {"authenticated", "other"} : Reported(h, kind)
  PROVE  IInv'
<1>1. /\ h \in Live /\ stack \in [Handle -> Connection \cup {NoLink}]
      /\ stack[h].identity \in Computer \cup {NoComputer}
      /\ UNCHANGED <<bonds, loopVars>>
  BY DEF Lost, Reported, radioVars, IInv, TypeOK, Live, Connection
<1>2. PICK kind \in {"disconnected", "authenticated", "other"} : Enqueue(kind, h, stack[h].identity)
  BY DEF Lost, Reported
<1>3. queue' \in Seq(Event) /\ Len(queue') <= QueueLength /\ overflow' \in BOOLEAN
  BY <1>1, <1>2, EnqueueFacts DEF IInv
<1>4. stack' = stack \/ stack' = [stack EXCEPT ![h] = NoLink]
  BY DEF Lost, Reported, radioVars
<1>5. stack' \in [Handle -> Connection \cup {NoLink}] /\ SecureKnown'
  BY <1>1, <1>4 DEF IInv, SecureKnown, Live
<1>6. bonds' \subseteq Computer
  BY <1>1 DEF IInv, TypeOK
<1> QED
  BY <1>1, <1>3, <1>5, <1>6, RadioKeeps

-----------------------------------------------------------------------------
\* Events of connections.

\* A peer that is new has no slot yet.
LEMMA NewPeerType ==
  ASSUME IInv, NEW c \in Computer \cup {NoComputer}
  PROVE  /\ NewPeer(c) \in Peer /\ NewPeer(c).slot = NoSlot
         /\ ~NewPeer(c).encrypted /\ ~NewPeer(c).forgetting
<1>1. config.selected \in Slot
  BY DEF IInv, TypeOK, SlotConfig
<1> QED
  BY <1>1 DEF NewPeer, Peer

\* A peer that is noted without a slot changes nothing for the links.
LEMMA RecordKeeps ==
  ASSUME IInv, NEW e \in Event, Record(e, PeerFor(e)), UNCHANGED <<config, task, links>>
  PROVE  /\ peers' \in [Handle -> Peer \cup {NoPeer}]
         /\ LinksMatchPeers' /\ PeersMatchSlots'
<1> DEFINE h == e.handle
<1>1. h \in Handle /\ e.identity \in Computer \cup {NoComputer}
  BY DEF Event
<1>2. peers' = [peers EXCEPT ![h] = PeerFor(e)] /\ peers \in [Handle -> Peer \cup {NoPeer}]
  BY DEF Record, IInv, TypeOK
<1>3. CASE peers[h] # NoPeer
  <2>1. peers' = peers
    BY <1>1, <1>2, <1>3 DEF PeerFor
  <2> QED
    BY <1>2, <2>1, TablesSame
<1>4. CASE peers[h] = NoPeer
  <2>1. PeerFor(e) \in Peer /\ PeerFor(e).slot = NoSlot
    BY <1>1, <1>4, NewPeerType DEF PeerFor, IInv
  <2>2. /\ peers' \in [Handle -> Peer \cup {NoPeer}] /\ peers'[h].slot = NoSlot
        /\ \A g \in Handle \ {h} : peers'[g] = peers[g]
    BY <1>1, <1>2, <2>1
  <2>3. links \in [Slot -> Handle \cup {NoHandle}] /\ \A s \in Slot : links[s] # h
    BY <1>1, <1>4, HandleAssumption DEF IInv, TypeOK, LinksMatchPeers
  <2> HIDE DEF h
  <2>4. LinksMatchPeers'
    BY <1>1, <2>2, <2>3 DEF IInv, LinksMatchPeers, UsedPeers
  <2>5. PeersMatchSlots'
    BY <1>1, <2>2 DEF IInv, PeersMatchSlots, UsedPeers, Leaving
  <2> QED
    BY <2>2, <2>4, <2>5
<1> QED
  BY <1>3, <1>4

\* A secure computer takes its slot, or is refused while another peer holds it.
LEMMA ClaimKeeps ==
  ASSUME IInv, Running, NEW e \in Event, stack[e.handle] # NoLink, stack[e.handle].secure,
         NEW p, p = PeerFor(e), ~p.encrypted, ~Forgotten(e),
         NEW s \in Slot, Claim(e, p, s), UNCHANGED task,
         config'.slots[s] = [assigned |-> 1, owner |-> stack[e.handle].identity],
         config.slots[s].assigned = 0 \/ config'.slots[s] = config.slots[s],
         \A t \in Slot \ {s} : config'.slots[t] = config.slots[t]
  PROVE  /\ peers' \in [Handle -> Peer \cup {NoPeer}]
         /\ links' \in [Slot -> Handle \cup {NoHandle}]
         /\ stack' \in [Handle -> Connection \cup {NoLink}] /\ SecureKnown'
         /\ LinksMatchPeers' /\ PeersMatchSlots'
<1> DEFINE h == e.handle
           c == stack[e.handle].identity
           q == [p EXCEPT !.slot = s, !.encrypted = TRUE, !.identity = c]
<1>1. /\ h \in Handle /\ c \in Computer /\ stack \in [Handle -> Connection \cup {NoLink}]
      /\ peers \in [Handle -> Peer \cup {NoPeer}] /\ links \in [Slot -> Handle \cup {NoHandle}]
  BY DEF Event, IInv, TypeOK, SecureKnown, Live, Connection
<1>2. p \in Peer /\ ~p.forgetting
  <2>1. CASE peers[h] # NoPeer
    BY <1>1, <2>1 DEF PeerFor, Forgotten, Peer
  <2>2. CASE peers[h] = NoPeer
    BY <2>2, NewPeerType DEF PeerFor, IInv, Event
  <2> QED
    BY <2>1, <2>2
<1>3. NoSlot \notin Slot
  BY SlotCountAssumption DEF Slot, NoSlot
<1>4. \A t \in Slot : links[t] # h
  BY <1>1, HandleAssumption DEF IInv, LinksMatchPeers, PeerFor
<1>5. ~Leaving(s) /\ ~Leaving(s)' /\ \A t \in Slot : ~Leaving(t) /\ ~Leaving(t)'
  BY DEF Running, Leaving
<1>6. CASE \E g \in UsedPeers \ {h} : peers[g].slot = s
  <2>1. peers' = [peers EXCEPT ![h] = p] /\ stack' = Terminate({h}) /\ UNCHANGED links
    BY <1>6 DEF Claim, Record, Refuse
  <2>2. /\ peers' \in [Handle -> Peer \cup {NoPeer}] /\ peers'[h] = p
        /\ \A g \in Handle \ {h} : peers'[g] = peers[g]
    BY <1>1, <1>2, <2>1
  <2>3. p.slot # NoSlot => peers[h] = p
    BY <1>2, <1>3, NewPeerType DEF PeerFor, IInv, Event
  <2>4. stack' \in [Handle -> Connection \cup {NoLink}] /\ SecureKnown'
    BY <2>1, TerminateFacts DEF IInv
  <2> HIDE DEF h
  <2>5. LinksMatchPeers'
    BY <1>1, <1>2, <1>4, <2>1, <2>2, <2>3 DEF IInv, LinksMatchPeers, UsedPeers
  <2>6. PeersMatchSlots'
    BY <1>1, <1>2, <1>5, <2>2, <2>3 DEF IInv, TypeOK, Peer, PeersMatchSlots, UsedPeers
  <2> QED
    BY <1>1, <2>1, <2>2, <2>4, <2>5, <2>6
<1>7. CASE ~\E g \in UsedPeers \ {h} : peers[g].slot = s
  <2>1. peers' = [peers EXCEPT ![h] = q] /\ links' = [links EXCEPT ![s] = h] /\ UNCHANGED stack
    BY <1>7 DEF Claim, Record
  <2>2. q \in Peer /\ q.slot = s /\ q.encrypted /\ ~q.forgetting /\ q.identity = c
    BY <1>1, <1>2 DEF Peer
  <2> HIDE DEF q
  <2>3. /\ peers' \in [Handle -> Peer \cup {NoPeer}] /\ peers'[h] = q
        /\ \A g \in Handle \ {h} : peers'[g] = peers[g]
    BY <1>1, <2>1, <2>2
  <2>4. stack' \in [Handle -> Connection \cup {NoLink}] /\ SecureKnown'
    BY <1>1, <2>1 DEF IInv, SecureKnown, Live
  <2>5. /\ links' \in [Slot -> Handle \cup {NoHandle}] /\ links'[s] = h
        /\ \A t \in Slot \ {s} : links'[t] = links[t]
    BY <1>1, <2>1
  <2> HIDE DEF h
  <2>6. LinksMatchPeers'
    BY <1>1, <1>4, <1>7, <2>2, <2>3, <2>5, NothingAssumption DEF IInv, LinksMatchPeers, UsedPeers
  <2>7. PeersMatchSlots'
    BY <1>1, <1>5, <1>7, <2>2, <2>3 DEF IInv, TypeOK, Peer, PeersMatchSlots, UsedPeers
  <2> QED
    BY <2>3, <2>4, <2>5, <2>6, <2>7
<1> QED
  BY <1>6, <1>7

-----------------------------------------------------------------------------
\* Changes of the configuration.

\* The counter stays in its range, and grows while it may change.
LEMMA NextGenerationFacts ==
  ASSUME NEW g \in 0 .. Generations - 1
  PROVE  /\ NextGeneration(g) \in 0 .. Generations - 1
         /\ g < Generations - 1 => NextGeneration(g) = g + 1
<1>1. Generations \in Nat /\ Generations > 0 /\ g \in Nat /\ g + 1 <= Generations
  BY GenerationsAssumption
<1>2. CASE g + 1 < Generations
  BY <1>1, <1>2 DEF NextGeneration
<1>3. CASE g + 1 = Generations
  BY <1>1, <1>3 DEF NextGeneration
<1> QED
  BY <1>1, <1>2, <1>3

\* Whoever changes the assignments makes every snapshot an older one.
LEMMA SnapshotAges ==
  ASSUME IInv, MayChange, UNCHANGED snapshot,
         config'.generation = NextGeneration(config.generation)
  PROVE  SnapshotOlder'
<1>1. /\ config.generation \in 0 .. Generations - 1 /\ Generations \in Nat
      /\ snapshot # NoSnapshot => snapshot.generation \in Nat
  BY GenerationsAssumption DEF IInv, TypeOK, SlotConfig, Snapshot
<1>2. CASE snapshot = NoSnapshot
  BY <1>2 DEF SnapshotOlder
<1>3. CASE snapshot # NoSnapshot
  <2>1. Generations > 1 /\ snapshot.generation <= config.generation
    BY <1>3 DEF IInv, SnapshotOlder
  <2>2. config'.generation = config.generation + 1
    BY <1>1, <2>1, NextGenerationFacts DEF MayChange
  <2> QED
    BY <1>1, <2>1, <2>2 DEF SnapshotOlder
<1> QED
  BY <1>2, <1>3

\* One slot is written.
LEMMA SlotSaved ==
  ASSUME IInv, NEW s \in Slot, NEW r \in SlotRecord, MayChange, UNCHANGED snapshot,
         Save([config EXCEPT !.slots[s] = r, !.generation = NextGeneration(@)])
  PROVE  /\ config' \in SlotConfig /\ disk' \in SlotConfig /\ Written' /\ SnapshotOlder'
         /\ config'.slots[s] = r
         /\ \A t \in Slot \ {s} : config'.slots[t] = config.slots[t]
<1>1. /\ config \in SlotConfig /\ config.slots \in [Slot -> SlotRecord]
      /\ config.generation \in 0 .. Generations - 1
  BY DEF IInv, TypeOK, SlotConfig
<1> DEFINE g == NextGeneration(config.generation)
           slots == [config.slots EXCEPT ![s] = r]
<1>2. config' = [config EXCEPT !.slots = slots, !.generation = g] /\ disk' = config'
  BY <1>1 DEF Save, SlotConfig
<1>3. g \in 0 .. Generations - 1
  BY <1>1, NextGenerationFacts
<1>4. /\ slots \in [Slot -> SlotRecord] /\ slots[s] = r
      /\ \A t \in Slot \ {s} : slots[t] = config.slots[t]
  BY <1>1
<1> HIDE DEF g, slots
<1>5. config' \in SlotConfig /\ config'.slots = slots /\ config'.generation = g
  BY <1>1, <1>2, <1>3, <1>4 DEF SlotConfig
<1>6. SnapshotOlder'
  BY <1>5, SnapshotAges DEF g
<1> QED
  BY <1>2, <1>4, <1>5, <1>6 DEF Written

\* An event of a connection that exists, or the check that stands in for one.
\* A computer is given a slot only when it owns none, marked ones included.
LEMMA ProcessKeeps ==
  ASSUME IInv, Running, NEW e \in Event, Process(e), UNCHANGED <<task, bonds, snapshot>>,
         queue' \in Seq(Event), Len(queue') <= QueueLength, overflow' \in BOOLEAN
  PROVE  IInv'
<1> DEFINE h == e.handle
           Tables == /\ peers' \in [Handle -> Peer \cup {NoPeer}]
                     /\ links' \in [Slot -> Handle \cup {NoHandle}]
                     /\ stack' \in [Handle -> Connection \cup {NoLink}] /\ SecureKnown'
                     /\ LinksMatchPeers' /\ PeersMatchSlots'
           Config == /\ config' \in SlotConfig /\ disk' \in SlotConfig /\ Written' /\ SlotShape'
                     /\ OneSlotPerComputer' /\ SnapshotOlder'
<1>1. ASSUME Tables, Config
      PROVE  IInv'
  <2>1. TypeOK'
    BY <1>1 DEF IInv, TypeOK
  <2>2. RemovalMarked'
    BY DEF Running, RemovalMarked
  <2> QED
    BY <1>1, <2>1, <2>2 DEF IInv
<1>2. h \in Handle /\ UNCHANGED <<config, disk>> => Config
  BY AssignmentsSame DEF IInv, TypeOK, Event
<1>3. CASE Disregard(e)
  <2>1. UNCHANGED <<config, disk, peers, links, stack>>
    BY <1>3 DEF Disregard
  <2>2. Tables
    BY <2>1, TablesSame DEF IInv, TypeOK, SecureKnown, Live
  <2> QED
    BY <1>1, <1>2, <2>1, <2>2 DEF Event
<1>4. CASE Reject(e) \/ Note(e)
  <2>1. /\ UNCHANGED <<config, disk, links>>
        /\ Record(e, PeerFor(e)) \/ UNCHANGED peers
        /\ Refuse(e) \/ UNCHANGED stack
    BY <1>4 DEF Reject, Note
  <2>2. stack' \in [Handle -> Connection \cup {NoLink}] /\ SecureKnown'
    BY <2>1, TerminateFacts DEF Refuse, IInv, TypeOK, SecureKnown, Live
  <2>3. /\ peers' \in [Handle -> Peer \cup {NoPeer}]
        /\ LinksMatchPeers' /\ PeersMatchSlots'
    BY <2>1, RecordKeeps, TablesSame DEF IInv, TypeOK
  <2>4. links' \in [Slot -> Handle \cup {NoHandle}]
    BY <2>1 DEF IInv, TypeOK
  <2> QED
    BY <1>1, <1>2, <2>1, <2>2, <2>3, <2>4 DEF Event
<1>5. CASE Authenticate(e)
  <2> DEFINE p == PeerFor(e)
             c == stack[h].identity
  <2>1. stack[h] # NoLink /\ stack[h].secure /\ ~p.encrypted /\ Admitted(e)
    BY <1>5 DEF Authenticate
  <2>2. h \in Handle /\ c \in Computer /\ c # NoComputer
    BY <2>1, ComputerAssumption DEF Event, IInv, TypeOK, SecureKnown, Live, Connection
  <2>3. ~Forgotten(e)
    BY <2>1 DEF Admitted
  <2>4. CASE KnownSlot(c) # NoSlot /\ Claim(e, p, KnownSlot(c)) /\ UNCHANGED <<config, disk>>
    <3>1. KnownSlot(c) \in Slot /\ config.slots[KnownSlot(c)] = [assigned |-> 1, owner |-> c]
      BY <2>4, KnownSlotFacts
    <3>2. Tables
      BY <2>1, <2>3, <2>4, <3>1, ClaimKeeps
    <3> QED
      BY <1>1, <1>2, <2>2, <2>4, <3>2
  <2>5. CASE Record(e, p) /\ Refuse(e) /\ UNCHANGED <<config, disk, links>>
    <3>1. stack' \in [Handle -> Connection \cup {NoLink}] /\ SecureKnown'
      BY <2>5, TerminateFacts DEF Refuse, IInv
    <3>2. links' \in [Slot -> Handle \cup {NoHandle}]
      BY <2>5 DEF IInv, TypeOK
    <3> QED
      BY <1>1, <1>2, <2>2, <2>5, <3>1, <3>2, RecordKeeps
  <2>6. ASSUME KnownSlot(c) = NoSlot, config.slots[p.pairingSlot].assigned = 0, MayChange,
               Save([config EXCEPT !.slots[p.pairingSlot] = [assigned |-> 1, owner |-> c],
                                   !.generation = NextGeneration(@)]),
               Claim(e, p, p.pairingSlot)
        PROVE  IInv'
    <3> DEFINE s == p.pairingSlot
               r == [assigned |-> 1, owner |-> c]
    <3>1. s \in Slot
      <4>1. p \in Peer
        BY <2>2, NewPeerType DEF PeerFor, IInv, TypeOK, Event
      <4> QED
        BY <4>1 DEF Peer
    <3>2. r \in SlotRecord
      BY <2>2 DEF SlotRecord
    <3>3. /\ config' \in SlotConfig /\ disk' \in SlotConfig /\ Written' /\ SnapshotOlder'
          /\ config'.slots[s] = r
          /\ \A t \in Slot \ {s} : config'.slots[t] = config.slots[t]
      <4> HIDE DEF s, r
      <4>1. Save([config EXCEPT !.slots[s] = r, !.generation = NextGeneration(@)])
        BY <2>6 DEF s, r
      <4> QED
        BY <2>6, <3>1, <3>2, <4>1, SlotSaved
    <3>4. \A t \in Slot : config.slots[t].owner # c
      <4>1. SUFFICES ASSUME NEW t \in Slot, config.slots[t].owner = c
                     PROVE  FALSE
        OBVIOUS
      <4>2. config.slots[t] \in SlotRecord /\ config.slots[t] # FreeSlot
        BY <2>2, <4>1 DEF IInv, TypeOK, SlotConfig, FreeSlot
      <4>3. config.slots[t].assigned \in {1, 2}
        BY <4>2 DEF IInv, SlotShape, SlotRecord
      <4>4. config.slots[t] # [assigned |-> 2, owner |-> c]
        BY <2>1, <2>2 DEF Admitted, Marked
      <4>5. config.slots[t] # [assigned |-> 1, owner |-> c]
        <5>1. NoSlot \notin Slot
          BY SlotCountAssumption DEF Slot, NoSlot
        <5> QED
          BY <2>6, <5>1, KnownSlotFacts
      <4> QED
        BY <4>1, <4>2, <4>3, <4>4, <4>5 DEF SlotRecord
    <3>5. SlotShape' /\ OneSlotPerComputer'
      <4>1. r.assigned = 1 /\ r.owner = c
        OBVIOUS
      <4> HIDE DEF r, s, c, p, h
      <4> QED
        BY <2>2, <3>1, <3>3, <3>4, <4>1 DEF IInv, SlotShape, OneSlotPerComputer
    <3>6. Tables
      <4> HIDE DEF Tables
      <4> QED
        BY <2>1, <2>3, <2>6, <3>1, <3>3, ClaimKeeps DEF Tables
    <3> QED
      BY <1>1, <3>3, <3>5, <3>6
  <2> QED
    BY <1>5, <2>4, <2>5, <2>6 DEF Authenticate
<1> QED
  BY <1>3, <1>4, <1>5 DEF Process

\* Links are taken away, and the peer of a handle at most with them.
LEMMA UnlinkKeeps ==
  ASSUME IInv, NEW h \in Handle, links' = Unlink({h}), UNCHANGED <<config, task>>,
         peers' \in [Handle -> Peer \cup {NoPeer}], peers'[h] = NoPeer \/ peers' = peers,
         \A g \in Handle \ {h} : peers'[g] = peers[g]
  PROVE  links' \in [Slot -> Handle \cup {NoHandle}] /\ LinksMatchPeers' /\ PeersMatchSlots'
<1>1. links \in [Slot -> Handle \cup {NoHandle}]
  BY DEF IInv, TypeOK
<1>2. /\ links' \in [Slot -> Handle \cup {NoHandle}]
      /\ \A s \in Slot : links'[s] = NoHandle \/ (links'[s] = links[s] /\ links[s] # h)
  BY <1>1 DEF Unlink
<1>3. LinksMatchPeers'
  <2>1. ASSUME NEW s \in Slot, links'[s] # NoHandle
        PROVE  /\ peers'[links'[s]] # NoPeer /\ peers'[links'[s]].slot = s
               /\ peers'[links'[s]].encrypted /\ ~peers'[links'[s]].forgetting
    <3> DEFINE g == links[s]
    <3>1. links'[s] = g /\ g \in Handle \ {h}
      BY <1>1, <1>2, <2>1
    <3>2. peers'[g] = peers[g]
      BY <3>1
    <3>3. peers[g] # NoPeer /\ peers[g].slot = s /\ peers[g].encrypted /\ ~peers[g].forgetting
      BY <2>1, <3>1 DEF IInv, LinksMatchPeers
    <3> QED
      BY <3>1, <3>2, <3>3
  <2>2. \A g \in Handle : peers'[g] # NoPeer => peers'[g] = peers[g]
    <3>1. CASE peers' = peers
      BY <3>1
    <3>2. CASE peers'[h] = NoPeer
      BY <3>2
    <3> QED
      BY <3>1, <3>2
  <2>3. ASSUME NEW g \in Handle, NEW k \in Handle, peers'[g] # NoPeer, peers'[k] # NoPeer,
               peers'[g].slot # NoSlot, ~peers'[g].forgetting, peers'[k].slot # NoSlot,
               ~peers'[k].forgetting, peers'[g].slot = peers'[k].slot
        PROVE  g = k
    <3>1. peers'[g] = peers[g] /\ peers'[k] = peers[k]
      BY <2>2, <2>3
    <3> QED
      BY <2>3, <3>1 DEF IInv, LinksMatchPeers, UsedPeers
  <2> QED
    BY <2>1, <2>3 DEF LinksMatchPeers, UsedPeers
<1>4. PeersMatchSlots'
  BY DEF IInv, PeersMatchSlots, UsedPeers, Leaving
<1> QED
  BY <1>2, <1>3, <1>4

\* The first event of the queue; a disconnection takes the peer's link too.
LEMMA HandleEventKeeps ==
  ASSUME IInv, HandleEvent
  PROVE  IInv'
<1> DEFINE e == Head(queue)
<1>1. /\ Running /\ e \in Event /\ queue' = Tail(queue) /\ queue' \in Seq(Event)
      /\ Len(queue') <= QueueLength /\ UNCHANGED <<overflow, task, bonds, snapshot>>
  BY TailFacts DEF HandleEvent, IInv
<1>2. overflow' \in BOOLEAN
  BY <1>1 DEF IInv, TypeOK
<1>3. CASE e.kind # "disconnected"
  <2>1. Process(e)
    BY <1>3 DEF HandleEvent
  <2> HIDE DEF e
  <2> QED
    BY <1>1, <1>2, <2>1, ProcessKeeps
<1>4. CASE e.kind = "disconnected"
  <2> DEFINE h == e.handle
  <2>1. /\ links' = Unlink({h}) /\ peers' = [peers EXCEPT ![h] = NoPeer]
        /\ UNCHANGED <<config, disk, stack>> /\ h \in Handle
    BY <1>1, <1>4 DEF HandleEvent, Record, Event
  <2> HIDE DEF e, h
  <2>2. /\ peers' \in [Handle -> Peer \cup {NoPeer}] /\ peers'[h] = NoPeer
        /\ \A g \in Handle \ {h} : peers'[g] = peers[g]
    BY <2>1, RecordFacts DEF IInv
  <2>3. UNCHANGED task
    BY <1>1
  <2>4. links' \in [Slot -> Handle \cup {NoHandle}] /\ LinksMatchPeers' /\ PeersMatchSlots'
    BY <2>1, <2>2, <2>3, UnlinkKeeps
  <2>5. Written' /\ SlotShape' /\ OneSlotPerComputer' /\ RemovalMarked' /\ SnapshotOlder'
    BY <1>1, <2>1, AssignmentsSame
  <2>6. SecureKnown'
    BY <2>1 DEF IInv, SecureKnown, Live
  <2>7. TypeOK'
    BY <1>1, <1>2, <2>1, <2>2, <2>4 DEF IInv, TypeOK
  <2> QED
    BY <2>4, <2>5, <2>6, <2>7 DEF IInv
<1> QED
  BY <1>3, <1>4

\* The check that stands in for a callback.
LEMMA RestoreKeeps ==
  ASSUME IInv, NEW h \in Handle, Restore(h)
  PROVE  IInv'
<1> DEFINE e == [kind |-> "authenticated", handle |-> h, identity |-> stack[h].identity]
<1>1. e \in Event
  BY DEF Restore, Live, IInv, TypeOK, Connection, Event
<1>2. Running /\ Process(e) /\ UNCHANGED <<queue, overflow, task, bonds, snapshot>>
  BY DEF Restore
<1>3. queue' \in Seq(Event) /\ Len(queue') <= QueueLength /\ overflow' \in BOOLEAN
  BY <1>2 DEF IInv, TypeOK
<1> HIDE DEF e
<1> QED
  BY <1>1, <1>2, <1>3, ProcessKeeps

\* After an overflow every table begins again.
LEMMA ResetOverflowKeeps ==
  ASSUME IInv, ResetOverflow
  PROVE  IInv'
<1>1. /\ overflow' = FALSE /\ queue' = <<>> /\ links' = Unlink(UsedPeers)
      /\ peers' = [h \in Handle |-> NoPeer] /\ stack' = Terminate(Live)
      /\ UNCHANGED <<config, disk, task, bonds, snapshot>>
  BY DEF ResetOverflow
<1>2. \A s \in Slot : links'[s] = NoHandle
  BY <1>1 DEF Unlink, IInv, TypeOK, LinksMatchPeers, UsedPeers
<1>3. links' = [s \in Slot |-> links'[s]]
  BY <1>1 DEF Unlink
<1>4. links' \in [Slot -> Handle \cup {NoHandle}]
  BY <1>2, <1>3
<1>5. LinksMatchPeers' /\ PeersMatchSlots'
  BY <1>1, <1>2 DEF LinksMatchPeers, PeersMatchSlots, UsedPeers
<1>6. stack' \in [Handle -> Connection \cup {NoLink}] /\ SecureKnown'
  BY <1>1, TerminateFacts DEF IInv
<1>7. Written' /\ SlotShape' /\ OneSlotPerComputer' /\ RemovalMarked' /\ SnapshotOlder'
  BY <1>1, AssignmentsSame
<1>8. queue' \in Seq(Event) /\ Len(queue') <= QueueLength
  BY <1>1, EmptySeq, QueueAssumption
<1>9. TypeOK'
  BY <1>1, <1>4, <1>6, <1>8 DEF IInv, TypeOK
<1> QED
  BY <1>5, <1>6, <1>7, <1>9 DEF IInv

\* A connection is given up; its peer stays until the disconnection.
LEMMA GiveUpKeeps ==
  ASSUME IInv, NEW h \in Handle, GiveUp(h)
  PROVE  IInv'
<1>1. /\ links' = Unlink({h}) /\ stack' = Terminate({h})
      /\ UNCHANGED <<config, disk, peers, queue, overflow, task, bonds, snapshot>>
  BY DEF GiveUp
<1>2. links' \in [Slot -> Handle \cup {NoHandle}] /\ LinksMatchPeers' /\ PeersMatchSlots'
  BY <1>1, UnlinkKeeps DEF IInv, TypeOK
<1>3. stack' \in [Handle -> Connection \cup {NoLink}] /\ SecureKnown'
  BY <1>1, TerminateFacts DEF IInv
<1>4. Written' /\ SlotShape' /\ OneSlotPerComputer' /\ RemovalMarked' /\ SnapshotOlder'
  BY <1>1, AssignmentsSame
<1>5. TypeOK'
  BY <1>1, <1>2, <1>3 DEF IInv, TypeOK
<1> QED
  BY <1>2, <1>3, <1>4, <1>5 DEF IInv

-----------------------------------------------------------------------------
\* Commands.

\* The selection moves; the assignments stay.
LEMMA SelectSlotKeeps ==
  ASSUME IInv, NEW s \in Slot, SelectSlot(s)
  PROVE  IInv'
<1> DEFINE g == NextGeneration(config.generation)
<1>1. config \in SlotConfig /\ g \in 0 .. Generations - 1
  BY NextGenerationFacts DEF IInv, TypeOK, SlotConfig
<1>2. /\ MayChange /\ config' = [config EXCEPT !.selected = s, !.generation = g]
      /\ disk' = config' /\ UNCHANGED <<ramVars, task, radioVars, snapshot>>
  BY DEF SelectSlot, Save
<1> HIDE DEF g
<1>3. config' \in SlotConfig /\ config'.slots = config.slots /\ config'.generation = g
  BY <1>1, <1>2 DEF SlotConfig
<1>4. TypeOK'
  BY <1>2, <1>3 DEF IInv, TypeOK, ramVars, radioVars
<1>5. Written' /\ SlotShape' /\ OneSlotPerComputer' /\ RemovalMarked'
  BY <1>2, <1>3 DEF IInv, Written, SlotShape, OneSlotPerComputer, RemovalMarked, radioVars
<1>6. SnapshotOlder'
  BY <1>2, <1>3, SnapshotAges DEF g
<1>7. SecureKnown' /\ LinksMatchPeers' /\ PeersMatchSlots'
  BY <1>2, <1>3
  DEF IInv, SecureKnown, Live, LinksMatchPeers, PeersMatchSlots, UsedPeers, Leaving, ramVars, radioVars
<1> QED
  BY <1>4, <1>5, <1>6, <1>7 DEF IInv

\* A client reads the assignments with their generation.
LEMMA ReadConfigKeeps ==
  ASSUME IInv, ReadConfig
  PROVE  IInv'
<1> DEFINE new == [generation |-> config.generation, slots |-> config.slots]
<1>1. /\ Generations > 1 /\ snapshot' = new
      /\ UNCHANGED <<config, disk, ramVars, task, radioVars>>
  BY DEF ReadConfig
<1>2. config.slots \in [Slot -> SlotRecord] /\ config.generation \in 0 .. Generations - 1
  BY DEF IInv, TypeOK, SlotConfig
<1>3. new \in Snapshot /\ new.generation = config.generation /\ new.slots = config.slots
  BY <1>2 DEF Snapshot
<1> HIDE DEF new
<1>4. TypeOK'
  BY <1>1, <1>3 DEF IInv, TypeOK, ramVars, radioVars
<1>5. Written' /\ SlotShape' /\ OneSlotPerComputer' /\ RemovalMarked'
  BY <1>1 DEF IInv, Written, SlotShape, OneSlotPerComputer, RemovalMarked, radioVars
<1>6. SnapshotOlder'
  <2>1. config.generation <= config.generation
    BY <1>2, GenerationsAssumption
  <2> QED
    BY <1>1, <1>3, <2>1 DEF SnapshotOlder
<1>7. SecureKnown' /\ LinksMatchPeers' /\ PeersMatchSlots'
  BY <1>1
  DEF IInv, SecureKnown, Live, LinksMatchPeers, PeersMatchSlots, UsedPeers, Leaving, ramVars, radioVars
<1> QED
  BY <1>4, <1>5, <1>6, <1>7 DEF IInv

\* An order of the slots: every slot once.
LEMMA OrderFacts ==
  ASSUME NEW order \in Orders
  PROVE  /\ order \in [Slot -> Slot] /\ \A t \in Slot : \E s \in Slot : order[s] = t
         /\ \A s, t \in Slot : order[s] = order[t] => s = t
<1>1. order \in [Slot -> Slot] /\ \A t \in Slot : \E s \in Slot : order[s] = t
  BY DEF Orders
<1>2. IsFiniteSet(Slot)
  BY FS_Interval, SlotCountAssumption DEF Slot
<1>3. order \in Surjection(Slot, Slot)
  BY <1>1 DEF Surjection
<1>4. order \in Injection(Slot, Slot)
  BY <1>2, <1>3, FS_SurjSameCardinalityImpliesInj
<1> QED
  BY <1>1, <1>4 DEF Injection, IsInjective

\* configure(): the assignments, the peers and the links are permuted alike.
LEMMA ConfigureKeeps ==
  ASSUME IInv, NEW order \in Orders, Configure(order)
  PROVE  IInv'
<1> DEFINE slots == [s \in Slot |-> config.slots[order[s]]]
           selected == CHOOSE s \in Slot : order[s] = config.selected
           g == NextGeneration(config.generation)
<1>1. /\ order \in [Slot -> Slot] /\ \A t \in Slot : \E s \in Slot : order[s] = t
      /\ \A s, t \in Slot : order[s] = order[t] => s = t
  BY OrderFacts
<1>2. /\ config \in SlotConfig /\ config.slots \in [Slot -> SlotRecord] /\ config.selected \in Slot
      /\ g \in 0 .. Generations - 1
      /\ peers \in [Handle -> Peer \cup {NoPeer}] /\ links \in [Slot -> Handle \cup {NoHandle}]
  BY NextGenerationFacts DEF IInv, TypeOK, SlotConfig
<1>3. /\ Running /\ ~Pairing /\ MayChange
      /\ config' = [slots |-> slots, selected |-> selected, generation |-> g] /\ disk' = config'
      /\ peers' = [h \in Handle |->
                     IF h \in UsedPeers
                     THEN [peers[h] EXCEPT !.slot = KnownIn(slots, peers[h].identity)]
                     ELSE NoPeer]
      /\ links' = [s \in Slot |-> links[order[s]]]
      /\ UNCHANGED <<queue, overflow, task, radioVars, snapshot>>
  BY DEF Configure, Save
<1>4. slots \in [Slot -> SlotRecord] /\ \A s \in Slot : slots[s] = config.slots[order[s]]
  BY <1>1, <1>2
<1>5. selected \in Slot
  BY <1>1, <1>2
<1> HIDE DEF slots, selected, g
<1>6. config' \in SlotConfig /\ config'.slots = slots /\ config'.generation = g
  BY <1>2, <1>3, <1>4, <1>5 DEF SlotConfig
<1>7. SlotShape' /\ OneSlotPerComputer'
  BY <1>1, <1>4, <1>6 DEF IInv, SlotShape, OneSlotPerComputer
<1>8. SnapshotOlder'
  BY <1>3, <1>6, SnapshotAges DEF g
<1>9. ASSUME NEW c, NEW known, known = KnownIn(slots, c)
      PROVE  /\ known \in Slot \cup {NoSlot}
             /\ known \in Slot => slots[known] = [assigned |-> 1, owner |-> c]
             /\ \A s \in Slot : slots[s] = [assigned |-> 1, owner |-> c] => known = s
  <2>1. \A s, t \in Slot : slots[s] = [assigned |-> 1, owner |-> c]
                           /\ slots[t] = [assigned |-> 1, owner |-> c] => s = t
    BY <1>6, <1>7 DEF OneSlotPerComputer
  <2> QED
    BY <1>4, <1>9, <2>1, KnownInFacts
<1>10. ASSUME NEW h \in Handle
       PROVE  /\ h \notin UsedPeers => peers'[h] = NoPeer
              /\ h \in UsedPeers =>
                   /\ peers[h] \in Peer /\ peers[h].slot \in Slot /\ peers'[h] \in Peer
                   /\ peers'[h].slot = KnownIn(slots, peers[h].identity)
                   /\ peers'[h].identity = peers[h].identity
                   /\ peers'[h].encrypted = peers[h].encrypted
                   /\ peers'[h].forgetting = peers[h].forgetting
  <2>1. CASE h \notin UsedPeers
    BY <1>3, <2>1
  <2>2. CASE h \in UsedPeers
    <3>1. peers[h] \in Peer /\ peers[h].slot \in Slot
      BY <1>2, <1>3, <2>2 DEF UsedPeers, Pairing, Peer
    <3> DEFINE k == KnownIn(slots, peers[h].identity)
    <3>2. k \in Slot \cup {NoSlot} /\ peers'[h] = [peers[h] EXCEPT !.slot = k]
      BY <1>3, <1>9, <2>2
    <3> HIDE DEF k
    <3>3. /\ peers'[h] \in Peer /\ peers'[h].slot = k /\ peers'[h].identity = peers[h].identity
          /\ peers'[h].encrypted = peers[h].encrypted /\ peers'[h].forgetting = peers[h].forgetting
      BY <3>1, <3>2 DEF Peer
    <3> QED
      BY <2>2, <3>1, <3>3 DEF k
  <2> QED
    BY <2>1, <2>2
<1>11. peers' \in [Handle -> Peer \cup {NoPeer}]
  <2>1. peers' = [h \in Handle |-> peers'[h]]
    BY <1>3
  <2> QED
    BY <1>10, <2>1
<1>12. \A h \in Handle : h \in UsedPeers' <=> h \in UsedPeers
  BY <1>10, NothingAssumption DEF UsedPeers
<1>13. \A s \in Slot : links'[s] = links[order[s]]
  BY <1>3
<1>14. links' \in [Slot -> Handle \cup {NoHandle}]
  BY <1>1, <1>2, <1>3
<1>15. ASSUME NEW h \in UsedPeers, ~peers[h].forgetting
       PROVE  config.slots[peers[h].slot] = [assigned |-> 1, owner |-> peers[h].identity]
  <2>1. h \in Handle /\ peers[h].slot \in Slot /\ peers[h].slot # NoSlot
    BY <1>10, <1>15, SlotCountAssumption DEF UsedPeers, Slot, NoSlot
  <2>2. /\ config.slots[peers[h].slot].assigned = 1
        /\ config.slots[peers[h].slot].owner = peers[h].identity
    BY <1>3, <1>15, <2>1 DEF IInv, PeersMatchSlots, Running, Leaving
  <2> QED
    BY <1>2, <2>1, <2>2 DEF SlotRecord
<1>16. LinksMatchPeers'
  <2>1. ASSUME NEW s \in Slot, links'[s] # NoHandle
        PROVE  /\ peers'[links'[s]] # NoPeer /\ peers'[links'[s]].slot = s
               /\ peers'[links'[s]].encrypted /\ ~peers'[links'[s]].forgetting
    <3> DEFINE h == links[order[s]]
    <3>1. /\ h \in Handle /\ links'[s] = h /\ order[s] \in Slot /\ peers[h] # NoPeer
          /\ peers[h].slot = order[s] /\ peers[h].encrypted /\ ~peers[h].forgetting
      BY <1>1, <1>2, <1>13, <2>1 DEF IInv, LinksMatchPeers
    <3> HIDE DEF h
    <3>2. h \in UsedPeers
      BY <3>1 DEF UsedPeers
    <3>3. slots[s] = [assigned |-> 1, owner |-> peers[h].identity]
      BY <1>4, <1>15, <3>1, <3>2
    <3>4. KnownIn(slots, peers[h].identity) = s
      BY <1>9, <3>3
    <3> QED
      BY <1>10, <3>1, <3>2, <3>4, NothingAssumption
  <2>2. ASSUME NEW g1 \in UsedPeers', NEW h1 \in UsedPeers',
               peers'[g1].slot # NoSlot, ~peers'[g1].forgetting,
               peers'[h1].slot # NoSlot, ~peers'[h1].forgetting,
               peers'[g1].slot = peers'[h1].slot
        PROVE  g1 = h1
    <3>1. /\ g1 \in UsedPeers /\ h1 \in UsedPeers /\ g1 \in Handle /\ h1 \in Handle
          /\ ~peers[g1].forgetting /\ ~peers[h1].forgetting
          /\ peers[g1].slot \in Slot /\ peers[h1].slot \in Slot
      BY <1>10, <1>12, <2>2 DEF UsedPeers
    <3>2. KnownIn(slots, peers[g1].identity) = KnownIn(slots, peers[h1].identity)
          /\ KnownIn(slots, peers[g1].identity) \in Slot
      <4>1. /\ peers'[g1].slot = KnownIn(slots, peers[g1].identity)
            /\ peers'[h1].slot = KnownIn(slots, peers[h1].identity)
        BY <1>10, <3>1
      <4>2. KnownIn(slots, peers[g1].identity) \in Slot \cup {NoSlot}
        BY <1>9
      <4> QED
        BY <2>2, <4>1, <4>2
    <3>3. peers[g1].identity = peers[h1].identity
      <4> DEFINE k == KnownIn(slots, peers[g1].identity)
      <4>1. slots[k] = [assigned |-> 1, owner |-> peers[g1].identity]
        BY <1>9, <3>2
      <4>2. slots[k] = [assigned |-> 1, owner |-> peers[h1].identity]
        BY <1>9, <3>2
      <4> HIDE DEF k
      <4> QED
        BY <4>1, <4>2
    <3>4. peers[g1].slot = peers[h1].slot
      <4>1. /\ config.slots[peers[g1].slot] = [assigned |-> 1, owner |-> peers[g1].identity]
            /\ config.slots[peers[h1].slot] = [assigned |-> 1, owner |-> peers[g1].identity]
        BY <1>15, <3>1, <3>3
      <4>2. /\ config.slots[peers[g1].slot].assigned # 0
            /\ config.slots[peers[g1].slot].owner = config.slots[peers[h1].slot].owner
        BY <4>1
      <4> QED
        BY <3>1, <4>2 DEF IInv, OneSlotPerComputer
    <3>5. NoSlot \notin Slot
      BY SlotCountAssumption DEF Slot, NoSlot
    <3> QED
      BY <3>1, <3>4, <3>5 DEF IInv, LinksMatchPeers
  <2> QED
    BY <2>1, <2>2 DEF LinksMatchPeers
<1>17. PeersMatchSlots'
  <2>1. SUFFICES ASSUME NEW h \in UsedPeers', peers'[h].slot # NoSlot, ~peers'[h].forgetting
                 PROVE  /\ slots[peers'[h].slot].owner = peers'[h].identity
                        /\ slots[peers'[h].slot].assigned = 1
    BY <1>3, <1>6 DEF PeersMatchSlots, Leaving, Running
  <2>2. /\ h \in UsedPeers /\ h \in Handle
        /\ peers'[h].slot = KnownIn(slots, peers[h].identity) /\ peers'[h].identity = peers[h].identity
    BY <1>10, <1>12, <2>1 DEF UsedPeers
  <2>3. slots[peers'[h].slot] = [assigned |-> 1, owner |-> peers[h].identity]
    BY <1>9, <2>1, <2>2
  <2> QED
    BY <2>2, <2>3
<1>18. SecureKnown' /\ Written' /\ RemovalMarked'
  BY <1>3 DEF IInv, SecureKnown, Live, Written, RemovalMarked, Running, radioVars
<1>19. TypeOK'
  BY <1>3, <1>6, <1>11, <1>14 DEF IInv, TypeOK, radioVars
<1> QED
  BY <1>7, <1>8, <1>16, <1>17, <1>18, <1>19 DEF IInv

-----------------------------------------------------------------------------
\* The removal of a pairing.

\* forgetComputer(): the mark is written first.
LEMMA ForgetKeeps ==
  ASSUME IInv, NEW s \in Slot, Forget(s)
  PROVE  IInv'
<1>1. /\ Running /\ config.slots[s].assigned # 0 /\ UNCHANGED <<ramVars, radioVars, snapshot>>
      /\ task' = [phase |-> "unpair", slot |-> s, booting |-> FALSE]
  BY DEF Forget
<1>2. config.slots \in [Slot -> SlotRecord] /\ config.slots[s] \in SlotRecord
  BY DEF IInv, TypeOK, SlotConfig
<1>3. /\ task' \in Task /\ task'.phase = "unpair" /\ task'.slot = s
      /\ \A t \in Slot : ~Leaving(t) /\ (Leaving(t)' <=> t = s)
  BY <1>1 DEF Task, Running, Leaving
<1>4. /\ config' \in SlotConfig /\ disk' \in SlotConfig /\ Written' /\ SnapshotOlder'
      /\ config'.slots[s].assigned = 2 /\ config'.slots[s].owner = config.slots[s].owner
      /\ \A t \in Slot \ {s} : config'.slots[t] = config.slots[t]
  <2>1. CASE config.slots[s].assigned = 1
    <3> DEFINE r == [config.slots[s] EXCEPT !.assigned = 2]
    <3>1. MayChange /\ Save([config EXCEPT !.slots[s].assigned = 2, !.generation = NextGeneration(@)])
      BY <2>1 DEF Forget
    <3>2. r \in SlotRecord /\ r.assigned = 2 /\ r.owner = config.slots[s].owner
      BY <1>2 DEF SlotRecord
    <3>3. Save([config EXCEPT !.slots[s] = r, !.generation = NextGeneration(@)])
      BY <1>2, <3>1
    <3> HIDE DEF r
    <3> QED
      BY <1>1, <3>1, <3>2, <3>3, SlotSaved
  <2>2. CASE config.slots[s].assigned # 1
    <3>1. UNCHANGED <<config, disk>> /\ config.slots[s].assigned = 2
      BY <1>1, <1>2, <2>2 DEF Forget, SlotRecord
    <3> QED
      BY <1>1, <3>1 DEF IInv, TypeOK, Written, SnapshotOlder
  <2> QED
    BY <2>1, <2>2
<1>5. TypeOK'
  BY <1>1, <1>3, <1>4 DEF IInv, TypeOK, ramVars, radioVars
<1>6. SlotShape' /\ OneSlotPerComputer'
  <2>1. config.slots[s].owner \in Computer
    BY <1>1 DEF IInv, SlotShape, FreeSlot
  <2>2. \A t \in Slot : config'.slots[t].owner = config.slots[t].owner
                       /\ (config'.slots[t].assigned # 0 => config.slots[t].assigned # 0)
    BY <1>1, <1>4
  <2> QED
    BY <1>4, <2>1, <2>2 DEF IInv, SlotShape, OneSlotPerComputer
<1>7. RemovalMarked'
  BY <1>3, <1>4 DEF RemovalMarked
<1>8. SecureKnown' /\ LinksMatchPeers'
  BY <1>1 DEF IInv, SecureKnown, Live, LinksMatchPeers, UsedPeers, ramVars, radioVars
<1>9. PeersMatchSlots'
  BY <1>1, <1>3, <1>4
  DEF IInv, TypeOK, Peer, PeersMatchSlots, UsedPeers, Leaving, ramVars
<1> QED
  BY <1>4, <1>5, <1>6, <1>7, <1>8, <1>9 DEF IInv

\* The next step after a removal, completed or not.
LEMMA AfterRemovalFacts ==
  ASSUME TypeOK
  PROVE  /\ AfterRemoval \in Task /\ AfterRemoval.phase \in {"run", "boot"}
         /\ BootAt(task.slot + 1) \in Task /\ BootAt(task.slot + 1).phase \in {"run", "boot"}
<1>1. Run \in Task /\ Run.phase = "run"
  BY SlotCountAssumption DEF Run, Task, Slot
<1>2. ASSUME NEW s \in Slot
      PROVE  /\ [phase |-> "boot", slot |-> s, booting |-> TRUE] \in Task
             /\ [phase |-> "boot", slot |-> s, booting |-> TRUE].phase = "boot"
  BY DEF Task
<1>3. BootAt(task.slot + 1) \in Task /\ BootAt(task.slot + 1).phase \in {"run", "boot"}
  BY <1>1, <1>2 DEF BootAt
<1> QED
  BY <1>1, <1>3 DEF AfterRemoval

\* forgetPairing(): the peers of the slot lose it, and then the bond goes.
LEMMA UnpairKeeps ==
  ASSUME IInv, NEW removed \in BOOLEAN, Unpair(removed)
  PROVE  IInv'
<1> DEFINE s == task.slot
           c == config.slots[s].owner
           mine == {h \in UsedPeers : peers[h].slot = s}
           theirs == {h \in Live : stack[h].identity = c}
<1>1. /\ task.phase = "unpair"
      /\ peers' = [h \in Handle |-> IF h \in mine THEN [peers[h] EXCEPT !.forgetting = TRUE]
                                    ELSE peers[h]]
      /\ links' = Unlink(mine) /\ UNCHANGED <<config, disk, queue, overflow, snapshot>>
      /\ bonds' \subseteq bonds
      /\ \/ task' = [task EXCEPT !.phase = "clear"] /\ bonds' = bonds \ {c}
         \/ task' = AfterRemoval
      /\ stack' = Terminate(mine \cup theirs) \/ stack' = Terminate(mine)
  BY DEF Unpair
<1>2. s \in Slot /\ task \in Task
      /\ peers \in [Handle -> Peer \cup {NoPeer}] /\ links \in [Slot -> Handle \cup {NoHandle}]
  BY DEF IInv, TypeOK, Task
<1>3. /\ task' \in Task /\ task'.phase # "unpair"
      /\ task'.phase = "clear" => task'.slot = s /\ bonds' = bonds \ {c}
  <2>1. CASE task' = [task EXCEPT !.phase = "clear"] /\ bonds' = bonds \ {c}
    BY <1>2, <2>1 DEF Task
  <2>2. CASE task' = AfterRemoval
    BY <2>2, AfterRemovalFacts DEF IInv
  <2> QED
    BY <1>1, <2>1, <2>2
<1>4. stack' \in [Handle -> Connection \cup {NoLink}] /\ SecureKnown'
  <2> HIDE DEF mine, theirs
  <2> QED
    BY <1>1, TerminateFacts DEF IInv
<1>5. ASSUME NEW h \in Handle
      PROVE  /\ peers'[h] \in Peer \cup {NoPeer} /\ (peers'[h] # NoPeer => peers[h] # NoPeer)
             /\ h \in mine => peers'[h].forgetting
             /\ h \notin mine => peers'[h] = peers[h]
  <2>1. CASE h \in mine
    <3>1. peers[h] \in Peer /\ peers[h] # NoPeer
      BY <1>2, <2>1 DEF UsedPeers
    <3>2. peers'[h] = [peers[h] EXCEPT !.forgetting = TRUE]
      BY <1>1, <2>1
    <3> QED
      BY <2>1, <3>1, <3>2 DEF Peer
  <2>2. CASE h \notin mine
    BY <1>1, <1>2, <2>2
  <2> QED
    BY <2>1, <2>2
<1>6. peers' \in [Handle -> Peer \cup {NoPeer}]
  BY <1>1, <1>5
<1>7. /\ links' \in [Slot -> Handle \cup {NoHandle}]
      /\ \A t \in Slot : links'[t] # NoHandle => links'[t] = links[t] /\ links[t] \notin mine
  <2> HIDE DEF mine
  <2> QED
    BY <1>1, <1>2 DEF Unlink
<1>8. TypeOK'
  BY <1>1, <1>3, <1>4, <1>6, <1>7 DEF IInv, TypeOK
<1>9. Written' /\ SlotShape' /\ OneSlotPerComputer' /\ SnapshotOlder'
  BY <1>1 DEF IInv, Written, SlotShape, OneSlotPerComputer, SnapshotOlder
<1>10. RemovalMarked'
  BY <1>1, <1>3 DEF IInv, RemovalMarked
<1>11. LinksMatchPeers'
  <2>1. \A t \in Slot : links'[t] # NoHandle =>
          /\ peers'[links'[t]] # NoPeer /\ peers'[links'[t]].slot = t
          /\ peers'[links'[t]].encrypted /\ ~peers'[links'[t]].forgetting
    <3> HIDE DEF mine
    <3> QED
      BY <1>2, <1>5, <1>7 DEF IInv, LinksMatchPeers
  <2>2. \A h \in UsedPeers' : ~peers'[h].forgetting => h \in UsedPeers /\ peers'[h] = peers[h]
    <3> HIDE DEF mine
    <3> QED
      BY <1>5 DEF UsedPeers
  <2> HIDE DEF mine
  <2> QED
    BY <2>1, <2>2 DEF IInv, LinksMatchPeers
<1>12. PeersMatchSlots'
  <2>1. \A h \in UsedPeers' : ~peers'[h].forgetting =>
           h \in UsedPeers /\ peers'[h] = peers[h] /\ peers[h].slot # s
    BY <1>5 DEF UsedPeers
  <2>2. \A t \in Slot \ {s} : ~Leaving(t) /\ ~Leaving(t)'
    BY <1>3 DEF Leaving
  <2> HIDE DEF mine, s
  <2>3. \A h \in UsedPeers : peers[h].slot \in Slot \cup {NoSlot}
    BY <1>2 DEF UsedPeers, Peer
  <2> QED
    BY <1>1, <2>1, <2>2, <2>3 DEF IInv, PeersMatchSlots
<1> QED
  BY <1>4, <1>8, <1>9, <1>10, <1>11, <1>12 DEF IInv

\* The second write: the slot whose bond is gone is free.
LEMMA ClearSlotKeeps ==
  ASSUME IInv, NEW saved \in BOOLEAN, ClearSlot(saved)
  PROVE  IInv'
<1> DEFINE s == task.slot
<1>1. /\ task.phase = "clear" /\ task' = AfterRemoval /\ UNCHANGED <<ramVars, radioVars, snapshot>>
      /\ s \in Slot
  BY DEF ClearSlot, IInv, TypeOK, Task
<1>2. task' \in Task /\ task'.phase \in {"run", "boot"}
  BY <1>1, AfterRemovalFacts DEF IInv
<1>3. FreeSlot \in SlotRecord
  BY DEF FreeSlot, SlotRecord
<1>4. /\ config' \in SlotConfig /\ disk' \in SlotConfig /\ Written' /\ SnapshotOlder'
      /\ config'.slots[s] \in {FreeSlot, config.slots[s]}
      /\ \A t \in Slot \ {s} : config'.slots[t] = config.slots[t]
  <2>1. CASE saved
    <3>1. MayChange /\ Save([config EXCEPT !.slots[s] = FreeSlot, !.generation = NextGeneration(@)])
      BY <2>1 DEF ClearSlot
    <3> HIDE DEF s
    <3> QED
      BY <1>1, <1>3, <3>1, SlotSaved
  <2>2. CASE ~saved
    BY <1>1, <2>2 DEF ClearSlot, IInv, TypeOK, Written, SnapshotOlder
  <2> QED
    BY <2>1, <2>2
<1>5. config.slots[s].assigned = 2 /\ \A t \in Slot : ~Leaving(t) /\ ~Leaving(t)'
  BY <1>1, <1>2 DEF IInv, RemovalMarked, Leaving
<1> HIDE DEF s
<1>6. TypeOK'
  BY <1>1, <1>2, <1>4 DEF IInv, TypeOK, ramVars, radioVars
<1>7. SlotShape' /\ OneSlotPerComputer'
  <2>1. \A t \in Slot : config'.slots[t] \in {FreeSlot, config.slots[t]}
    BY <1>4
  <2>2. SlotShape'
    BY <2>1 DEF IInv, SlotShape
  <2>3. \A t \in Slot : config'.slots[t].assigned # 0 => config'.slots[t] = config.slots[t]
    BY <2>1 DEF FreeSlot
  <2>4. \A t \in Slot : config'.slots[t].assigned # 0 => config'.slots[t].owner # NoComputer
    BY <2>2, ComputerAssumption DEF SlotShape, FreeSlot
  <2>5. \A t \in Slot : config'.slots[t].owner # NoComputer => config'.slots[t] = config.slots[t]
    BY <2>1 DEF FreeSlot
  <2> QED
    BY <2>2, <2>3, <2>4, <2>5 DEF IInv, OneSlotPerComputer
<1>8. RemovalMarked'
  BY <1>2 DEF RemovalMarked
<1>9. SecureKnown' /\ LinksMatchPeers'
  BY <1>1 DEF IInv, SecureKnown, Live, LinksMatchPeers, UsedPeers, ramVars, radioVars
<1>10. PeersMatchSlots'
  BY <1>1, <1>4, <1>5
  DEF IInv, TypeOK, Peer, PeersMatchSlots, UsedPeers, ramVars
<1> QED
  BY <1>4, <1>6, <1>7, <1>8, <1>9, <1>10 DEF IInv

\* begin(): a marked slot is taken up again, any other is passed over.
LEMMA BootKeeps ==
  ASSUME IInv, Boot
  PROVE  IInv'
<1>1. /\ task.phase = "boot" /\ UNCHANGED <<config, disk, ramVars, radioVars, snapshot>>
      /\ task.slot \in Slot /\ task \in Task
  BY DEF Boot, IInv, TypeOK, Task
<1>2. /\ task' \in Task /\ task'.phase # "clear"
      /\ task'.phase = "unpair" => task'.slot = task.slot /\ config.slots[task.slot].assigned = 2
  <2>1. CASE config.slots[task.slot].assigned = 2
    <3>1. task' = [task EXCEPT !.phase = "unpair"]
      BY <2>1 DEF Boot
    <3> QED
      BY <1>1, <2>1, <3>1 DEF Task
  <2>2. CASE config.slots[task.slot].assigned # 2
    <3>1. task' = BootAt(task.slot + 1)
      BY <2>2 DEF Boot
    <3> QED
      BY <3>1, AfterRemovalFacts DEF IInv
  <2> QED
    BY <2>1, <2>2
<1>3. TypeOK'
  BY <1>1, <1>2 DEF IInv, TypeOK, ramVars, radioVars
<1>4. Written' /\ SlotShape' /\ OneSlotPerComputer' /\ SnapshotOlder' /\ RemovalMarked'
  BY <1>1, <1>2 DEF IInv, Written, SlotShape, OneSlotPerComputer, SnapshotOlder, RemovalMarked
<1>5. SecureKnown' /\ LinksMatchPeers'
  BY <1>1 DEF IInv, SecureKnown, Live, LinksMatchPeers, UsedPeers, ramVars, radioVars
<1>6. PeersMatchSlots'
  BY <1>1, <1>2 DEF IInv, PeersMatchSlots, UsedPeers, Leaving, ramVars
<1> QED
  BY <1>3, <1>4, <1>5, <1>6 DEF IInv

\* What a reset leaves: flash, the bonds, and what a client has read.
LEMMA ResetState ==
  ASSUME config \in SlotConfig, disk = config, SlotShape, OneSlotPerComputer,
         peers = [h \in Handle |-> NoPeer], links = [s \in Slot |-> NoHandle],
         queue = <<>>, overflow = FALSE, task = BootAt(0), stack = [h \in Handle |-> NoLink],
         bonds \subseteq Computer, snapshot \in Snapshot \cup {NoSnapshot}, SnapshotOlder
  PROVE  IInv
<1>1. 0 \in Slot
  BY SlotCountAssumption DEF Slot
<1>2. task \in Task /\ task.phase = "boot"
  BY <1>1 DEF BootAt, Task
<1>3. queue \in Seq(Event) /\ Len(queue) <= QueueLength
  BY EmptySeq, QueueAssumption
<1>4. TypeOK
  BY <1>2, <1>3 DEF TypeOK
<1>5. Written /\ RemovalMarked /\ SecureKnown
  BY <1>2 DEF Written, RemovalMarked, SecureKnown, Live
<1>6. LinksMatchPeers /\ PeersMatchSlots
  BY DEF LinksMatchPeers, PeersMatchSlots, UsedPeers
<1> QED
  BY <1>4, <1>5, <1>6 DEF IInv

\* The first boot of an empty board.
LEMMA InitIInv ==
  ASSUME Init
  PROVE  IInv
<1>1. config = [slots |-> [s \in Slot |-> FreeSlot], selected |-> 0, generation |-> 0]
  BY DEF Init
<1>2. 0 \in Slot /\ 0 \in 0 .. Generations - 1
  BY SlotCountAssumption, GenerationsAssumption DEF Slot
<1>3. FreeSlot \in SlotRecord
  BY DEF FreeSlot, SlotRecord
<1>4. config \in SlotConfig
  BY <1>1, <1>2, <1>3 DEF SlotConfig
<1>5. \A s \in Slot : config.slots[s] = FreeSlot /\ config.slots[s].assigned = 0
  BY <1>1 DEF FreeSlot
<1>6. SlotShape /\ OneSlotPerComputer
  BY <1>5 DEF SlotShape, OneSlotPerComputer
<1>7. bonds \subseteq Computer /\ snapshot \in Snapshot \cup {NoSnapshot} /\ SnapshotOlder
  BY DEF Init, SnapshotOlder
<1>8. disk = config
  BY DEF Init
<1> QED
  BY <1>4, <1>6, <1>7, <1>8, ResetState DEF Init

\* The power fails: the record in flash is the one that was in memory.
LEMMA CrashKeeps ==
  ASSUME IInv, Crash
  PROVE  IInv'
<1>1. /\ config' = config /\ disk' = config /\ UNCHANGED <<disk, bonds, snapshot>>
      /\ peers' = [h \in Handle |-> NoPeer] /\ links' = [s \in Slot |-> NoHandle]
      /\ queue' = <<>> /\ overflow' = FALSE /\ stack' = [h \in Handle |-> NoLink]
      /\ task' = BootAt(0)
  BY DEF Crash, IInv, Written
<1>2. 0 \in Slot
  BY SlotCountAssumption DEF Slot
<1>3. task' \in Task /\ task'.phase = "boot"
  BY <1>1, <1>2 DEF BootAt, Task
<1>4. queue' \in Seq(Event) /\ Len(queue') <= QueueLength
  BY <1>1, EmptySeq, QueueAssumption
<1>5. TypeOK'
  BY <1>1, <1>3, <1>4 DEF IInv, TypeOK
<1>6. Written' /\ SlotShape' /\ OneSlotPerComputer' /\ SnapshotOlder'
  BY <1>1 DEF IInv, Written, SlotShape, OneSlotPerComputer, SnapshotOlder
<1>7. RemovalMarked' /\ SecureKnown'
  BY <1>1, <1>3 DEF RemovalMarked, SecureKnown, Live
<1>8. LinksMatchPeers' /\ PeersMatchSlots'
  BY <1>1 DEF LinksMatchPeers, PeersMatchSlots, UsedPeers
<1> QED
  BY <1>5, <1>6, <1>7, <1>8 DEF IInv

\* Nothing moves.
LEMMA StutterKeeps ==
  ASSUME IInv, UNCHANGED vars
  PROVE  IInv'
<1>1. UNCHANGED <<config, disk, peers, links, queue, overflow, task, stack, bonds, snapshot>>
  BY DEF vars
<1>2. TypeOK' /\ SecureKnown'
  BY <1>1 DEF IInv, TypeOK, SecureKnown, Live
<1> QED
  BY <1>1, <1>2, AssignmentsSame, TablesSame DEF IInv

\* One case per group of actions.
LEMMA NextKeeps ==
  ASSUME IInv, Next
  PROVE  IInv'
<1>1. CASE Radio
  BY <1>1, ConnectedKeeps, SecuredKeeps, ReportedKeeps DEF Radio
<1>2. CASE Loop
  BY <1>2, HandleEventKeeps, ResetOverflowKeeps, RestoreKeeps, GiveUpKeeps DEF Loop
<1>3. CASE Command
  BY <1>3, SelectSlotKeeps, ForgetKeeps, ReadConfigKeeps, ConfigureKeeps DEF Command
<1>4. CASE Removal
  BY <1>4, UnpairKeeps, ClearSlotKeeps, BootKeeps DEF Removal
<1> QED
  BY <1>1, <1>2, <1>3, <1>4, CrashKeeps DEF Next

-----------------------------------------------------------------------------
(***************************************************************************)
(* Results.                                                                *)
(***************************************************************************)
\* The invariant holds in every state the two tasks reach.
THEOREM Inductive == Spec => []IInv
<1>1. Init => IInv
  BY InitIInv
<1>2. IInv /\ [Next]_vars => IInv'
  BY NextKeeps, StutterKeeps
<1> QED
  BY <1>1, <1>2, PTL DEF Spec

\* Every variable has its type: peers and links name handles and slots, the
\* event queue never outgrows its buffer, the generation stays in its range.
THEOREM TypeCorrect == Spec => []TypeOK
<1>1. IInv => TypeOK
  BY DEF IInv
<1> QED
  BY <1>1, Inductive, PTL

\* No computer has two slots, however pairings, reorderings, removals and
\* restarts follow each other.
THEOREM OneSlotPerComputerHolds == Spec => []OneSlotPerComputer
<1>1. IInv => OneSlotPerComputer
  BY DEF IInv
<1> QED
  BY <1>1, Inductive, PTL

\* The router's links agree with the authenticated peers and their slots.
THEOREM LinksMatchPeersHolds == Spec => []LinksMatchPeers
<1>1. IInv => LinksMatchPeers
  BY DEF IInv
<1> QED
  BY <1>1, Inductive, PTL

\* The generation a client passes to configure() identifies the assignments
\* it has read.
THEOREM GenerationIdentifiesHolds == Spec => []GenerationIdentifies
<1>1. IInv => GenerationIdentifies
  BY DEF IInv, SnapshotOlder, GenerationIdentifies
<1> QED
  BY <1>1, Inductive, PTL

\* A report for a slot reaches the computer paired with the slot: the link
\* gives the peer, the peer its slot, and knownSlot() of the connection's
\* identity is that slot.
THEOREM InputReachesOwnerHolds == Spec => []InputReachesOwner
<1>1. ASSUME IInv, NEW s \in Slot, Reachable(s)
      PROVE  config.slots[s] = [assigned |-> 1, owner |-> stack[links[s]].computer]
  <2> DEFINE h == links[s]
  <2>1. /\ h \in Handle /\ stack[h] # NoLink /\ stack[h].secure
        /\ KnownSlot(stack[h].identity) = peers[h].slot
    BY <1>1 DEF Reachable, IInv, TypeOK
  <2>2. peers[h].slot = s
    BY <1>1, <2>1 DEF IInv, LinksMatchPeers, Reachable
  <2>3. stack[h].identity = stack[h].computer
    BY <1>1, <2>1 DEF IInv, SecureKnown, Live
  <2>4. config.slots[s] = [assigned |-> 1, owner |-> stack[h].identity]
    BY <1>1, <2>1, <2>2, KnownSlotFacts
  <2> QED
    BY <2>3, <2>4
<1>2. IInv => InputReachesOwner
  BY <1>1 DEF InputReachesOwner
<1> QED
  BY <1>2, Inductive, PTL

-----------------------------------------------------------------------------
(***************************************************************************)
(* Assignments from one step to the next.                                  *)
(***************************************************************************)
\* What SlotsChangeOnlyByRemoval says of a step.
AssignmentsKept ==
  \A c \in Computer :
    /\ c \in Owners(config.slots, {1}) => c \in Owners(config'.slots, {1, 2})
    /\ c \in Owners(config.slots, {2}) =>
         \/ c \in Owners(config'.slots, {2})
         \/ c \notin Owners(config'.slots, {1}) /\ c \notin bonds'

\* The record is not written, or only outside its slots.
LEMMA SameSlotsKept ==
  ASSUME config'.slots = config.slots
  PROVE  AssignmentsKept
BY DEF AssignmentsKept, Owners

\* A free slot is written: every owner keeps its own.
LEMMA FreeSlotKept ==
  ASSUME NEW s \in Slot, config.slots[s].assigned = 0,
         \A t \in Slot \ {s} : config'.slots[t] = config.slots[t]
  PROVE  AssignmentsKept
<1>1. \A t \in Slot : config.slots[t].assigned \in {1, 2} => config'.slots[t] = config.slots[t]
  OBVIOUS
<1> QED
  BY <1>1 DEF AssignmentsKept, Owners

\* An event writes the record only to give a computer the free slot it
\* was pairing with.
LEMMA ProcessAssigns ==
  ASSUME IInv, NEW e \in Event, Process(e), UNCHANGED snapshot
  PROVE  AssignmentsKept
<1> DEFINE h == e.handle
           p == PeerFor(e)
           c == stack[h].identity
           s == p.pairingSlot
           r == [assigned |-> 1, owner |-> c]
<1>1. CASE UNCHANGED config
  BY <1>1, SameSlotsKept
<1>2. ASSUME stack[h] # NoLink, config.slots[s].assigned = 0, MayChange,
             Save([config EXCEPT !.slots[s] = r, !.generation = NextGeneration(@)])
      PROVE  AssignmentsKept
  <2>1. h \in Handle /\ e.identity \in Computer \cup {NoComputer}
    BY DEF Event
  <2>2. p \in Peer
    BY <2>1, NewPeerType DEF PeerFor, IInv, TypeOK
  <2>3. s \in Slot
    BY <2>2 DEF Peer
  <2>4. stack[h] \in Connection
    BY <1>2, <2>1 DEF IInv, TypeOK
  <2>5. r \in SlotRecord
    BY <2>4 DEF Connection, SlotRecord
  <2> HIDE DEF s, r
  <2>6. \A t \in Slot \ {s} : config'.slots[t] = config.slots[t]
    BY <1>2, <2>3, <2>5, SlotSaved
  <2> QED
    BY <1>2, <2>3, <2>6, FreeSlotKept
<1>3. Disregard(e) \/ Reject(e) \/ Note(e) => UNCHANGED config
  BY DEF Disregard, Reject, Note
<1>4. Authenticate(e) =>
        \/ UNCHANGED config
        \/ /\ stack[h] # NoLink /\ config.slots[s].assigned = 0 /\ MayChange
           /\ Save([config EXCEPT !.slots[s] = r, !.generation = NextGeneration(@)])
  BY DEF Authenticate
<1> QED
  BY <1>1, <1>2, <1>3, <1>4 DEF Process

\* The mark of a removal leaves the owner in its slot.
LEMMA ForgetMarks ==
  ASSUME IInv, NEW s \in Slot, Forget(s)
  PROVE  AssignmentsKept
<1>1. config.slots[s] \in SlotRecord /\ config.slots \in [Slot -> SlotRecord]
  BY DEF IInv, TypeOK, SlotConfig
<1>2. CASE config.slots[s].assigned = 1
  <2> DEFINE r == [config.slots[s] EXCEPT !.assigned = 2]
  <2>1. MayChange /\ UNCHANGED snapshot
        /\ Save([config EXCEPT !.slots[s] = r, !.generation = NextGeneration(@)])
    BY <1>1, <1>2 DEF Forget
  <2>2. r \in SlotRecord /\ r.assigned = 2 /\ r.owner = config.slots[s].owner
    BY <1>1 DEF SlotRecord
  <2> HIDE DEF r
  <2>3. config'.slots[s] = r /\ \A t \in Slot \ {s} : config'.slots[t] = config.slots[t]
    BY <2>1, <2>2, SlotSaved
  <2>4. \A t \in Slot : /\ config'.slots[t].owner = config.slots[t].owner
                        /\ config.slots[t].assigned \in {1, 2} => config'.slots[t].assigned \in {1, 2}
                        /\ config.slots[t].assigned = 2 => config'.slots[t].assigned = 2
    BY <2>2, <2>3
  <2> QED
    BY <2>4 DEF AssignmentsKept, Owners
<1>3. CASE config.slots[s].assigned # 1
  BY <1>3, SameSlotsKept DEF Forget
<1> QED
  BY <1>2, <1>3

\* The slot of a finished removal is cleared: its computer has no bond, and no
\* other slot.
LEMMA ClearSlotFrees ==
  ASSUME IInv, NEW saved \in BOOLEAN, ClearSlot(saved)
  PROVE  AssignmentsKept
<1> DEFINE s == task.slot
<1>1. /\ s \in Slot /\ task.phase = "clear" /\ bonds' = bonds /\ UNCHANGED snapshot
      /\ config.slots[s].assigned = 2 /\ config.slots[s].owner \notin bonds
  BY DEF ClearSlot, IInv, TypeOK, Task, RemovalMarked, radioVars
<1>2. CASE saved
  <2>1. FreeSlot \in SlotRecord /\ FreeSlot.assigned = 0
    BY DEF FreeSlot, SlotRecord
  <2>2. MayChange /\ Save([config EXCEPT !.slots[s] = FreeSlot, !.generation = NextGeneration(@)])
    BY <1>2 DEF ClearSlot
  <2> HIDE DEF s
  <2>3. config'.slots[s] = FreeSlot /\ \A t \in Slot \ {s} : config'.slots[t] = config.slots[t]
    BY <1>1, <2>1, <2>2, SlotSaved
  <2>4. \A t \in Slot : config.slots[t].assigned = 1 => config'.slots[t] = config.slots[t]
    BY <1>1, <2>3
  <2>5. \A t \in Slot \ {s} : config.slots[t].assigned = 2 => config'.slots[t].assigned = 2
                                                          /\ config'.slots[t].owner = config.slots[t].owner
    BY <2>3
  <2>6. config.slots[s].owner \notin Owners(config'.slots, {1})
    <3>1. SUFFICES ASSUME NEW t \in Slot, config'.slots[t].assigned = 1,
                          config'.slots[t].owner = config.slots[s].owner
                   PROVE  FALSE
      BY DEF Owners
    <3>2. t # s
      BY <2>1, <2>3, <3>1
    <3>3. config.slots[t].assigned = 1 /\ config.slots[t].owner = config.slots[s].owner
      BY <2>3, <3>1, <3>2
    <3> QED
      BY <1>1, <3>2, <3>3 DEF IInv, OneSlotPerComputer
  <2>7. ASSUME NEW c \in Computer, c \in Owners(config.slots, {2})
        PROVE  \/ c \in Owners(config'.slots, {2})
               \/ c \notin Owners(config'.slots, {1}) /\ c \notin bonds'
    <3>1. PICK t \in Slot : config.slots[t].assigned = 2 /\ config.slots[t].owner = c
      BY <2>7 DEF Owners
    <3>2. CASE t = s
      BY <1>1, <2>6, <3>1, <3>2
    <3>3. CASE t # s
      BY <2>5, <3>1, <3>3 DEF Owners
    <3> QED
      BY <3>2, <3>3
  <2>8. \A c \in Computer : c \in Owners(config.slots, {1}) => c \in Owners(config'.slots, {1, 2})
    BY <2>4 DEF Owners
  <2> QED
    BY <2>7, <2>8 DEF AssignmentsKept
<1>3. CASE ~saved
  BY <1>3, SameSlotsKept DEF ClearSlot
<1> QED
  BY <1>2, <1>3

\* A new order moves every assignment and drops none.
LEMMA ConfigurePermutes ==
  ASSUME NEW order \in Orders, Configure(order)
  PROVE  AssignmentsKept
<1>1. order \in [Slot -> Slot] /\ \A t \in Slot : \E s \in Slot : order[s] = t
  BY OrderFacts
<1>2. config'.slots = [s \in Slot |-> config.slots[order[s]]]
  BY DEF Configure, Save
<1>3. ASSUME NEW t \in Slot
      PROVE  \E s \in Slot : config'.slots[s] = config.slots[t]
  BY <1>1, <1>2
<1> QED
  BY <1>3 DEF AssignmentsKept, Owners

\* One case per action: five write the record, and a restart reads it back.
LEMMA NextAssigns ==
  ASSUME IInv, Next
  PROVE  AssignmentsKept
<1>1. CASE Radio
  <2>1. UNCHANGED config
    BY <1>1 DEF Radio, Connected, Secured, Reported, Lost, loopVars
  <2> QED
    BY <2>1, SameSlotsKept
<1>2. CASE Loop
  <2>1. CASE HandleEvent
    <3>1. Head(queue) \in Event /\ UNCHANGED snapshot
      BY <2>1, TailFacts DEF HandleEvent, IInv
    <3>2. UNCHANGED config \/ Process(Head(queue))
      BY <2>1 DEF HandleEvent
    <3> QED
      BY <3>1, <3>2, ProcessAssigns, SameSlotsKept
  <2>2. CASE ResetOverflow
    BY <2>2, SameSlotsKept DEF ResetOverflow
  <2>3. ASSUME NEW h \in Handle, Restore(h) \/ GiveUp(h)
        PROVE  AssignmentsKept
    <3>1. CASE Restore(h)
      <4> DEFINE e == [kind |-> "authenticated", handle |-> h, identity |-> stack[h].identity]
      <4>1. e \in Event /\ Process(e) /\ UNCHANGED snapshot
        BY <3>1 DEF Restore, Live, IInv, TypeOK, Connection, Event
      <4> HIDE DEF e
      <4> QED
        BY <4>1, ProcessAssigns
    <3>2. CASE GiveUp(h)
      BY <3>2, SameSlotsKept DEF GiveUp
    <3> QED
      BY <2>3, <3>1, <3>2
  <2> QED
    BY <1>2, <2>1, <2>2, <2>3 DEF Loop
<1>3. CASE Command
  <2>1. ASSUME NEW s \in Slot, SelectSlot(s)
        PROVE  AssignmentsKept
    <3>1. config'.slots = config.slots
      BY <2>1 DEF SelectSlot, Save, IInv, TypeOK, SlotConfig
    <3> QED
      BY <3>1, SameSlotsKept
  <2>2. CASE ReadConfig
    BY <2>2, SameSlotsKept DEF ReadConfig
  <2> QED
    BY <1>3, <2>1, <2>2, ForgetMarks, ConfigurePermutes DEF Command
<1>4. CASE Removal
  <2>1. ASSUME NEW removed \in BOOLEAN, Unpair(removed)
        PROVE  AssignmentsKept
    BY <2>1, SameSlotsKept DEF Unpair
  <2>2. CASE Boot
    BY <2>2, SameSlotsKept DEF Boot
  <2> QED
    BY <1>4, <2>1, <2>2, ClearSlotFrees DEF Removal
<1>5. CASE Crash
  <2>1. config' = config
    BY <1>5 DEF Crash, IInv, Written
  <2> QED
    BY <2>1, SameSlotsKept
<1> QED
  BY <1>1, <1>2, <1>3, <1>4, <1>5 DEF Next

\* "Do not replace an occupied slot with a new computer": a computer keeps its
\* slot until its removal is marked, and the mark until its bond is gone.
THEOREM SlotsChangeOnlyByRemovalHolds == Spec => SlotsChangeOnlyByRemoval
<1>1. IInv /\ [Next]_vars => [AssignmentsKept]_vars
  BY NextAssigns
<1>2. AssignmentsKept =>
        \A c \in Computer :
          /\ c \in Owners(config.slots, {1}) => c \in Owners(config'.slots, {1, 2})
          /\ c \in Owners(config.slots, {2}) =>
               \/ c \in Owners(config'.slots, {2})
               \/ c \notin Owners(config'.slots, {1}) /\ c \notin bonds'
  BY DEF AssignmentsKept
<1> QED
  BY <1>1, <1>2, Inductive, PTL DEF Spec, SlotsChangeOnlyByRemoval
================================================================================
