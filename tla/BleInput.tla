------------------------------ MODULE BleInput ------------------------------
(***************************************************************************)
(* The wireless input device: one Bluetooth keyboard or trackpad that the  *)
(* board connects to as a central (BleInput.cpp).  Three tasks share its   *)
(* flags without a lock:                                                   *)
(*   - the loop task accepts commands, cancels them and answers pairing    *)
(*     prompts (command, confirmPairing, cancel);                          *)
(*   - a worker task carries out one command at a time (run, connect);     *)
(*   - the NimBLE host task delivers reports, prompts and disconnects.     *)
(*                                                                         *)
(* The worker is a program counter pc, the host task another, hpc.         *)
(* client.isConnected() reads the connection handle, which the stack       *)
(* clears before it calls onDisconnect; client.disconnect() only asks for  *)
(* the link to be closed, so a closing link still counts as connected.     *)
(* The attempt check of confirmPairing and the exchange in command are one *)
(* step: no whole connection fits between two statements of the loop task. *)
(* Left out: the names and messages shown, the contents of reports and     *)
(* report maps, the scan's filters, and the status command's output.       *)
(***************************************************************************)
EXTENDS Naturals, FiniteSets

CONSTANTS
  Devices,      \* input peripherals in range
  Computers,    \* destination computers, which share the bond store
  MaxBonds,     \* CONFIG_BT_NIMBLE_MAX_BONDS
  Codes,        \* passkeys of numeric comparison
  MaxAttempts,  \* bound: connection attempts
  None          \* no device, code or prompt

ASSUME BleInputAssumption ==
  /\ Devices \cap Computers = {} /\ None \notin Devices \cup Computers \cup Codes
  /\ IsFiniteSet(Devices) /\ IsFiniteSet(Computers)
  /\ MaxBonds \in Nat \ {0} /\ MaxAttempts \in Nat

VARIABLES
  busy, cancelled,   \* _busy, _cancelled
  request,           \* _commands: at most one request, since busy gates it
  pc, address,       \* the worker's place and connect()'s argument
  listed, saved,     \* _targets and the saved target
  attempt,           \* _attempt; ids are random and taken to be distinct
  comparison,        \* _comparison: the code awaiting confirmation
  accept, ready,     \* _accept, _ready
  link, peer,        \* the client's connection and the device at its other end
  security,          \* how far the connection's security is
  hpc,               \* what the host task is in the middle of
  bonds,             \* the stack's bond store
  input,             \* whether the sink last heard "held" and no reset since
  prompt, answer,    \* history: the open prompt of the link; the last answer
  raced              \* history: a computer has paired since the store was checked

flags == <<busy, cancelled, accept, ready, comparison>>
worker == <<request, pc, address, listed, saved, attempt>>
stack == <<link, peer, security, hpc, bonds, raced>>
vars == <<flags, worker, stack, input, prompt, answer>>

Requests == [type : {"connect"}, device : Devices]
              \cup [type : {"scan", "reconnect", "disconnect", "forget"}, device : {None}]
Prompts == [attempt : 1..MaxAttempts, code : Codes]
ASSUME NoPrompt == None \notin Prompts

Serial == 0          \* a confirmation typed as "b confirm" names no attempt

Connected == link # "down"
Encrypted == security = "encrypted"

----------------------------------------------------------------------------
\* release(): what every path that gives up the input does.
Release == /\ comparison' = None
           /\ accept' = FALSE
           /\ ready' = FALSE
           /\ input' = "clear"

\* client.disconnect().
Closed == IF link = "up" THEN "closing" ELSE link

Init ==
  /\ busy = FALSE /\ cancelled = FALSE /\ accept = FALSE /\ ready = FALSE
  /\ comparison = None /\ request = None /\ pc = "idle" /\ address = None
  /\ listed = {} /\ saved \in Devices \cup {None} /\ attempt = 0
  /\ link = "down" /\ peer = None /\ security = "none" /\ hpc = "idle"
  /\ bonds \in {b \in SUBSET (Devices \cup Computers) :
                  Cardinality(b) <= MaxBonds /\ b \cap Devices \subseteq {saved}}
  /\ input = "clear" /\ prompt = None /\ answer = None /\ raced = FALSE

----------------------------------------------------------------------------
\* The loop task.

\* command() for everything but a confirmation; refused while busy.
Command(r) ==
  /\ ~busy
  /\ r.type \in {"connect", "reconnect"} => attempt < MaxAttempts     \* bound
  /\ busy' = TRUE
  /\ cancelled' = FALSE
  /\ request' = r
  /\ UNCHANGED <<accept, ready, comparison, pc, address, listed, saved, attempt,
                 stack, input, prompt, answer>>

\* Mutant: cancel() only raises the flag and leaves the rest to the worker.
CancelFlagOnly ==
  /\ busy
  /\ cancelled' = TRUE
  /\ comparison' = None
  /\ UNCHANGED <<busy, accept, ready, worker, stack, input, prompt, answer>>

\* cancel().
Cancel ==
  /\ busy
  /\ cancelled' = TRUE
  /\ comparison' = None
  /\ link' = Closed
  /\ UNCHANGED <<busy, accept, ready, worker, security, peer, hpc, bonds, raced,
                 input, prompt, answer>>

\* Mutant: command() compares the pending code but leaves it pending.
ConfirmKeepsCode(a, c) ==
  /\ a \in {Serial, attempt}
  /\ busy /\ ~cancelled /\ Connected
  /\ comparison = c
  /\ answer' = [attempt |-> a, code |-> c, prompt |-> prompt]
  /\ \/ prompt' = None /\ UNCHANGED link
     \/ link' = Closed /\ UNCHANGED prompt
  /\ UNCHANGED <<flags, worker, security, peer, hpc, bonds, raced, input>>

\* confirmPairing(a, c), or "b confirm" when a = Serial.  The stack may refuse
\* the answer, and then the link is closed.
Confirm(a, c) ==
  /\ a \in {Serial, attempt}
  /\ busy /\ ~cancelled /\ Connected
  /\ comparison = c
  /\ comparison' = None
  /\ answer' = [attempt |-> a, code |-> c, prompt |-> prompt]
  /\ \/ prompt' = None /\ UNCHANGED link
     \/ link' = Closed /\ UNCHANGED prompt
  /\ UNCHANGED <<busy, cancelled, accept, ready, worker, security, peer, hpc, bonds, raced, input>>

----------------------------------------------------------------------------
\* The worker task.

Goto(place) == pc' = place

\* Mutant: a request cancelled while it was queued is dropped without clearing _busy.
TakeStaysBusy ==
  /\ pc = "idle" /\ request # None
  /\ request' = None
  /\ Goto(IF cancelled THEN "idle" ELSE IF request.type = "scan" THEN "scan" ELSE "tail")
  /\ UNCHANGED <<flags, address, listed, saved, attempt, stack, input, prompt, answer>>

\* Mutant: "reconnect" does not look whether there is a saved target.
TakeUnsaved ==
  /\ pc = "idle" /\ request # None
  /\ request' = None
  /\ address' = saved
  /\ Goto(IF request.type = "reconnect" THEN "connect" ELSE request.type)
  /\ UNCHANGED <<flags, listed, saved, attempt, stack, input, prompt, answer>>

\* run(): the next request, dropped if it was cancelled while it waited.
Take ==
  /\ pc = "idle" /\ request # None
  /\ request' = None
  /\ IF cancelled
       THEN busy' = FALSE /\ UNCHANGED <<pc, address>>
       ELSE /\ UNCHANGED busy
            /\ CASE request.type = "connect" ->
                      /\ address' = request.device
                      /\ Goto(IF request.device \in listed THEN "connect" ELSE "tail")
                 [] request.type = "reconnect" ->
                      /\ address' = saved
                      /\ Goto(IF saved # None THEN "connect" ELSE "tail")
                 [] OTHER -> Goto(request.type) /\ UNCHANGED address
  /\ UNCHANGED <<cancelled, accept, ready, comparison, listed, saved, attempt,
                 stack, input, prompt, answer>>

\* scan(): refused while connected; cancel() makes it return early.
Scan ==
  /\ pc = "scan"
  /\ Goto("tail")
  /\ IF Connected THEN UNCHANGED listed ELSE listed' \in SUBSET Devices
  /\ UNCHANGED <<flags, request, address, saved, attempt, stack, input, prompt, answer>>

\* connect(), up to the check for a cancel before the radio is used.
Begin ==
  /\ pc = "connect"
  /\ IF Connected
       THEN Goto("tail") /\ UNCHANGED <<accept, ready, comparison, input, attempt>>
       ELSE /\ Release
            /\ attempt' = attempt + 1
            /\ Goto("begun")
  /\ UNCHANGED <<busy, cancelled, request, address, listed, saved, stack, prompt, answer>>

Begun ==
  /\ pc = "begun"
  /\ Goto(IF cancelled THEN "tail" ELSE "linking")
  /\ UNCHANGED <<flags, request, address, listed, saved, attempt, stack,
                 input, prompt, answer>>

\* client.connect(address): a link, or a failure within five seconds.
Link ==
  /\ pc = "linking"
  /\ \/ Goto("tail") /\ UNCHANGED <<link, peer, security>>
     \/ hpc = "idle" /\ link' = "up" /\ peer' = address /\ security' = "none"
        /\ Goto("bonds")
  /\ UNCHANGED <<flags, request, address, listed, saved, attempt, hpc, bonds,
                 raced, input, prompt, answer>>

\* Security is started, which can fail.  The device is taken not to ask for it
\* itself.
StartSecurity == \/ Connected /\ security' = "started"
                 \/ UNCHANGED security

\* Mutant: the bond store is checked with > instead of >=.
CheckBondsOffByOne ==
  /\ pc = "bonds"
  /\ raced' = FALSE
  /\ IF address \notin bonds /\ Cardinality(bonds) > MaxBonds
       THEN link' = Closed /\ Goto("tail") /\ UNCHANGED security
       ELSE Goto("secure") /\ StartSecurity /\ UNCHANGED link
  /\ UNCHANGED <<flags, request, address, listed, saved, attempt, peer, hpc, bonds,
                 input, prompt, answer>>

\* A device that is not bonded yet needs room in the bond store.
CheckBonds ==
  /\ pc = "bonds"
  /\ raced' = FALSE
  /\ IF address \notin bonds /\ Cardinality(bonds) >= MaxBonds
       THEN link' = Closed /\ Goto("tail") /\ UNCHANGED security
       ELSE Goto("secure") /\ StartSecurity /\ UNCHANGED link
  /\ UNCHANGED <<flags, request, address, listed, saved, attempt, peer, hpc, bonds,
                 input, prompt, answer>>

\* The wait for encryption ends: encrypted, failed, cancelled, or 30 seconds.
Secure ==
  /\ pc = "secure"
  /\ comparison' = None
  /\ IF cancelled \/ ~Connected \/ ~Encrypted
       THEN link' = Closed /\ Goto("tail")
       ELSE Goto("discover") /\ UNCHANGED link
  /\ UNCHANGED <<busy, cancelled, accept, ready, request, address, listed, saved, attempt,
                 security, peer, hpc, bonds, raced, input, prompt, answer>>

\* discover(): the report map and the subscriptions, or none that is usable.
Discover ==
  /\ pc = "discover"
  /\ \/ /\ cancelled
        /\ link' = Closed /\ Goto("tail")
        /\ UNCHANGED <<accept, ready, comparison, input>>
     \/ /\ ~cancelled /\ Connected
        /\ Goto("save")
        /\ UNCHANGED <<link, accept, ready, comparison, input>>
     \/ Release /\ link' = Closed /\ Goto("tail")
  /\ UNCHANGED <<busy, cancelled, request, address, listed, saved, attempt,
                 security, peer, hpc, bonds, raced, prompt, answer>>

\* The target is saved, unless the flash refuses it.
Save ==
  /\ pc = "save"
  /\ IF cancelled \/ ~Connected
       THEN Release /\ link' = Closed /\ Goto("tail") /\ UNCHANGED saved
       ELSE /\ saved' \in {saved, address}
            /\ Goto("accept")
            /\ UNCHANGED <<link, accept, ready, comparison, input>>
  /\ UNCHANGED <<busy, cancelled, request, address, listed, attempt,
                 security, peer, hpc, bonds, raced, prompt, answer>>

Accept ==
  /\ pc = "accept"
  /\ accept' = TRUE /\ ready' = TRUE
  /\ Goto("recheck")
  /\ UNCHANGED <<busy, cancelled, comparison, request, address, listed, saved, attempt,
                 stack, input, prompt, answer>>

\* Mutant: connect() trusts the check it made before saving the target.
RecheckNothing ==
  /\ pc = "recheck"
  /\ Goto("tail")
  /\ UNCHANGED <<flags, request, address, listed, saved, attempt, stack,
                 input, prompt, answer>>

\* The link may have gone while the worker was saving.
Recheck ==
  /\ pc = "recheck"
  /\ Goto("tail")
  /\ IF Connected /\ Encrypted
       THEN UNCHANGED <<accept, ready, comparison, input>>
       ELSE Release
  /\ UNCHANGED <<busy, cancelled, request, address, listed, saved, attempt,
                 stack, prompt, answer>>

\* The commands "disconnect" and "forget" both begin this way.
Disconnect ==
  /\ pc \in {"disconnect", "forget"}
  /\ Release
  /\ link' = Closed
  /\ Goto(IF pc = "forget" /\ saved # None THEN "unbond" ELSE "tail")
  /\ UNCHANGED <<busy, cancelled, request, address, listed, saved, attempt,
                 security, peer, hpc, bonds, raced, prompt, answer>>

Unbond ==
  /\ pc = "unbond"
  /\ \/ bonds' = bonds \ {saved} /\ Goto("untarget")
     \/ saved \in bonds /\ Goto("tail") /\ UNCHANGED bonds
  /\ UNCHANGED <<flags, request, address, listed, saved, attempt, link, security, peer, hpc,
                 raced, input, prompt, answer>>

Untarget ==
  /\ pc = "untarget"
  /\ Goto("tail")
  /\ saved' \in {saved, None}
  /\ UNCHANGED <<flags, request, address, listed, attempt, stack, input, prompt, answer>>

\* The end of run()'s loop, where a late cancel is still noticed.
Tail ==
  /\ pc = "tail"
  /\ Goto("done")
  /\ IF cancelled
       THEN Release /\ link' = Closed
       ELSE UNCHANGED <<accept, ready, comparison, input, link>>
  /\ UNCHANGED <<busy, cancelled, request, address, listed, saved, attempt,
                 security, peer, hpc, bonds, raced, prompt, answer>>

Done ==
  /\ pc = "done"
  /\ Goto("idle")
  /\ busy' = FALSE
  /\ UNCHANGED <<cancelled, accept, ready, comparison, request, address, listed, saved,
                 attempt, stack, input, prompt, answer>>

Worker == \/ Take \/ Scan \/ Begin \/ Begun \/ Link \/ CheckBonds \/ Secure
          \/ Discover \/ Save \/ Accept \/ Recheck
          \/ Disconnect \/ Unbond \/ Untarget \/ Tail \/ Done

----------------------------------------------------------------------------
\* The NimBLE host task: one callback at a time.

Callback(from, to) == hpc = from /\ hpc' = to

\* onConfirmPasskey(): the check, and then the store.  A refused prompt fails
\* the pairing in the stack and leaves no trace here.
AskToCompare ==
  /\ Callback("idle", "prompt")
  /\ Connected /\ security = "started" /\ peer \notin bonds /\ prompt = None
  /\ busy /\ ~cancelled
  /\ UNCHANGED <<flags, worker, link, peer, security, bonds, raced, input, prompt, answer>>

ShowPrompt(code) ==
  /\ Callback("prompt", "idle")
  /\ comparison' = code
  /\ prompt' = [attempt |-> attempt, code |-> code]
  /\ UNCHANGED <<busy, cancelled, accept, ready, worker, link, peer, security, bonds, raced,
                 input, answer>>

\* What the stack may make of the bond store when it stores who's bond: a full
\* store loses another one.
Storing(who) ==
  IF who \in bonds \/ Cardinality(bonds) < MaxBonds
    THEN {bonds \cup {who}}
    ELSE {(bonds \ {old}) \cup {who} : old \in bonds}

\* The stack has encrypted the link, after pairing if there was no bond.  It
\* never does so while a comparison is unanswered.
Encrypt ==
  /\ Callback("idle", "idle")
  /\ Connected /\ security = "started" /\ prompt = None
  /\ security' = "encrypted"
  /\ bonds' \in Storing(peer)
  /\ UNCHANGED <<flags, worker, link, peer, raced, input, prompt, answer>>

\* receive(): the check of _accept, and then the sink.
Receive ==
  /\ Callback("idle", "report")
  /\ Connected /\ accept
  /\ UNCHANGED <<flags, worker, link, peer, security, bonds, raced, input, prompt, answer>>

Forward ==
  /\ Callback("report", "idle")
  /\ input' \in {"held", "clear"}
  /\ UNCHANGED <<flags, worker, link, peer, security, bonds, raced, prompt, answer>>

\* The link is gone: the handle is cleared, and then onDisconnect() runs.
Drop ==
  /\ Callback("idle", "lost")
  /\ Connected
  /\ link' = "down" /\ peer' = None /\ security' = "none" /\ prompt' = None
  /\ UNCHANGED <<flags, worker, bonds, raced, input, answer>>

\* Mutant: onDisconnect() releases only what was announced as ready.
OnDisconnectIfReady ==
  /\ Callback("lost", "idle")
  /\ IF ready THEN Release ELSE UNCHANGED <<accept, ready, comparison, input>>
  /\ UNCHANGED <<busy, cancelled, worker, link, peer, security, bonds, raced, prompt, answer>>

OnDisconnect ==
  /\ Callback("lost", "idle")
  /\ Release
  /\ UNCHANGED <<busy, cancelled, worker, link, peer, security, bonds, raced, prompt, answer>>

\* A destination computer pairs with the board, whatever the input is doing.
PairComputer(c) ==
  /\ Callback("idle", "idle")
  /\ bonds' \in Storing(c)
  /\ raced' = (raced \/ bonds' # bonds)
  /\ UNCHANGED <<flags, worker, link, security, peer, input, prompt, answer>>

Host == \/ AskToCompare \/ Encrypt \/ Receive \/ Forward \/ Drop \/ OnDisconnect
        \/ \E code \in Codes : ShowPrompt(code)

Loop == \/ \E r \in Requests : Command(r)
        \/ Cancel
        \/ \E a \in 0..attempt, c \in Codes : Confirm(a, c)

Next == Loop \/ Worker \/ Host \/ \E c \in Computers : PairComputer(c)

Spec == Init /\ [][Next]_vars

\* The worker always goes on, every wait of it is bounded; the host task
\* finishes its callbacks, and a link that is being closed does go down.
Fairness ==
  /\ WF_vars(Worker)
  /\ WF_vars(Forward) /\ WF_vars(OnDisconnect)
  /\ WF_vars(\E code \in Codes : ShowPrompt(code))
  /\ SF_vars(link = "closing" /\ Drop)

FairSpec == Spec /\ Fairness

----------------------------------------------------------------------------
TypeOK ==
  /\ {busy, cancelled, accept, ready, raced} \subseteq BOOLEAN
  /\ comparison \in Codes \cup {None} /\ request \in Requests \cup {None}
  /\ pc \in {"idle", "scan", "connect", "begun", "linking", "bonds", "secure", "discover",
             "save", "accept", "recheck", "disconnect", "forget", "unbond", "untarget",
             "tail", "done"}
  /\ address \in Devices \cup {None} /\ peer \in Devices \cup {None}
  /\ saved \in Devices \cup {None}
  /\ listed \subseteq Devices /\ bonds \subseteq Devices \cup Computers
  /\ attempt \in 0..MaxAttempts
  /\ link \in {"down", "up", "closing"} /\ security \in {"none", "started", "encrypted"}
  /\ hpc \in {"idle", "prompt", "report", "lost"}
  /\ input \in {"clear", "held"} /\ prompt \in Prompts \cup {None}
  /\ answer \in [attempt : 0..MaxAttempts, code : Codes, prompt : Prompts \cup {None}]
                  \cup {None}

(***************************************************************************)
(* Once the worker has made its last check and the host task its callback, *)
(* input is taken, and shown as connected, only over an encrypted link:    *)
(* BleInput.cpp:160-161 sets both flags and then looks at the link again,  *)
(* racing onDisconnect (line 249), which clears them.                      *)
(***************************************************************************)
ReadyOverSecureLink ==
  pc # "recheck" /\ hpc # "lost" /\ (ready \/ accept) => Connected /\ Encrypted

(***************************************************************************)
(* Nothing stays held once the device is gone.  A report that passed the   *)
(* check of _accept (BleInput.cpp:236) may reach the sink after the worker *)
(* has reset it (lines 58-60, 161); the reset of onDisconnect comes later. *)
(***************************************************************************)
GoneHoldsNothing == ~Connected /\ hpc = "idle" => input = "clear"

(***************************************************************************)
(* A confirmation that is accepted answers the one prompt that is open on  *)
(* the present link: its code, the attempt it was shown for, and only once *)
(* (BleInput.cpp:18-20 and 265; docs/ble-input.md: "The firmware accepts   *)
(* only the pending code, once", "stale prompts cannot confirm a later     *)
(* attempt").                                                              *)
(***************************************************************************)
AnswersOpenPrompt ==
  answer # None => /\ answer.prompt # None
                   /\ answer.code = answer.prompt.code
                   /\ answer.attempt \in {Serial, answer.prompt.attempt}

(***************************************************************************)
(* When the worker rests after a cancelled operation, no link it made is   *)
(* left open, wherever in connect() the cancel came (BleInput.cpp:70, 112, *)
(* 134, 153, 156 and 291-297).                                             *)
(***************************************************************************)
CancelledLeavesNoLink == cancelled /\ ~busy => link # "up"

(***************************************************************************)
(* A bond goes only because the user forgets the input, or because a       *)
(* computer pairs.  Pairing an input evicts none, unless a computer has    *)
(* paired between the check of BleInput.cpp:121-123 and the stack's own    *)
(* writing of the bond (docs/ble-input.md: "existing bonds are not         *)
(* evicted", "Finish input pairing before pairing computers").             *)
(***************************************************************************)
BondsAreKept ==
  [][\/ bonds \subseteq bonds'
     \/ pc = "unbond" /\ bonds' = bonds \ {saved}
     \/ raced']_bonds

(***************************************************************************)
(* Every operation ends, so that the next command is accepted: _busy is    *)
(* cleared on every path (BleInput.cpp:50, 71), a cancelled request that   *)
(* is still queued included.                                               *)
(***************************************************************************)
OperationEnds == busy ~> ~busy

(***************************************************************************)
(* A cancel in the middle of an operation disconnects the device and stops *)
(* its input for good or until the next command.                           *)
(***************************************************************************)
CancelTakesEffect == (busy /\ cancelled) ~> (~Connected /\ ~ready)
=============================================================================
