----------------------------- MODULE BleInputProofs -----------------------------
(***************************************************************************)
(* The invariants of BleInput, proved for every set of devices, computers  *)
(* and codes, every capacity of the bond store and every number of         *)
(* attempts.                                                               *)
(*                                                                         *)
(* The three tasks share flags without a lock, so that IInv has to say     *)
(* what each of them can rely on at each of its places: what the worker    *)
(* may expect of the link while it connects (Connecting), what a callback  *)
(* that has begun may expect of it (Callbacks), and to whom a code on      *)
(* display belongs (PromptShown).                                          *)
(***************************************************************************)
EXTENDS BleInput, FiniteSetTheorems, TLAPS

\* One operation at a time: busy covers the queued request and the worker.
OneOperation ==
  /\ request # None => busy /\ pc = "idle"
  /\ pc # "idle" => busy

\* A connection still to be attempted has an attempt left.
AttemptLeft ==
  /\ request # None /\ request.type \in {"connect", "reconnect"} => attempt < MaxAttempts
  /\ pc = "connect" => attempt < MaxAttempts /\ address \in Devices

\* From the release in connect() to the end of its checks no input is taken,
\* and the link, if there is one, is the worker's own.
Connecting ==
  /\ pc \in {"begun", "linking", "bonds", "secure", "discover", "save", "accept"}
        => ~accept /\ ~ready /\ address \in Devices /\ attempt > 0
  /\ pc \in {"begun", "linking"} => ~Connected
  /\ pc = "bonds" => security = "none" /\ (Connected => peer = address)

Linked == Connected => peer \in Devices /\ attempt > 0

\* The host task reports and asks over a live link, and says when it is gone.
Callbacks ==
  /\ hpc \in {"prompt", "report"} => Connected
  /\ hpc = "lost" => ~Connected

\* A code on display is the open prompt's, or onDisconnect() is about to
\* clear it.
PromptShown ==
  comparison # None =>
    IF Connected
      THEN prompt # None /\ prompt.code = comparison /\ prompt.attempt = attempt
      ELSE hpc = "lost"

\* After a cancel only the worker still under way may have the link open: it
\* closes it in the end.
CancelCloses == cancelled /\ link = "up" => pc \notin {"idle", "done"}

\* Pairing that has begun finds its bond or room for it, or a computer has
\* paired since the store was checked.
RoomToPair ==
  Connected /\ security = "started" =>
    raced \/ peer \in bonds \/ Cardinality(bonds) < MaxBonds

\* The store never holds more than it can.
StoreFits == Cardinality(bonds) <= MaxBonds

\* The parts of TypeOK, for steps where proving it at once is slow.
FlagsTyped == {busy, cancelled, accept, ready, raced} \subseteq BOOLEAN

WorkerTyped ==
  /\ comparison \in Codes \cup {None} /\ request \in Requests \cup {None}
  /\ pc \in {"idle", "scan", "connect", "begun", "linking", "bonds", "secure", "discover",
             "save", "accept", "recheck", "disconnect", "forget", "unbond", "untarget",
             "tail", "done"}
  /\ address \in Devices \cup {None} /\ saved \in Devices \cup {None}
  /\ listed \subseteq Devices /\ attempt \in 0..MaxAttempts

StackTyped ==
  /\ peer \in Devices \cup {None} /\ bonds \subseteq Devices \cup Computers
  /\ link \in {"down", "up", "closing"} /\ security \in {"none", "started", "encrypted"}
  /\ hpc \in {"idle", "prompt", "report", "lost"}

InputTyped ==
  /\ input \in {"clear", "held"} /\ prompt \in Prompts \cup {None}
  /\ answer \in [attempt : 0..MaxAttempts, code : Codes, prompt : Prompts \cup {None}]
                  \cup {None}

IInv ==
  /\ TypeOK
  /\ OneOperation /\ AttemptLeft /\ Connecting /\ Linked /\ Callbacks
  /\ ReadyOverSecureLink /\ GoneHoldsNothing
  /\ PromptShown /\ AnswersOpenPrompt
  /\ CancelCloses
  /\ RoomToPair /\ StoreFits

\* The bond store is finite, as the devices and the computers are.
LEMMA BondsFinite ==
  ASSUME TypeOK
  PROVE  IsFiniteSet(bonds)
BY BleInputAssumption, FS_Union, FS_Subset DEF TypeOK

\* Another bond fits: a full store loses one for it.
LEMMA StoringFits ==
  ASSUME TypeOK, StoreFits, NEW who, NEW store \in Storing(who)
  PROVE  Cardinality(store) <= MaxBonds
<1>1. IsFiniteSet(bonds) /\ Cardinality(bonds) \in Nat
  BY BondsFinite, FS_CardinalityType
<1>2. CASE who \in bonds
  <2>1. store = bonds
    BY <1>2 DEF Storing
  <2> QED
    BY <2>1 DEF StoreFits
<1>3. CASE who \notin bonds /\ Cardinality(bonds) < MaxBonds
  <2>1. store = bonds \cup {who}
    BY <1>3 DEF Storing
  <2>2. Cardinality(store) = Cardinality(bonds) + 1
    BY <1>1, <1>3, <2>1, FS_AddElement
  <2> QED
    BY <1>1, <1>3, <2>2, BleInputAssumption
<1>4. CASE who \notin bonds /\ ~(Cardinality(bonds) < MaxBonds)
  <2>1. PICK old \in bonds : store = (bonds \ {old}) \cup {who}
    BY <1>4 DEF Storing
  <2>2. /\ IsFiniteSet(bonds \ {old})
        /\ Cardinality(bonds \ {old}) = Cardinality(bonds) - 1
    BY <1>1, FS_RemoveElement
  <2>3. Cardinality(store) = Cardinality(bonds \ {old}) + 1
    BY <1>4, <2>1, <2>2, FS_AddElement
  <2> QED
    BY <1>1, <2>2, <2>3, BleInputAssumption DEF StoreFits
<1> QED
  BY <1>2, <1>3, <1>4

\* A command is taken only when nothing is under way; a new connection has an attempt left.
LEMMA CommandKeeps ==
  ASSUME IInv, NEW r \in Requests, Command(r)
  PROVE  IInv'
<1> USE DEF Command, Requests, flags, worker, stack, Connected, Encrypted
<1>1. TypeOK'
  <2>1. request' \in Requests
    BY DEF IInv
  <2>2. busy' \in BOOLEAN /\ cancelled' \in BOOLEAN
    BY DEF IInv
  <2> HIDE DEF Requests
  <2> QED
    BY <2>1, <2>2 DEF IInv, TypeOK
<1>2. OneOperation' /\ AttemptLeft' /\ CancelCloses'
  BY DEF IInv, OneOperation, AttemptLeft, CancelCloses, TypeOK
<1>3. Connecting' /\ Linked' /\ Callbacks'
  BY BleInputAssumption DEF IInv, TypeOK, AttemptLeft, Connecting, Linked, Callbacks
<1>4. ReadyOverSecureLink' /\ GoneHoldsNothing'
  BY DEF IInv, TypeOK, Connecting, Callbacks, ReadyOverSecureLink, GoneHoldsNothing
<1>5. PromptShown' /\ AnswersOpenPrompt'
  BY BleInputAssumption DEF IInv, TypeOK, Connecting, Callbacks, PromptShown, AnswersOpenPrompt
<1>6. RoomToPair' /\ StoreFits'
  BY DEF IInv, TypeOK, Connecting, Linked, RoomToPair, StoreFits
<1> QED
  BY <1>1, <1>2, <1>3, <1>4, <1>5, <1>6 DEF IInv

\* cancel() clears the code and asks for the link to be closed.
LEMMA CancelKeeps ==
  ASSUME IInv, Cancel
  PROVE  IInv'
<1> USE DEF Cancel, Closed, flags, worker, stack, Connected, Encrypted
<1>1. TypeOK'
  BY BleInputAssumption DEF IInv, TypeOK, OneOperation, AttemptLeft, Connecting, Linked, Callbacks
<1>2. OneOperation' /\ AttemptLeft' /\ CancelCloses'
  BY DEF IInv, OneOperation, AttemptLeft, CancelCloses, TypeOK
<1>3. Connecting' /\ Linked' /\ Callbacks'
  BY BleInputAssumption DEF IInv, TypeOK, AttemptLeft, Connecting, Linked, Callbacks
<1>4. ReadyOverSecureLink' /\ GoneHoldsNothing'
  BY DEF IInv, TypeOK, Connecting, Callbacks, ReadyOverSecureLink, GoneHoldsNothing
<1>5. PromptShown' /\ AnswersOpenPrompt'
  BY BleInputAssumption DEF IInv, TypeOK, Connecting, Callbacks, PromptShown, AnswersOpenPrompt
<1>6. RoomToPair' /\ StoreFits'
  BY DEF IInv, TypeOK, Connecting, Linked, RoomToPair, StoreFits
<1> QED
  BY <1>1, <1>2, <1>3, <1>4, <1>5, <1>6 DEF IInv

\* The code that is confirmed is the open prompt's, by PromptShown.
LEMMA ConfirmKeeps ==
  ASSUME IInv, NEW a \in 0..attempt, NEW c \in Codes, Confirm(a, c)
  PROVE  IInv'
<1> USE DEF Confirm, Closed, Serial, flags, worker, stack, Connected, Encrypted
<1>1. TypeOK'
  BY BleInputAssumption DEF IInv, TypeOK, OneOperation, AttemptLeft, Connecting, Linked, Callbacks
<1>2. OneOperation' /\ AttemptLeft' /\ CancelCloses'
  BY DEF IInv, OneOperation, AttemptLeft, CancelCloses, TypeOK
<1>3. Connecting' /\ Linked' /\ Callbacks'
  BY BleInputAssumption DEF IInv, TypeOK, AttemptLeft, Connecting, Linked, Callbacks
<1>4. ReadyOverSecureLink' /\ GoneHoldsNothing'
  BY DEF IInv, TypeOK, Connecting, Callbacks, ReadyOverSecureLink, GoneHoldsNothing
<1>5. PromptShown' /\ AnswersOpenPrompt'
  BY BleInputAssumption DEF IInv, TypeOK, Connecting, Callbacks, PromptShown, AnswersOpenPrompt
<1>6. RoomToPair' /\ StoreFits'
  BY DEF IInv, TypeOK, Connecting, Linked, RoomToPair, StoreFits
<1> QED
  BY <1>1, <1>2, <1>3, <1>4, <1>5, <1>6 DEF IInv

\* The worker takes the request, or drops it when it was cancelled.
LEMMA TakeKeeps ==
  ASSUME IInv, Take
  PROVE  IInv'
<1> USE DEF Take, Goto, Requests, flags, worker, stack, Connected, Encrypted
<1>1. TypeOK'
  <2>1. request \in Requests
    BY DEF IInv, TypeOK
  <2>2. address' \in Devices \cup {None}
    BY <2>1 DEF IInv, TypeOK
  <2>3. pc' \in {"idle", "tail", "connect", "scan", "disconnect", "forget"}
    BY <2>1 DEF IInv, TypeOK
  <2>4. busy' \in BOOLEAN /\ request' = None
    BY DEF IInv, TypeOK
  <2> HIDE DEF Requests
  <2> QED
    BY <2>2, <2>3, <2>4 DEF IInv, TypeOK
<1>2. OneOperation' /\ AttemptLeft' /\ CancelCloses'
  BY DEF IInv, OneOperation, AttemptLeft, CancelCloses, TypeOK
<1>3. Connecting' /\ Linked' /\ Callbacks'
  BY BleInputAssumption DEF IInv, TypeOK, AttemptLeft, Connecting, Linked, Callbacks
<1>4. ReadyOverSecureLink' /\ GoneHoldsNothing'
  BY DEF IInv, TypeOK, Connecting, Callbacks, ReadyOverSecureLink, GoneHoldsNothing
<1>5. PromptShown' /\ AnswersOpenPrompt'
  BY BleInputAssumption DEF IInv, TypeOK, Connecting, Callbacks, PromptShown, AnswersOpenPrompt
<1>6. RoomToPair' /\ StoreFits'
  BY DEF IInv, TypeOK, Connecting, Linked, RoomToPair, StoreFits
<1> QED
  BY <1>1, <1>2, <1>3, <1>4, <1>5, <1>6 DEF IInv

\* A scan changes only the list.
LEMMA ScanKeeps ==
  ASSUME IInv, Scan
  PROVE  IInv'
<1> USE DEF Scan, Goto, flags, worker, stack, Connected, Encrypted
<1>1. TypeOK'
  BY BleInputAssumption DEF IInv, TypeOK, OneOperation, AttemptLeft, Connecting, Linked, Callbacks
<1>2. OneOperation' /\ AttemptLeft' /\ CancelCloses'
  BY DEF IInv, OneOperation, AttemptLeft, CancelCloses, TypeOK
<1>3. Connecting' /\ Linked' /\ Callbacks'
  BY BleInputAssumption DEF IInv, TypeOK, AttemptLeft, Connecting, Linked, Callbacks
<1>4. ReadyOverSecureLink' /\ GoneHoldsNothing'
  BY DEF IInv, TypeOK, Connecting, Callbacks, ReadyOverSecureLink, GoneHoldsNothing
<1>5. PromptShown' /\ AnswersOpenPrompt'
  BY BleInputAssumption DEF IInv, TypeOK, Connecting, Callbacks, PromptShown, AnswersOpenPrompt
<1>6. RoomToPair' /\ StoreFits'
  BY DEF IInv, TypeOK, Connecting, Linked, RoomToPair, StoreFits
<1> QED
  BY <1>1, <1>2, <1>3, <1>4, <1>5, <1>6 DEF IInv

\* connect() releases the input before the attempt is counted.
LEMMA BeginKeeps ==
  ASSUME IInv, Begin
  PROVE  IInv'
<1> USE DEF Begin, Goto, Release, flags, worker, stack, Connected, Encrypted
<1>1. TypeOK'
  <2>1. CASE Connected
    BY <2>1 DEF IInv, TypeOK
  <2>2. CASE ~Connected
    <3>1. attempt' \in 0..MaxAttempts /\ pc' = "begun"
      BY <2>2, BleInputAssumption DEF IInv, TypeOK, AttemptLeft
    <3>2. FlagsTyped'
      BY <2>2 DEF IInv, TypeOK, FlagsTyped
    <3>3. WorkerTyped'
      BY <2>2, <3>1 DEF IInv, TypeOK, WorkerTyped
    <3>4. StackTyped' /\ InputTyped'
      BY <2>2 DEF IInv, TypeOK, StackTyped, InputTyped
    <3> QED
      BY <3>2, <3>3, <3>4 DEF TypeOK, FlagsTyped, WorkerTyped, StackTyped, InputTyped
  <2> QED
    BY <2>1, <2>2
<1>2. OneOperation' /\ AttemptLeft' /\ CancelCloses'
  BY DEF IInv, OneOperation, AttemptLeft, CancelCloses, TypeOK
<1>3. Connecting' /\ Linked' /\ Callbacks'
  BY BleInputAssumption DEF IInv, TypeOK, AttemptLeft, Connecting, Linked, Callbacks
<1>4. ReadyOverSecureLink' /\ GoneHoldsNothing'
  BY DEF IInv, TypeOK, Connecting, Callbacks, ReadyOverSecureLink, GoneHoldsNothing
<1>5. PromptShown' /\ AnswersOpenPrompt'
  BY BleInputAssumption DEF IInv, TypeOK, Connecting, Callbacks, PromptShown, AnswersOpenPrompt
<1>6. RoomToPair' /\ StoreFits'
  BY DEF IInv, TypeOK, Connecting, Linked, RoomToPair, StoreFits
<1> QED
  BY <1>1, <1>2, <1>3, <1>4, <1>5, <1>6 DEF IInv

\* The check for an early cancel.
LEMMA BegunKeeps ==
  ASSUME IInv, Begun
  PROVE  IInv'
<1> USE DEF Begun, Goto, flags, worker, stack, Connected, Encrypted
<1>1. TypeOK'
  BY BleInputAssumption DEF IInv, TypeOK, OneOperation, AttemptLeft, Connecting, Linked, Callbacks
<1>2. OneOperation' /\ AttemptLeft' /\ CancelCloses'
  BY DEF IInv, OneOperation, AttemptLeft, CancelCloses, TypeOK
<1>3. Connecting' /\ Linked' /\ Callbacks'
  BY BleInputAssumption DEF IInv, TypeOK, AttemptLeft, Connecting, Linked, Callbacks
<1>4. ReadyOverSecureLink' /\ GoneHoldsNothing'
  BY DEF IInv, TypeOK, Connecting, Callbacks, ReadyOverSecureLink, GoneHoldsNothing
<1>5. PromptShown' /\ AnswersOpenPrompt'
  BY BleInputAssumption DEF IInv, TypeOK, Connecting, Callbacks, PromptShown, AnswersOpenPrompt
<1>6. RoomToPair' /\ StoreFits'
  BY DEF IInv, TypeOK, Connecting, Linked, RoomToPair, StoreFits
<1> QED
  BY <1>1, <1>2, <1>3, <1>4, <1>5, <1>6 DEF IInv

\* The link that comes up is to the device that was asked for.
LEMMA LinkKeeps ==
  ASSUME IInv, Link
  PROVE  IInv'
<1> USE DEF Link, Goto, flags, worker, stack, Connected, Encrypted
<1>1. TypeOK'
  BY BleInputAssumption DEF IInv, TypeOK, OneOperation, AttemptLeft, Connecting, Linked, Callbacks
<1>2. OneOperation' /\ AttemptLeft' /\ CancelCloses'
  BY DEF IInv, OneOperation, AttemptLeft, CancelCloses, TypeOK
<1>3. Connecting' /\ Linked' /\ Callbacks'
  BY BleInputAssumption DEF IInv, TypeOK, AttemptLeft, Connecting, Linked, Callbacks
<1>4. ReadyOverSecureLink' /\ GoneHoldsNothing'
  BY DEF IInv, TypeOK, Connecting, Callbacks, ReadyOverSecureLink, GoneHoldsNothing
<1>5. PromptShown' /\ AnswersOpenPrompt'
  BY BleInputAssumption DEF IInv, TypeOK, Connecting, Callbacks, PromptShown, AnswersOpenPrompt
<1>6. RoomToPair' /\ StoreFits'
  BY DEF IInv, TypeOK, Connecting, Linked, RoomToPair, StoreFits
<1> QED
  BY <1>1, <1>2, <1>3, <1>4, <1>5, <1>6 DEF IInv

\* Security is started only for a bonded device or with room for one.
LEMMA CheckBondsKeeps ==
  ASSUME IInv, CheckBonds
  PROVE  IInv'
<1> USE DEF CheckBonds, Goto, Closed, StartSecurity, flags, worker, stack, Connected, Encrypted
<1>1. TypeOK'
  BY BleInputAssumption DEF IInv, TypeOK, OneOperation, AttemptLeft, Connecting, Linked, Callbacks
<1>2. OneOperation' /\ AttemptLeft' /\ CancelCloses'
  BY DEF IInv, OneOperation, AttemptLeft, CancelCloses, TypeOK
<1>3. Connecting' /\ Linked' /\ Callbacks'
  BY BleInputAssumption DEF IInv, TypeOK, AttemptLeft, Connecting, Linked, Callbacks
<1>4. ReadyOverSecureLink' /\ GoneHoldsNothing'
  BY DEF IInv, TypeOK, Connecting, Callbacks, ReadyOverSecureLink, GoneHoldsNothing
<1>5. PromptShown' /\ AnswersOpenPrompt'
  BY BleInputAssumption DEF IInv, TypeOK, Connecting, Callbacks, PromptShown, AnswersOpenPrompt
<1>6. RoomToPair' /\ StoreFits'
  <2>1. IsFiniteSet(bonds) /\ Cardinality(bonds) \in Nat
    BY BondsFinite, FS_CardinalityType DEF IInv
  <2> QED
    BY <2>1, BleInputAssumption DEF IInv, TypeOK, Connecting, Linked, RoomToPair, StoreFits
<1> QED
  BY <1>1, <1>2, <1>3, <1>4, <1>5, <1>6 DEF IInv

\* No code is on display after the wait for encryption.
LEMMA SecureKeeps ==
  ASSUME IInv, Secure
  PROVE  IInv'
<1> USE DEF Secure, Goto, Closed, flags, worker, stack, Connected, Encrypted
<1>1. TypeOK'
  BY BleInputAssumption DEF IInv, TypeOK, OneOperation, AttemptLeft, Connecting, Linked, Callbacks
<1>2. OneOperation' /\ AttemptLeft' /\ CancelCloses'
  BY DEF IInv, OneOperation, AttemptLeft, CancelCloses, TypeOK
<1>3. Connecting' /\ Linked' /\ Callbacks'
  BY BleInputAssumption DEF IInv, TypeOK, AttemptLeft, Connecting, Linked, Callbacks
<1>4. ReadyOverSecureLink' /\ GoneHoldsNothing'
  BY DEF IInv, TypeOK, Connecting, Callbacks, ReadyOverSecureLink, GoneHoldsNothing
<1>5. PromptShown' /\ AnswersOpenPrompt'
  BY BleInputAssumption DEF IInv, TypeOK, Connecting, Callbacks, PromptShown, AnswersOpenPrompt
<1>6. RoomToPair' /\ StoreFits'
  BY DEF IInv, TypeOK, Connecting, Linked, RoomToPair, StoreFits
<1> QED
  BY <1>1, <1>2, <1>3, <1>4, <1>5, <1>6 DEF IInv

\* Only an uncancelled worker goes on past discover().
LEMMA DiscoverKeeps ==
  ASSUME IInv, Discover
  PROVE  IInv'
<1> USE DEF Discover, Goto, Closed, Release, flags, worker, stack, Connected, Encrypted
<1>1. TypeOK'
  <2>1. pc' \in {"tail", "save"} /\ link' \in {"down", "up", "closing"}
    BY DEF IInv, TypeOK
  <2>2. {accept', ready'} \subseteq BOOLEAN /\ comparison' \in Codes \cup {None}
           /\ input' \in {"clear", "held"}
    BY DEF IInv, TypeOK
  <2> QED
    BY <2>1, <2>2 DEF IInv, TypeOK
<1>2. OneOperation' /\ AttemptLeft' /\ CancelCloses'
  BY DEF IInv, OneOperation, AttemptLeft, CancelCloses, TypeOK
<1>3. Connecting' /\ Linked' /\ Callbacks'
  BY BleInputAssumption DEF IInv, TypeOK, AttemptLeft, Connecting, Linked, Callbacks
<1>4. ReadyOverSecureLink' /\ GoneHoldsNothing'
  BY DEF IInv, TypeOK, Connecting, Callbacks, ReadyOverSecureLink, GoneHoldsNothing
<1>5. PromptShown' /\ AnswersOpenPrompt'
  BY BleInputAssumption DEF IInv, TypeOK, Connecting, Callbacks, PromptShown, AnswersOpenPrompt
<1>6. RoomToPair' /\ StoreFits'
  BY DEF IInv, TypeOK, Connecting, Linked, RoomToPair, StoreFits
<1> QED
  BY <1>1, <1>2, <1>3, <1>4, <1>5, <1>6 DEF IInv

\* Only an uncancelled worker goes on to accept input.
LEMMA SaveKeeps ==
  ASSUME IInv, Save
  PROVE  IInv'
<1> USE DEF Save, Goto, Closed, Release, flags, worker, stack, Connected, Encrypted
<1>1. TypeOK'
  <2>1. FlagsTyped'
    BY DEF IInv, TypeOK, FlagsTyped
  <2>2. WorkerTyped'
    BY DEF IInv, TypeOK, WorkerTyped
  <2>3. StackTyped' /\ InputTyped'
    BY DEF IInv, TypeOK, StackTyped, InputTyped
  <2> QED
    BY <2>1, <2>2, <2>3 DEF TypeOK, FlagsTyped, WorkerTyped, StackTyped, InputTyped
<1>2. OneOperation' /\ AttemptLeft' /\ CancelCloses'
  BY DEF IInv, OneOperation, AttemptLeft, CancelCloses, TypeOK
<1>3. Connecting' /\ Linked' /\ Callbacks'
  BY BleInputAssumption DEF IInv, TypeOK, AttemptLeft, Connecting, Linked, Callbacks
<1>4. ReadyOverSecureLink' /\ GoneHoldsNothing'
  BY DEF IInv, TypeOK, Connecting, Callbacks, ReadyOverSecureLink, GoneHoldsNothing
<1>5. PromptShown' /\ AnswersOpenPrompt'
  BY BleInputAssumption DEF IInv, TypeOK, Connecting, Callbacks, PromptShown, AnswersOpenPrompt
<1>6. RoomToPair' /\ StoreFits'
  BY DEF IInv, TypeOK, Connecting, Linked, RoomToPair, StoreFits
<1> QED
  BY <1>1, <1>2, <1>3, <1>4, <1>5, <1>6 DEF IInv

\* The flags are set before the link is looked at again: the recheck is due.
LEMMA AcceptKeeps ==
  ASSUME IInv, Accept
  PROVE  IInv'
<1> USE DEF Accept, Goto, flags, worker, stack, Connected, Encrypted
<1>1. TypeOK'
  BY BleInputAssumption DEF IInv, TypeOK, OneOperation, AttemptLeft, Connecting, Linked, Callbacks
<1>2. OneOperation' /\ AttemptLeft' /\ CancelCloses'
  BY DEF IInv, OneOperation, AttemptLeft, CancelCloses, TypeOK
<1>3. Connecting' /\ Linked' /\ Callbacks'
  BY BleInputAssumption DEF IInv, TypeOK, AttemptLeft, Connecting, Linked, Callbacks
<1>4. ReadyOverSecureLink' /\ GoneHoldsNothing'
  BY DEF IInv, TypeOK, Connecting, Callbacks, ReadyOverSecureLink, GoneHoldsNothing
<1>5. PromptShown' /\ AnswersOpenPrompt'
  BY BleInputAssumption DEF IInv, TypeOK, Connecting, Callbacks, PromptShown, AnswersOpenPrompt
<1>6. RoomToPair' /\ StoreFits'
  BY DEF IInv, TypeOK, Connecting, Linked, RoomToPair, StoreFits
<1> QED
  BY <1>1, <1>2, <1>3, <1>4, <1>5, <1>6 DEF IInv

\* After the recheck the flags stand for an encrypted link.
LEMMA RecheckKeeps ==
  ASSUME IInv, Recheck
  PROVE  IInv'
<1> USE DEF Recheck, Goto, Release, flags, worker, stack, Connected, Encrypted
<1>1. TypeOK'
  <2>1. FlagsTyped'
    BY DEF IInv, TypeOK, FlagsTyped
  <2>2. WorkerTyped'
    BY DEF IInv, TypeOK, WorkerTyped
  <2>3. StackTyped' /\ InputTyped'
    BY DEF IInv, TypeOK, StackTyped, InputTyped
  <2> QED
    BY <2>1, <2>2, <2>3 DEF TypeOK, FlagsTyped, WorkerTyped, StackTyped, InputTyped
<1>2. OneOperation' /\ AttemptLeft' /\ CancelCloses'
  BY DEF IInv, OneOperation, AttemptLeft, CancelCloses, TypeOK
<1>3. Connecting' /\ Linked' /\ Callbacks'
  BY BleInputAssumption DEF IInv, TypeOK, AttemptLeft, Connecting, Linked, Callbacks
<1>4. ReadyOverSecureLink' /\ GoneHoldsNothing'
  BY DEF IInv, TypeOK, Connecting, Callbacks, ReadyOverSecureLink, GoneHoldsNothing
<1>5. PromptShown' /\ AnswersOpenPrompt'
  BY BleInputAssumption DEF IInv, TypeOK, Connecting, Callbacks, PromptShown, AnswersOpenPrompt
<1>6. RoomToPair' /\ StoreFits'
  BY DEF IInv, TypeOK, Connecting, Linked, RoomToPair, StoreFits
<1> QED
  BY <1>1, <1>2, <1>3, <1>4, <1>5, <1>6 DEF IInv

\* disconnect() releases the input and asks for the link to be closed.
LEMMA DisconnectKeeps ==
  ASSUME IInv, Disconnect
  PROVE  IInv'
<1> USE DEF Disconnect, Goto, Closed, Release, flags, worker, stack, Connected, Encrypted
<1>1. TypeOK'
  <2>1. FlagsTyped'
    BY DEF IInv, TypeOK, FlagsTyped
  <2>2. WorkerTyped'
    BY DEF IInv, TypeOK, WorkerTyped
  <2>3. StackTyped' /\ InputTyped'
    BY DEF IInv, TypeOK, StackTyped, InputTyped
  <2> QED
    BY <2>1, <2>2, <2>3 DEF TypeOK, FlagsTyped, WorkerTyped, StackTyped, InputTyped
<1>2. OneOperation' /\ AttemptLeft' /\ CancelCloses'
  BY DEF IInv, OneOperation, AttemptLeft, CancelCloses, TypeOK
<1>3. Connecting' /\ Linked' /\ Callbacks'
  BY BleInputAssumption DEF IInv, TypeOK, AttemptLeft, Connecting, Linked, Callbacks
<1>4. ReadyOverSecureLink' /\ GoneHoldsNothing'
  BY DEF IInv, TypeOK, Connecting, Callbacks, ReadyOverSecureLink, GoneHoldsNothing
<1>5. PromptShown' /\ AnswersOpenPrompt'
  BY BleInputAssumption DEF IInv, TypeOK, Connecting, Callbacks, PromptShown, AnswersOpenPrompt
<1>6. RoomToPair' /\ StoreFits'
  BY DEF IInv, TypeOK, Connecting, Linked, RoomToPair, StoreFits
<1> QED
  BY <1>1, <1>2, <1>3, <1>4, <1>5, <1>6 DEF IInv

\* Deleting a bond makes room, and no link of the worker is waiting for it.
LEMMA UnbondKeeps ==
  ASSUME IInv, Unbond
  PROVE  IInv'
<1> USE DEF Unbond, Goto, flags, worker, stack, Connected, Encrypted
<1>1. TypeOK'
  BY BleInputAssumption DEF IInv, TypeOK, OneOperation, AttemptLeft, Connecting, Linked, Callbacks
<1>2. OneOperation' /\ AttemptLeft' /\ CancelCloses'
  BY DEF IInv, OneOperation, AttemptLeft, CancelCloses, TypeOK
<1>3. Connecting' /\ Linked' /\ Callbacks'
  BY BleInputAssumption DEF IInv, TypeOK, AttemptLeft, Connecting, Linked, Callbacks
<1>4. ReadyOverSecureLink' /\ GoneHoldsNothing'
  BY DEF IInv, TypeOK, Connecting, Callbacks, ReadyOverSecureLink, GoneHoldsNothing
<1>5. PromptShown' /\ AnswersOpenPrompt'
  BY BleInputAssumption DEF IInv, TypeOK, Connecting, Callbacks, PromptShown, AnswersOpenPrompt
<1>6. RoomToPair' /\ StoreFits'
  <2>1. CASE bonds' = bonds
    BY <2>1 DEF IInv, RoomToPair, StoreFits
  <2>2. CASE bonds' = bonds \ {saved} /\ saved \in bonds
    <3>1. /\ IsFiniteSet(bonds) /\ Cardinality(bonds) \in Nat
          /\ Cardinality(bonds') = Cardinality(bonds) - 1
      BY <2>2, BondsFinite, FS_CardinalityType, FS_RemoveElement DEF IInv
    <3> QED
      BY <2>2, <3>1, BleInputAssumption DEF IInv, RoomToPair, StoreFits
  <2> QED
    BY <2>1, <2>2
<1> QED
  BY <1>1, <1>2, <1>3, <1>4, <1>5, <1>6 DEF IInv

\* Forgetting the target changes only what is saved.
LEMMA UntargetKeeps ==
  ASSUME IInv, Untarget
  PROVE  IInv'
<1> USE DEF Untarget, Goto, flags, worker, stack, Connected, Encrypted
<1>1. TypeOK'
  BY BleInputAssumption DEF IInv, TypeOK, OneOperation, AttemptLeft, Connecting, Linked, Callbacks
<1>2. OneOperation' /\ AttemptLeft' /\ CancelCloses'
  BY DEF IInv, OneOperation, AttemptLeft, CancelCloses, TypeOK
<1>3. Connecting' /\ Linked' /\ Callbacks'
  BY BleInputAssumption DEF IInv, TypeOK, AttemptLeft, Connecting, Linked, Callbacks
<1>4. ReadyOverSecureLink' /\ GoneHoldsNothing'
  BY DEF IInv, TypeOK, Connecting, Callbacks, ReadyOverSecureLink, GoneHoldsNothing
<1>5. PromptShown' /\ AnswersOpenPrompt'
  BY BleInputAssumption DEF IInv, TypeOK, Connecting, Callbacks, PromptShown, AnswersOpenPrompt
<1>6. RoomToPair' /\ StoreFits'
  BY DEF IInv, TypeOK, Connecting, Linked, RoomToPair, StoreFits
<1> QED
  BY <1>1, <1>2, <1>3, <1>4, <1>5, <1>6 DEF IInv

\* A late cancel closes the link after all.
LEMMA TailKeeps ==
  ASSUME IInv, Tail
  PROVE  IInv'
<1> USE DEF Tail, Goto, Closed, Release, flags, worker, stack, Connected, Encrypted
<1>1. TypeOK'
  <2>1. FlagsTyped'
    BY DEF IInv, TypeOK, FlagsTyped
  <2>2. WorkerTyped'
    BY DEF IInv, TypeOK, WorkerTyped
  <2>3. StackTyped' /\ InputTyped'
    BY DEF IInv, TypeOK, StackTyped, InputTyped
  <2> QED
    BY <2>1, <2>2, <2>3 DEF TypeOK, FlagsTyped, WorkerTyped, StackTyped, InputTyped
<1>2. OneOperation' /\ AttemptLeft' /\ CancelCloses'
  BY DEF IInv, OneOperation, AttemptLeft, CancelCloses, TypeOK
<1>3. Connecting' /\ Linked' /\ Callbacks'
  BY BleInputAssumption DEF IInv, TypeOK, AttemptLeft, Connecting, Linked, Callbacks
<1>4. ReadyOverSecureLink' /\ GoneHoldsNothing'
  BY DEF IInv, TypeOK, Connecting, Callbacks, ReadyOverSecureLink, GoneHoldsNothing
<1>5. PromptShown' /\ AnswersOpenPrompt'
  BY BleInputAssumption DEF IInv, TypeOK, Connecting, Callbacks, PromptShown, AnswersOpenPrompt
<1>6. RoomToPair' /\ StoreFits'
  BY DEF IInv, TypeOK, Connecting, Linked, RoomToPair, StoreFits
<1> QED
  BY <1>1, <1>2, <1>3, <1>4, <1>5, <1>6 DEF IInv

\* The worker rests; a cancelled operation has closed its link.
LEMMA DoneKeeps ==
  ASSUME IInv, Done
  PROVE  IInv'
<1> USE DEF Done, Goto, flags, worker, stack, Connected, Encrypted
<1>1. TypeOK'
  <2>1. FlagsTyped'
    BY DEF IInv, TypeOK, FlagsTyped
  <2>2. WorkerTyped'
    BY DEF IInv, TypeOK, WorkerTyped
  <2>3. StackTyped' /\ InputTyped'
    BY DEF IInv, TypeOK, StackTyped, InputTyped
  <2> QED
    BY <2>1, <2>2, <2>3 DEF TypeOK, FlagsTyped, WorkerTyped, StackTyped, InputTyped
<1>2. OneOperation' /\ AttemptLeft' /\ CancelCloses'
  BY DEF IInv, OneOperation, AttemptLeft, CancelCloses, TypeOK
<1>3. Connecting' /\ Linked' /\ Callbacks'
  BY BleInputAssumption DEF IInv, TypeOK, AttemptLeft, Connecting, Linked, Callbacks
<1>4. ReadyOverSecureLink' /\ GoneHoldsNothing'
  BY DEF IInv, TypeOK, Connecting, Callbacks, ReadyOverSecureLink, GoneHoldsNothing
<1>5. PromptShown' /\ AnswersOpenPrompt'
  BY BleInputAssumption DEF IInv, TypeOK, Connecting, Callbacks, PromptShown, AnswersOpenPrompt
<1>6. RoomToPair' /\ StoreFits'
  BY DEF IInv, TypeOK, Connecting, Linked, RoomToPair, StoreFits
<1> QED
  BY <1>1, <1>2, <1>3, <1>4, <1>5, <1>6 DEF IInv

\* The check of onConfirmPasskey() leaves a callback that is about to show a code.
LEMMA AskToCompareKeeps ==
  ASSUME IInv, AskToCompare
  PROVE  IInv'
<1> USE DEF AskToCompare, Callback, flags, worker, stack, Connected, Encrypted
<1>1. TypeOK'
  BY BleInputAssumption DEF IInv, TypeOK, OneOperation, AttemptLeft, Connecting, Linked, Callbacks
<1>2. OneOperation' /\ AttemptLeft' /\ CancelCloses'
  BY DEF IInv, OneOperation, AttemptLeft, CancelCloses, TypeOK
<1>3. Connecting' /\ Linked' /\ Callbacks'
  BY BleInputAssumption DEF IInv, TypeOK, AttemptLeft, Connecting, Linked, Callbacks
<1>4. ReadyOverSecureLink' /\ GoneHoldsNothing'
  BY DEF IInv, TypeOK, Connecting, Callbacks, ReadyOverSecureLink, GoneHoldsNothing
<1>5. PromptShown' /\ AnswersOpenPrompt'
  BY BleInputAssumption DEF IInv, TypeOK, Connecting, Callbacks, PromptShown, AnswersOpenPrompt
<1>6. RoomToPair' /\ StoreFits'
  BY DEF IInv, TypeOK, Connecting, Linked, RoomToPair, StoreFits
<1> QED
  BY <1>1, <1>2, <1>3, <1>4, <1>5, <1>6 DEF IInv

\* The code shown is the open prompt's, for the present attempt.
LEMMA ShowPromptKeeps ==
  ASSUME IInv, NEW code \in Codes, ShowPrompt(code)
  PROVE  IInv'
<1> USE DEF ShowPrompt, Callback, Prompts, flags, worker, stack, Connected, Encrypted
<1>1. TypeOK'
  BY BleInputAssumption DEF IInv, TypeOK, OneOperation, AttemptLeft, Connecting, Linked, Callbacks
<1>2. OneOperation' /\ AttemptLeft' /\ CancelCloses'
  BY DEF IInv, OneOperation, AttemptLeft, CancelCloses, TypeOK
<1>3. Connecting' /\ Linked' /\ Callbacks'
  BY BleInputAssumption DEF IInv, TypeOK, AttemptLeft, Connecting, Linked, Callbacks
<1>4. ReadyOverSecureLink' /\ GoneHoldsNothing'
  BY DEF IInv, TypeOK, Connecting, Callbacks, ReadyOverSecureLink, GoneHoldsNothing
<1>5. PromptShown' /\ AnswersOpenPrompt'
  <2>1. attempt \in 1..MaxAttempts /\ Connected
    BY BleInputAssumption DEF IInv, TypeOK, Callbacks, Linked
  <2>2. prompt' \in Prompts /\ prompt'.code = code /\ prompt'.attempt = attempt
    BY <2>1
  <2>3. PromptShown'
    BY <2>1, <2>2, NoPrompt DEF PromptShown
  <2> QED
    BY <2>3 DEF IInv, AnswersOpenPrompt
<1>6. RoomToPair' /\ StoreFits'
  BY DEF IInv, TypeOK, Connecting, Linked, RoomToPair, StoreFits
<1> QED
  BY <1>1, <1>2, <1>3, <1>4, <1>5, <1>6 DEF IInv

\* Pairing adds a bond for which there was room.
LEMMA EncryptKeeps ==
  ASSUME IInv, Encrypt
  PROVE  IInv'
<1> USE DEF Encrypt, Callback, flags, worker, stack, Connected, Encrypted
<1>1. TypeOK'
  <2>1. bonds' \subseteq Devices \cup Computers
    BY BleInputAssumption DEF IInv, TypeOK, Linked, Storing
  <2> QED
    BY <2>1 DEF IInv, TypeOK
<1>2. OneOperation' /\ AttemptLeft' /\ CancelCloses'
  BY DEF IInv, OneOperation, AttemptLeft, CancelCloses, TypeOK
<1>3. Connecting' /\ Linked' /\ Callbacks'
  BY BleInputAssumption DEF IInv, TypeOK, AttemptLeft, Connecting, Linked, Callbacks
<1>4. ReadyOverSecureLink' /\ GoneHoldsNothing'
  BY DEF IInv, TypeOK, Connecting, Callbacks, ReadyOverSecureLink, GoneHoldsNothing
<1>5. PromptShown' /\ AnswersOpenPrompt'
  BY BleInputAssumption DEF IInv, TypeOK, Connecting, Callbacks, PromptShown, AnswersOpenPrompt
<1>6. RoomToPair' /\ StoreFits'
  <2>1. RoomToPair'
    BY DEF RoomToPair
  <2>2. StoreFits'
    BY StoringFits DEF IInv, StoreFits
  <2> QED
    BY <2>1, <2>2
<1> QED
  BY <1>1, <1>2, <1>3, <1>4, <1>5, <1>6 DEF IInv

\* A report passes the check over a live link.
LEMMA ReceiveKeeps ==
  ASSUME IInv, Receive
  PROVE  IInv'
<1> USE DEF Receive, Callback, flags, worker, stack, Connected, Encrypted
<1>1. TypeOK'
  BY BleInputAssumption DEF IInv, TypeOK, OneOperation, AttemptLeft, Connecting, Linked, Callbacks
<1>2. OneOperation' /\ AttemptLeft' /\ CancelCloses'
  BY DEF IInv, OneOperation, AttemptLeft, CancelCloses, TypeOK
<1>3. Connecting' /\ Linked' /\ Callbacks'
  BY BleInputAssumption DEF IInv, TypeOK, AttemptLeft, Connecting, Linked, Callbacks
<1>4. ReadyOverSecureLink' /\ GoneHoldsNothing'
  BY DEF IInv, TypeOK, Connecting, Callbacks, ReadyOverSecureLink, GoneHoldsNothing
<1>5. PromptShown' /\ AnswersOpenPrompt'
  BY BleInputAssumption DEF IInv, TypeOK, Connecting, Callbacks, PromptShown, AnswersOpenPrompt
<1>6. RoomToPair' /\ StoreFits'
  BY DEF IInv, TypeOK, Connecting, Linked, RoomToPair, StoreFits
<1> QED
  BY <1>1, <1>2, <1>3, <1>4, <1>5, <1>6 DEF IInv

\* The sink hears a report over the link that delivered it.
LEMMA ForwardKeeps ==
  ASSUME IInv, Forward
  PROVE  IInv'
<1> USE DEF Forward, Callback, flags, worker, stack, Connected, Encrypted
<1>1. TypeOK'
  BY BleInputAssumption DEF IInv, TypeOK, OneOperation, AttemptLeft, Connecting, Linked, Callbacks
<1>2. OneOperation' /\ AttemptLeft' /\ CancelCloses'
  BY DEF IInv, OneOperation, AttemptLeft, CancelCloses, TypeOK
<1>3. Connecting' /\ Linked' /\ Callbacks'
  BY BleInputAssumption DEF IInv, TypeOK, AttemptLeft, Connecting, Linked, Callbacks
<1>4. ReadyOverSecureLink' /\ GoneHoldsNothing'
  BY DEF IInv, TypeOK, Connecting, Callbacks, ReadyOverSecureLink, GoneHoldsNothing
<1>5. PromptShown' /\ AnswersOpenPrompt'
  BY BleInputAssumption DEF IInv, TypeOK, Connecting, Callbacks, PromptShown, AnswersOpenPrompt
<1>6. RoomToPair' /\ StoreFits'
  BY DEF IInv, TypeOK, Connecting, Linked, RoomToPair, StoreFits
<1> QED
  BY <1>1, <1>2, <1>3, <1>4, <1>5, <1>6 DEF IInv

\* The link goes down with a callback still to come.
LEMMA DropKeeps ==
  ASSUME IInv, Drop
  PROVE  IInv'
<1> USE DEF Drop, Callback, flags, worker, stack, Connected, Encrypted
<1>1. TypeOK'
  BY BleInputAssumption DEF IInv, TypeOK, OneOperation, AttemptLeft, Connecting, Linked, Callbacks
<1>2. OneOperation' /\ AttemptLeft' /\ CancelCloses'
  BY DEF IInv, OneOperation, AttemptLeft, CancelCloses, TypeOK
<1>3. Connecting' /\ Linked' /\ Callbacks'
  BY BleInputAssumption DEF IInv, TypeOK, AttemptLeft, Connecting, Linked, Callbacks
<1>4. ReadyOverSecureLink' /\ GoneHoldsNothing'
  BY DEF IInv, TypeOK, Connecting, Callbacks, ReadyOverSecureLink, GoneHoldsNothing
<1>5. PromptShown' /\ AnswersOpenPrompt'
  BY BleInputAssumption DEF IInv, TypeOK, Connecting, Callbacks, PromptShown, AnswersOpenPrompt
<1>6. RoomToPair' /\ StoreFits'
  BY DEF IInv, TypeOK, Connecting, Linked, RoomToPair, StoreFits
<1> QED
  BY <1>1, <1>2, <1>3, <1>4, <1>5, <1>6 DEF IInv

\* onDisconnect() clears the flags, the code and the input.
LEMMA OnDisconnectKeeps ==
  ASSUME IInv, OnDisconnect
  PROVE  IInv'
<1> USE DEF OnDisconnect, Callback, Release, flags, worker, stack, Connected, Encrypted
<1>1. TypeOK'
  <2>1. FlagsTyped'
    BY DEF IInv, TypeOK, FlagsTyped
  <2>2. WorkerTyped'
    BY DEF IInv, TypeOK, WorkerTyped
  <2>3. StackTyped' /\ InputTyped'
    BY DEF IInv, TypeOK, StackTyped, InputTyped
  <2> QED
    BY <2>1, <2>2, <2>3 DEF TypeOK, FlagsTyped, WorkerTyped, StackTyped, InputTyped
<1>2. OneOperation' /\ AttemptLeft' /\ CancelCloses'
  BY DEF IInv, OneOperation, AttemptLeft, CancelCloses, TypeOK
<1>3. Connecting' /\ Linked' /\ Callbacks'
  BY BleInputAssumption DEF IInv, TypeOK, AttemptLeft, Connecting, Linked, Callbacks
<1>4. ReadyOverSecureLink' /\ GoneHoldsNothing'
  BY DEF IInv, TypeOK, Connecting, Callbacks, ReadyOverSecureLink, GoneHoldsNothing
<1>5. PromptShown' /\ AnswersOpenPrompt'
  BY BleInputAssumption DEF IInv, TypeOK, Connecting, Callbacks, PromptShown, AnswersOpenPrompt
<1>6. RoomToPair' /\ StoreFits'
  BY DEF IInv, TypeOK, Connecting, Linked, RoomToPair, StoreFits
<1> QED
  BY <1>1, <1>2, <1>3, <1>4, <1>5, <1>6 DEF IInv

\* A computer that pairs leaves the store as it was, or is remembered to have paired.
LEMMA PairComputerKeeps ==
  ASSUME IInv, NEW c \in Computers, PairComputer(c)
  PROVE  IInv'
<1> USE DEF PairComputer, Callback, flags, worker, stack, Connected, Encrypted
<1>1. TypeOK'
  <2>1. bonds' \subseteq Devices \cup Computers
    BY BleInputAssumption DEF IInv, TypeOK, Linked, Storing
  <2> QED
    BY <2>1 DEF IInv, TypeOK
<1>2. OneOperation' /\ AttemptLeft' /\ CancelCloses'
  BY DEF IInv, OneOperation, AttemptLeft, CancelCloses, TypeOK
<1>3. Connecting' /\ Linked' /\ Callbacks'
  BY BleInputAssumption DEF IInv, TypeOK, AttemptLeft, Connecting, Linked, Callbacks
<1>4. ReadyOverSecureLink' /\ GoneHoldsNothing'
  BY DEF IInv, TypeOK, Connecting, Callbacks, ReadyOverSecureLink, GoneHoldsNothing
<1>5. PromptShown' /\ AnswersOpenPrompt'
  BY BleInputAssumption DEF IInv, TypeOK, Connecting, Callbacks, PromptShown, AnswersOpenPrompt
<1>6. RoomToPair' /\ StoreFits'
  <2>1. RoomToPair'
    BY DEF IInv, RoomToPair
  <2>2. StoreFits'
    BY StoringFits DEF IInv, StoreFits
  <2> QED
    BY <2>1, <2>2
<1> QED
  BY <1>1, <1>2, <1>3, <1>4, <1>5, <1>6 DEF IInv

\* IInv holds at the start: the bond store is the only thing that may not be empty.
LEMMA InitIInv ==
  ASSUME Init
  PROVE  IInv
<1> USE DEF Init, Connected, Encrypted
<1>1. TypeOK
  <2>1. bonds \subseteq Devices \cup Computers /\ saved \in Devices \cup {None}
    OBVIOUS
  <2>2. 0 \in 0..MaxAttempts
    <3> HIDE DEF Init
    <3> QED
      BY BleInputAssumption
  <2>3. ~busy /\ ~cancelled /\ ~accept /\ ~ready
    OBVIOUS
  <2>4. {busy, cancelled, accept, ready} \subseteq BOOLEAN
    BY <2>3, Zenon DEF Init
  <2> QED
    BY <2>1, <2>2, <2>4 DEF TypeOK
<1>2. OneOperation /\ AttemptLeft /\ Connecting /\ Linked /\ Callbacks
  BY DEF OneOperation, AttemptLeft, Connecting, Linked, Callbacks
<1>3. /\ ReadyOverSecureLink /\ GoneHoldsNothing /\ PromptShown
      /\ AnswersOpenPrompt /\ CancelCloses /\ RoomToPair /\ StoreFits
  BY DEF ReadyOverSecureLink, GoneHoldsNothing, PromptShown, AnswersOpenPrompt,
         CancelCloses, RoomToPair, StoreFits
<1> QED
  BY <1>1, <1>2, <1>3 DEF IInv

\* A step of the rest of the board changes nothing here.
LEMMA StutterKeeps ==
  ASSUME IInv, UNCHANGED vars
  PROVE  IInv'
BY DEF IInv, vars, flags, worker, stack, Connected, Encrypted, TypeOK, OneOperation,
       AttemptLeft, Connecting, Linked, Callbacks, ReadyOverSecureLink, GoneHoldsNothing,
       PromptShown, AnswersOpenPrompt, CancelCloses, RoomToPair, StoreFits

\* IInv is an invariant, whatever the order in which the three tasks come to
\* their steps.
THEOREM Inductive == Spec => []IInv
<1>1. IInv /\ Next => IInv'
  <2> SUFFICES ASSUME IInv, Next
               PROVE  IInv'
    OBVIOUS
  <2>1. CASE Loop
    BY <2>1, CommandKeeps, CancelKeeps, ConfirmKeeps DEF Loop
  <2>2. CASE Worker
    BY <2>2, TakeKeeps, ScanKeeps, BeginKeeps, BegunKeeps, LinkKeeps, CheckBondsKeeps,
       SecureKeeps, DiscoverKeeps, SaveKeeps, AcceptKeeps, RecheckKeeps, DisconnectKeeps,
       UnbondKeeps, UntargetKeeps, TailKeeps, DoneKeeps DEF Worker
  <2>3. CASE Host
    BY <2>3, AskToCompareKeeps, EncryptKeeps, ReceiveKeeps, ForwardKeeps, DropKeeps,
       OnDisconnectKeeps, ShowPromptKeeps DEF Host
  <2>4. CASE \E c \in Computers : PairComputer(c)
    BY <2>4, PairComputerKeeps
  <2> QED
    BY <2>1, <2>2, <2>3, <2>4 DEF Next
<1>2. IInv /\ [Next]_vars => IInv'
  BY <1>1, StutterKeeps
<1> QED
  BY InitIInv, <1>2, PTL DEF Spec

\* The flags, places, bonds and history keep their types.
THEOREM TypeCorrect == Spec => []TypeOK
<1>1. IInv => TypeOK
  BY DEF IInv
<1> QED
  BY <1>1, Inductive, PTL

\* Once the last check and the callback are done, input is taken only over an
\* encrypted link (BleInput.cpp:160-161, 249).
THEOREM ReadyOverSecureLinkHolds == Spec => []ReadyOverSecureLink
<1>1. IInv => ReadyOverSecureLink
  BY DEF IInv
<1> QED
  BY <1>1, Inductive, PTL

\* Nothing stays held once the device is gone (BleInput.cpp:58-60, 161, 236).
THEOREM GoneHoldsNothingHolds == Spec => []GoneHoldsNothing
<1>1. IInv => GoneHoldsNothing
  BY DEF IInv
<1> QED
  BY <1>1, Inductive, PTL

\* An accepted confirmation answers the one open prompt, with its code and for
\* its attempt (BleInput.cpp:18-20, 265).
THEOREM AnswersOpenPromptHolds == Spec => []AnswersOpenPrompt
<1>1. IInv => AnswersOpenPrompt
  BY DEF IInv
<1> QED
  BY <1>1, Inductive, PTL

\* A cancelled operation leaves no link open, wherever the cancel came
\* (BleInput.cpp:70, 112, 134, 153, 156, 291-297).
THEOREM CancelledLeavesNoLinkHolds == Spec => []CancelledLeavesNoLink
<1>1. IInv => CancelledLeavesNoLink
  BY DEF IInv, OneOperation, CancelCloses, CancelledLeavesNoLink
<1> QED
  BY <1>1, Inductive, PTL

\* What a step does to the bond store.
LEMMA StoreSteps ==
  ASSUME IInv, Next
  PROVE  \/ bonds' = bonds \/ bonds \subseteq bonds' \/ raced'
         \/ pc = "unbond" /\ bonds' = bonds \ {saved}
<1>1. CASE Loop
  <2>1. ASSUME NEW r \in Requests, Command(r)
        PROVE  bonds' = bonds
    BY <2>1 DEF Command, stack
  <2>2. CASE Cancel
    BY <2>2 DEF Cancel
  <2>3. ASSUME NEW a \in 0..attempt, NEW c \in Codes, Confirm(a, c)
        PROVE  bonds' = bonds
    BY <2>3 DEF Confirm
  <2> QED
    BY <1>1, <2>1, <2>2, <2>3 DEF Loop
<1>2. CASE Worker /\ ~Unbond
  BY <1>2 DEF Worker, Take, Scan, Begin, Begun, Link, CheckBonds, Secure, Discover, Save,
     Accept, Recheck, Disconnect, Untarget, Tail, Done, stack
<1>3. CASE Unbond
  BY <1>3 DEF Unbond
<1>4. CASE Encrypt
  <2>1. raced' = raced
    BY <1>4 DEF Encrypt
  <2>2. raced \/ bonds' = bonds \cup {peer}
    BY <1>4 DEF Encrypt, IInv, RoomToPair, Storing
  <2> QED
    BY <2>1, <2>2
<1>5. CASE Host /\ ~Encrypt
  BY <1>5 DEF Host, AskToCompare, Receive, Forward, Drop, OnDisconnect, ShowPrompt
<1>6. ASSUME NEW c \in Computers, PairComputer(c)
      PROVE  raced' \/ bonds' = bonds
  BY <1>6 DEF PairComputer
<1> QED
  BY <1>1, <1>2, <1>3, <1>4, <1>5, <1>6 DEF Next

\* Pairing an input evicts no bond, unless a computer pairs between the check
\* and the stack's own writing (BleInput.cpp:121-123).
THEOREM BondsAreKeptHolds == Spec => BondsAreKept
<1> DEFINE Kept == \/ bonds \subseteq bonds'
                   \/ pc = "unbond" /\ bonds' = bonds \ {saved}
                   \/ raced'
<1>1. IInv /\ [Next]_vars => [Kept]_bonds
  <2> SUFFICES ASSUME IInv, [Next]_vars, bonds' # bonds
               PROVE  Kept
    OBVIOUS
  <2>1. Next
    BY DEF vars, stack
  <2> QED
    BY <2>1, StoreSteps
<1> QED
  BY <1>1, Inductive, PTL DEF Spec, BondsAreKept

================================================================================
