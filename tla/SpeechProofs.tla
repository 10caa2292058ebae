----------------------------- MODULE SpeechProofs ----------------------------
(***************************************************************************)
(* Proofs about speech.  VoiceRecording, for any number of recordings,     *)
(* revisions and chunks: the goroutines of a session never outlive or      *)
(* overlap each other, and a revoked recording no longer touches the       *)
(* draft.  SpeechModel, for every set of processes: the files of the model *)
(* are safe from each other's installers and repairs.                      *)
(***************************************************************************)
EXTENDS VoiceRecording, SpeechModel, TLAPS

-----------------------------------------------------------------------------
(* VoiceRecording.                                                         *)


\* The worker of r has been started and has not joined its consumer.
Owns(r) == worker[r] \in {"waiting", "running", "joining"}

\* A key that no start has used belongs to nothing, and what has no worker has
\* no connection, no chunk and no consumer.
BornInOrder ==
  \A r \in Recording :
    /\ r \in fresh => worker[r] = "unborn" /\ ~accepting[r]
    /\ worker[r] = "unborn" =>
         connection[r] = "none" /\ queue[r] = 0 /\ consumer[r] = "none"

\* The active recording of the session is the one whose worker has not joined:
\* this is what makes Admissible keep the recordings apart.
ActiveOwns == \A r \in Recording : Owns(r) <=> session.active = r

\* What the worker revokes before it joins stays revoked.
RevokedBeforeJoin ==
  \A r \in Recording :
    worker[r] \in {"joining", "ending", "done"} =>
      ~accepting[r] /\ queue[r] = 0 /\ connection[r] # "open"

\* A consumer lives only under its worker, and its counter has room for what it
\* is about to publish.
ConsumerIsOwned ==
  \A r \in Recording :
    /\ ~Quiet(r) => worker[r] \in {"running", "joining"}
    /\ consumer[r] = "publishing" => revision[r] < MaxRevision

\* Only between Start and the Synchronize of the same message is a recording
\* authorised that has no worker.
AuthorityHasWorker ==
  \A r \in Recording :
    accepting[r] /\ worker[r] = "unborn" =>
      loop = "synchronizing" /\ draft.recording = r

\* RecordingEnded is sent by a worker that is done, and not after the delivery
\* goroutine has returned.
EndIsLast ==
  /\ \A m \in {ended, delivery} \cap End : worker[m.recording] = "done"
  /\ ~session.delivering => delivery = Nothing

\* The session is closed after its loop, its workers and its delivery.
ClosedLast ==
  /\ session.close # "open" => loop = "exited"
  /\ session.close = "closed" =>
       /\ slot = Nothing /\ ~session.delivering
       /\ \A r \in Recording : worker[r] \in {"unborn", "done"}

\* What the steps have to keep beside the types.
Ordered ==
  /\ BornInOrder /\ ActiveOwns /\ RevokedBeforeJoin /\ ConsumerIsOwned
  /\ AuthorityHasWorker /\ EndIsLast /\ ClosedLast

IInv == TypeOK /\ Ordered
-----------------------------------------------------------------------------
(* What the operators of the model do to the types.                        *)

\* stopRecording keeps the types of what it writes, whatever is stopped.
LEMMA StoppedTypes ==
  ASSUME NEW r, TypeOK, Stopped(r)
  PROVE  /\ accepting' \in [Recording -> BOOLEAN]
         /\ cancelled' \in [Recording -> BOOLEAN]
         /\ queue' \in [Recording -> 0 .. QueueLimit]
  <1>1. 0 \in 0 .. QueueLimit
    BY BoundsAssumption
  <1>2. queue' = [queue EXCEPT ![r] = 0] /\ queue \in [Recording -> 0 .. QueueLimit]
    BY DEF TypeOK, Stopped
  <1>3. queue' \in [Recording -> 0 .. QueueLimit]
    BY <1>1, <1>2, Zenon
  <1>4. accepting' \in [Recording -> BOOLEAN] /\ cancelled' \in [Recording -> BOOLEAN]
    BY DEF TypeOK, Stopped
  <1> QED BY <1>3, <1>4

\* So does the conditional stop of the active recording.
LEMMA StopActiveTypes ==
  ASSUME TypeOK, Stopped(session.active) \/ NothingStopped
  PROVE  /\ accepting' \in [Recording -> BOOLEAN]
         /\ cancelled' \in [Recording -> BOOLEAN]
         /\ queue' \in [Recording -> 0 .. QueueLimit]
  BY StoppedTypes DEF TypeOK, NothingStopped

\* The end of a recording touches at most its authority and the draft.
LEMMA AcceptEndTypes ==
  ASSUME NEW r \in Recording, TypeOK, AcceptEnd(r)
  PROVE  /\ accepting' \in [Recording -> BOOLEAN]
         /\ draft' \in [recording : Recording \cup {Nothing},
                        status : {"idle", "requesting", "recording", "stopping"}]
  <1>1. CASE draft.recording = r
    <2>1. accepting' \in [Recording -> BOOLEAN]
      BY <1>1 DEF TypeOK, AcceptEnd
    <2>2. draft' = [recording |-> Nothing, status |-> "idle"]
      BY <1>1 DEF AcceptEnd
    <2> QED BY <2>1, <2>2
  <1>2. CASE draft.recording # r
    BY <1>2 DEF TypeOK, AcceptEnd
  <1> QED BY <1>1, <1>2

\* The rejected recording and the active one lose what they had.
LEMMA RejectTypes ==
  ASSUME NEW r \in Recording, TypeOK, Reject(r)
  PROVE  /\ accepting' \in [Recording -> BOOLEAN]
         /\ cancelled' \in [Recording -> BOOLEAN]
         /\ queue' \in [Recording -> 0 .. QueueLimit]
         /\ rejected' \in SUBSET Recording
  <1>1. 0 \in 0 .. QueueLimit
    BY BoundsAssumption
  <1>2. queue' = [queue EXCEPT ![session.active] = 0] /\ queue \in [Recording -> 0 .. QueueLimit]
    BY DEF TypeOK, Reject
  <1>3. queue' \in [Recording -> 0 .. QueueLimit]
    BY <1>1, <1>2, Zenon
  <1> QED BY <1>3 DEF TypeOK, Reject

\* The newer of two updates is an update.
LEMMA CoalescedType ==
  ASSUME NEW u \in Update, slot \in Update \cup {Nothing}
  PROVE  Coalesced(u) \in Update
  BY NothingAssumption DEF Coalesced, Update, Message

\* Every component of the session may be set to a value of its type.
LEMMA SessionTypes ==
  ASSUME TypeOK, NEW r \in Recording \cup {Nothing}, NEW b \in BOOLEAN,
         NEW c \in {"open", "closing", "closed"}
  PROVE  LET S == [active : Recording \cup {Nothing}, linked : BOOLEAN, over : BOOLEAN,
                   delivering : BOOLEAN, close : {"open", "closing", "closed"}]
         IN /\ [session EXCEPT !.active = r] \in S
            /\ [session EXCEPT !.linked = b] \in S
            /\ [session EXCEPT !.over = b] \in S
            /\ [session EXCEPT !.delivering = b] \in S
            /\ [session EXCEPT !.close = c] \in S
  BY DEF TypeOK
-----------------------------------------------------------------------------
(* Every step preserves the invariant: one lemma for each process.         *)

USE DEF editor, authority, channels, audio, Update, End, Message

LEMMA InitIInv == Init => IInv
  BY BoundsAssumption, NothingAssumption
  DEF Init, IInv, TypeOK, Ordered, BornInOrder, ActiveOwns, Owns, RevokedBeforeJoin, ConsumerIsOwned,
      Quiet, AuthorityHasWorker, EndIsLast, ClosedLast

USE BoundsAssumption, NothingAssumption
    DEF Ordered, BornInOrder, ActiveOwns, Owns, RevokedBeforeJoin, ConsumerIsOwned, Quiet,
        AuthorityHasWorker, EndIsLast, ClosedLast

\* The Bubble Tea loop.
LEMMA EditorPreserves ==
  ASSUME IInv, EditorNext
  PROVE  IInv'
  <1>1. ASSUME NEW r \in Recording, Start(r)
       PROVE  IInv'
    BY <1>1 DEF IInv, TypeOK, Start, Updating
  <1>2. ASSUME NEW r \in Recording, TakeRejection(r)
       PROVE  IInv'
    <2>1. TypeOK'
      BY <1>2, AcceptEndTypes DEF IInv, TypeOK, TakeRejection, Updating, AcceptEnd
    <2>2. Ordered'
      BY <1>2, <2>1 DEF IInv, TypeOK, TakeRejection, Updating, AcceptEnd
    <2> QED BY <2>1, <2>2 DEF IInv
  <1>3. CASE BrowserRecording
    BY <1>3 DEF IInv, TypeOK, BrowserRecording, Updating
  <1>4. CASE Stop
    <2>1. TypeOK'
      BY <1>4 DEF IInv, TypeOK, Stop, Updating
    <2>2. Ordered'
      BY <1>4, <2>1 DEF IInv, TypeOK, Stop, Updating
    <2> QED BY <2>1, <2>2 DEF IInv
  <1>5. CASE ReplaceDraft
    BY <1>5 DEF IInv, TypeOK, ReplaceDraft, Updating
  <1>6. CASE TakeUpdate
    BY <1>6 DEF IInv, TypeOK, TakeUpdate, Updating, Applies
  <1>7. CASE TakeEnd
    <2>1. TypeOK'
      BY <1>7, AcceptEndTypes DEF IInv, TypeOK, TakeEnd, Updating, AcceptEnd
    <2>2. Ordered'
      BY <1>7, <2>1 DEF IInv, TypeOK, TakeEnd, Updating, AcceptEnd
    <2> QED BY <2>1, <2>2 DEF IInv
  <1> QED BY <1>1, <1>2, <1>3, <1>4, <1>5, <1>6, <1>7 DEF EditorNext

\* The session observes the new state of the editor.
LEMMA SynchronizePreserves ==
  ASSUME IInv, SynchronizeNext
  PROVE  IInv'
  <1>1. CASE Synchronize
    <2>1. TypeOK'
      BY <1>1, StopActiveTypes
         DEF IInv, TypeOK, Synchronize, StopOutdated, Stopped, NothingStopped, Wanted
    <2>2. Ordered'
      BY <1>1, <2>1, SMTT(30)
         DEF IInv, TypeOK, Synchronize, StopOutdated, Stopped, NothingStopped, Wanted
    <2> QED BY <2>1, <2>2 DEF IInv
  <1>2. ASSUME NEW r \in Recording, Admit(r)
       PROVE  IInv'
    <2>1. TypeOK'
      BY <1>2, StopActiveTypes, SessionTypes
         DEF IInv, TypeOK, Admit, StopOutdated, Stopped, NothingStopped, Wanted,
             Admissible
    <2>2. Ordered'
      BY <1>2, <2>1, SMTT(30)
         DEF IInv, TypeOK, Admit, StopOutdated, Stopped, NothingStopped, Wanted,
             Admissible
    <2> QED BY <2>1, <2>2 DEF IInv
  <1>3. ASSUME NEW r \in Recording, Reject(r)
       PROVE  IInv'
    <2>1. TypeOK'
      BY <1>3, RejectTypes, ZenonT(60) DEF IInv, TypeOK, Reject, Wanted, Admissible
    <2>2. Ordered'
      BY <1>3, <2>1 DEF IInv, TypeOK, Reject, Wanted, Admissible
    <2> QED BY <2>1, <2>2 DEF IInv
  <1> QED BY <1>1, <1>2, <1>3 DEF SynchronizeNext

\* The audio connection and the timers.
LEMMA ConnectionPreserves ==
  ASSUME IInv, NEW r \in Recording, ConnectionNext(r)
  PROVE  IInv'
  <1>1. CASE Attach(r)
    BY <1>1 DEF IInv, TypeOK, Attach, Allowed
  <1>2. CASE ReceiveChunk(r)
    <2>1. TypeOK'
      BY <1>2, StoppedTypes DEF IInv, TypeOK, ReceiveChunk, Allowed, Stopped
    <2>2. Ordered'
      BY <1>2, <2>1 DEF IInv, TypeOK, ReceiveChunk, Allowed, Stopped
    <2> QED BY <2>1, <2>2 DEF IInv
  <1>3. CASE LoseConnection(r)
    BY <1>3 DEF IInv, TypeOK, LoseConnection, Stopped
  <1>4. CASE Expire(r)
    BY <1>4 DEF IInv, TypeOK, Expire
  <1>5. CASE CapabilityExpires(r)
    BY <1>5 DEF IInv, TypeOK, CapabilityExpires, Stopped
  <1> QED BY <1>1, <1>2, <1>3, <1>4, <1>5 DEF ConnectionNext

\* The worker.
LEMMA WorkerPreserves ==
  ASSUME IInv, NEW r \in Recording, WorkerNext(r)
  PROVE  IInv'
  <1>1. CASE WorkerStartsConsumer(r)
    BY <1>1 DEF IInv, TypeOK, WorkerStartsConsumer
  <1>2. CASE WorkerStops(r)
    BY <1>2 DEF IInv, TypeOK, WorkerStops, Stopped
  <1>3. CASE WorkerJoins(r)
    BY <1>3 DEF IInv, TypeOK, WorkerJoins, Joined
  <1>4. CASE WorkerEnds(r)
    BY <1>4 DEF IInv, TypeOK, WorkerEnds
  <1> QED BY <1>1, <1>2, <1>3, <1>4 DEF WorkerNext

\* The consumer.
LEMMA ConsumerPreserves ==
  ASSUME IInv, NEW r \in Recording, ConsumerNext(r)
  PROVE  IInv'
  <1>1. CASE ConsumerCreated(r)
    BY <1>1 DEF IInv, TypeOK, ConsumerCreated, ConsumerMoves
  <1>2. CASE ConsumerNotCreated(r)
    BY <1>2 DEF IInv, TypeOK, ConsumerNotCreated, ConsumerMoves, Stopped
  <1>3. CASE TakeChunk(r)
    BY <1>3 DEF IInv, TypeOK, TakeChunk, ConsumerMoves
  <1>4. CASE NoNewText(r)
    BY <1>4 DEF IInv, TypeOK, NoNewText, ConsumerMoves
  <1>5. CASE NewText(r)
    BY <1>5 DEF IInv, TypeOK, NewText, ConsumerMoves
  <1>6. CASE Publish(r)
    <2>1. TypeOK'
      BY <1>6, CoalescedType DEF IInv, TypeOK, Publish, ConsumerMoves, Coalesced
    <2>2. Ordered'
      BY <1>6, <2>1 DEF IInv, TypeOK, Publish, ConsumerMoves, Coalesced
    <2> QED BY <2>1, <2>2 DEF IInv
  <1>7. CASE ConsumeFails(r)
    BY <1>7 DEF IInv, TypeOK, ConsumeFails, ConsumerMoves, Stopped
  <1>8. CASE ConsumerSeesEnd(r)
    BY <1>8 DEF IInv, TypeOK, ConsumerSeesEnd, ConsumerMoves
  <1>9. CASE ConsumerCloses(r)
    BY <1>9 DEF IInv, TypeOK, ConsumerCloses, ConsumerMoves
  <1> QED BY <1>1, <1>2, <1>3, <1>4, <1>5, <1>6, <1>7, <1>8, <1>9 DEF ConsumerNext

\* The delivery goroutine and the end of the session.
LEMMA SessionPreserves ==
  ASSUME IInv, Receive \/ DeliveryReturns \/ SessionNext
  PROVE  IInv'
  <1>1. CASE Receive
    BY <1>1 DEF IInv, TypeOK, Receive
  <1>2. CASE DeliveryReturns
    <2>1. TypeOK'
      BY <1>2, SessionTypes DEF IInv, TypeOK, DeliveryReturns
    <2>2. Ordered'
      BY <1>2, <2>1 DEF IInv, TypeOK, DeliveryReturns
    <2> QED BY <2>1, <2>2 DEF IInv
  <1>3. CASE Disconnect
    <2>1. TypeOK'
      BY <1>3, SessionTypes, StopActiveTypes, ZenonT(40)
         DEF IInv, TypeOK, Disconnect, Stopped, NothingStopped
    <2>2. Ordered'
      BY <1>3, <2>1 DEF IInv, TypeOK, Disconnect, Stopped, NothingStopped
    <2> QED BY <2>1, <2>2 DEF IInv
  <1>4. CASE CancelSession
    <2>1. TypeOK'
      BY <1>4, SessionTypes DEF IInv, TypeOK, CancelSession
    <2>2. Ordered'
      BY <1>4, <2>1 DEF IInv, TypeOK, CancelSession
    <2> QED BY <2>1, <2>2 DEF IInv
  <1>5. CASE LoopExits
    BY <1>5 DEF IInv, TypeOK, LoopExits
  <1>6. CASE BeginClose
    <2>1. TypeOK'
      BY <1>6, SessionTypes, StopActiveTypes
         DEF IInv, TypeOK, BeginClose, Stopped, NothingStopped
    <2>2. Ordered'
      BY <1>6, <2>1 DEF IInv, TypeOK, BeginClose, Stopped, NothingStopped
    <2> QED BY <2>1, <2>2 DEF IInv
  <1>7. CASE CloseEnds
    <2>1. TypeOK'
      BY <1>7, SessionTypes DEF IInv, TypeOK, CloseEnds
    <2>2. Ordered'
      BY <1>7, <2>1 DEF IInv, TypeOK, CloseEnds
    <2> QED BY <2>1, <2>2 DEF IInv
  <1>8. CASE Finished
    BY <1>8 DEF IInv, TypeOK, Finished, vars
  <1> QED BY <1>1, <1>2, <1>3, <1>4, <1>5, <1>6, <1>7, <1>8 DEF SessionNext

LEMMA NextPreserves == IInv /\ [Next]_vars => IInv'
  <1> SUFFICES ASSUME IInv, [Next]_vars PROVE IInv'
    OBVIOUS
  <1>1. CASE UNCHANGED vars
    BY <1>1 DEF IInv, TypeOK, vars
  <1> QED
    BY <1>1, EditorPreserves, SynchronizePreserves, SessionPreserves, ConnectionPreserves,
       WorkerPreserves, ConsumerPreserves DEF Next
-----------------------------------------------------------------------------
(* The theorems.                                                           *)

\* The inductive invariant holds in every state.
THEOREM Invariance == Spec => []IInv
  BY InitIInv, NextPreserves, PTL DEF Spec

\* The consumers of two recordings never live together, RecordingEnded comes after
\* the join, and a closed session has left nothing behind.
LEMMA IInvJoins == IInv => RecordingsAreJoined
  <1> SUFFICES ASSUME IInv PROVE RecordingsAreJoined
    OBVIOUS
  <1>1. OneConsumer
    BY DEF IInv, OneConsumer
  <1>2. EndMeansJoined
    BY DEF IInv, TypeOK, EndMeansJoined
  <1>3. ClosedMeansJoined
    BY DEF IInv, TypeOK, ClosedMeansJoined
  <1> QED BY <1>1, <1>2, <1>3 DEF IInv, RecordingsAreJoined

THEOREM Joins == Spec => []RecordingsAreJoined
  BY Invariance, IInvJoins, PTL

\* A recording that is revoked stays revoked, and adds nothing more to the draft:
\* only Start authorises, and only a key that was never used; only TakeUpdate accepts,
\* and only with the authority.
LEMMA StepFreezes ==
  ASSUME TypeOK, [Next]_vars, NEW r \in Recording \ fresh, ~accepting[r]
  PROVE  ~accepting'[r] /\ accepted'[r] = accepted[r]
  <1>1. CASE EditorNext
    BY <1>1
       DEF EditorNext, TypeOK, Start, TakeRejection, BrowserRecording, Stop,
           ReplaceDraft,
                TakeUpdate, TakeEnd, AcceptEnd, Applies
  <1>2. CASE SynchronizeNext
    BY <1>2
       DEF SynchronizeNext, TypeOK, Synchronize, Admit, Reject, StopOutdated, Stopped,
                NothingStopped
  <1>3. CASE \E q \in Recording : ConnectionNext(q)
    BY <1>3 DEF ConnectionNext, TypeOK, Attach, ReceiveChunk, LoseConnection, Expire,
                CapabilityExpires, Stopped
  <1>4. CASE \E q \in Recording : WorkerNext(q)
    BY <1>4
       DEF WorkerNext, TypeOK, WorkerStartsConsumer, WorkerStops, WorkerJoins,
           WorkerEnds,
                Stopped
  <1>5. CASE \E q \in Recording : ConsumerNext(q)
    BY <1>5
       DEF ConsumerNext, TypeOK, ConsumerCreated, ConsumerNotCreated, TakeChunk,
           NoNewText,
                NewText, Publish, ConsumeFails, ConsumerSeesEnd, ConsumerCloses, Stopped
  <1>6. CASE Receive \/ DeliveryReturns \/ SessionNext
    BY <1>6
       DEF SessionNext, TypeOK, Receive, DeliveryReturns, Disconnect, CancelSession,
                LoopExits, BeginClose, CloseEnds, Finished, Stopped, NothingStopped, vars
  <1>7. CASE UNCHANGED vars
    BY <1>7 DEF vars
  <1> QED BY <1>1, <1>2, <1>3, <1>4, <1>5, <1>6, <1>7 DEF Next

THEOREM Freezes == Spec => DraftIsFrozen
  <1>1. IInv /\ [Next]_vars =>
          [\A r \in Recording \ fresh :
             ~accepting[r] => ~accepting'[r] /\ accepted'[r] = accepted[r]]_vars
    BY StepFreezes DEF IInv
  <1> QED BY <1>1, Invariance, PTL DEF Spec, DraftIsFrozen

-----------------------------------------------------------------------------
(* SpeechModel.                                                            *)


\* What a step of a call, a loaded transcriber or a lost model holds.
HoldsOK == \A p \in Process :
  /\ transcriber[p] # "none" => use[p] = "shared"
  /\ step[p] = "retiring" => transcriber[p] = "loaded"
  /\ step[p] \in LockedSteps \cup LoadSteps \cup {"locking"} => transcriber[p] = "none"
  /\ step[p] \in {"verifying", "loading"} => use[p] = "shared"
  /\ step[p] \in ClaimedSteps => use[p] = "exclusive" /\ call[p] = "repair"
  /\ step[p] \in InstallSteps /\ call[p] = "repair" => use[p] = "exclusive"
  /\ step[p] = "claiming" => call[p] = "repair"
  /\ "model" \in lost[p] => abandoned[p] \/ transcriber[p] = "unreleased"

\* An exclusive use excludes every other use.
ExclusionOK == \A p, q \in Process : use[p] = "exclusive" =>
  ~Shared(q) /\ (q # p => use[q] # "exclusive")

\* What the process that holds the mutation lock knows of the directory.
DiskOK ==
  /\ content = "absent" => ~marker
  /\ \A p \in Process :
       /\ step[p] = "revoking" => ~Valid
       /\ step[p] = "removing" => ~marker
       /\ step[p] \in {"downloading", "publishing"} => content = "absent"
       /\ step[p] = "publishing" => staged[p] = "intact"
       /\ step[p] = "marking" => content \in {"intact", "damaged"}
       /\ Mapped(p) \/ step[p] = "loading" => marker

ModelIInv ==
  /\ ModelTypeOK
  /\ OneMutator
  /\ HoldsOK
  /\ ExclusionOK
  /\ DiskOK
  /\ MarkedIsComplete
  /\ StreamHasModel

USE DEF ClaimedSteps, InstallSteps, LockedSteps, LoadSteps, Content

\* The invariant holds when the first process starts.
LEMMA ModelInitIInv == ModelInit => ModelIInv
<1> SUFFICES ASSUME ModelInit PROVE ModelIInv
  OBVIOUS
<1>1. ModelTypeOK
  BY DEF ModelInit, ModelTypeOK
<1>2. OneMutator /\ HoldsOK /\ ExclusionOK /\ StreamHasModel
  BY DEF ModelInit, OneMutator, HoldsOK, ExclusionOK, StreamHasModel
<1>3. DiskOK /\ MarkedIsComplete
  BY DEF ModelInit, DiskOK, Mapped, MarkedIsComplete
<1> QED BY <1>1, <1>2, <1>3 DEF ModelIInv

\* A load starts only without a transcriber.
LEMMA LoadInstalledSpeechModelPreserves ==
  ASSUME ModelIInv, NEW p \in Process, LoadInstalledSpeechModel(p)
  PROVE  ModelIInv'
  BY DEF ModelIInv, LoadInstalledSpeechModel, StartCall, disk, setup, native, Goto, Moves,
         ModelTypeOK, OneMutator, HoldsOK, ExclusionOK, DiskOK, MarkedIsComplete,
         StreamHasModel, Shared, Mapped, Valid

\* So does an installation.
LEMMA InstallAndEnablePreserves ==
  ASSUME ModelIInv, NEW p \in Process, InstallAndEnable(p)
  PROVE  ModelIInv'
  BY DEF ModelIInv, InstallAndEnable, StartCall, disk, setup, native, Goto, Moves, ModelTypeOK,
         OneMutator, HoldsOK, ExclusionOK, DiskOK, MarkedIsComplete, StreamHasModel,
         Shared, Mapped, Valid

\* A repair starts by retiring a loaded transcriber.
LEMMA RepairAndEnablePreserves ==
  ASSUME ModelIInv, NEW p \in Process, RepairAndEnable(p)
  PROVE  ModelIInv'
  BY DEF ModelIInv, RepairAndEnable, StartCall, disk, setup, native, Goto, Moves, ModelTypeOK,
         OneMutator, HoldsOK, ExclusionOK, DiskOK, MarkedIsComplete, StreamHasModel,
         Shared, Mapped, Valid

\* Retiring closes the use, or keeps it with the transcriber that did not close.
LEMMA RetirePreserves ==
  ASSUME ModelIInv, NEW p \in Process, Retire(p)
  PROVE  ModelIInv'
<1>1. CASE Moves(p, "retiring", "locking") /\ ModelClosed(p)
  <2>1. ModelTypeOK'
    BY <1>1 DEF ModelIInv, Retire, ModelClosed, ModelNotClosed, disk, setup, native, Goto,
           Moves, ModelTypeOK
  <2>2. (OneMutator /\ HoldsOK /\ ExclusionOK)'
    BY <1>1 DEF ModelIInv, Retire, ModelClosed, ModelNotClosed, disk, setup, native, Goto,
           Moves, ModelTypeOK, OneMutator, HoldsOK, ExclusionOK, Shared
  <2>3. (DiskOK /\ MarkedIsComplete /\ StreamHasModel)'
    BY <1>1 DEF ModelIInv, Retire, ModelClosed, ModelNotClosed, disk, setup, native, Goto,
           Moves, ModelTypeOK, OneMutator, HoldsOK, ExclusionOK, Shared, Mapped, DiskOK,
           Valid, MarkedIsComplete, StreamHasModel
  <2> QED BY <2>1, <2>2, <2>3 DEF ModelIInv
<1>2. CASE Moves(p, "retiring", "idle") /\ ModelNotClosed(p)
  <2>1. ModelTypeOK'
    BY <1>2 DEF ModelIInv, Retire, ModelClosed, ModelNotClosed, disk, setup, native, Goto,
           Moves, ModelTypeOK
  <2>2. (OneMutator /\ HoldsOK /\ ExclusionOK)'
    BY <1>2 DEF ModelIInv, Retire, ModelClosed, ModelNotClosed, disk, setup, native, Goto,
           Moves, ModelTypeOK, OneMutator, HoldsOK, ExclusionOK, Shared
  <2>3. (DiskOK /\ MarkedIsComplete /\ StreamHasModel)'
    BY <1>2 DEF ModelIInv, Retire, ModelClosed, ModelNotClosed, disk, setup, native, Goto,
           Moves, ModelTypeOK, OneMutator, HoldsOK, ExclusionOK, Shared, Mapped, DiskOK,
           Valid, MarkedIsComplete, StreamHasModel
  <2> QED BY <2>1, <2>2, <2>3 DEF ModelIInv
<1> QED BY <1>1, <1>2 DEF Retire

\* The lock directory was absent, so nobody else is between the two ends of the lock.
LEMMA LockPreserves ==
  ASSUME ModelIInv, NEW p \in Process, Lock(p)
  PROVE  ModelIInv'
  BY DEF ModelIInv, Lock, disk, setup, native, Goto, Moves, ModelTypeOK, OneMutator, HoldsOK,
         ExclusionOK, DiskOK, MarkedIsComplete, StreamHasModel, Shared, Mapped, Valid

\* The exclusive use is granted only when there is no other use.
LEMMA ClaimPreserves ==
  ASSUME ModelIInv, NEW p \in Process, Claim(p)
  PROVE  ModelIInv'
  BY DEF ModelIInv, Claim, Unused, disk, setup, native, Goto, Moves, ModelTypeOK, OneMutator,
         HoldsOK, ExclusionOK, DiskOK, MarkedIsComplete, StreamHasModel, Shared,
         Mapped, Valid

\* Releasing the exclusive use ends the claimed steps.
LEMMA ReleasePreserves ==
  ASSUME ModelIInv, NEW p \in Process, Release(p)
  PROVE  ModelIInv'
  BY DEF ModelIInv, Release, disk, setup, native, Goto, Moves, ModelTypeOK, OneMutator,
         HoldsOK, ExclusionOK, DiskOK, MarkedIsComplete, StreamHasModel, Shared,
         Mapped, Valid

\* Unlocking leaves the locked steps, and a load that follows holds nothing yet.
LEMMA UnlockPreserves ==
  ASSUME ModelIInv, NEW p \in Process, Unlock(p)
  PROVE  ModelIInv'
<1>1. CASE locked' = FALSE /\ Moves(p, "unlocking", IF installed[p] THEN "opening" ELSE "idle")
  <2>1. ModelTypeOK'
    BY <1>1, ZenonT(40) DEF ModelIInv, Unlock, disk, setup, native, Goto, Moves, ModelTypeOK
  <2>2. (OneMutator /\ HoldsOK /\ ExclusionOK)'
    BY <1>1 DEF ModelIInv, Unlock, disk, setup, native, Goto, Moves, ModelTypeOK, OneMutator,
           HoldsOK, ExclusionOK, Shared
  <2>3. (DiskOK /\ MarkedIsComplete /\ StreamHasModel)'
    BY <1>1 DEF ModelIInv, Unlock, disk, setup, native, Goto, Moves, ModelTypeOK, OneMutator,
           HoldsOK, ExclusionOK, Shared, Mapped, DiskOK, Valid, MarkedIsComplete,
           StreamHasModel
  <2> QED BY <2>1, <2>2, <2>3 DEF ModelIInv
<1>2. CASE UNCHANGED locked /\ Moves(p, "unlocking", "idle")
  <2>1. ModelTypeOK'
    BY <1>2 DEF ModelIInv, Unlock, disk, setup, native, Goto, Moves, ModelTypeOK
  <2>2. (OneMutator /\ HoldsOK /\ ExclusionOK)'
    BY <1>2 DEF ModelIInv, Unlock, disk, setup, native, Goto, Moves, ModelTypeOK, OneMutator,
           HoldsOK, ExclusionOK, Shared
  <2>3. (DiskOK /\ MarkedIsComplete /\ StreamHasModel)'
    BY <1>2 DEF ModelIInv, Unlock, disk, setup, native, Goto, Moves, ModelTypeOK, OneMutator,
           HoldsOK, ExclusionOK, Shared, Mapped, DiskOK, Valid, MarkedIsComplete,
           StreamHasModel
  <2> QED BY <2>1, <2>2, <2>3 DEF ModelIInv
<1> QED BY <1>1, <1>2 DEF Unlock

\* A call that gives up releases what it holds in order.
LEMMA GiveUpPreserves ==
  ASSUME ModelIInv, NEW p \in Process, GiveUp(p)
  PROVE  ModelIInv'
  BY DEF ModelIInv, GiveUp, Unwind, disk, setup, native, Goto, Moves, ModelTypeOK, OneMutator,
         HoldsOK, ExclusionOK, DiskOK, MarkedIsComplete, StreamHasModel, Shared,
         Mapped, Valid

\* The repair goes on to revoke only what it found invalid.
LEMMA CheckPreserves ==
  ASSUME ModelIInv, NEW p \in Process, Check(p)
  PROVE  ModelIInv'
<1>1. CASE content = "absent" /\ Goto(p, "installing") /\ UNCHANGED <<installed, staged>>
  <2>1. ModelTypeOK'
    BY <1>1 DEF ModelIInv, Check, FoundInvalid, Succeeds, Unwind, disk, setup, native,
           Goto, Moves, ModelTypeOK
  <2>2. (OneMutator /\ HoldsOK /\ ExclusionOK)'
    BY <1>1 DEF ModelIInv, Check, FoundInvalid, Succeeds, Unwind, disk, setup, native,
           Goto, Moves, ModelTypeOK, OneMutator, HoldsOK, ExclusionOK, Shared
  <2>3. (DiskOK /\ MarkedIsComplete /\ StreamHasModel)'
    BY <1>1 DEF ModelIInv, Check, FoundInvalid, Succeeds, Unwind, disk, setup, native,
           Goto, Moves, ModelTypeOK, OneMutator, HoldsOK, ExclusionOK, Shared, Mapped,
           DiskOK, Valid, MarkedIsComplete, StreamHasModel
  <2> QED BY <2>1, <2>2, <2>3 DEF ModelIInv
<1>2. CASE content # "absent" /\ FoundInvalid /\ Goto(p, "revoking")
       /\ UNCHANGED <<installed, staged>>
  <2>1. ModelTypeOK'
    BY <1>2 DEF ModelIInv, Check, FoundInvalid, Succeeds, Unwind, disk, setup, native,
           Goto, Moves, ModelTypeOK
  <2>2. (OneMutator /\ HoldsOK /\ ExclusionOK)'
    BY <1>2 DEF ModelIInv, Check, FoundInvalid, Succeeds, Unwind, disk, setup, native,
           Goto, Moves, ModelTypeOK, OneMutator, HoldsOK, ExclusionOK, Shared
  <2>3. (DiskOK /\ MarkedIsComplete /\ StreamHasModel)'
    BY <1>2 DEF ModelIInv, Check, FoundInvalid, Succeeds, Unwind, disk, setup, native,
           Goto, Moves, ModelTypeOK, OneMutator, HoldsOK, ExclusionOK, Shared, Mapped,
           DiskOK, Valid, MarkedIsComplete, StreamHasModel
  <2> QED BY <2>1, <2>2, <2>3 DEF ModelIInv
<1>3. CASE Valid /\ Succeeds(p)
  <2>1. ModelTypeOK'
    BY <1>3 DEF ModelIInv, Check, FoundInvalid, Succeeds, Unwind, disk, setup, native,
           Goto, Moves, ModelTypeOK
  <2>2. (OneMutator /\ HoldsOK /\ ExclusionOK)'
    BY <1>3 DEF ModelIInv, Check, FoundInvalid, Succeeds, Unwind, disk, setup, native,
           Goto, Moves, ModelTypeOK, OneMutator, HoldsOK, ExclusionOK, Shared
  <2>3. (DiskOK /\ MarkedIsComplete /\ StreamHasModel)'
    BY <1>3 DEF ModelIInv, Check, FoundInvalid, Succeeds, Unwind, disk, setup, native,
           Goto, Moves, ModelTypeOK, OneMutator, HoldsOK, ExclusionOK, Shared, Mapped,
           DiskOK, Valid, MarkedIsComplete, StreamHasModel
  <2> QED BY <2>1, <2>2, <2>3 DEF ModelIInv
<1> QED BY <1>1, <1>2, <1>3 DEF Check

\* The marker goes first.
LEMMA RevokePreserves ==
  ASSUME ModelIInv, NEW p \in Process, Revoke(p)
  PROVE  ModelIInv'
<1> USE DEF ModelIInv, Revoke, disk, setup, native, Goto, Moves
<1>1. ModelTypeOK'
  BY ZenonT(40) DEF ModelTypeOK
<1>2. OneMutator'
  BY DEF ModelTypeOK, OneMutator
<1>3. HoldsOK'
  BY DEF ModelTypeOK, HoldsOK
<1>4. ExclusionOK'
  BY DEF ModelTypeOK, HoldsOK, ExclusionOK, Shared
<1>5. DiskOK'
  BY DEF ModelTypeOK, OneMutator, HoldsOK, ExclusionOK, DiskOK, Shared, Mapped, Valid
<1>6. MarkedIsComplete'
  BY DEF ModelTypeOK, DiskOK, MarkedIsComplete
<1>7. StreamHasModel'
  BY DEF ModelTypeOK, HoldsOK, StreamHasModel
<1> QED BY <1>1, <1>2, <1>3, <1>4, <1>5, <1>6, <1>7

\* Files go only without a marker, under the exclusive use.
LEMMA RemovePreserves ==
  ASSUME ModelIInv, NEW p \in Process, Remove(p)
  PROVE  ModelIInv'
<1>1. CASE content' = "broken" /\ UNCHANGED <<step, marker>>
  <2>1. ModelTypeOK'
    BY <1>1 DEF ModelIInv, Remove, disk, setup, native, Goto, Moves, ModelTypeOK
  <2>2. (OneMutator /\ HoldsOK /\ ExclusionOK)'
    BY <1>1 DEF ModelIInv, Remove, disk, setup, native, Goto, Moves, ModelTypeOK, OneMutator,
           HoldsOK, ExclusionOK, Shared
  <2>3. (DiskOK /\ MarkedIsComplete /\ StreamHasModel)'
    BY <1>1 DEF ModelIInv, Remove, disk, setup, native, Goto, Moves, ModelTypeOK, OneMutator,
           HoldsOK, ExclusionOK, Shared, Mapped, DiskOK, Valid, MarkedIsComplete,
           StreamHasModel
  <2> QED BY <2>1, <2>2, <2>3 DEF ModelIInv
<1>2. CASE content' = "absent" /\ marker' = FALSE /\ Goto(p, "installing")
  <2>1. ModelTypeOK'
    BY <1>2 DEF ModelIInv, Remove, disk, setup, native, Goto, Moves, ModelTypeOK
  <2>2. (OneMutator /\ HoldsOK /\ ExclusionOK)'
    BY <1>2 DEF ModelIInv, Remove, disk, setup, native, Goto, Moves, ModelTypeOK, OneMutator,
           HoldsOK, ExclusionOK, Shared
  <2>3. (DiskOK /\ MarkedIsComplete /\ StreamHasModel)'
    BY <1>2 DEF ModelIInv, Remove, disk, setup, native, Goto, Moves, ModelTypeOK, OneMutator,
           HoldsOK, ExclusionOK, Shared, Mapped, DiskOK, Valid, MarkedIsComplete,
           StreamHasModel
  <2> QED BY <2>1, <2>2, <2>3 DEF ModelIInv
<1> QED BY <1>1, <1>2 DEF Remove

\* An installation downloads only when there is no directory.
LEMMA InstallPreserves ==
  ASSUME ModelIInv, NEW p \in Process, Install(p)
  PROVE  ModelIInv'
<1>1. CASE content = "absent" /\ Goto(p, "downloading") /\ UNCHANGED <<installed, staged>>
  <2>1. ModelTypeOK'
    BY <1>1 DEF ModelIInv, Install, Succeeds, Unwind, disk, setup, native, Goto, Moves,
           ModelTypeOK
  <2>2. (OneMutator /\ HoldsOK /\ ExclusionOK)'
    BY <1>1 DEF ModelIInv, Install, Succeeds, Unwind, disk, setup, native, Goto, Moves,
           ModelTypeOK, OneMutator, HoldsOK, ExclusionOK, Shared
  <2>3. (DiskOK /\ MarkedIsComplete /\ StreamHasModel)'
    BY <1>1 DEF ModelIInv, Install, Succeeds, Unwind, disk, setup, native, Goto, Moves,
           ModelTypeOK, OneMutator, HoldsOK, ExclusionOK, Shared, Mapped, DiskOK, Valid,
           MarkedIsComplete, StreamHasModel
  <2> QED BY <2>1, <2>2, <2>3 DEF ModelIInv
<1>2. CASE Valid /\ Succeeds(p)
  <2>1. ModelTypeOK'
    BY <1>2 DEF ModelIInv, Install, Succeeds, Unwind, disk, setup, native, Goto, Moves,
           ModelTypeOK
  <2>2. (OneMutator /\ HoldsOK /\ ExclusionOK)'
    BY <1>2 DEF ModelIInv, Install, Succeeds, Unwind, disk, setup, native, Goto, Moves,
           ModelTypeOK, OneMutator, HoldsOK, ExclusionOK, Shared
  <2>3. (DiskOK /\ MarkedIsComplete /\ StreamHasModel)'
    BY <1>2 DEF ModelIInv, Install, Succeeds, Unwind, disk, setup, native, Goto, Moves,
           ModelTypeOK, OneMutator, HoldsOK, ExclusionOK, Shared, Mapped, DiskOK, Valid,
           MarkedIsComplete, StreamHasModel
  <2> QED BY <2>1, <2>2, <2>3 DEF ModelIInv
<1>3. CASE content # "absent" /\ ~Valid /\ Unwind(p) /\ UNCHANGED <<installed, staged>>
  <2>1. ModelTypeOK'
    BY <1>3 DEF ModelIInv, Install, Succeeds, Unwind, disk, setup, native, Goto, Moves,
           ModelTypeOK
  <2>2. (OneMutator /\ HoldsOK /\ ExclusionOK)'
    BY <1>3 DEF ModelIInv, Install, Succeeds, Unwind, disk, setup, native, Goto, Moves,
           ModelTypeOK, OneMutator, HoldsOK, ExclusionOK, Shared
  <2>3. (DiskOK /\ MarkedIsComplete /\ StreamHasModel)'
    BY <1>3 DEF ModelIInv, Install, Succeeds, Unwind, disk, setup, native, Goto, Moves,
           ModelTypeOK, OneMutator, HoldsOK, ExclusionOK, Shared, Mapped, DiskOK, Valid,
           MarkedIsComplete, StreamHasModel
  <2> QED BY <2>1, <2>2, <2>3 DEF ModelIInv
<1> QED BY <1>1, <1>2, <1>3 DEF Install

\* A download is staged once it is verified.
LEMMA DownloadPreserves ==
  ASSUME ModelIInv, NEW p \in Process, Download(p)
  PROVE  ModelIInv'
  BY DEF ModelIInv, Download, disk, setup, native, Goto, Moves, ModelTypeOK, OneMutator,
         HoldsOK, ExclusionOK, DiskOK, MarkedIsComplete, StreamHasModel, Shared,
         Mapped, Valid

\* The published directory has all files and no marker yet.
LEMMA PublishPreserves ==
  ASSUME ModelIInv, NEW p \in Process, PublishFiles(p)
  PROVE  ModelIInv'
  BY DEF ModelIInv, PublishFiles, disk, setup, native, Goto, Moves, ModelTypeOK, OneMutator,
         HoldsOK, ExclusionOK, DiskOK, MarkedIsComplete, StreamHasModel, Shared,
         Mapped, Valid

\* The marker comes last.
LEMMA MarkPreserves ==
  ASSUME ModelIInv, NEW p \in Process, Mark(p)
  PROVE  ModelIInv'
  BY DEF ModelIInv, Mark, Succeeds, Unwind, disk, setup, native, Goto, Moves, ModelTypeOK,
         OneMutator, HoldsOK, ExclusionOK, DiskOK, MarkedIsComplete, StreamHasModel,
         Shared, Mapped, Valid

\* A shared use is granted only when there is no exclusive one.
LEMMA OpenPreserves ==
  ASSUME ModelIInv, NEW p \in Process, Open(p)
  PROVE  ModelIInv'
  BY DEF ModelIInv, Open, disk, setup, native, Goto, Moves, ModelTypeOK, OneMutator, HoldsOK,
         ExclusionOK, DiskOK, MarkedIsComplete, StreamHasModel, Shared, Mapped, Valid

\* A load goes on only with a marker.
LEMMA VerifyPreserves ==
  ASSUME ModelIInv, NEW p \in Process, Verify(p)
  PROVE  ModelIInv'
  BY DEF ModelIInv, Verify, disk, setup, native, Goto, Moves, ModelTypeOK, OneMutator, HoldsOK,
         ExclusionOK, DiskOK, MarkedIsComplete, StreamHasModel, Shared, Mapped, Valid

\* The loaded transcriber keeps the use that covered its verification.
LEMMA LoadPreserves ==
  ASSUME ModelIInv, NEW p \in Process, Load(p)
  PROVE  ModelIInv'
  BY DEF ModelIInv, Load, disk, setup, native, Goto, Moves, ModelTypeOK, OneMutator, HoldsOK,
         ExclusionOK, DiskOK, MarkedIsComplete, StreamHasModel, Shared, Mapped, Valid

\* A failed load releases its use.
LEMMA LoadFailsPreserves ==
  ASSUME ModelIInv, NEW p \in Process, LoadFails(p)
  PROVE  ModelIInv'
  BY DEF ModelIInv, LoadFails, disk, setup, native, Goto, Moves, ModelTypeOK, OneMutator,
         HoldsOK, ExclusionOK, DiskOK, MarkedIsComplete, StreamHasModel, Shared,
         Mapped, Valid

\* A failed cleanup abandons the use instead of closing it.
LEMMA LoadCleanupFailsPreserves ==
  ASSUME ModelIInv, NEW p \in Process, LoadCleanupFails(p)
  PROVE  ModelIInv'
  BY DEF ModelIInv, LoadCleanupFails, disk, setup, native, Goto, Moves, ModelTypeOK,
         OneMutator, HoldsOK, ExclusionOK, DiskOK, MarkedIsComplete, StreamHasModel,
         Shared, Mapped, Valid

\* So does the setup, which keeps the transcriber it could not close.
LEMMA LoadedTooLatePreserves ==
  ASSUME ModelIInv, NEW p \in Process, LoadedTooLate(p)
  PROVE  ModelIInv'
  BY DEF ModelIInv, LoadedTooLate, ModelNotClosed, disk, setup, native, Goto, Moves,
         ModelTypeOK, OneMutator, HoldsOK, ExclusionOK, DiskOK, MarkedIsComplete,
         StreamHasModel, Shared, Mapped, Valid

\* A stream starts on a loaded transcriber.
LEMMA StartStreamPreserves ==
  ASSUME ModelIInv, NEW p \in Process, StartStream(p)
  PROVE  ModelIInv'
  BY DEF ModelIInv, StartStream, OnlyNative, disk, setup, native, Goto, Moves, ModelTypeOK,
         OneMutator, HoldsOK, ExclusionOK, DiskOK, MarkedIsComplete, StreamHasModel,
         Shared, Mapped, Valid

\* A stream that was closed at once leaves the files alone.
LEMMA StreamTooLatePreserves ==
  ASSUME ModelIInv, NEW p \in Process, StreamTooLate(p)
  PROVE  ModelIInv'
  BY DEF ModelIInv, StreamTooLate, OnlyNative, disk, setup, native, Goto, Moves, ModelTypeOK,
         OneMutator, HoldsOK, ExclusionOK, DiskOK, MarkedIsComplete, StreamHasModel,
         Shared, Mapped, Valid

\* Inference changes only the stream.
LEMMA AddAudioPreserves ==
  ASSUME ModelIInv, NEW p \in Process, AddAudio(p)
  PROVE  ModelIInv'
  BY DEF ModelIInv, AddAudio, OnlyNative, disk, setup, native, Goto, Moves, ModelTypeOK,
         OneMutator, HoldsOK, ExclusionOK, DiskOK, MarkedIsComplete, StreamHasModel,
         Shared, Mapped, Valid

\* So does its end.
LEMMA AudioAddedPreserves ==
  ASSUME ModelIInv, NEW p \in Process, AudioAdded(p)
  PROVE  ModelIInv'
  BY DEF ModelIInv, AudioAdded, OnlyNative, disk, setup, native, Goto, Moves, ModelTypeOK,
         OneMutator, HoldsOK, ExclusionOK, DiskOK, MarkedIsComplete, StreamHasModel,
         Shared, Mapped, Valid

\* And the close of the stream.
LEMMA CloseStreamPreserves ==
  ASSUME ModelIInv, NEW p \in Process, CloseStream(p)
  PROVE  ModelIInv'
  BY DEF ModelIInv, CloseStream, OnlyNative, disk, setup, native, Goto, Moves, ModelTypeOK,
         OneMutator, HoldsOK, ExclusionOK, DiskOK, MarkedIsComplete, StreamHasModel,
         Shared, Mapped, Valid

\* The service closes when nothing is running.
LEMMA ClosePreserves ==
  ASSUME ModelIInv, NEW p \in Process, Close(p)
  PROVE  ModelIInv'
  BY DEF ModelIInv, Close, ModelClosed, ModelNotClosed, disk, setup, native, Goto, Moves,
         ModelTypeOK, OneMutator, HoldsOK, ExclusionOK, DiskOK, MarkedIsComplete,
         StreamHasModel, Shared, Mapped, Valid

\* A process that ends releases every use and leaves the directory as it is.
LEMMA ExitPreserves ==
  ASSUME ModelIInv, NEW p \in Process, Exit(p)
  PROVE  ModelIInv'
  BY DEF ModelIInv, Exit, disk, setup, native, Goto, Moves, ModelTypeOK, OneMutator, HoldsOK,
         ExclusionOK, DiskOK, MarkedIsComplete, StreamHasModel, Shared, Mapped, Valid

\* The lock directory is removed by hand only while no installer is running.
LEMMA RemoveStaleLockPreserves ==
  ASSUME ModelIInv, RemoveStaleLock
  PROVE  ModelIInv'
  BY DEF ModelIInv, RemoveStaleLock, setup, native, ModelTypeOK, OneMutator, HoldsOK,
         ExclusionOK, DiskOK, MarkedIsComplete, StreamHasModel, Shared, Mapped, Valid

\* Damage by others leaves the marker and every lock.
LEMMA DamagePreserves ==
  ASSUME ModelIInv, Damage
  PROVE  ModelIInv'
  BY DEF ModelIInv, Damage, setup, native, ModelTypeOK, OneMutator, HoldsOK, ExclusionOK,
         DiskOK, MarkedIsComplete, StreamHasModel, Shared, Mapped, Valid

\* Nothing changes.
LEMMA StutterPreserves ==
  ASSUME ModelIInv, UNCHANGED modelVars
  PROVE  ModelIInv'
  BY DEF ModelIInv, modelVars, disk, setup, native, ModelTypeOK, OneMutator, HoldsOK, ExclusionOK,
         DiskOK, MarkedIsComplete, StreamHasModel, Shared, Mapped, Valid

\* IInv is inductive and so holds in every state.
THEOREM ModelInvariance == ModelSpec => []ModelIInv
<1>1. ModelIInv /\ [ModelNext]_modelVars => ModelIInv'
  <2> SUFFICES ASSUME ModelIInv, [ModelNext]_modelVars PROVE ModelIInv'
    OBVIOUS
  <2>1. CASE \E p \in Process : Calls(p)
    BY <2>1, LoadInstalledSpeechModelPreserves, InstallAndEnablePreserves,
       RepairAndEnablePreserves DEF Calls
  <2>2. CASE \E p \in Process : Retire(p) \/ Close(p) \/ Exit(p)
    BY <2>2, RetirePreserves, ClosePreserves, ExitPreserves
  <2>3. CASE \E p \in Process : SetupStep(p)
    <3> PICK p \in Process : SetupStep(p)
      BY <2>3
    <3>1. CASE Lock(p) \/ Claim(p) \/ Release(p) \/ Unlock(p) \/ GiveUp(p)
      BY <3>1, LockPreserves, ClaimPreserves, ReleasePreserves, UnlockPreserves,
         GiveUpPreserves
    <3>2. CASE Check(p) \/ Revoke(p) \/ Remove(p)
      BY <3>2, CheckPreserves, RevokePreserves, RemovePreserves
    <3>3. CASE Install(p) \/ Download(p) \/ PublishFiles(p) \/ Mark(p)
      BY <3>3, InstallPreserves, DownloadPreserves, PublishPreserves, MarkPreserves
    <3>4. CASE Open(p) \/ Verify(p) \/ Load(p)
      BY <3>4, OpenPreserves, VerifyPreserves, LoadPreserves
    <3>5. CASE LoadFails(p) \/ LoadCleanupFails(p) \/ LoadedTooLate(p)
      BY <3>5, LoadFailsPreserves, LoadCleanupFailsPreserves, LoadedTooLatePreserves
    <3> QED BY <3>1, <3>2, <3>3, <3>4, <3>5 DEF SetupStep
  <2>4. CASE \E p \in Process : StreamStep(p)
    BY <2>4, StartStreamPreserves, StreamTooLatePreserves, AddAudioPreserves,
       AudioAddedPreserves, CloseStreamPreserves DEF StreamStep
  <2>5. CASE RemoveStaleLock
    BY <2>5, RemoveStaleLockPreserves
  <2>6. CASE Damage
    BY <2>6, DamagePreserves
  <2>7. CASE UNCHANGED modelVars
    BY <2>7, StutterPreserves
  <2> QED BY <2>1, <2>2, <2>3, <2>4, <2>5, <2>6, <2>7 DEF ModelNext
<1> QED BY ModelInitIInv, <1>1, PTL DEF ModelSpec

\* Types, and that an exclusive use ends with its repair.
THEOREM TypeCorrectness == ModelSpec => []ModelTypeOK
  BY ModelInvariance, PTL DEF ModelIInv

\* One process changes the model directory at a time, through every crash and every
\* lock directory left behind.
THEOREM MutationIsExclusive == ModelSpec => []OneMutator
  BY ModelInvariance, PTL DEF ModelIInv

\* A completion marker never names a revision that Thoughts left unfinished.
THEOREM MarkerMeansComplete == ModelSpec => []MarkedIsComplete
  BY ModelInvariance, PTL DEF ModelIInv

\* No stream outlives the model it runs on.
THEOREM StreamOnLoadedModel == ModelSpec => []StreamHasModel
  BY ModelInvariance, PTL DEF ModelIInv

\* An exclusive use and a lost model exclude each other.
LEMMA LostExcludesRepair == ModelIInv => LostModelStopsRepair
  BY DEF ModelIInv, HoldsOK, ExclusionOK, Shared, LostModelStopsRepair

\* A model whose cleanup failed is not repaired before its process has ended.
THEOREM LostModelIsKept == ModelSpec => []LostModelStopsRepair
  BY ModelInvariance, LostExcludesRepair, PTL

\* Who changes the saved files: the holder of both locks, the publisher of a new
\* revision, and others.
LEMMA WhoChangesFiles ==
  ASSUME ModelIInv, [ModelNext]_modelVars
  PROVE  \/ UNCHANGED <<content, marker>>
         \/ content' \in {content, "damaged"} /\ marker' = marker
         \/ \E p \in Process : step[p] \in {"revoking", "removing"}
         \/ \E p \in Process : step[p] = "publishing" /\ content = "absent"
         \/ \E p \in Process : step[p] = "marking" /\ content' = content /\ marker'
<1>1. CASE \E p \in Process : Calls(p) \/ Retire(p) \/ StreamStep(p) \/ Close(p) \/ Exit(p)
  BY <1>1 DEF Calls, LoadInstalledSpeechModel, InstallAndEnable, RepairAndEnable,
         StartCall, Retire, StreamStep, StartStream, StreamTooLate, AddAudio, AudioAdded,
         CloseStream, OnlyNative, Close, Exit, disk
<1>2. CASE \E p \in Process : SetupStep(p)
  <2> PICK p \in Process : SetupStep(p)
    BY <1>2
  <2>1. CASE Lock(p) \/ Claim(p) \/ Release(p) \/ Unlock(p) \/ GiveUp(p)
    BY <2>1 DEF Lock, Claim, Release, Unlock, GiveUp, disk
  <2>2. CASE Check(p) \/ Install(p) \/ Download(p)
    BY <2>2 DEF Check, Install, Download, disk
  <2>3. CASE Revoke(p) \/ Remove(p)
    BY <2>3 DEF Revoke, Remove, Moves
  <2>4. CASE PublishFiles(p) \/ Mark(p)
    BY <2>4 DEF PublishFiles, Mark, Moves
  <2>5. CASE Open(p) \/ Verify(p) \/ Load(p) \/ LoadFails(p) \/ LoadCleanupFails(p)
             \/ LoadedTooLate(p)
    BY <2>5 DEF Open, Verify, Load, LoadFails, LoadCleanupFails, LoadedTooLate, disk
  <2> QED BY <2>1, <2>2, <2>3, <2>4, <2>5 DEF SetupStep
<1>3. CASE RemoveStaleLock \/ Damage \/ UNCHANGED modelVars
  BY <1>3 DEF RemoveStaleLock, Damage, modelVars, disk
<1> QED BY <1>1, <1>2, <1>3 DEF ModelNext

\* No step of Thoughts touches files that a transcriber maps or may still map.
THEOREM UsedModelIsKept == ModelSpec => UsedModelStays
<1>1. ASSUME ModelIInv, [ModelNext]_modelVars, NEW p \in Process, Mapped(p)
      PROVE  marker' = marker /\ content' \in {content, "damaged"}
  <2>1. marker /\ content # "absent"
    BY <1>1 DEF ModelIInv, DiskOK
  <2>2. Shared(p)
    BY <1>1 DEF ModelIInv, HoldsOK, Mapped, Shared
  <2>3. \A q \in Process : step[q] \notin {"revoking", "removing"}
    BY <1>1, <2>2 DEF ModelIInv, HoldsOK, ExclusionOK
  <2> QED BY <1>1, <2>1, <2>3, WhoChangesFiles DEF ModelIInv, ModelTypeOK
<1>2. ModelIInv /\ [ModelNext]_modelVars => [(\E p \in Process : Mapped(p)) =>
                               marker' = marker /\ content' \in {content, "damaged"}]_modelVars
  BY <1>1
<1> QED BY <1>2, ModelInvariance, PTL DEF ModelSpec, UsedModelStays

\* A complete valid revision is never removed, replaced or invalidated by Thoughts.
THEOREM ValidModelIsKept == ModelSpec => ValidModelSurvives
<1>1. ASSUME ModelIInv, [ModelNext]_modelVars, Valid
      PROVE  content' # "absent" /\ content' # "broken" /\ marker'
  <2>1. \A p \in Process : step[p] \notin {"revoking", "removing"}
    BY <1>1 DEF ModelIInv, DiskOK, Valid
  <2> QED BY <1>1, <2>1, WhoChangesFiles DEF ModelIInv, ModelTypeOK, Valid
<1>2. ModelIInv /\ [ModelNext]_modelVars =>
        [Valid => content' # "absent" /\ content' # "broken" /\ marker']_modelVars
  BY <1>1
<1> QED BY <1>2, ModelInvariance, PTL DEF ModelSpec, ValidModelSurvives
=============================================================================
