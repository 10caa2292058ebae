--------------------------- MODULE VoiceRecording ---------------------------
(***************************************************************************)
(* Voice recordings of one browser session: the editor's draft (in the     *)
(* Bubble Tea loop), the authority of each recording to change it, the     *)
(* audio session with its two delivery channels, and per recording the     *)
(* worker goroutine, the audio connection and the consumer goroutine.      *)
(*                                                                         *)
(* Revision numbers stand for texts; PCM is a count of waiting chunks.     *)
(* The reason a recording ends with only chooses a message and is left     *)
(* out.  A recording is one press of "start", in any draft.                *)
(***************************************************************************)
EXTENDS Integers, FiniteSets

CONSTANTS
  Recording,    \* attempts to record, each with its RecordingKey
  Nothing,      \* "no recording", "no message"
  MaxRevision,  \* bound: updates one consumer publishes
  QueueLimit    \* maximumPendingAudioChunks

ASSUME BoundsAssumption == MaxRevision \in Nat /\ QueueLimit \in Nat \ {0}

VARIABLES
  draft,      \* the editor: the recording it has authority for, and its status
  loop,       \* the Bubble Tea loop: between messages, within Update, or gone
  accepting,  \* TranscriptAuthority.accepting of each recording
  accepted,   \* TranscriptAuthority.acceptedRevision
  fresh,      \* keys no start has used yet
  rejected,   \* RecordingEnded commands for recordings that were not admitted
  session,    \* audioSession and its connect: activeRecording, and the session's end
  slot,       \* pendingTranscript, a channel of one
  ended,      \* ended, a channel of one
  delivery,   \* the message the delivery goroutine is sending, if any
  worker,     \* runRecording of each recording
  cancelled,  \* the recording's own context has ended
  connection, \* its audio connection
  queue,      \* number of chunks in pendingAudio
  consumer,   \* consumePendingAudio of each recording
  revision    \* transcriptRevision of the consumer

editor == <<draft, loop, fresh, rejected>>
authority == <<accepting, accepted>>
channels == <<slot, ended, delivery>>
audio == <<worker, cancelled, connection, queue, consumer, revision>>
vars == <<editor, authority, session, channels, audio>>

Update == [recording : Recording, revision : 1 .. MaxRevision]
End == [recording : Recording, revision : {0}]
Message == Update \cup End

ASSUME NothingAssumption == Nothing \notin Recording \cup Message

TypeOK ==
  /\ draft \in [recording : Recording \cup {Nothing},
                status : {"idle", "requesting", "recording", "stopping"}]
  /\ loop \in {"ready", "synchronizing", "exited"}
  /\ accepting \in [Recording -> BOOLEAN]
  /\ accepted \in [Recording -> 0 .. MaxRevision]
  /\ fresh \in SUBSET Recording
  /\ rejected \in SUBSET Recording
  /\ session \in [active : Recording \cup {Nothing}, linked : BOOLEAN, over : BOOLEAN,
                  delivering : BOOLEAN, close : {"open", "closing", "closed"}]
  /\ slot \in Update \cup {Nothing}
  /\ ended \in End \cup {Nothing}
  /\ delivery \in Message \cup {Nothing}
  /\ worker \in [Recording -> {"unborn", "waiting", "running", "joining", "ending", "done"}]
  /\ cancelled \in [Recording -> BOOLEAN]
  /\ connection \in [Recording -> {"none", "open", "closed"}]
  /\ queue \in [Recording -> 0 .. QueueLimit]
  /\ consumer \in [Recording -> {"none", "creating", "ready", "consuming",
                                 "publishing", "closing", "closed"}]
  /\ revision \in [Recording -> 0 .. MaxRevision]

Init ==
  /\ draft = [recording |-> Nothing, status |-> "idle"]
  /\ loop = "ready"
  /\ accepting = [r \in Recording |-> FALSE]
  /\ accepted = [r \in Recording |-> 0]
  /\ fresh = Recording
  /\ rejected = {}
  /\ session = [active |-> Nothing, linked |-> TRUE, over |-> FALSE,
                delivering |-> TRUE, close |-> "open"]
  /\ slot = Nothing
  /\ ended = Nothing
  /\ delivery = Nothing
  /\ worker = [r \in Recording |-> "unborn"]
  /\ cancelled = [r \in Recording |-> FALSE]
  /\ connection = [r \in Recording |-> "none"]
  /\ queue = [r \in Recording |-> 0]
  /\ consumer = [r \in Recording |-> "none"]
  /\ revision = [r \in Recording |-> 0]
-----------------------------------------------------------------------------
\* recording.ctx.Err() # nil: stopped, expired, or the session's context ended.
Over(r) == cancelled[r] \/ session.over

\* publishTranscriptUpdate and enqueuePCMChunk go on only for such a recording.
Allowed(r) == accepting[r] /\ ~Over(r)

\* stopRecording: revoke, cancel and discard the waiting chunks.
Stopped(r) ==
  /\ accepting' = [accepting EXCEPT ![r] = FALSE]
  /\ cancelled' = [cancelled EXCEPT ![r] = TRUE]
  /\ queue' = [queue EXCEPT ![r] = 0]

NothingStopped == UNCHANGED <<accepting, cancelled, queue>>
-----------------------------------------------------------------------------
(* The Bubble Tea loop.  Each Update of the model is followed by           *)
(* Synchronize, in which the session observes the new voice state.         *)

\* Once its context has ended, the model ignores every message.
Updating == loop = "ready" /\ loop' = "synchronizing" /\ ~session.over

Start(r) ==
  /\ Updating
  /\ draft = [recording |-> Nothing, status |-> "idle"]
  /\ r \in fresh
  /\ fresh' = fresh \ {r}
  /\ accepting' = [accepting EXCEPT ![r] = TRUE]
  /\ draft' = [recording |-> r, status |-> "requesting"]
  /\ UNCHANGED <<accepted, rejected, session, channels, audio>>

\* The browser reports that the microphone is open.
BrowserRecording ==
  /\ Updating
  /\ draft.status = "requesting"
  /\ draft' = [draft EXCEPT !.status = "recording"]
  /\ UNCHANGED <<fresh, rejected, authority, session, channels, audio>>

\* The user stops, or the browser reports that capture ended.
Stop ==
  /\ Updating
  /\ draft.status \in {"requesting", "recording"}
  /\ accepting' = [accepting EXCEPT ![draft.recording] = FALSE]
  /\ draft' = [draft EXCEPT !.status = "stopping"]
  /\ UNCHANGED <<accepted, fresh, rejected, session, channels, audio>>

\* Reset: another screen or draft replaces this one, whatever it does.
ReplaceDraft ==
  /\ Updating
  /\ draft.recording # Nothing
  /\ accepting' = [accepting EXCEPT ![draft.recording] = FALSE]
  /\ draft' = [recording |-> Nothing, status |-> "idle"]
  /\ UNCHANGED <<accepted, fresh, rejected, session, channels, audio>>

\* Mutant of Applies: a newer revision is applied without asking the authority.
AppliesUnasked(u) ==
  /\ draft.recording = u.recording
  /\ draft.status \in {"requesting", "recording"}
  /\ u.revision > accepted[u.recording]

\* ApplyTranscriptUpdate would apply u, if the editor can hold the text.
Applies(u) ==
  /\ draft.recording = u.recording
  /\ draft.status \in {"requesting", "recording"}
  /\ accepting[u.recording]
  /\ u.revision > accepted[u.recording]

TakeUpdate ==
  /\ Updating
  /\ delivery \in Update
  /\ delivery' = Nothing
  /\ \/ /\ Applies(delivery)
        /\ accepted' = [accepted EXCEPT ![delivery.recording] = delivery.revision]
     \/ UNCHANGED accepted
  /\ UNCHANGED <<draft, fresh, rejected, accepting, session, slot, ended, audio>>

\* recordingEnded: it is for the draft's own recording or has no effect.
AcceptEnd(r) ==
  IF draft.recording = r
  THEN /\ accepting' = [accepting EXCEPT ![r] = FALSE]
       /\ draft' = [recording |-> Nothing, status |-> "idle"]
  ELSE UNCHANGED <<accepting, draft>>

TakeEnd ==
  /\ Updating
  /\ delivery \in End
  /\ delivery' = Nothing
  /\ AcceptEnd(delivery.recording)
  /\ UNCHANGED <<accepted, fresh, rejected, session, slot, ended, audio>>

TakeRejection(r) ==
  /\ Updating
  /\ r \in rejected
  /\ rejected' = rejected \ {r}
  /\ AcceptEnd(r)
  /\ UNCHANGED <<accepted, fresh, session, channels, audio>>

\* synchronizeRecording stops a recording the editor has left or stopped.
Outdated(r) ==
  draft.recording # r \/ ~accepting[r] \/ draft.status = "stopping"

\* The editor has a recording that the session does not run yet.
Wanted(r) ==
  /\ draft.recording = r
  /\ accepting[r]
  /\ session.close = "open"
  /\ session.active # r

\* Mutant of Admissible: a new recording is admitted once the old is stopped.
AdmissibleOnceStopped == session.active # Nothing => Over(session.active)

\* The work of the last recording has been joined.
Admissible == session.active # Nothing => worker[session.active] = "done"

StopOutdated ==
  IF session.active # Nothing /\ Outdated(session.active)
  THEN Stopped(session.active)
  ELSE NothingStopped

Synchronize ==
  /\ loop = "synchronizing"
  /\ loop' = "ready"
  /\ \A r \in Recording : ~Wanted(r)
  /\ StopOutdated
  /\ UNCHANGED <<draft, fresh, rejected, accepted, session, channels,
                 worker, connection, consumer, revision>>

Admit(r) ==
  /\ loop = "synchronizing"
  /\ loop' = "ready"
  /\ Wanted(r)
  /\ Admissible
  /\ StopOutdated
  /\ session' = [session EXCEPT !.active = r]
  /\ worker' = [worker EXCEPT ![r] = "waiting"]
  /\ UNCHANGED <<draft, fresh, rejected, accepted, channels, connection, consumer, revision>>

\* The previous recording is stopped; the new one ends before it began.
Reject(r) ==
  /\ loop = "synchronizing"
  /\ loop' = "ready"
  /\ Wanted(r)
  /\ ~Admissible
  /\ accepting' = [accepting EXCEPT ![r] = FALSE, ![session.active] = FALSE]
  /\ cancelled' = [cancelled EXCEPT ![session.active] = TRUE]
  /\ queue' = [queue EXCEPT ![session.active] = 0]
  /\ rejected' = rejected \cup {r}
  /\ UNCHANGED <<draft, fresh, accepted, session, channels,
                 worker, connection, consumer, revision>>
-----------------------------------------------------------------------------
(* The audio connection, and the timers of a recording.                    *)

Attach(r) ==
  /\ session.active = r /\ session.close = "open"
  /\ Allowed(r)
  /\ connection[r] = "none"
  /\ connection' = [connection EXCEPT ![r] = "open"]
  /\ UNCHANGED <<editor, authority, session, channels,
                 worker, cancelled, queue, consumer, revision>>

\* Mutant of ReceiveChunk: the queue has no limit.
ReceiveEveryChunk(r) ==
  /\ connection[r] = "open"
  /\ Allowed(r)
  /\ queue' = [queue EXCEPT ![r] = @ + 1]
  /\ UNCHANGED <<editor, authority, session, channels,
                 worker, cancelled, connection, consumer, revision>>

\* enqueuePCMChunk; a chunk that is refused ends the recording.
ReceiveChunk(r) ==
  /\ connection[r] = "open"
  /\ IF Allowed(r) /\ queue[r] < QueueLimit
     THEN /\ queue' = [queue EXCEPT ![r] = @ + 1]
          /\ UNCHANGED <<accepting, cancelled, connection>>
     ELSE /\ Stopped(r)
          /\ connection' = [connection EXCEPT ![r] = "closed"]
  /\ UNCHANGED <<editor, accepted, session, channels, worker, consumer, revision>>

\* A read fails, times out or is no PCM frame; a limit of length is reached.
LoseConnection(r) ==
  /\ connection[r] = "open"
  /\ connection' = [connection EXCEPT ![r] = "closed"]
  /\ Stopped(r)
  /\ UNCHANGED <<editor, accepted, session, channels, worker, consumer, revision>>

\* maximumDuration: the context ends first, the worker revokes afterwards.
Expire(r) ==
  /\ worker[r] \in {"waiting", "running"}
  /\ ~cancelled[r]
  /\ cancelled' = [cancelled EXCEPT ![r] = TRUE]
  /\ UNCHANGED <<editor, authority, session, channels,
                 worker, connection, queue, consumer, revision>>
-----------------------------------------------------------------------------
(* runRecording.                                                           *)

\* capabilityLifetime passed before a connection attached.
CapabilityExpires(r) ==
  /\ worker[r] = "waiting"
  /\ ~Over(r)
  /\ Stopped(r)
  /\ UNCHANGED <<editor, accepted, session, channels,
                 worker, connection, consumer, revision>>

WorkerStartsConsumer(r) ==
  /\ worker[r] = "waiting"
  /\ connection[r] # "none" /\ ~Over(r)
  /\ worker' = [worker EXCEPT ![r] = "running"]
  /\ consumer' = [consumer EXCEPT ![r] = "creating"]
  /\ UNCHANGED <<editor, authority, session, channels,
                 cancelled, connection, queue, revision>>

\* Revoke, cancel, and close the connection, before joining the consumer.
WorkerStops(r) ==
  /\ worker[r] \in {"waiting", "running"}
  /\ Over(r)
  /\ Stopped(r)
  /\ connection' = [connection EXCEPT ![r] = IF @ = "open" THEN "closed" ELSE @]
  /\ worker' = [worker EXCEPT ![r] = "joining"]
  /\ UNCHANGED <<editor, accepted, session, channels, consumer, revision>>

\* Mutant of Joined: the worker does not wait for the consumer.
JoinedAtOnce(r) == TRUE

\* There is no consumer, or it has been closed.
Joined(r) == consumer[r] \in {"none", "closed"}

WorkerJoins(r) ==
  /\ worker[r] = "joining"
  /\ Joined(r)
  /\ session' = [session EXCEPT !.active = IF @ = r THEN Nothing ELSE @]
  /\ worker' = [worker EXCEPT ![r] = "ending"]
  /\ UNCHANGED <<editor, authority, channels,
                 cancelled, connection, queue, consumer, revision>>

\* Mutant of WorkerEnds: the message is dropped while another one waits.
WorkerEndsOrDrops(r) ==
  /\ worker[r] = "ending"
  /\ IF ended = Nothing
     THEN ended' = [recording |-> r, revision |-> 0]
     ELSE UNCHANGED ended
  /\ worker' = [worker EXCEPT ![r] = "done"]
  /\ UNCHANGED <<editor, authority, session, slot, delivery,
                 cancelled, connection, queue, consumer, revision>>

\* Mutant of WorkerEnds: the worker insists on sending.
WorkerEndsWhenSent(r) ==
  /\ worker[r] = "ending"
  /\ ended = Nothing
  /\ ended' = [recording |-> r, revision |-> 0]
  /\ worker' = [worker EXCEPT ![r] = "done"]
  /\ UNCHANGED <<editor, authority, session, slot, delivery,
                 cancelled, connection, queue, consumer, revision>>

\* Only the end of the session keeps RecordingEnded from being sent.
WorkerEnds(r) ==
  /\ worker[r] = "ending"
  /\ \/ ended = Nothing /\ ended' = [recording |-> r, revision |-> 0]
     \/ session.over /\ UNCHANGED ended
  /\ worker' = [worker EXCEPT ![r] = "done"]
  /\ UNCHANGED <<editor, authority, session, slot, delivery,
                 cancelled, connection, queue, consumer, revision>>
-----------------------------------------------------------------------------
(* consumePendingAudio, with the recognizer's stream.                      *)

ConsumerMoves(r, from, to) ==
  /\ consumer[r] = from
  /\ consumer' = [consumer EXCEPT ![r] = to]

ConsumerCreated(r) ==
  /\ ConsumerMoves(r, "creating", "ready")
  /\ UNCHANGED <<editor, authority, session, channels,
                 worker, cancelled, connection, queue, revision>>

\* Settings unreadable, no model, or another stream is still open.
ConsumerNotCreated(r) ==
  /\ ConsumerMoves(r, "creating", "none")
  /\ Stopped(r)
  /\ UNCHANGED <<editor, accepted, session, channels, worker, connection, revision>>

TakeChunk(r) ==
  /\ ConsumerMoves(r, "ready", "consuming")
  /\ queue[r] > 0
  /\ queue' = [queue EXCEPT ![r] = @ - 1]
  /\ UNCHANGED <<editor, authority, session, channels,
                 worker, cancelled, connection, revision>>

\* The transcript is what was published last.
NoNewText(r) ==
  /\ ConsumerMoves(r, "consuming", "ready")
  /\ ~Over(r)
  /\ UNCHANGED <<editor, authority, session, channels,
                 worker, cancelled, connection, queue, revision>>

\* publishTranscriptUpdate finds the recording active, under publishMu.
NewText(r) ==
  /\ ConsumerMoves(r, "consuming", "publishing")
  /\ Allowed(r)
  /\ revision[r] < MaxRevision
  /\ UNCHANGED <<editor, authority, session, channels,
                 worker, cancelled, connection, queue, revision>>

\* The newer of the two updates of a recording stays in the slot.
Coalesced(u) ==
  IF slot # Nothing /\ slot.recording = u.recording /\ slot.revision > u.revision
  THEN slot
  ELSE u

\* The slot is emptied and filled; the authority may be gone by now.
Publish(r) ==
  /\ ConsumerMoves(r, "publishing", "ready")
  /\ slot' = Coalesced([recording |-> r, revision |-> revision[r] + 1])
  /\ revision' = [revision EXCEPT ![r] = @ + 1]
  /\ UNCHANGED <<editor, authority, session, ended, delivery,
                 worker, cancelled, connection, queue>>

\* The recognizer fails, or its result may no longer be published.
ConsumeFails(r) ==
  /\ ConsumerMoves(r, "consuming", "closing")
  /\ Stopped(r)
  /\ UNCHANGED <<editor, accepted, session, channels, worker, connection, revision>>

ConsumerSeesEnd(r) ==
  /\ ConsumerMoves(r, "ready", "closing")
  /\ Over(r)
  /\ UNCHANGED <<editor, authority, session, channels,
                 worker, cancelled, connection, queue, revision>>

ConsumerCloses(r) ==
  /\ ConsumerMoves(r, "closing", "closed")
  /\ UNCHANGED <<editor, authority, session, channels,
                 worker, cancelled, connection, queue, revision>>
-----------------------------------------------------------------------------
(* The delivery goroutine, and the end of the session.                     *)

Receive ==
  /\ session.delivering /\ delivery = Nothing
  /\ \/ slot # Nothing /\ delivery' = slot /\ slot' = Nothing /\ UNCHANGED ended
     \/ ended # Nothing /\ delivery' = ended /\ ended' = Nothing /\ UNCHANGED slot
  /\ UNCHANGED <<editor, authority, session, audio>>

\* Sending to a program that has ended drops the message.
DeliveryReturns ==
  /\ session.over
  /\ session.delivering
  /\ session' = [session EXCEPT !.delivering = FALSE]
  /\ delivery' = Nothing
  /\ UNCHANGED <<editor, authority, slot, ended, audio>>

\* The browser's socket fails: revokeRecording, then cancel.
Disconnect ==
  /\ session.linked /\ ~session.over
  /\ session' = [session EXCEPT !.linked = FALSE]
  /\ IF session.active # Nothing THEN Stopped(session.active) ELSE NothingStopped
  /\ UNCHANGED <<editor, accepted, channels, worker, connection, consumer, revision>>

\* After a disconnection, when the user quits, or when the server stops.
CancelSession ==
  /\ ~session.over
  /\ session' = [session EXCEPT !.over = TRUE]
  /\ UNCHANGED <<editor, authority, channels, audio>>

LoopExits ==
  /\ session.over
  /\ loop = "ready"
  /\ loop' = "exited"
  /\ UNCHANGED <<draft, fresh, rejected, authority, session, channels, audio>>

BeginClose ==
  /\ loop = "exited"
  /\ session.close = "open"
  /\ session' = [session EXCEPT !.close = "closing"]
  /\ IF session.active # Nothing THEN Stopped(session.active) ELSE NothingStopped
  /\ UNCHANGED <<editor, accepted, channels, worker, connection, consumer, revision>>

\* Mutant of CloseEnds: close waits only for the active recording.
CloseEndsEarly ==
  /\ session.close = "closing"
  /\ session.active = Nothing
  /\ session' = [session EXCEPT !.close = "closed"]
  /\ slot' = Nothing
  /\ UNCHANGED <<editor, authority, ended, delivery, audio>>

\* Every worker has finished, and the delivery goroutine.
CloseEnds ==
  /\ session.close = "closing"
  /\ \A r \in Recording : worker[r] \in {"unborn", "done"}
  /\ ~session.delivering
  /\ session' = [session EXCEPT !.close = "closed"]
  /\ slot' = Nothing
  /\ UNCHANGED <<editor, authority, ended, delivery, audio>>

\* connect has returned; nothing of the session is left to move.
Finished ==
  /\ session.close = "closed"
  /\ UNCHANGED vars
-----------------------------------------------------------------------------
EditorNext ==
  \/ \E r \in Recording : Start(r) \/ TakeRejection(r)
  \/ BrowserRecording \/ Stop \/ ReplaceDraft \/ TakeUpdate \/ TakeEnd

SynchronizeNext ==
  Synchronize \/ \E r \in Recording : Admit(r) \/ Reject(r)

ConnectionNext(r) ==
  Attach(r) \/ ReceiveChunk(r) \/ LoseConnection(r) \/ Expire(r) \/ CapabilityExpires(r)

WorkerNext(r) ==
  WorkerStartsConsumer(r) \/ WorkerStops(r) \/ WorkerJoins(r) \/ WorkerEnds(r)

ConsumerNext(r) ==
  \/ ConsumerCreated(r) \/ ConsumerNotCreated(r) \/ TakeChunk(r) \/ NoNewText(r)
  \/ NewText(r) \/ Publish(r) \/ ConsumeFails(r) \/ ConsumerSeesEnd(r) \/ ConsumerCloses(r)

SessionNext ==
  Disconnect \/ CancelSession \/ LoopExits \/ BeginClose \/ CloseEnds \/ Finished

Next ==
  \/ EditorNext \/ SynchronizeNext \/ Receive \/ DeliveryReturns \/ SessionNext
  \/ \E r \in Recording : ConnectionNext(r) \/ WorkerNext(r) \/ ConsumerNext(r)

Spec == Init /\ [][Next]_vars

(* The goroutines are scheduled, the program receives what is sent to it   *)
(* (senders wait in line on one channel), and the recognizer's calls       *)
(* return.  The user, the browser and the timers may do nothing.           *)
TakeMessages == TakeUpdate \/ TakeEnd \/ \E r \in Recording : TakeRejection(r)

Fairness ==
  /\ WF_vars(SynchronizeNext)
  /\ WF_vars(TakeMessages)
  /\ WF_vars(Receive)
  /\ WF_vars(DeliveryReturns)
  /\ \A r \in Recording : WF_vars(WorkerNext(r)) /\ WF_vars(ConsumerNext(r))
  /\ WF_vars(LoopExits) /\ WF_vars(BeginClose) /\ WF_vars(CloseEnds)

FairSpec == Spec /\ Fairness
-----------------------------------------------------------------------------
\* No consumer of r is being created, works or is being closed.
Quiet(r) == consumer[r] \in {"none", "closed"}

\* The recognizer has one stream at a time: the consumers of two recordings
\* never live together, not even while the first still returns from a
\* cancelled call (synchronizeRecording admits nobody before that).
OneConsumer ==
  \A r, q \in Recording : Quiet(r) \/ Quiet(q) \/ r = q

\* RecordingEnded is sent only after recording-owned work has joined: when it
\* is on its way, the consumer is closed, no chunk waits, and the authority
\* is revoked.
EndMeansJoined ==
  \A m \in {ended, delivery} \cap End :
    Quiet(m.recording) /\ queue[m.recording] = 0 /\ ~accepting[m.recording]

\* No final result is accepted after Stop: once revoked, by whichever
\* goroutine, a recording stays revoked, and what it added to the draft stays
\* as it was, whatever updates are still queued or being sent.
DraftIsFrozen ==
  [][\A r \in Recording \ fresh :
       ~accepting[r] => ~accepting'[r] /\ accepted'[r] = accepted[r]]_vars

\* When close returns, every goroutine of the session's recordings is gone,
\* and no authority, chunk or transcript is left.
ClosedMeansJoined ==
  session.close = "closed" =>
    /\ slot = Nothing /\ delivery = Nothing
    /\ \A r \in Recording : /\ worker[r] \in {"unborn", "done"}
                            /\ Quiet(r) /\ ~accepting[r] /\ queue[r] = 0

\* The goroutines of the recordings keep out of each other's way at every step: consumers
\* one at a time, an end only after the join, and a close that leaves nothing behind.
RecordingsAreJoined == TypeOK /\ OneConsumer /\ EndMeansJoined /\ ClosedMeansJoined

\* A stop is answered: the editor becomes usable again, unless the session
\* ends first (a lost RecordingEnded would lock the editor for good).
StopCompletes ==
  draft.status = "stopping" ~> draft.status # "stopping" \/ session.over

\* A session whose context has ended is closed: no goroutine waits for
\* another one that has already left.
CloseCompletes == session.over ~> session.close = "closed"
=============================================================================
