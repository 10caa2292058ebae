----------------------------- MODULE VideoEditor -----------------------------
(***************************************************************************)
(* The editors of video backgrounds, one per browser session.  The loop of *)
(* the terminal program opens and closes the Visual screen and starts and  *)
(* stops a rendering; HTTP handlers, each in its own goroutine, work on    *)
(* the staged files behind the editor's gate; the cleanup of a closed      *)
(* screen runs as a command of the program, perhaps much later.            *)
(***************************************************************************)
EXTENDS Integers, FiniteSets

CONSTANTS
  Session,
  Request,     \* goroutines that serve a request
  Nothing,
  MaxScreen,   \* bounds: openings of the screen, renderings, staged files
  MaxRender,
  MaxFile

ASSUME EditorAssumption ==
  /\ Nothing \notin Session \cup Request
  /\ {MaxScreen, MaxRender, MaxFile} \subseteq Nat

\* Identities of screens and files are random texts: numbers in the order in
\* which they are drawn.  0 is none.
Screen == 1 .. MaxScreen
File == 1 .. MaxFile

VARIABLES
  editor,    \* videoEditor of each session
  ended,     \* the sessions whose context was cancelled
  cleanup,   \* commands that clean up after a closed screen
  request,
  drawn,     \* how many screens and files there have been
  stopped    \* history: renderings whose stop was acknowledged

editorVars == <<editor, ended, cleanup, request, drawn, stopped>>

Editor == [view : 0 .. MaxScreen,     \* id of the open screen, viewCtx
           render : 0 .. MaxRender,   \* previewRequest
           rendering : BOOLEAN,       \* previewCtx is there and not cancelled
           gate : Request \cup {Nothing},
           owner : 0 .. MaxScreen,    \* filesOwner
           source : 0 .. MaxFile, accepted : 0 .. MaxFile, pending : 0 .. MaxFile]

Cleanup == [session : Session, screen : Screen, started : BOOLEAN]

\* Up to the gate it matters only whether a request prepares a loop, stops a
\* rendering or does something else.  Behind it, "source" receives a source,
\* "apply" saves a loop and "use" reads a file: a frame or a preview.
Kind == {"prepare", "stop", "other"}
Work == {"prepare", "source", "apply", "use"}

Job == [kind : Kind \cup Work, session : Session \cup {Nothing}, screen : 0 .. MaxScreen,
        render : 0 .. MaxRender, file : 0 .. MaxFile,
        step : {"idle", "waiting", "working", "busy"},
        cancelled : BOOLEAN]

EditorTypeOK ==
  /\ editor \in [Session -> Editor]
  /\ ended \subseteq Session
  /\ cleanup \subseteq Cleanup
  /\ request \in [Request -> Job]
  /\ drawn \in [screens : 0 .. MaxScreen, renders : 0 .. MaxRender, files : 0 .. MaxFile]
  /\ stopped \subseteq 1 .. MaxRender

NewEditor == [view |-> 0, render |-> 0, rendering |-> FALSE, gate |-> Nothing, owner |-> 0,
              source |-> 0, accepted |-> 0, pending |-> 0]

Idle == [kind |-> "other", session |-> Nothing, screen |-> 0, render |-> 0, file |-> 0,
         step |-> "idle", cancelled |-> FALSE]

EditorInit ==
  /\ editor = [s \in Session |-> NewEditor]
  /\ ended = {}
  /\ cleanup = {}
  /\ request = [r \in Request |-> Idle]
  /\ drawn = [screens |-> 0, renders |-> 0, files |-> 0]
  /\ stopped = {}

Files(s) == {editor[s].source, editor[s].accepted, editor[s].pending} \ {0}

\* discardFiles, as a change of the record e.  A file that cannot be removed is
\* forgotten as well.
Discarded(e) == [e EXCEPT !.source = 0, !.accepted = 0, !.pending = 0, !.owner = 0]
-----------------------------------------------------------------------------
(* The loop of the program.  It never waits for the gate. *)

OpenScreen(s) ==
  /\ editor[s].view = 0
  /\ drawn.screens < MaxScreen
  /\ drawn' = [drawn EXCEPT !.screens = @ + 1]
  /\ editor' = [editor EXCEPT ![s].view = drawn.screens + 1,
                              ![s].render = 0, ![s].rendering = FALSE]
  /\ UNCHANGED <<ended, cleanup, request, stopped>>

\* The closed screen leaves a command behind.  It has not been started yet.
CloseScreen(s) ==
  /\ editor[s].view # 0
  /\ cleanup' = cleanup \cup {[session |-> s, screen |-> editor[s].view, started |-> FALSE]}
  /\ editor' = [editor EXCEPT ![s].view = 0]
  /\ UNCHANGED <<ended, request, drawn, stopped>>

\* setPreviewOperation with a request to prepare a loop: the previous one ends.
StartRendering(s) ==
  /\ editor[s].view # 0
  /\ drawn.renders < MaxRender
  /\ drawn' = [drawn EXCEPT !.renders = @ + 1]
  /\ editor' = [editor EXCEPT ![s].render = drawn.renders + 1, ![s].rendering = TRUE]
  /\ UNCHANGED <<ended, cleanup, request, stopped>>

\* Any other request: the number of the rendering is kept.
StopRendering(s) ==
  /\ editor[s].view # 0
  /\ editor[s].rendering
  /\ editor' = [editor EXCEPT ![s].rendering = FALSE]
  /\ UNCHANGED <<ended, cleanup, request, drawn, stopped>>

\* Mutant of RunCleanup: whatever files there are belong to the closed screen.
RunCleanupOfAny(c) ==
  /\ c \in cleanup /\ c.started
  /\ editor[c.session].gate = Nothing
  /\ editor' = [editor EXCEPT ![c.session] = Discarded(@)]
  /\ cleanup' = cleanup \ {c}
  /\ UNCHANGED <<ended, request, drawn, stopped>>

\* Mutant of RunCleanup: the files are removed without the gate.
RunCleanupUngated(c) ==
  /\ c \in cleanup /\ c.started
  /\ editor' = IF editor[c.session].owner = c.screen
               THEN [editor EXCEPT ![c.session] = Discarded(@)] ELSE editor
  /\ cleanup' = cleanup \ {c}
  /\ UNCHANGED <<ended, request, drawn, stopped>>

\* The command waits for the gate and removes the files of its own screen.
RunCleanup(c) ==
  /\ c \in cleanup /\ c.started
  /\ editor[c.session].gate = Nothing
  /\ editor' = IF editor[c.session].owner = c.screen
               THEN [editor EXCEPT ![c.session] = Discarded(@)] ELSE editor
  /\ cleanup' = cleanup \ {c}
  /\ UNCHANGED <<ended, request, drawn, stopped>>
-----------------------------------------------------------------------------
(* Requests *)

At(r, step) == request[r].step = step
EditorOf(r) == editor[request[r].session]

\* Mutant of OwnerDone: a rendering is bound to the screen alone.
OwnerDoneOfScreen(r) ==
  /\ ~At(r, "idle")
  /\ request[r].session \in ended \/ EditorOf(r).view # request[r].screen

\* What the request was admitted for is over: the session, the screen or the
\* rendering.
OwnerDone(r) ==
  /\ ~At(r, "idle")
  /\ \/ request[r].session \in ended
     \/ EditorOf(r).view # request[r].screen
     \/ /\ request[r].kind = "prepare"
        /\ EditorOf(r).render = request[r].render => ~EditorOf(r).rendering

\* The callbacks of every cancellation so far have run.  They are goroutines
\* that only wait to be scheduled; a user, a browser and a media tool are
\* taken to be slower.
CallbacksRan == \A r \in Request : OwnerDone(r) => request[r].cancelled

\* Until the response is written, the client may leave or the time be over.
Disconnect(r) ==
  /\ ~At(r, "idle") /\ ~request[r].cancelled
  /\ request' = [request EXCEPT ![r].cancelled = TRUE]
  /\ UNCHANGED <<editor, ended, cleanup, drawn, stopped>>

\* Mutant of CallbackRuns: only a request that waits for the gate is cancelled.
CallbackRunsAtGate(r) ==
  /\ OwnerDone(r) /\ At(r, "waiting") /\ ~request[r].cancelled
  /\ request' = [request EXCEPT ![r].cancelled = TRUE]
  /\ UNCHANGED <<editor, ended, cleanup, drawn, stopped>>

\* context.AfterFunc: a request learns that its owner is done.
CallbackRuns(r) ==
  /\ OwnerDone(r) /\ ~request[r].cancelled
  /\ request' = [request EXCEPT ![r].cancelled = TRUE]
  /\ UNCHANGED <<editor, ended, cleanup, drawn, stopped>>

\* beginVideoEdit up to the gate.  s is the session that the server names.
BeginVideoEdit(r, s, kind) ==
  /\ At(r, "idle")
  /\ s \notin ended /\ editor[s].view # 0
  /\ kind = "prepare" => editor[s].rendering
  /\ kind = "stop" => editor[s].render # 0 /\ CallbacksRan
  /\ request' = [request EXCEPT ![r] =
       [kind |-> kind, session |-> s, screen |-> editor[s].view,
        render |-> IF kind = "other" THEN 0 ELSE editor[s].render,
        file |-> 0, step |-> "waiting", cancelled |-> FALSE]]
  /\ UNCHANGED <<editor, ended, cleanup, drawn, stopped>>

\* The gate is free, and the request was not cancelled while it waited.  Files
\* that an earlier screen left behind go first.
EnterGate(r) ==
  LET s == request[r].session
      e == EditorOf(r)
      cleared == IF e.owner \in {0, request[r].screen} THEN e ELSE Discarded(e)
  IN /\ At(r, "waiting")
     /\ e.gate = Nothing
     /\ ~request[r].cancelled
     /\ editor' = [editor EXCEPT ![s] = [cleared EXCEPT !.gate = r, !.owner = request[r].screen]]
     /\ request' = [request EXCEPT ![r].step = "working"]
     /\ UNCHANGED <<ended, cleanup, drawn, stopped>>

\* The deferred finish of every handler.
Return(r, e) ==
  /\ editor' = [editor EXCEPT ![request[r].session] = [e EXCEPT !.gate = Nothing]]
  /\ request' = [request EXCEPT ![r] = Idle]

\* Refused while it waits: cancelled, or importMu is taken.
Refuse(r) ==
  /\ At(r, "waiting")
  /\ request[r].cancelled \/ EditorOf(r).gate = Nothing
  /\ request' = [request EXCEPT ![r] = Idle]
  /\ UNCHANGED <<editor, ended, cleanup, drawn, stopped>>

\* Any error, conflict or cancellation behind the gate, an answer that changes
\* nothing, and the end of a use.
Finish(r) ==
  /\ At(r, "working") \/ At(r, "busy")
  /\ Return(r, EditorOf(r))
  /\ UNCHANGED <<ended, cleanup, drawn, stopped>>

\* A media tool, a transfer or the saving of a loop begins.  The client named the
\* file; a name that does not fit is a conflict, which is Finish.
Begin(r, work, file) ==
  LET s == request[r].session
  IN /\ At(r, "working")
     /\ request[r].kind = IF work = "prepare" THEN "prepare" ELSE "other"
     /\ \/ work = "source" /\ file = 0
        \/ work = "prepare" /\ file = editor[s].source /\ file # 0
        \/ work = "apply" /\ file = editor[s].accepted /\ file # 0
        \/ work = "use" /\ file \in Files(s)
     /\ request' = [request EXCEPT ![r].kind = work, ![r].file = file, ![r].step = "busy"]
     \* Room is made before a new source is received.
     /\ editor' = IF work = "source" THEN [editor EXCEPT ![s].source = 0] ELSE editor
     /\ UNCHANGED <<ended, cleanup, drawn, stopped>>

NewFile ==
  /\ drawn.files < MaxFile
  /\ drawn' = [drawn EXCEPT !.files = @ + 1]

\* The new source replaces everything, unless an old file cannot be removed.
StageVideoSource(r) ==
  /\ At(r, "busy") /\ request[r].kind = "source"
  /\ ~request[r].cancelled /\ CallbacksRan
  /\ \/ /\ NewFile
        /\ Return(r, [Discarded(EditorOf(r)) EXCEPT !.owner = request[r].screen,
                                                    !.source = drawn.files + 1])
     \/ Return(r, Discarded(EditorOf(r))) /\ UNCHANGED drawn
  /\ UNCHANGED <<ended, cleanup, stopped>>

PrepareVideoLoop(r) ==
  /\ At(r, "busy") /\ request[r].kind = "prepare"
  /\ ~request[r].cancelled /\ CallbacksRan
  /\ NewFile
  /\ Return(r, [EditorOf(r) EXCEPT !.pending = drawn.files + 1])
  /\ UNCHANGED <<ended, cleanup, stopped>>

AcceptVideoLoop(r) ==
  /\ At(r, "working") /\ request[r].kind = "other"
  /\ EditorOf(r).pending # 0
  /\ Return(r, [EditorOf(r) EXCEPT !.accepted = EditorOf(r).pending, !.pending = 0])
  /\ UNCHANGED <<ended, cleanup, drawn, stopped>>

DiscardVideoPreview(r) ==
  /\ At(r, "working") /\ request[r].kind = "other"
  /\ EditorOf(r).pending # 0
  /\ Return(r, [EditorOf(r) EXCEPT !.pending = 0])
  /\ UNCHANGED <<ended, cleanup, drawn, stopped>>

\* The answer promises that the rendering is over and has left nothing.
StopVideoPreview(r) ==
  LET e == EditorOf(r)
  IN /\ At(r, "working") /\ request[r].kind = "stop"
     /\ request[r].session \notin ended /\ e.view = request[r].screen
     /\ e.render = request[r].render /\ ~e.rendering
     /\ e.source # 0
     /\ Return(r, [e EXCEPT !.pending = 0])
     /\ stopped' = stopped \cup {request[r].render}
     /\ UNCHANGED <<ended, cleanup, drawn>>

\* The source is discarded on demand, or the accepted loop was saved.
DiscardVideoSource(r) ==
  /\ \/ At(r, "working") /\ request[r].kind = "other"
     \/ At(r, "busy") /\ request[r].kind = "apply"
  /\ Return(r, Discarded(EditorOf(r)))
  /\ UNCHANGED <<ended, cleanup, drawn, stopped>>

Handle(r) ==
  \/ EnterGate(r)
  \/ \E work \in Work, file \in 0 .. MaxFile : Begin(r, work, file)
  \/ StageVideoSource(r) \/ PrepareVideoLoop(r) \/ AcceptVideoLoop(r) \/ DiscardVideoPreview(r)
  \/ StopVideoPreview(r) \/ DiscardVideoSource(r)
=============================================================================
