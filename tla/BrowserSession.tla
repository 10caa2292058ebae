--------------------------- MODULE BrowserSession ---------------------------
(***************************************************************************)
(* The browser terminal server: it admits one session at a time, each with *)
(* a terminal program, the commands that the program started and a video   *)
(* editor, and gives the slot to the next client when all of them are      *)
(* over.  The editors are those of VideoEditor.                            *)
(***************************************************************************)
EXTENDS VideoEditor

VARIABLES
  phase,     \* where the handler of a session's socket is
  active,    \* server.active
  current,   \* the session of server.audioSession and server.videoEditor
  server     \* "open", "closing" after admission stopped, "returned"

sessionVars == <<phase, active, current, server>>
vars == <<editorVars, sessionVars>>

\* new: no socket yet; admitted: before the first frame; running: the program
\* runs; stopping: guard.Stop; joined: it returned; closing: videoEditor.Close;
\* closed: it returned; cleared: the server has forgotten the session; left: the
\* slot is free; gone: the handler returned.
Phase == {"new", "admitted", "running", "stopping", "joined", "closing", "closed", "cleared",
          "left", "gone"}

TypeOK ==
  /\ EditorTypeOK
  /\ phase \in [Session -> Phase]
  /\ active \in BOOLEAN
  /\ current \in Session \cup {Nothing}
  /\ server \in {"open", "closing", "returned"}

Init ==
  /\ EditorInit
  /\ phase = [s \in Session |-> "new"]
  /\ active = FALSE
  /\ current = Nothing
  /\ server = "open"

Enter(s, p) == phase' = [phase EXCEPT ![s] = p]

\* The commands of a session that were started and have not returned.
Started(s) == {c \in cleanup : c.session = s /\ c.started}
-----------------------------------------------------------------------------
\* Mutant of Admissible: the server admits sessions while it stops.
AdmissibleAlways(s) == phase[s] = "new" /\ ~active

\* A second client is told that the server is busy, and starts nothing.
Admissible(s) == phase[s] = "new" /\ server = "open" /\ ~active

\* connect up to the first frame.
Connect(s) ==
  /\ Admissible(s)
  /\ active' = TRUE
  /\ Enter(s, "admitted")
  /\ UNCHANGED <<editorVars, current, server>>

\* The handshake failed, or no proper first frame came.
GiveUp(s) ==
  /\ phase[s] = "admitted"
  /\ active' = FALSE
  /\ Enter(s, "left")
  /\ UNCHANGED <<editorVars, current, server>>

\* The program and the editor are there.
Start(s) ==
  /\ phase[s] = "admitted" /\ s \notin ended
  /\ current' = s
  /\ Enter(s, "running")
  /\ UNCHANGED <<editorVars, active, server>>

\* The socket failed, the output did, or a command or the model did.
Cancel(s) ==
  /\ phase[s] = "running" /\ s \notin ended
  /\ ended' = ended \cup {s}
  /\ UNCHANGED <<editor, cleanup, request, drawn, stopped, sessionVars>>

\* One Update of the program and of its bridges.  What a user asks for next comes
\* after the callbacks of what was cancelled before.
Update(s) ==
  /\ phase[s] = "running"
  /\ \/ OpenScreen(s) /\ CallbacksRan
     \/ CloseScreen(s)
     \/ StartRendering(s) /\ CallbacksRan
     \/ StopRendering(s)
  /\ UNCHANGED sessionVars

\* Session.wrap: a command starts only in a session that is not over.
StartCommand(c) ==
  /\ c \in cleanup /\ ~c.started
  /\ phase[c.session] = "running" /\ c.session \notin ended
  /\ cleanup' = (cleanup \ {c}) \cup {[c EXCEPT !.started = TRUE]}
  /\ UNCHANGED <<editor, ended, request, drawn, stopped, sessionVars>>

\* The user quits, or the program ends with its context.  Session.Stop closes
\* the session to new commands, and the context is cancelled.
Stop(s) ==
  /\ phase[s] = "running"
  /\ ended' = ended \cup {s}
  /\ Enter(s, "stopping")
  /\ UNCHANGED <<editor, cleanup, request, drawn, stopped, active, current, server>>

\* Mutant of Joined: the session does not wait for its commands.
JoinedEarly(s) == phase[s] = "stopping"

\* Every command that was started has returned.
Joined(s) == phase[s] = "stopping" /\ Started(s) = {}

Join(s) ==
  /\ Joined(s)
  /\ Enter(s, "joined")
  /\ UNCHANGED <<editorVars, active, current, server>>

\* videoEditor.Close: the screen is closed, then the gate is waited for.  The
\* cleanup of that screen is dropped, as Close discards all files.
CloseEditor(s) ==
  /\ phase[s] = "joined"
  /\ editor' = [editor EXCEPT ![s].view = 0]
  /\ Enter(s, "closing")
  /\ UNCHANGED <<ended, cleanup, request, drawn, stopped, active, current, server>>

DiscardFiles(s) ==
  /\ phase[s] = "closing" /\ editor[s].gate = Nothing
  /\ editor' = [editor EXCEPT ![s] = Discarded(@)]
  /\ Enter(s, "closed")
  /\ UNCHANGED <<ended, cleanup, request, drawn, stopped, active, current, server>>

ClearCurrent(s) ==
  /\ phase[s] = "closed"
  /\ current' = IF current = s THEN Nothing ELSE current
  /\ Enter(s, "cleared")
  /\ UNCHANGED <<editorVars, active, server>>

ReleaseSlot(s) ==
  /\ phase[s] = "cleared"
  /\ active' = FALSE
  /\ Enter(s, "left")
  /\ UNCHANGED <<editorVars, current, server>>

\* The last status is sent and the reader of the socket joined.
Leave(s) ==
  /\ phase[s] = "left"
  /\ Enter(s, "gone")
  /\ UNCHANGED <<editorVars, active, current, server>>

\* ServeHTTP and the part of beginVideoEdit that finds the editor.
Serve(r, kind) ==
  /\ server = "open"
  /\ current # Nothing
  /\ BeginVideoEdit(r, current, kind)
  /\ UNCHANGED sessionVars

\* Admission ends, then every context is cancelled.
Shutdown ==
  /\ server = "open"
  /\ server' = "closing"
  /\ ended' = Session
  /\ UNCHANGED <<editor, cleanup, request, drawn, stopped, phase, active, current>>

\* Serve has waited for sessions and requests.
ReturnServe ==
  /\ server = "closing"
  /\ \A s \in Session : phase[s] \in {"new", "gone"}
  /\ \A r \in Request : At(r, "idle")
  /\ server' = "returned"
  /\ UNCHANGED <<editorVars, phase, active, current>>

SessionStep(s) ==
  Join(s) \/ CloseEditor(s) \/ DiscardFiles(s) \/ ClearCurrent(s) \/ ReleaseSlot(s) \/ Leave(s)

RequestStep(r) ==
  Disconnect(r) \/ CallbackRuns(r) \/ Refuse(r) \/ Finish(r) \/ Handle(r)

Next ==
  \/ \E s \in Session :
       Connect(s) \/ GiveUp(s) \/ Start(s) \/ Cancel(s) \/ Update(s) \/ Stop(s) \/ SessionStep(s)
  \/ \E c \in cleanup : StartCommand(c) \/ (RunCleanup(c) /\ UNCHANGED sessionVars)
  \/ \E r \in Request :
       \/ RequestStep(r) /\ UNCHANGED sessionVars
       \/ \E kind \in Kind : Serve(r, kind)
  \/ Shutdown \/ ReturnServe

Spec == Init /\ [][Next]_vars

\* Goroutines run, started commands go on, a program ends when its context does,
\* and a handler returns once it is cancelled.  A handler that is not cancelled
\* may wait for its client without end.
Fairness ==
  /\ \A s \in Session :
       WF_vars(SessionStep(s)) /\ WF_vars(s \in ended /\ (Stop(s) \/ GiveUp(s)))
  /\ \A c \in Cleanup : WF_vars(RunCleanup(c) /\ UNCHANGED sessionVars)
  /\ \A r \in Request :
       /\ WF_vars(CallbackRuns(r) /\ UNCHANGED sessionVars)
       /\ WF_vars(request[r].cancelled /\ (Refuse(r) \/ Finish(r)) /\ UNCHANGED sessionVars)
  /\ WF_vars(ReturnServe)

FairSpec == Spec /\ Fairness
-----------------------------------------------------------------------------
(* Properties *)

\* While a session runs, nothing of another one is left that could still edit:
\* no program, no started command, no staged file.
OneSession ==
  \A s, t \in Session :
     s # t /\ phase[t] = "running" =>
       /\ phase[s] \notin {"running", "stopping", "joined", "closing"}
       /\ Started(s) = {}
       /\ Files(s) = {}

\* When Serve has returned, no socket handler and no request handler runs.
ServeJoins ==
  server = "returned" =>
    /\ \A s \in Session : phase[s] \in {"new", "gone"}
    /\ \A r \in Request : At(r, "idle")

\* Nothing outlives what started it: a session its program, commands and files, and the
\* server its handlers.
NothingOutlives == OneSession /\ ServeJoins

\* A file that a media tool reads, or that is being sent, stays until then.
FilesInUseStay ==
  \A r \in Request :
     At(r, "busy") /\ request[r].kind # "source" => request[r].file \in Files(request[r].session)

\* The files of the open screen change only in a request of that screen: neither
\* the cleanup of an earlier one nor its late requests touch them.
OtherScreensFilesStay ==
  [][\A s \in Session :
       /\ editor[s].view # 0 /\ editor'[s].view = editor[s].view
       /\ editor[s].owner = editor[s].view
       /\ Files(s)' # Files(s)
       => \E r \in Request : /\ request[r].session = s /\ request[r].screen = editor[s].view
                              /\ request[r].step \in {"working", "busy"}
                              /\ request'[r] # request[r]]_vars

\* After its stop was acknowledged, a rendering brings no loop.
StoppedMeansStopped ==
  [][\A r \in Request :
       request[r].kind = "prepare" /\ request[r].render \in stopped /\ request'[r] # request[r]
       => editor'[request[r].session].pending \in {0, editor[request[r].session].pending}]_vars

\* A session that is over frees the slot and ends, even with a client or a media
\* tool that stalls; so does the server.
SessionsEnd ==
  /\ \A s \in Session : phase[s] = "stopping" ~> phase[s] = "gone"
  /\ server = "closing" ~> server = "returned"
=============================================================================
