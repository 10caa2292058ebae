------------------------ MODULE BrowserSessionProofs ------------------------
(***************************************************************************)
(* Proofs about BrowserSession and the editors of VideoEditor, for any     *)
(* number of sessions, requests, screens, renderings and files: a file in  *)
(* use stays, a screen's files are its own, a stopped rendering brings no  *)
(* loop, and nothing outlives the session that started it.                 *)
(***************************************************************************)
EXTENDS BrowserSession, TLAPS

\* r works behind the gate of its editor.
Inside(r) == At(r, "working") \/ At(r, "busy")

\* A request has a session and a screen while it is not idle, and a rendering
\* if it asks for one to be stopped.
RequestsAreFor ==
  /\ \A r \in Request : At(r, "idle") => request[r] = Idle
  /\ \A r \in Request : ~At(r, "idle") => request[r].session \in Session
  /\ \A r \in Request : ~At(r, "idle") => request[r].screen # 0
  /\ \A r \in Request : request[r].kind = "stop" => request[r].render # 0

\* The gate of an editor names the request behind it, and no other.
GateHeld ==
  /\ \A r \in Request : Inside(r) => editor[request[r].session].gate = r
  /\ \A s \in Session : editor[s].gate # Nothing =>
       Inside(editor[s].gate) /\ request[editor[s].gate].session = s

\* Behind the gate, the files are the screen's that the request came from.
OwnsFiles ==
  \A r \in Request : Inside(r) => EditorOf(r).owner = request[r].screen

\* Screens are numbered as they open: no command cleans up after an open screen or
\* one that is still to come.
ScreensAreDrawn ==
  /\ \A s \in Session : editor[s].view <= drawn.screens
  /\ \A c \in cleanup : c.screen <= drawn.screens /\ c.screen # editor[c.session].view

\* What was not cancelled belongs to the open screen, while there is one.
LateAreCancelled ==
  \A r \in Request :
    ~At(r, "idle") /\ ~request[r].cancelled /\ EditorOf(r).view # 0 =>
      request[r].screen = EditorOf(r).view

\* Renderings are numbered as they start, one number for one session, and a
\* stopped one does not start again.
RenderingsAreDrawn ==
  /\ \A s \in Session : editor[s].render <= drawn.renders
  /\ \A s, t \in Session : editor[s].render = editor[t].render => s = t \/ editor[s].render = 0
  /\ \A n \in stopped : n <= drawn.renders
  /\ \A s \in Session : editor[s].render \in stopped => ~editor[s].rendering

\* The session has the server's slot.
Live(s) ==
  phase[s] \in {"admitted", "running", "stopping", "joined", "closing", "closed", "cleared"}

\* One session at a time has the slot.
OneSlot ==
  /\ \A s \in Session : Live(s) => active
  /\ \A s, t \in Session : Live(s) /\ Live(t) => s = t

\* A program that has ended had its context cancelled.
EndedFirst ==
  \A s \in Session :
    phase[s] \in {"stopping", "joined", "closing", "closed", "cleared"} => s \in ended

\* What may be there in each phase of a session: a screen, files, commands that
\* were started, and requests that are not over.
ScreensInPhase ==
  \A s \in Session : editor[s].view # 0 => phase[s] \in {"running", "stopping", "joined"}

HasFiles(e) == e.source # 0 \/ e.accepted # 0 \/ e.pending # 0

FilesInPhase ==
  \A s \in Session :
    HasFiles(editor[s]) => phase[s] \in {"running", "stopping", "joined", "closing"}

CommandsInPhase ==
  \A c \in cleanup : c.started => phase[c.session] \in {"running", "stopping"}

RequestsInPhase ==
  \A r \in Request : ~At(r, "idle") =>
    phase[request[r].session] = "running" \/ request[r].session \in ended

\* What holds of the editors, and of the sessions that they belong to.
EditorInv ==
  /\ RequestsAreFor /\ GateHeld /\ OwnsFiles /\ FilesInUseStay
  /\ ScreensAreDrawn /\ LateAreCancelled /\ RenderingsAreDrawn

SessionInv ==
  /\ OneSlot /\ EndedFirst /\ ServeJoins
  /\ ScreensInPhase /\ FilesInPhase /\ CommandsInPhase /\ RequestsInPhase

IInv == TypeOK /\ EditorInv /\ SessionInv
-----------------------------------------------------------------------------
(* The records.                                                            *)

Drawn == [screens : 0 .. MaxScreen, renders : 0 .. MaxRender, files : 0 .. MaxFile]

\* The fields of an editor may be set to values of their types.
LEMMA EditorFields ==
  ASSUME NEW e \in Editor
  PROVE  /\ \A v \in 0 .. MaxScreen : [e EXCEPT !.view = v] \in Editor
         /\ \A v \in 0 .. MaxScreen, n \in 0 .. MaxRender, b \in BOOLEAN :
             [e EXCEPT !.view = v, !.render = n, !.rendering = b] \in Editor
         /\ \A n \in 0 .. MaxRender, b \in BOOLEAN :
              [e EXCEPT !.render = n, !.rendering = b] \in Editor
         /\ \A b \in BOOLEAN : [e EXCEPT !.rendering = b] \in Editor
         /\ \A g \in Request \cup {Nothing} : [e EXCEPT !.gate = g] \in Editor
         /\ \A g \in Request, v \in 0 .. MaxScreen : [e EXCEPT !.gate = g, !.owner = v] \in Editor
         /\ \A f \in 0 .. MaxFile : [e EXCEPT !.pending = f] \in Editor
         /\ [e EXCEPT !.pending = 0] \in Editor
         /\ [e EXCEPT !.accepted = e.pending, !.pending = 0] \in Editor
         /\ \A v \in 0 .. MaxScreen, f \in 0 .. MaxFile :
              [e EXCEPT !.owner = v, !.source = f] \in Editor
  <1>0. 0 \in 0 .. MaxFile
    BY EditorAssumption
  <1>1. \A v \in 0 .. MaxScreen : [e EXCEPT !.view = v] \in Editor
    BY <1>0 DEF Editor
  <1>2. \A v \in 0 .. MaxScreen, n \in 0 .. MaxRender, b \in BOOLEAN :
             [e EXCEPT !.view = v, !.render = n, !.rendering = b] \in Editor
    BY <1>0 DEF Editor
  <1>3. \A n \in 0 .. MaxRender, b \in BOOLEAN :
              [e EXCEPT !.render = n, !.rendering = b] \in Editor
    BY <1>0 DEF Editor
  <1>4. \A b \in BOOLEAN : [e EXCEPT !.rendering = b] \in Editor
    BY <1>0 DEF Editor
  <1>5. \A g \in Request \cup {Nothing} : [e EXCEPT !.gate = g] \in Editor
    BY <1>0 DEF Editor
  <1>6. \A g \in Request, v \in 0 .. MaxScreen : [e EXCEPT !.gate = g, !.owner = v] \in Editor
    BY <1>0 DEF Editor
  <1>7. \A f \in 0 .. MaxFile : [e EXCEPT !.pending = f] \in Editor
    BY <1>0 DEF Editor
  <1>8. [e EXCEPT !.pending = 0] \in Editor
    BY <1>0 DEF Editor
  <1>9. [e EXCEPT !.accepted = e.pending, !.pending = 0] \in Editor
    BY <1>0 DEF Editor
  <1>10. \A v \in 0 .. MaxScreen, f \in 0 .. MaxFile :
              [e EXCEPT !.owner = v, !.source = f] \in Editor
    BY <1>0 DEF Editor
  <1> QED BY <1>1, <1>2, <1>3, <1>4, <1>5, <1>6, <1>7, <1>8, <1>9, <1>10

\* discardFiles forgets the files and their owner, and nothing else.
LEMMA DiscardedFields ==
  ASSUME NEW e \in Editor
  PROVE  /\ Discarded(e) \in Editor
         /\ ~HasFiles(Discarded(e)) /\ Discarded(e).owner = 0
         /\ Discarded(e).view = e.view /\ Discarded(e).gate = e.gate
         /\ Discarded(e).render = e.render /\ Discarded(e).rendering = e.rendering
  <1>1. 0 \in 0 .. MaxScreen /\ 0 \in 0 .. MaxFile
    BY EditorAssumption
  <1>2. Discarded(e) \in Editor
    BY <1>1 DEF Editor, Discarded
  <1>3. ~HasFiles(Discarded(e)) /\ Discarded(e).owner = 0
    BY DEF Editor, Discarded, HasFiles
  <1>4. /\ Discarded(e).view = e.view /\ Discarded(e).gate = e.gate
        /\ Discarded(e).render = e.render /\ Discarded(e).rendering = e.rendering
    BY DEF Editor, Discarded
  <1> QED BY <1>2, <1>3, <1>4

\* So may the fields of a request that its handler sets.
LEMMA JobFields ==
  ASSUME NEW j \in Job
  PROVE  /\ [j EXCEPT !.step = "working"] \in Job
         /\ [j EXCEPT !.cancelled = TRUE] \in Job
         /\ \A k \in Work, f \in 0 .. MaxFile :
              [j EXCEPT !.kind = k, !.file = f, !.step = "busy"] \in Job
  <1>1. [j EXCEPT !.step = "working"] \in Job
    BY DEF Job
  <1>2. [j EXCEPT !.cancelled = TRUE] \in Job
    BY DEF Job
  <1>3. \A k \in Work, f \in 0 .. MaxFile :
          [j EXCEPT !.kind = k, !.file = f, !.step = "busy"] \in Job
    BY DEF Job
  <1> QED BY <1>1, <1>2, <1>3
-----------------------------------------------------------------------------
(* The requests.                                                           *)

USE EditorAssumption
    DEF IInv, EditorInv, SessionInv, TypeOK, EditorTypeOK, editorVars, sessionVars, At, EditorOf,
        Inside, Drawn

\* What a step behind the gate leaves: request r done and the gate of e open, or r still behind
\* it, for the screen it is for, and busy only with a file of e.
Leaves(r, s, e, j) ==
  \/ j = Idle /\ e.gate = Nothing
  \/ /\ j.step \in {"working", "busy"} /\ j.session = s /\ j.screen = request[r].screen
     /\ j.cancelled = request[r].cancelled
     /\ j.kind = "stop" => j.render # 0
     /\ j.step = "busy" /\ j.kind # "source" =>
          j.file \in {e.source, e.accepted, e.pending} \ {0}
     /\ e.gate = r /\ e.owner = j.screen

\* A step of a request that enters its gate, works behind it or leaves it: j is
\* what becomes of the request, and e of its editor.
LEMMA GatePreserves ==
  ASSUME IInv, NEW r \in Request, ~At(r, "idle"),
         NEW s \in Session, request[r].session = s, editor[s].gate \in {Nothing, r},
         NEW e \in Editor, editor' = [editor EXCEPT ![s] = e],
         NEW j \in Job, request' = [request EXCEPT ![r] = j],
         e.view = editor[s].view, e.render = editor[s].render, e.rendering = editor[s].rendering,
         Leaves(r, s, e, j),
         HasFiles(e) => HasFiles(editor[s]) \/ phase[s] = "running",
         drawn' \in Drawn, drawn'.screens = drawn.screens, drawn'.renders = drawn.renders,
         stopped' \subseteq stopped \cup ({editor[s].render} \ {0}),
         stopped' # stopped => ~editor[s].rendering,
         UNCHANGED <<ended, cleanup, sessionVars>>
  PROVE  IInv'
  <1> USE DEF Leaves
  <1>1. TypeOK'
    BY DEF Editor
  <1>2. Idle.step = "idle" /\ Idle.kind = "other"
    BY DEF Idle
  <1>3. \A q \in Request : request'[q] = IF q = r THEN j ELSE request[q]
    OBVIOUS
  <1>4. \A t \in Session : editor'[t] = IF t = s THEN e ELSE editor[t]
    OBVIOUS
  <1>5. RequestsAreFor'
    BY <1>2, <1>3 DEF RequestsAreFor
  <1>6. GateHeld'
    BY <1>2, <1>3, <1>4 DEF GateHeld, RequestsAreFor, Job
  <1>7. OwnsFiles'
    BY <1>2, <1>3, <1>4 DEF GateHeld, OwnsFiles, RequestsAreFor
  <1>8. FilesInUseStay'
    BY <1>2, <1>3, <1>4 DEF GateHeld, FilesInUseStay, Files, RequestsAreFor
  <1>9. ScreensAreDrawn'
    BY <1>4, <1>1 DEF ScreensAreDrawn, Cleanup
  <1>10. LateAreCancelled'
    BY <1>2, <1>3, <1>4 DEF LateAreCancelled, RequestsAreFor
  <1>11. RenderingsAreDrawn'
    BY <1>4, <1>1 DEF RenderingsAreDrawn, Editor
  <1>12. OneSlot' /\ EndedFirst' /\ CommandsInPhase'
    BY DEF OneSlot, Live, EndedFirst, CommandsInPhase
  <1>13. ServeJoins'
    BY DEF ServeJoins
  <1>14. ScreensInPhase' /\ FilesInPhase'
    BY <1>4 DEF ScreensInPhase, FilesInPhase
  <1>15. RequestsInPhase'
    BY <1>2, <1>3 DEF RequestsInPhase
  <1> QED BY <1>1, <1>5, <1>6, <1>7, <1>8, <1>9, <1>10, <1>11, <1>12, <1>13, <1>14, <1>15

\* The deferred finish of every handler.
LEMMA ReturnPreserves ==
  ASSUME IInv, NEW r \in Request, Inside(r), NEW e \in Editor, Return(r, e),
         e.view = EditorOf(r).view, e.render = EditorOf(r).render,
         e.rendering = EditorOf(r).rendering,
         HasFiles(e) => HasFiles(EditorOf(r)) \/ phase[request[r].session] = "running",
         drawn' \in Drawn, drawn'.screens = drawn.screens, drawn'.renders = drawn.renders,
         stopped' \subseteq stopped \cup ({EditorOf(r).render} \ {0}),
         stopped' # stopped => ~EditorOf(r).rendering,
         UNCHANGED <<ended, cleanup, sessionVars>>
  PROVE  IInv'
  <1> DEFINE s == request[r].session
             d == [e EXCEPT !.gate = Nothing]
  <1>1. s \in Session /\ editor[s].gate = r
    BY DEF RequestsAreFor, GateHeld
  <1>2. /\ d.gate = Nothing /\ d.view = e.view /\ d.render = e.render
        /\ d.rendering = e.rendering /\ (HasFiles(d) <=> HasFiles(e))
    BY DEF Editor, HasFiles
  <1>5. d \in Editor
    BY EditorFields
  <1>3. editor' = [editor EXCEPT ![s] = d] /\ request' = [request EXCEPT ![r] = Idle]
    BY DEF Return
  <1>4. Idle \in Job
    BY DEF Idle, Job, Kind
  <1> HIDE DEF d
  <1>6. /\ d.view = editor[s].view /\ d.render = editor[s].render
        /\ d.rendering = editor[s].rendering
        /\ stopped' \subseteq stopped \cup ({editor[s].render} \ {0})
        /\ stopped' # stopped => ~editor[s].rendering
    BY <1>2 DEF EditorOf
  <1>7. HasFiles(d) => HasFiles(editor[s]) \/ phase[s] = "running"
    BY <1>2 DEF EditorOf
  <1>8. request[r].session = s /\ editor[s].gate \in {Nothing, r} /\ ~At(r, "idle")
    BY <1>1 DEF Inside
  <1>9. Leaves(r, s, d, Idle)
    BY <1>2 DEF Leaves
  <1> HIDE DEF s
  <1> QED BY <1>1, <1>3, <1>4, <1>5, <1>6, <1>7, <1>8, <1>9, GatePreserves

\* A request learns that it is cancelled, from its client or from its owner.
LEMMA CancelPreserves ==
  ASSUME IInv, NEW r \in Request, ~At(r, "idle"),
         request' = [request EXCEPT ![r].cancelled = TRUE],
         UNCHANGED <<editor, ended, cleanup, drawn, stopped, sessionVars>>
  PROVE  IInv'
  <1> DEFINE j == [request[r] EXCEPT !.cancelled = TRUE]
  <1>1. j \in Job
    BY JobFields
  <1>2. /\ j.step = request[r].step /\ j.session = request[r].session /\ j.cancelled
        /\ j.screen = request[r].screen /\ j.kind = request[r].kind
        /\ j.file = request[r].file /\ j.render = request[r].render
    BY DEF Job
  <1>3. request' = [request EXCEPT ![r] = j]
    OBVIOUS
  <1> HIDE DEF j
  <1>4. TypeOK'
    BY <1>1, <1>3
  <1>5. \A q \in Request : request'[q] = IF q = r THEN j ELSE request[q]
    BY <1>3
  <1>6. RequestsAreFor' /\ GateHeld' /\ OwnsFiles'
    BY <1>2, <1>5 DEF RequestsAreFor, GateHeld, OwnsFiles
  <1>7. FilesInUseStay' /\ LateAreCancelled'
    BY <1>2, <1>5 DEF FilesInUseStay, LateAreCancelled, Files
  <1>8. ScreensAreDrawn' /\ RenderingsAreDrawn'
    BY DEF ScreensAreDrawn, RenderingsAreDrawn
  <1>9. SessionInv'
    BY <1>2, <1>5 DEF OneSlot, Live, EndedFirst, ServeJoins, ScreensInPhase, FilesInPhase,
                      CommandsInPhase, RequestsInPhase
  <1> QED BY <1>4, <1>6, <1>7, <1>8, <1>9

\* A request that never entered the gate is over.
LEMMA RefusePreserves ==
  ASSUME IInv, NEW r \in Request, Refuse(r), UNCHANGED sessionVars
  PROVE  IInv'
  <1>1. Idle \in Job /\ Idle.step = "idle" /\ Idle.kind = "other"
    BY DEF Idle, Job, Kind
  <1>2. \A q \in Request : request'[q] = IF q = r THEN Idle ELSE request[q]
    BY DEF Refuse
  <1>3. TypeOK'
    BY <1>1 DEF Refuse
  <1>4. RequestsAreFor' /\ GateHeld' /\ OwnsFiles'
    BY <1>1, <1>2 DEF Refuse, RequestsAreFor, GateHeld, OwnsFiles
  <1>5. FilesInUseStay' /\ LateAreCancelled'
    BY <1>1, <1>2 DEF Refuse, FilesInUseStay, LateAreCancelled, Files
  <1>6. ScreensAreDrawn' /\ RenderingsAreDrawn'
    BY DEF Refuse, ScreensAreDrawn, RenderingsAreDrawn
  <1>7. SessionInv'
    BY <1>1, <1>2 DEF Refuse, OneSlot, Live, EndedFirst, ServeJoins, ScreensInPhase,
                      FilesInPhase, CommandsInPhase, RequestsInPhase
  <1> QED BY <1>3, <1>4, <1>5, <1>6, <1>7

\* The gate is free and the request enters: the files of an earlier screen go.
LEMMA EnterGatePreserves ==
  ASSUME IInv, NEW r \in Request, EnterGate(r), UNCHANGED sessionVars
  PROVE  IInv'
  <1> DEFINE s == request[r].session
             cleared == IF editor[s].owner \in {0, request[r].screen} THEN editor[s]
                                                                     ELSE Discarded(editor[s])
             e == [cleared EXCEPT !.gate = r, !.owner = request[r].screen]
             j == [request[r] EXCEPT !.step = "working"]
  <1>1. s \in Session /\ editor[s] \in Editor /\ request[r] \in Job
    BY DEF EnterGate, RequestsAreFor
  <1>2. /\ cleared \in Editor /\ (HasFiles(cleared) => HasFiles(editor[s]))
        /\ cleared.view = editor[s].view /\ cleared.render = editor[s].render
        /\ cleared.rendering = editor[s].rendering
    BY <1>1, DiscardedFields
  <1>3. editor' = [editor EXCEPT ![s] = e]
    BY DEF EnterGate
  <1> HIDE DEF cleared
  <1>4. e \in Editor
    BY <1>1, <1>2, EditorFields DEF Job
  <1>5. /\ e.gate = r /\ e.owner = request[r].screen /\ (HasFiles(e) => HasFiles(editor[s]))
        /\ e.view = editor[s].view /\ e.render = editor[s].render
        /\ e.rendering = editor[s].rendering
    BY <1>2 DEF Editor, HasFiles
  <1>6. j \in Job
    BY <1>1, JobFields
  <1>7. /\ j.step = "working" /\ j.session = s /\ j.screen = request[r].screen
        /\ j.cancelled = request[r].cancelled
        /\ j.kind = "stop" => j.render # 0
    BY <1>1 DEF Job, RequestsAreFor
  <1>8. request' = [request EXCEPT ![r] = j]
    BY DEF EnterGate
  <1>9. /\ ~At(r, "idle") /\ editor[s].gate = Nothing
        /\ UNCHANGED <<ended, cleanup, drawn, stopped, sessionVars>>
    BY DEF EnterGate
  <1>11. drawn' \in Drawn /\ stopped' = stopped /\ drawn' = drawn
    BY <1>9
  <1> HIDE DEF e, j
  <1>12. Leaves(r, s, e, j)
    BY <1>5, <1>7 DEF Leaves
  <1> HIDE DEF s
  <1>13. request[r].session = s
    BY DEF s
  <1> QED BY <1>1, <1>3, <1>4, <1>5, <1>6, <1>8, <1>9, <1>11, <1>12, <1>13, GatePreserves

\* A tool, a transfer or a save begins with a file that is there.
LEMMA BeginPreserves ==
  ASSUME IInv, NEW r \in Request, NEW work \in Work, NEW file \in 0 .. MaxFile,
         Begin(r, work, file), UNCHANGED sessionVars
  PROVE  IInv'
  <1> DEFINE s == request[r].session
             e == IF work = "source" THEN [editor[s] EXCEPT !.source = 0] ELSE editor[s]
             j == [request[r] EXCEPT !.kind = work, !.file = file, !.step = "busy"]
  <1>1. s \in Session /\ editor[s] \in Editor /\ request[r] \in Job
    BY DEF Begin, RequestsAreFor
  <1>2. /\ e \in Editor /\ (HasFiles(e) => HasFiles(editor[s]))
        /\ e.view = editor[s].view /\ e.render = editor[s].render
        /\ e.rendering = editor[s].rendering /\ e.gate = editor[s].gate
        /\ e.owner = editor[s].owner
    BY <1>1 DEF Editor, HasFiles
  <1>3. editor' = [editor EXCEPT ![s] = e]
    BY <1>1 DEF Begin
  <1>4. j \in Job
    BY <1>1, JobFields
  <1>5. /\ j.step = "busy" /\ j.session = s /\ j.screen = request[r].screen
        /\ j.cancelled = request[r].cancelled /\ j.kind = work /\ j.file = file
    BY <1>1 DEF Job
  <1>6. work # "stop"
    BY DEF Work
  <1>7. work # "source" => file \in {e.source, e.accepted, e.pending} \ {0}
    BY DEF Begin, Files, Work
  <1>8. request' = [request EXCEPT ![r] = j]
    BY DEF Begin
  <1>9. editor[s].gate = r /\ editor[s].owner = request[r].screen
    BY DEF Begin, GateHeld, OwnsFiles
  <1>10. ~At(r, "idle") /\ UNCHANGED <<ended, cleanup, drawn, stopped, sessionVars>>
    BY DEF Begin
  <1>11. drawn' \in Drawn /\ stopped' = stopped /\ drawn' = drawn
    BY <1>10
  <1> HIDE DEF e, j
  <1>12. Leaves(r, s, e, j)
    BY <1>2, <1>5, <1>6, <1>7, <1>9 DEF Leaves
  <1> HIDE DEF s
  <1>13. request[r].session = s
    BY DEF s
  <1>14. editor[s].gate \in {Nothing, r} /\ ~At(r, "idle")
    BY <1>9, <1>10
  <1>15. /\ stopped' \subseteq stopped \cup ({editor[s].render} \ {0})
         /\ stopped' # stopped => ~editor[s].rendering
    BY <1>11
  <1>16. drawn'.screens = drawn.screens /\ drawn'.renders = drawn.renders
    BY <1>11
  <1>17. UNCHANGED <<ended, cleanup, sessionVars>>
    BY <1>10
  <1>18. HasFiles(e) => HasFiles(editor[s]) \/ phase[s] = "running"
    BY <1>2
  <1>19. /\ e \in Editor /\ e.view = editor[s].view /\ e.render = editor[s].render
         /\ e.rendering = editor[s].rendering
    BY <1>2
  <1>20. s \in Session /\ drawn' \in Drawn
    BY <1>1, <1>11
  <1> QED BY <1>3, <1>4, <1>8, <1>12, <1>13, <1>14, <1>15, <1>16, <1>17, <1>18, <1>19, <1>20,
             GatePreserves

\* What the callbacks promise: a request that is not cancelled, when all of them have
\* run, belongs to a running session, to its open screen and to its rendering.
LEMMA NotCancelled ==
  ASSUME IInv, NEW r \in Request, ~At(r, "idle"), ~request[r].cancelled, CallbacksRan
  PROVE  /\ request[r].session \notin ended /\ phase[request[r].session] = "running"
         /\ EditorOf(r).view = request[r].screen
         /\ request[r].kind = "prepare" =>
              EditorOf(r).render = request[r].render /\ EditorOf(r).rendering
  BY DEF CallbacksRan, OwnerDone, RequestsInPhase

LEMMA RequestPreserves ==
  ASSUME IInv, NEW r \in Request, RequestStep(r), UNCHANGED sessionVars
  PROVE  IInv'
  <1> DEFINE s == request[r].session
             f == drawn.files + 1
  <1>0. ~At(r, "idle") => editor[s] \in Editor /\ drawn \in Drawn
    BY DEF RequestsAreFor
  <1>1. CASE Disconnect(r)
    BY <1>1, CancelPreserves DEF Disconnect
  <1>2. CASE CallbackRuns(r)
    BY <1>2, CancelPreserves DEF CallbackRuns, OwnerDone
  <1>3. CASE Refuse(r)
    BY <1>3, RefusePreserves
  <1>4. CASE Finish(r)
    BY <1>0, <1>4, ReturnPreserves DEF Finish
  <1>5. CASE EnterGate(r)
    BY <1>5, EnterGatePreserves
  <1>6. ASSUME NEW work \in Work, NEW file \in 0 .. MaxFile, Begin(r, work, file)
        PROVE  IInv'
    BY <1>6, BeginPreserves
  <1>7. CASE StageVideoSource(r)
    <2> DEFINE d == Discarded(editor[s])
               e == [d EXCEPT !.owner = request[r].screen, !.source = f]
    <2>1. /\ d \in Editor /\ d.view = editor[s].view /\ d.render = editor[s].render
          /\ d.rendering = editor[s].rendering /\ ~HasFiles(d)
      BY <1>0, <1>7, DiscardedFields DEF StageVideoSource
    <2>2. phase[s] = "running"
      BY <1>7, NotCancelled DEF StageVideoSource
    <2>3. CASE Return(r, d) /\ UNCHANGED drawn
      <3> HIDE DEF d
      <3> QED BY <1>0, <1>7, <2>1, <2>3, ReturnPreserves DEF StageVideoSource
    <2>4. CASE NewFile /\ Return(r, e)
      <3> HIDE DEF d
      <3>1. f \in 0 .. MaxFile /\ request[r].screen \in 0 .. MaxScreen
        BY <2>4 DEF NewFile, Job
      <3>2. drawn' \in Drawn /\ drawn'.screens = drawn.screens /\ drawn'.renders = drawn.renders
        BY <2>4, <3>1 DEF NewFile
      <3>3. e \in Editor
        BY <2>1, <3>1, EditorFields
      <3>4. e.view = d.view /\ e.render = d.render /\ e.rendering = d.rendering
        BY <2>1 DEF Editor
      <3> HIDE DEF e
      <3> QED BY <1>7, <2>1, <2>2, <2>4, <3>2, <3>3, <3>4, ReturnPreserves
              DEF StageVideoSource
    <2> QED BY <1>7, <2>3, <2>4 DEF StageVideoSource
  <1>8. CASE PrepareVideoLoop(r)
    <2> DEFINE e == [editor[s] EXCEPT !.pending = f]
    <2>1. phase[s] = "running"
      BY <1>8, NotCancelled DEF PrepareVideoLoop
    <2>2. f \in 0 .. MaxFile
      BY <1>8 DEF PrepareVideoLoop, NewFile
    <2>3. drawn' \in Drawn /\ drawn'.screens = drawn.screens /\ drawn'.renders = drawn.renders
      BY <1>8, <2>2 DEF PrepareVideoLoop, NewFile
    <2>4. e \in Editor
      BY <1>0, <1>8, <2>2, EditorFields DEF PrepareVideoLoop
    <2>5. /\ e.view = editor[s].view /\ e.render = editor[s].render
          /\ e.rendering = editor[s].rendering
      BY <1>0, <1>8 DEF Editor, PrepareVideoLoop
    <2>6. Return(r, e)
      BY <1>8 DEF PrepareVideoLoop
    <2> HIDE DEF e
    <2> QED BY <1>8, <2>1, <2>3, <2>4, <2>5, <2>6, ReturnPreserves DEF PrepareVideoLoop
  <1>9. CASE AcceptVideoLoop(r)
    <2> DEFINE e == [editor[s] EXCEPT !.accepted = editor[s].pending, !.pending = 0]
    <2>1. e \in Editor
      BY <1>0, <1>9, EditorFields DEF AcceptVideoLoop
    <2>2. /\ e.view = editor[s].view /\ e.render = editor[s].render
          /\ e.rendering = editor[s].rendering /\ HasFiles(editor[s])
      BY <1>0, <1>9 DEF Editor, AcceptVideoLoop, HasFiles
    <2>3. Return(r, e)
      BY <1>9 DEF AcceptVideoLoop
    <2> HIDE DEF e
    <2> QED BY <1>0, <1>9, <2>1, <2>2, <2>3, ReturnPreserves DEF AcceptVideoLoop
  <1>10. CASE DiscardVideoPreview(r) \/ StopVideoPreview(r)
    <2> DEFINE e == [editor[s] EXCEPT !.pending = 0]
    <2>1. e \in Editor
      BY <1>0, <1>10, EditorFields DEF DiscardVideoPreview, StopVideoPreview
    <2>2. /\ e.view = editor[s].view /\ e.render = editor[s].render
          /\ e.rendering = editor[s].rendering /\ (HasFiles(e) => HasFiles(editor[s]))
      BY <1>0, <1>10 DEF Editor, DiscardVideoPreview, StopVideoPreview, HasFiles
    <2>3. Return(r, e)
      BY <1>10 DEF DiscardVideoPreview, StopVideoPreview
    <2>4. /\ stopped' \subseteq stopped \cup ({editor[s].render} \ {0})
          /\ stopped' # stopped => ~editor[s].rendering
      BY <1>10 DEF DiscardVideoPreview, StopVideoPreview, RequestsAreFor
    <2> HIDE DEF e
    <2> QED BY <1>0, <1>10, <2>1, <2>2, <2>3, <2>4, ReturnPreserves
            DEF DiscardVideoPreview, StopVideoPreview
  <1>11. CASE DiscardVideoSource(r)
    <2> DEFINE e == Discarded(editor[s])
    <2>1. /\ e \in Editor /\ e.view = editor[s].view /\ e.render = editor[s].render
          /\ e.rendering = editor[s].rendering /\ ~HasFiles(e)
      BY <1>0, <1>11, DiscardedFields DEF DiscardVideoSource
    <2>2. Return(r, e)
      BY <1>11 DEF DiscardVideoSource
    <2> HIDE DEF e
    <2> QED BY <1>0, <1>11, <2>1, <2>2, ReturnPreserves DEF DiscardVideoSource
  <1> QED BY <1>1, <1>2, <1>3, <1>4, <1>5, <1>6, <1>7, <1>8, <1>9, <1>10, <1>11
          DEF RequestStep, Handle
-----------------------------------------------------------------------------
(* The loop of the program and its commands.                               *)

\* What a step of the loop or of a command makes of an editor: e keeps the gate, and
\* whoever is behind it keeps its files.
LEMMA EditorPreserves ==
  ASSUME IInv, NEW s \in Session, NEW e \in Editor, editor' = [editor EXCEPT ![s] = e],
         e.gate = editor[s].gate,
         \/ /\ e.owner = editor[s].owner /\ e.source = editor[s].source
            /\ e.accepted = editor[s].accepted /\ e.pending = editor[s].pending
         \/ editor[s].gate = Nothing /\ ~HasFiles(e),
         UNCHANGED request
  PROVE  /\ editor' \in [Session -> Editor]
         /\ RequestsAreFor' /\ GateHeld' /\ OwnsFiles' /\ FilesInUseStay'
         /\ (FilesInPhase /\ UNCHANGED phase => FilesInPhase')
  <1>1. \A t \in Session : editor'[t] = IF t = s THEN e ELSE editor[t]
    OBVIOUS
  <1>2. RequestsAreFor'
    BY DEF RequestsAreFor
  <1>3. GateHeld'
    BY <1>1 DEF GateHeld, RequestsAreFor
  <1>4. OwnsFiles'
    BY <1>1 DEF OwnsFiles, GateHeld, RequestsAreFor
  <1>5. FilesInUseStay'
    BY <1>1 DEF FilesInUseStay, Files, HasFiles, GateHeld, RequestsAreFor
  <1>6. FilesInPhase /\ UNCHANGED phase => FilesInPhase'
    BY <1>1 DEF FilesInPhase, HasFiles
  <1> QED BY <1>2, <1>3, <1>4, <1>5, <1>6

LEMMA UpdatePreserves ==
  ASSUME IInv, NEW s \in Session, Update(s)
  PROVE  IInv'
  <1>0. editor[s] \in Editor /\ phase[s] = "running" /\ UNCHANGED sessionVars
    BY DEF Update
  <1>1. CASE OpenScreen(s) /\ CallbacksRan
    <2> DEFINE n == drawn.screens + 1
               e == [editor[s] EXCEPT !.view = n, !.render = 0, !.rendering = FALSE]
    <2>1. n \in 0 .. MaxScreen /\ n # 0 /\ 0 \in 0 .. MaxRender
      BY <1>1 DEF OpenScreen
    <2>2. e \in Editor
      BY <1>0, <2>1, EditorFields
    <2>3. /\ e.view = n /\ e.render = 0 /\ ~e.rendering
          /\ e.gate = editor[s].gate /\ e.owner = editor[s].owner
          /\ e.source = editor[s].source /\ e.accepted = editor[s].accepted
          /\ e.pending = editor[s].pending
      BY <1>0 DEF Editor
    <2>4. editor' = [editor EXCEPT ![s] = e]
      BY <1>1 DEF OpenScreen
    <2>5. drawn' \in Drawn /\ drawn'.screens = n /\ drawn'.renders = drawn.renders
      BY <1>1, <2>1 DEF OpenScreen
    <2>6. /\ editor[s].view = 0 /\ UNCHANGED <<ended, cleanup, request, stopped>>
          /\ drawn.screens \in Nat
      BY <1>1 DEF OpenScreen
    <2> HIDE DEF e
    <2>7. \A t \in Session : editor'[t] = IF t = s THEN e ELSE editor[t]
      BY <2>4
    <2>8. /\ editor' \in [Session -> Editor] /\ FilesInPhase'
          /\ RequestsAreFor' /\ GateHeld' /\ OwnsFiles' /\ FilesInUseStay'
      BY <1>0, <2>2, <2>3, <2>4, <2>6, EditorPreserves
    <2>9. TypeOK'
      BY <1>0, <2>5, <2>6, <2>8
    <2>10. ScreensAreDrawn'
      <3>1. \A t \in Session : editor[t].view \in Nat /\ editor[t].view <= drawn.screens
        BY DEF ScreensAreDrawn, Editor
      <3>2. \A t \in Session : editor'[t].view <= drawn'.screens
        BY <2>3, <2>5, <2>6, <2>7, <3>1
      <3>3. ASSUME NEW c \in cleanup
            PROVE  c.screen <= drawn'.screens /\ c.screen # editor'[c.session].view
        <4>1. /\ c.screen \in Nat /\ c.session \in Session /\ c.screen <= drawn.screens
              /\ c.screen # editor[c.session].view
          BY DEF ScreensAreDrawn, Cleanup, Screen
        <4> QED BY <2>3, <2>5, <2>6, <2>7, <4>1
      <3> QED BY <2>6, <3>2, <3>3 DEF ScreensAreDrawn
    \* The requests of earlier screens are cancelled by now.
    <2>11. LateAreCancelled'
      BY <1>1, <2>3, <2>6, <2>7 DEF LateAreCancelled, CallbacksRan, OwnerDone, RequestsAreFor
    <2>12. RenderingsAreDrawn'
      BY <2>3, <2>5, <2>6, <2>7 DEF RenderingsAreDrawn, Editor
    <2>13. SessionInv'
      BY <1>0, <2>3, <2>6, <2>7, <2>8 DEF OneSlot, Live, EndedFirst, ServeJoins, ScreensInPhase,
                                          CommandsInPhase, RequestsInPhase
    <2> QED BY <2>8, <2>9, <2>10, <2>11, <2>12, <2>13
  <1>2. CASE CloseScreen(s)
    <2> DEFINE e == [editor[s] EXCEPT !.view = 0]
               c == [session |-> s, screen |-> editor[s].view, started |-> FALSE]
    <2>1. e \in Editor
      <3>1. 0 \in 0 .. MaxScreen
        OBVIOUS
      <3> QED BY <1>0, <3>1, EditorFields
    <2>2. /\ e.view = 0 /\ e.render = editor[s].render /\ e.rendering = editor[s].rendering
          /\ e.gate = editor[s].gate /\ e.owner = editor[s].owner
          /\ e.source = editor[s].source /\ e.accepted = editor[s].accepted
          /\ e.pending = editor[s].pending
      BY <1>0 DEF Editor
    <2>3. editor' = [editor EXCEPT ![s] = e] /\ cleanup' = cleanup \cup {c}
      BY <1>2 DEF CloseScreen
    <2>4. c \in Cleanup /\ c.session = s /\ c.screen = editor[s].view /\ ~c.started
      BY <1>0, <1>2 DEF CloseScreen, Cleanup, Screen, Editor
    <2>5. editor[s].view # 0 /\ UNCHANGED <<ended, request, drawn, stopped>>
      BY <1>2 DEF CloseScreen
    <2> HIDE DEF e, c
    <2>6. \A t \in Session : editor'[t] = IF t = s THEN e ELSE editor[t]
      BY <2>3
    <2>7. /\ editor' \in [Session -> Editor] /\ FilesInPhase'
          /\ RequestsAreFor' /\ GateHeld' /\ OwnsFiles' /\ FilesInUseStay'
      BY <1>0, <2>1, <2>2, <2>3, <2>5, EditorPreserves
    <2>8. TypeOK'
      BY <1>0, <2>3, <2>4, <2>5, <2>7
    <2>9. ScreensAreDrawn'
      BY <2>2, <2>3, <2>4, <2>5, <2>6 DEF ScreensAreDrawn, Cleanup, Screen, Editor
    <2>10. LateAreCancelled'
      BY <2>2, <2>5, <2>6 DEF LateAreCancelled, RequestsAreFor
    <2>12. RenderingsAreDrawn'
      <3>1. \A t \in Session : editor'[t].render = editor[t].render
                             /\ (editor'[t].rendering <=> editor[t].rendering)
        BY <2>2, <2>6
      <3> QED BY <2>5, <3>1 DEF RenderingsAreDrawn
    <2>11. SessionInv'
      BY <1>0, <2>2, <2>3, <2>4, <2>5, <2>6, <2>7
         DEF OneSlot, Live, EndedFirst, ServeJoins, ScreensInPhase, CommandsInPhase,
             RequestsInPhase
    <2> QED BY <2>7, <2>8, <2>9, <2>10, <2>11, <2>12
  <1>3. CASE (StartRendering(s) /\ CallbacksRan) \/ StopRendering(s)
    <2> DEFINE n == IF StartRendering(s) THEN drawn.renders + 1 ELSE editor[s].render
               b == StartRendering(s)
               e == [editor[s] EXCEPT !.render = n, !.rendering = b]
    <2>1. n \in 0 .. MaxRender /\ b \in BOOLEAN
      BY <1>0, <1>3 DEF StartRendering, Editor
    <2>2. e \in Editor
      BY <1>0, <2>1, EditorFields
    <2>3. /\ e.view = editor[s].view /\ e.render = n /\ (e.rendering <=> b)
          /\ e.gate = editor[s].gate /\ e.owner = editor[s].owner
          /\ e.source = editor[s].source /\ e.accepted = editor[s].accepted
          /\ e.pending = editor[s].pending
      BY <1>0 DEF Editor
    <2>4. editor' = [editor EXCEPT ![s] = e]
      BY <1>0, <1>3 DEF StartRendering, StopRendering, Editor
    <2>5. drawn' \in Drawn /\ drawn'.screens = drawn.screens /\ drawn'.renders >= drawn.renders
      BY <1>3 DEF StartRendering, StopRendering
    \* A new number, or the old one that is not rendering any more.
    <2>6. \/ n = drawn'.renders /\ n = drawn.renders + 1
          \/ n = editor[s].render /\ ~b
      BY <1>3 DEF StartRendering
    <2>7. UNCHANGED <<ended, cleanup, request, stopped>>
      BY <1>3 DEF StartRendering, StopRendering
    <2> HIDE DEF e, n, b
    <2>8. \A t \in Session : editor'[t] = IF t = s THEN e ELSE editor[t]
      BY <2>4
    <2>9. /\ editor' \in [Session -> Editor] /\ FilesInPhase'
          /\ RequestsAreFor' /\ GateHeld' /\ OwnsFiles' /\ FilesInUseStay'
      BY <1>0, <2>2, <2>3, <2>4, <2>7, EditorPreserves
    <2>10. TypeOK'
      BY <1>0, <2>5, <2>7, <2>9
    <2>11. ScreensAreDrawn'
      BY <2>3, <2>5, <2>7, <2>8 DEF ScreensAreDrawn, Cleanup
    <2>12. LateAreCancelled'
      BY <2>3, <2>7, <2>8 DEF LateAreCancelled, RequestsAreFor
    <2>13. RenderingsAreDrawn'
      <3>1. /\ \A t \in Session : editor[t].render \in Nat /\ editor[t].render <= drawn.renders
            /\ \A m \in stopped : m \in Nat /\ m <= drawn.renders
            /\ drawn.renders \in Nat /\ drawn'.renders \in Nat
        BY <2>5 DEF RenderingsAreDrawn, Editor
      <3> QED BY <2>3, <2>5, <2>6, <2>7, <2>8, <3>1 DEF RenderingsAreDrawn
    <2>14. SessionInv'
      BY <1>0, <2>3, <2>7, <2>8, <2>9 DEF OneSlot, Live, EndedFirst, ServeJoins, ScreensInPhase,
                                          CommandsInPhase, RequestsInPhase
    <2> QED BY <2>9, <2>10, <2>11, <2>12, <2>13, <2>14
  <1> QED BY <1>1, <1>2, <1>3 DEF Update

\* A command that the program hands to its session starts, or removes the files of
\* its own screen.
LEMMA CommandPreserves ==
  ASSUME IInv, NEW c \in cleanup, StartCommand(c) \/ (RunCleanup(c) /\ UNCHANGED sessionVars)
  PROVE  IInv'
  <1>0. c \in Cleanup /\ c.session \in Session /\ editor[c.session] \in Editor
    BY DEF Cleanup
  <1>1. CASE StartCommand(c)
    <2> DEFINE d == [c EXCEPT !.started = TRUE]
    <2>1. d \in Cleanup /\ d.session = c.session /\ d.screen = c.screen
      BY <1>0 DEF Cleanup
    <2>2. cleanup' = (cleanup \ {c}) \cup {d}
      BY <1>1 DEF StartCommand
    <2>3. /\ phase[c.session] = "running"
          /\ UNCHANGED <<editor, ended, request, drawn, stopped, sessionVars>>
      BY <1>1 DEF StartCommand
    <2> HIDE DEF d
    <2>4. TypeOK'
      BY <2>1, <2>2, <2>3
    <2>5. EditorInv'
      BY <2>1, <2>2, <2>3 DEF RequestsAreFor, GateHeld, OwnsFiles, FilesInUseStay, Files,
                              ScreensAreDrawn, LateAreCancelled, RenderingsAreDrawn
    <2>6. SessionInv'
      BY <2>1, <2>2, <2>3 DEF OneSlot, Live, EndedFirst, ServeJoins, ScreensInPhase,
                              FilesInPhase, CommandsInPhase, RequestsInPhase
    <2> QED BY <2>4, <2>5, <2>6
  <1>2. CASE RunCleanup(c) /\ UNCHANGED sessionVars
    <2> DEFINE s == c.session
               e == IF editor[s].owner = c.screen THEN Discarded(editor[s]) ELSE editor[s]
    <2>1. /\ e \in Editor /\ e.view = editor[s].view /\ e.gate = editor[s].gate
          /\ e.render = editor[s].render /\ e.rendering = editor[s].rendering
          /\ e = editor[s] \/ ~HasFiles(e)
      BY <1>0, DiscardedFields
    <2>2. editor' = [editor EXCEPT ![s] = e]
      BY <1>0, <1>2 DEF RunCleanup
    <2>3. /\ editor[s].gate = Nothing /\ cleanup' = cleanup \ {c}
          /\ UNCHANGED <<ended, request, drawn, stopped, sessionVars>>
      BY <1>2 DEF RunCleanup
    <2> HIDE DEF e
    <2>4. \A t \in Session : editor'[t] = IF t = s THEN e ELSE editor[t]
      BY <2>2
    <2>5. /\ editor' \in [Session -> Editor] /\ FilesInPhase'
          /\ RequestsAreFor' /\ GateHeld' /\ OwnsFiles' /\ FilesInUseStay'
      BY <1>0, <2>1, <2>2, <2>3, EditorPreserves
    <2>6. TypeOK'
      BY <2>3, <2>5
    <2>7. ScreensAreDrawn'
      BY <1>0, <2>1, <2>3, <2>4 DEF ScreensAreDrawn, Cleanup
    <2>8. LateAreCancelled'
      BY <2>1, <2>3, <2>4 DEF LateAreCancelled, RequestsAreFor
    <2>9. RenderingsAreDrawn'
      BY <2>1, <2>3, <2>4 DEF RenderingsAreDrawn
    <2>10. SessionInv'
      BY <2>1, <2>3, <2>4, <2>5 DEF OneSlot, Live, EndedFirst, ServeJoins, ScreensInPhase,
                                    CommandsInPhase, RequestsInPhase
    <2> QED BY <2>5, <2>6, <2>7, <2>8, <2>9, <2>10
  <1> QED BY <1>1, <1>2
-----------------------------------------------------------------------------
(* The sessions, the requests that arrive, and the server.                 *)

\* Where the editors stay as they are, so does what holds of them.
LEMMA EditorsUnchanged ==
  ASSUME IInv, UNCHANGED <<editor, cleanup, request, drawn, stopped>>
  PROVE  EditorInv'
  BY DEF RequestsAreFor, GateHeld, OwnsFiles, FilesInUseStay, Files, ScreensAreDrawn,
         LateAreCancelled, RenderingsAreDrawn

\* A new phase of a session that keeps its editor.
LEMMA PhasePreserves ==
  ASSUME IInv, NEW s \in Session, NEW p \in Phase, Enter(s, p),
         UNCHANGED <<editor, cleanup, request, drawn, stopped, server>>,
         ended' \in SUBSET Session, ended \subseteq ended',
         active' \in BOOLEAN, current' \in Session \cup {Nothing},
         server # "returned",
         \* The slot is taken, given back, kept, or was given back before.
         \/ p = "admitted" /\ ~active /\ active'
         \/ p = "left" /\ Live(s) /\ ~active'
         \/ p # "admitted" /\ Live(s) /\ active' = active
         \/ p = "gone" /\ active' = active,
         p \in {"stopping", "joined", "closing", "closed", "cleared"} => s \in ended',
         editor[s].view # 0 => p \in {"running", "stopping", "joined"},
         HasFiles(editor[s]) => p \in {"running", "stopping", "joined", "closing"},
         Started(s) # {} => p \in {"running", "stopping"},
         phase[s] = "running" => s \in ended'
  PROVE  IInv'
  <1>1. \A t \in Session : phase'[t] = IF t = s THEN p ELSE phase[t]
    BY DEF Enter
  <1>2. TypeOK'
    BY DEF Enter
  <1>3. OneSlot' 
    BY <1>1 DEF OneSlot, Live
  <1>4. EndedFirst' /\ ServeJoins'
    BY <1>1 DEF EndedFirst, ServeJoins
  <1>5. ScreensInPhase' /\ FilesInPhase'
    BY <1>1 DEF ScreensInPhase, FilesInPhase
  <1>6. CommandsInPhase'
    BY <1>1 DEF CommandsInPhase, Started, Cleanup
  <1>7. RequestsInPhase'
    BY <1>1 DEF RequestsInPhase, RequestsAreFor
  <1> QED BY <1>2, <1>3, <1>4, <1>5, <1>6, <1>7, EditorsUnchanged

LEMMA SessionPreserves ==
  ASSUME IInv, NEW s \in Session,
         Connect(s) \/ GiveUp(s) \/ Start(s) \/ Cancel(s) \/ Stop(s) \/ SessionStep(s)
  PROVE  IInv'
  <1> USE DEF Phase, Live, HasFiles, Started
  <1>0. phase[s] \notin {"new", "gone"} => server # "returned"
    BY DEF ServeJoins
  <1>1. /\ editor[s].view # 0 => phase[s] \in {"running", "stopping", "joined"}
        /\ HasFiles(editor[s]) => phase[s] \in {"running", "stopping", "joined", "closing"}
        /\ Started(s) # {} => phase[s] \in {"running", "stopping"}
        /\ phase[s] \in {"stopping", "joined", "closing", "closed", "cleared"} => s \in ended
    BY DEF ScreensInPhase, FilesInPhase, CommandsInPhase, EndedFirst
  <1>2. CASE Connect(s)
    BY <1>0, <1>1, <1>2, PhasePreserves DEF Connect, Admissible
  <1>3. CASE GiveUp(s)
    BY <1>0, <1>1, <1>3, PhasePreserves DEF GiveUp
  <1>4. CASE Start(s)
    BY <1>0, <1>1, <1>4, PhasePreserves DEF Start
  <1>5. CASE Cancel(s)
    <2>1. TypeOK' /\ EditorInv'
      BY <1>5, EditorsUnchanged DEF Cancel
    <2>2. SessionInv'
      BY <1>5 DEF Cancel, OneSlot, EndedFirst, ServeJoins, ScreensInPhase, FilesInPhase,
                  CommandsInPhase, RequestsInPhase
    <2> QED BY <2>1, <2>2
  <1>6. CASE Stop(s)
    BY <1>0, <1>1, <1>6, PhasePreserves DEF Stop
  <1>7. CASE Join(s)
    BY <1>0, <1>1, <1>7, PhasePreserves DEF Join, Joined
  <1>8. CASE CloseEditor(s) \/ DiscardFiles(s)
    <2> DEFINE e == IF CloseEditor(s) THEN [editor[s] EXCEPT !.view = 0]
                                     ELSE Discarded(editor[s])
               p == IF CloseEditor(s) THEN "closing" ELSE "closed"
    <2>1. editor[s] \in Editor /\ 0 \in 0 .. MaxScreen
      OBVIOUS
    <2>2. /\ e \in Editor /\ e.gate = editor[s].gate
          /\ e.render = editor[s].render /\ e.rendering = editor[s].rendering
          /\ e.view = IF p = "closing" THEN 0 ELSE editor[s].view
          /\ p = "closed" => ~HasFiles(e)
      <3>1. CASE CloseEditor(s)
        <4>1. [editor[s] EXCEPT !.view = 0] \in Editor
          BY <2>1, EditorFields
        <4> QED BY <2>1, <3>1, <4>1 DEF Editor
      <3>2. CASE ~CloseEditor(s)
        BY <2>1, <3>2, DiscardedFields
      <3> QED BY <3>1, <3>2
    <2>3. \/ /\ e.owner = editor[s].owner /\ e.source = editor[s].source
             /\ e.accepted = editor[s].accepted /\ e.pending = editor[s].pending
          \/ editor[s].gate = Nothing /\ ~HasFiles(e)
      BY <1>8, <2>1, DiscardedFields DEF DiscardFiles, Editor
    <2>4. editor' = [editor EXCEPT ![s] = e]
      BY <1>8 DEF CloseEditor, DiscardFiles
    <2>5. /\ phase' = [phase EXCEPT ![s] = p] /\ p \in {"closing", "closed"}
          /\ phase[s] = IF p = "closing" THEN "joined" ELSE "closing"
          /\ UNCHANGED <<ended, cleanup, request, drawn, stopped, active, current, server>>
      BY <1>8 DEF CloseEditor, DiscardFiles, Enter
    <2> HIDE DEF e, p
    <2>6. \A t \in Session : /\ editor'[t] = IF t = s THEN e ELSE editor[t]
                             /\ phase'[t] = IF t = s THEN p ELSE phase[t]
      BY <2>4, <2>5
    <2>7. /\ editor' \in [Session -> Editor]
          /\ RequestsAreFor' /\ GateHeld' /\ OwnsFiles' /\ FilesInUseStay'
      BY <2>2, <2>3, <2>4, <2>5, EditorPreserves
    <2>8. TypeOK'
      BY <2>5, <2>7
    <2>9. ScreensAreDrawn'
      <3>1. /\ \A t \in Session : editor[t].view \in Nat /\ drawn.screens \in Nat
            /\ \A c \in cleanup : c.screen \in Nat \ {0} /\ c.session \in Session
        BY DEF Editor, Cleanup, Screen
      <3> QED BY <2>2, <2>5, <2>6, <3>1 DEF ScreensAreDrawn
    <2>10. LateAreCancelled'
      BY <2>2, <2>5, <2>6 DEF LateAreCancelled, RequestsAreFor
    <2>11. RenderingsAreDrawn'
      <3>1. \A t \in Session : editor'[t].render = editor[t].render
                             /\ (editor'[t].rendering <=> editor[t].rendering)
        BY <2>2, <2>6
      <3> QED BY <2>5, <3>1 DEF RenderingsAreDrawn
    <2>12. OneSlot' /\ EndedFirst' /\ ServeJoins'
      BY <2>5, <2>6 DEF OneSlot, EndedFirst, ServeJoins
    <2>13. ScreensInPhase' /\ FilesInPhase'
      BY <1>1, <2>2, <2>5, <2>6 DEF ScreensInPhase, FilesInPhase
    <2>14. CommandsInPhase' /\ RequestsInPhase'
      BY <2>5, <2>6 DEF CommandsInPhase, RequestsInPhase, RequestsAreFor, Cleanup
    <2> QED BY <2>7, <2>8, <2>9, <2>10, <2>11, <2>12, <2>13, <2>14
  <1>9. CASE ClearCurrent(s)
    BY <1>0, <1>1, <1>9, PhasePreserves DEF ClearCurrent
  <1>10. CASE ReleaseSlot(s)
    BY <1>0, <1>1, <1>10, PhasePreserves DEF ReleaseSlot
  <1>11. CASE Leave(s)
    BY <1>0, <1>1, <1>11, PhasePreserves DEF Leave
  <1> QED BY <1>2, <1>3, <1>4, <1>5, <1>6, <1>7, <1>8, <1>9, <1>10, <1>11 DEF SessionStep

\* A request is admitted for the screen that is open now.
LEMMA ServePreserves ==
  ASSUME IInv, NEW r \in Request, NEW kind \in Kind, Serve(r, kind)
  PROVE  IInv'
  <1> DEFINE s == current
             j == [kind |-> kind, session |-> s, screen |-> editor[s].view,
                   render |-> IF kind = "other" THEN 0 ELSE editor[s].render,
                   file |-> 0, step |-> "waiting", cancelled |-> FALSE]
  <1>1. /\ s \in Session /\ editor[s] \in Editor /\ editor[s].view # 0 /\ s \notin ended
        /\ kind = "stop" => editor[s].render # 0
        /\ At(r, "idle") /\ server = "open"
        /\ request' = [request EXCEPT ![r] = j]
        /\ UNCHANGED <<editor, ended, cleanup, drawn, stopped, sessionVars>>
    BY DEF Serve, BeginVideoEdit
  <1>2. j \in Job
    <2>1. /\ editor[s].view \in 0 .. MaxScreen /\ editor[s].render \in 0 .. MaxRender
          /\ 0 \in 0 .. MaxRender /\ 0 \in 0 .. MaxFile
      BY <1>1 DEF Editor
    <2> QED BY <1>1, <2>1 DEF Job
  <1>3. /\ j.step = "waiting" /\ j.session = s /\ j.screen = editor[s].view /\ j.kind = kind
        /\ kind = "stop" => j.render = editor[s].render
    OBVIOUS
  <1>4. phase[s] = "running"
    BY <1>1 DEF ScreensInPhase, EndedFirst
  <1> HIDE DEF j, s
  <1>5. \A q \in Request : request'[q] = IF q = r THEN j ELSE request[q]
    BY <1>1
  <1>6. TypeOK'
    BY <1>1, <1>2
  <1>7. RequestsAreFor' /\ OwnsFiles' /\ GateHeld'
    BY <1>1, <1>3, <1>5 DEF RequestsAreFor, GateHeld, OwnsFiles
  <1>8. FilesInUseStay' /\ LateAreCancelled'
    BY <1>1, <1>3, <1>5 DEF FilesInUseStay, Files, LateAreCancelled
  <1>9. ScreensAreDrawn' /\ RenderingsAreDrawn'
    BY <1>1 DEF ScreensAreDrawn, RenderingsAreDrawn
  <1>10. SessionInv'
    BY <1>1, <1>3, <1>4, <1>5 DEF OneSlot, Live, EndedFirst, ServeJoins, ScreensInPhase,
                                  FilesInPhase, CommandsInPhase, RequestsInPhase
  <1> QED BY <1>6, <1>7, <1>8, <1>9, <1>10

LEMMA ServerPreserves ==
  ASSUME IInv, Shutdown \/ ReturnServe
  PROVE  IInv'
  <1>1. TypeOK' /\ EditorInv'
    BY EditorsUnchanged DEF Shutdown, ReturnServe
  <1>2. SessionInv'
    BY DEF Shutdown, ReturnServe, OneSlot, Live, EndedFirst, ServeJoins, ScreensInPhase,
           FilesInPhase, CommandsInPhase, RequestsInPhase, RequestsAreFor
  <1> QED BY <1>1, <1>2

LEMMA InitIInv == Init => IInv
  <1> SUFFICES ASSUME Init PROVE IInv
    OBVIOUS
  <1>1. NewEditor \in Editor /\ Idle \in Job /\ Idle.step = "idle" /\ Idle.kind = "other"
    BY DEF NewEditor, Editor, Idle, Job, Kind
  <1>2. /\ NewEditor.view = 0 /\ NewEditor.gate = Nothing /\ ~NewEditor.rendering
        /\ NewEditor.render = 0 /\ ~HasFiles(NewEditor)
    BY DEF NewEditor, HasFiles
  <1>3. TypeOK
    <2>1. drawn \in Drawn /\ stopped \subseteq 1 .. MaxRender /\ cleanup \subseteq Cleanup
      BY DEF Init, EditorInit
    <2> QED BY <1>1, <2>1 DEF Init, EditorInit, Phase
  <1>4. EditorInv
    BY <1>1, <1>2 DEF Init, EditorInit, RequestsAreFor, GateHeld, OwnsFiles, FilesInUseStay,
                      ScreensAreDrawn, LateAreCancelled, RenderingsAreDrawn
  <1>5. SessionInv
    BY <1>1, <1>2 DEF Init, EditorInit, OneSlot, Live, EndedFirst, ServeJoins, ScreensInPhase,
                      FilesInPhase, CommandsInPhase, RequestsInPhase
  <1> QED BY <1>3, <1>4, <1>5

LEMMA NextPreserves == IInv /\ [Next]_vars => IInv'
  <1> SUFFICES ASSUME IInv, [Next]_vars PROVE IInv'
    OBVIOUS
  <1>1. CASE UNCHANGED vars
    <2>1. TypeOK' /\ EditorInv'
      BY <1>1, EditorsUnchanged DEF vars
    <2>2. SessionInv'
      BY <1>1 DEF vars, OneSlot, Live, EndedFirst, ServeJoins, ScreensInPhase, FilesInPhase,
                  CommandsInPhase, RequestsInPhase
    <2> QED BY <2>1, <2>2
  <1>2. CASE Next
    BY <1>2, SessionPreserves, UpdatePreserves, CommandPreserves, RequestPreserves,
       ServePreserves, ServerPreserves DEF Next
  <1> QED BY <1>1, <1>2
-----------------------------------------------------------------------------
(* The theorems.                                                           *)

\* The inductive invariant holds in every state.
THEOREM Invariance == Spec => []IInv
  BY InitIInv, NextPreserves, PTL DEF Spec

\* A file that a media tool reads, or that is being sent, stays until then: only the
\* request behind the gate changes the files, and it is the one that uses them.
THEOREM UsedFilesStay == Spec => []FilesInUseStay
  <1>1. IInv => FilesInUseStay
    OBVIOUS
  <1> QED BY <1>1, Invariance, PTL

\* While a session runs, nothing of another one is left; and when Serve returns, no
\* handler runs.
LEMMA IInvIsolates == IInv => NothingOutlives
  <1> SUFFICES ASSUME IInv PROVE NothingOutlives
    OBVIOUS
  <1>1. ASSUME NEW s \in Session, NEW t \in Session, s # t, phase[t] = "running"
        PROVE  /\ phase[s] \notin {"running", "stopping", "joined", "closing"}
               /\ Started(s) = {}
               /\ Files(s) = {}
    <2>1. ~Live(s)
      BY <1>1 DEF OneSlot, Live
    <2>2. phase[s] \notin {"running", "stopping", "joined", "closing"}
      BY <2>1 DEF Live
    <2>3. Started(s) = {}
      BY <2>2 DEF CommandsInPhase, Started
    <2>4. Files(s) = {}
      BY <2>2 DEF FilesInPhase, HasFiles, Files
    <2> QED BY <2>2, <2>3, <2>4
  <1> QED BY <1>1 DEF NothingOutlives, OneSession

THEOREM Isolation == Spec => []NothingOutlives
  BY Invariance, IInvIsolates, PTL

\* A step of another request, or of none, leaves a request as it is.
LEMMA OwnSteps ==
  ASSUME IInv, [Next]_vars, NEW r \in Request, ~At(r, "idle"), request'[r] # request[r]
  PROVE  RequestStep(r) /\ UNCHANGED sessionVars
  <1>1. ASSUME NEW q \in Request, RequestStep(q), UNCHANGED sessionVars, q # r
        PROVE  FALSE
    BY <1>1 DEF RequestStep, Disconnect, CallbackRuns, Refuse, Finish, Handle, EnterGate, Begin,
                StageVideoSource, PrepareVideoLoop, AcceptVideoLoop, DiscardVideoPreview,
                StopVideoPreview, DiscardVideoSource, Return
  <1>2. ASSUME NEW q \in Request, NEW kind \in Kind, Serve(q, kind)
        PROVE  FALSE
    BY <1>2 DEF Serve, BeginVideoEdit
  <1>3. ASSUME NEW s \in Session,
               Connect(s) \/ GiveUp(s) \/ Start(s) \/ Cancel(s) \/ Update(s) \/ Stop(s)
                 \/ SessionStep(s)
        PROVE  FALSE
    BY <1>3 DEF Connect, GiveUp, Start, Cancel, Update, OpenScreen, CloseScreen, StartRendering,
                StopRendering, Stop, SessionStep, Join, CloseEditor, DiscardFiles, ClearCurrent,
                ReleaseSlot, Leave
  <1>4. ASSUME NEW c \in cleanup, StartCommand(c) \/ RunCleanup(c)
        PROVE  FALSE
    BY <1>4 DEF StartCommand, RunCleanup
  <1>5. CASE Shutdown \/ ReturnServe \/ UNCHANGED vars
    BY <1>5 DEF Shutdown, ReturnServe, vars
  <1> QED BY <1>1, <1>2, <1>3, <1>4, <1>5 DEF Next

\* A rendering whose stop was acknowledged brings no loop: the callbacks have cancelled its
\* request, and its number is not given again.
LEMMA StepBringsNoLoop ==
  ASSUME IInv, [Next]_vars, NEW r \in Request,
         request[r].kind = "prepare", request[r].render \in stopped, request'[r] # request[r]
  PROVE  editor'[request[r].session].pending \in {0, editor[request[r].session].pending}
  <1> DEFINE s == request[r].session
  <1>1. ~At(r, "idle")
    BY DEF RequestsAreFor, Idle
  <1>2. s \in Session /\ editor[s] \in Editor
    BY <1>1 DEF RequestsAreFor
  <1>3. RequestStep(r)
    BY <1>1, OwnSteps
  <1>4. CASE Disconnect(r) \/ CallbackRuns(r) \/ Refuse(r)
    BY <1>4 DEF Disconnect, CallbackRuns, Refuse
  <1>5. CASE Finish(r)
    BY <1>2, <1>5 DEF Finish, Return, Editor
  <1>6. CASE EnterGate(r)
    BY <1>2, <1>6 DEF EnterGate, Discarded, Editor
  <1>7. CASE \E work \in Work, file \in 0 .. MaxFile : Begin(r, work, file)
    BY <1>2, <1>7 DEF Begin, Editor
  <1>8. ~PrepareVideoLoop(r)
    BY <1>1, NotCancelled DEF PrepareVideoLoop, RenderingsAreDrawn, RequestsAreFor
  <1>9. /\ ~StageVideoSource(r) /\ ~AcceptVideoLoop(r) /\ ~DiscardVideoPreview(r)
        /\ ~StopVideoPreview(r) /\ ~DiscardVideoSource(r)
    BY DEF StageVideoSource, AcceptVideoLoop, DiscardVideoPreview, StopVideoPreview,
           DiscardVideoSource
  <1> QED BY <1>3, <1>4, <1>5, <1>6, <1>7, <1>8, <1>9 DEF RequestStep, Handle

THEOREM StoppedStays == Spec => StoppedMeansStopped
  <1>1. IInv /\ [Next]_vars =>
          [\A r \in Request :
             request[r].kind = "prepare" /\ request[r].render \in stopped
               /\ request'[r] # request[r]
             => editor'[request[r].session].pending
                  \in {0, editor[request[r].session].pending}]_vars
    BY StepBringsNoLoop
  <1> QED BY <1>1, Invariance, PTL DEF Spec, StoppedMeansStopped

\* What a step does to the files of an open screen that owns them.
LEMMA StepSparesFiles ==
  ASSUME IInv, [Next]_vars, NEW s \in Session, editor[s].view # 0, editor'[s].view = editor[s].view,
         editor[s].owner = editor[s].view, Files(s)' # Files(s)
  PROVE  \E r \in Request : /\ request[r].session = s /\ request[r].screen = editor[s].view
                            /\ request[r].step \in {"working", "busy"}
                            /\ request'[r] # request[r]
  <1>0. editor[s] \in Editor
    OBVIOUS
  <1>1. ASSUME editor'[s] = editor[s] PROVE FALSE
    BY <1>1 DEF Files
  <1>2. ASSUME NEW t \in Session, SessionStep(t) PROVE FALSE
    <2>1. CASE CloseEditor(t)
      BY <1>0, <2>1 DEF CloseEditor, Files, Editor
    \* No screen is open in a session that discards all its files.
    <2>2. CASE DiscardFiles(t)
      BY <1>1, <2>2 DEF DiscardFiles, ScreensInPhase
    <2> QED BY <1>1, <1>2, <2>1, <2>2 DEF SessionStep, Join, ClearCurrent, ReleaseSlot, Leave
  <1>3. ASSUME NEW t \in Session,
               Connect(t) \/ GiveUp(t) \/ Start(t) \/ Cancel(t) \/ Stop(t)
        PROVE  FALSE
    BY <1>1, <1>3 DEF Connect, GiveUp, Start, Cancel, Stop
  <1>4. ASSUME NEW t \in Session, Update(t) PROVE FALSE
    <2>1. CASE t # s
      BY <1>1, <1>4, <2>1 DEF Update, OpenScreen, CloseScreen, StartRendering, StopRendering
    <2>2. CASE t = s
      BY <1>0, <1>4, <2>2 DEF Update, OpenScreen, CloseScreen, StartRendering, StopRendering,
                              Files, Editor
    <2> QED BY <2>1, <2>2
  \* The cleanup of an earlier screen leaves the files of this one.
  <1>5. ASSUME NEW c \in cleanup, StartCommand(c) \/ RunCleanup(c) PROVE FALSE
    BY <1>1, <1>5 DEF StartCommand, RunCleanup, ScreensAreDrawn, Cleanup
  <1>6. ASSUME NEW r \in Request, NEW kind \in Kind, Serve(r, kind) PROVE FALSE
    BY <1>1, <1>6 DEF Serve, BeginVideoEdit
  <1>7. CASE Shutdown \/ ReturnServe \/ UNCHANGED vars
    BY <1>1, <1>7 DEF Shutdown, ReturnServe, vars
  <1>8. ASSUME NEW r \in Request, RequestStep(r), ~Inside(r) PROVE FALSE
    <2>1. CASE Disconnect(r) \/ CallbackRuns(r) \/ Refuse(r)
      BY <1>1, <2>1 DEF Disconnect, CallbackRuns, Refuse
    \* A request that is not cancelled comes from the open screen.
    <2>2. CASE EnterGate(r)
      <3>1. request[r].session = s
        BY <1>1, <2>2 DEF EnterGate, RequestsAreFor
      <3>2. request[r].screen = editor[s].owner
        BY <2>2, <3>1 DEF EnterGate, LateAreCancelled
      <3>3. editor' = [editor EXCEPT ![s] = [editor[s] EXCEPT !.gate = r,
                                                              !.owner = request[r].screen]]
        BY <2>2, <3>1, <3>2 DEF EnterGate
      <3> QED BY <1>0, <3>3 DEF Files, Editor
    <2> QED BY <1>8, <2>1, <2>2 DEF RequestStep, Handle, Finish, Begin, StageVideoSource,
                                    PrepareVideoLoop, AcceptVideoLoop, DiscardVideoPreview,
                                    StopVideoPreview, DiscardVideoSource
  <1>9. ASSUME NEW r \in Request, RequestStep(r), Inside(r)
        PROVE  /\ request[r].session = s /\ request[r].screen = editor[s].view
               /\ request'[r] # request[r]
    <2>1. request[r].session = s
      BY <1>1, <1>9 DEF RequestStep, Handle, Disconnect, CallbackRuns, Refuse, Finish, EnterGate,
                        Begin, StageVideoSource, PrepareVideoLoop, AcceptVideoLoop,
                        DiscardVideoPreview, StopVideoPreview, DiscardVideoSource, Return,
                        RequestsAreFor
    <2>2. request[r].screen = editor[s].view
      BY <1>9, <2>1 DEF OwnsFiles
    <2>3. request[r] \in Job /\ Idle.step = "idle"
      BY DEF Idle
    <2>4. CASE Disconnect(r) \/ CallbackRuns(r)
      BY <2>1, <2>2, <2>3, <2>4 DEF Disconnect, CallbackRuns, Job
    <2>5. CASE \E work \in Work, file \in 0 .. MaxFile : Begin(r, work, file)
      <3>1. PICK work \in Work, file \in 0 .. MaxFile : Begin(r, work, file)
        BY <2>5
      <3>2. /\ request[r].step = "working"
            /\ request'[r] = [request[r] EXCEPT !.kind = work, !.file = file, !.step = "busy"]
        BY <3>1 DEF Begin
      <3> QED BY <2>1, <2>2, <2>3, <3>2 DEF Job
    <2>6. CASE ~(Disconnect(r) \/ CallbackRuns(r))
               /\ ~\E work \in Work, file \in 0 .. MaxFile : Begin(r, work, file)
      BY <1>9, <2>1, <2>2, <2>3, <2>6
         DEF RequestStep, Handle, Refuse, Finish, EnterGate, StageVideoSource,
                              PrepareVideoLoop, AcceptVideoLoop, DiscardVideoPreview,
                              StopVideoPreview, DiscardVideoSource, Return
    <2> QED BY <2>4, <2>5, <2>6
  <1> QED BY <1>2, <1>3, <1>4, <1>5, <1>6, <1>7, <1>8, <1>9 DEF Next

\* The files of the open screen change only in a request of that screen.
THEOREM OwnFilesOnly == Spec => OtherScreensFilesStay
  <1>1. IInv /\ [Next]_vars =>
          [\A s \in Session :
             /\ editor[s].view # 0 /\ editor'[s].view = editor[s].view
             /\ editor[s].owner = editor[s].view
             /\ Files(s)' # Files(s)
             => \E r \in Request : /\ request[r].session = s /\ request[r].screen = editor[s].view
                                    /\ request[r].step \in {"working", "busy"}
                                    /\ request'[r] # request[r]]_vars
    BY StepSparesFiles
  <1> QED BY <1>1, Invariance, PTL DEF Spec, OtherScreensFilesStay
=============================================================================
