----------------------------- MODULE VisualScreen -----------------------------
(***************************************************************************)
(* The Visual screen and the page that serves it.  The terminal program    *)
(* owns the controls, the browser the file, the preview and the requests   *)
(* to the server.  The program numbers each operation it asks of the       *)
(* browser; the browser answers under that number, and either side drops   *)
(* what belongs to an earlier one.  The work of the browser is a set of    *)
(* async tasks that go on, from one await to the next, while the screen    *)
(* changes.                                                                *)
(*                                                                         *)
(* Of an operation's number it matters only whether it is still the last   *)
(* one: "live" in an answer compares it with the program's, "cur" in a     *)
(* task with the one the page received last.  A cut stands for the         *)
(* start, end and quality chosen, and a loop for the cut it was made of.   *)
(* What the editor of the server does behind a request, with its gate and  *)
(* cancellations, is in VideoEditor: here a request takes effect once or   *)
(* fails, and a request that was aborted has no effect later.  Framing,    *)
(* playback and the accessibility page are left out.                       *)
(***************************************************************************)
EXTENDS Naturals, Sequences, FiniteSets

CONSTANTS
  MaxCut,   \* cuts 1..MaxCut; 0 is none
  MaxWire,  \* bound: messages under way when the user acts
  MaxTasks  \* bound: tasks under way when the user acts

Cut == 1..MaxCut
FileType == {"image", "video"}

VARIABLES
  tui,      \* optionsState
  frames,   \* states on their way to the page: those that change the number or close it
  acts,     \* actions on their way to the program
  page,     \* ThoughtsVisual and ThoughtsVideoTrim
  tasks,    \* async functions of the page that have not ended
  server,   \* the files of the editor of this opening, and what is saved: a video or a still
  strayed,  \* history: the end of an earlier operation changed the candidate
  missed    \* history, of this opening: an error hid which loop the page holds

vars == <<tui, frames, acts, page, tasks, server, strayed, missed>>

Blank == [kind |-> "none", file |-> "none", local |-> FALSE, source |-> FALSE, accepted |-> 0]
NoFiles == [source |-> FALSE, pending |-> 0, accepted |-> 0]

Init ==
  /\ tui = [at |-> "away", request |-> "", checking |-> FALSE, video |-> FALSE,
            newVideo |-> FALSE, ready |-> FALSE, cut |-> 1, accepted |-> 1]
  /\ frames = <<>> /\ acts = <<>>
  /\ \E broken \in BOOLEAN :
       page = [open |-> FALSE, picker |-> FALSE, choosing |-> FALSE, saved |-> "still",
               broken |-> broken, candidate |-> Blank]
  /\ tasks = {}
  /\ server = [files |-> NoFiles, saved |-> "still"]
  /\ strayed = FALSE /\ missed = FALSE

-----------------------------------------------------------------------------
\* The keys of the program.  requestOptions numbers the operation: answers under way to
\* an earlier one are no longer live.
Dead == [i \in DOMAIN acts |-> [acts[i] EXCEPT !.live = FALSE]]

RequestOptions(changed, request) ==
  /\ tui' = [changed EXCEPT !.request = request,
                            !.checking = IF request = "discardVideo" THEN @ ELSE FALSE]
  /\ frames' = Append(frames, [open |-> changed.at \in {"form", "trim"},
                               request |-> request, cut |-> changed.cut])
  /\ acts' = Dead

\* Cuts mean nothing any more, and are reset to keep the states few.
Unsaved(s) == [s EXCEPT !.newVideo = FALSE, !.ready = FALSE, !.cut = 1, !.accepted = 1,
                        !.at = IF @ = "trim" THEN "form" ELSE @]

\* A closed screen closes the editor of the server at once.
Closed(s) == [s EXCEPT !.files = NoFiles]

\* The file picker takes the keyboard while it is shown.  After a stray the user rests.
MayAct ==
  /\ ~page.picker /\ ~strayed
  /\ Len(frames) + Len(acts) <= MaxWire /\ Cardinality(tasks) <= MaxTasks
Trimming == tui.at = "trim" \/ tui.checking
Form == tui.at = "form" /\ ~tui.checking
Keys == MayAct /\ UNCHANGED <<page, tasks, server, strayed, missed>>

OpenMenu ==
  /\ tui.at = "away" /\ Keys
  /\ tui' = [tui EXCEPT !.at = "menu", !.request = ""]
  /\ UNCHANGED <<frames, acts>>

LeaveMenu ==
  /\ tui.at = "menu" /\ Keys
  /\ tui' = [tui EXCEPT !.at = "away"]
  /\ UNCHANGED <<frames, acts>>

OpenVisual ==
  /\ tui.at = "menu" /\ MayAct
  /\ missed' = FALSE /\ UNCHANGED <<page, tasks, server, strayed>>
  /\ RequestOptions([Unsaved(tui) EXCEPT !.at = "form"], "load")

\* A save of a video can be left, any other save cannot.
LeaveForm ==
  /\ Form /\ MayAct
  /\ tui.request \notin {"apply", "remove"} \/ (tui.request = "apply" /\ tui.video)
  /\ RequestOptions([tui EXCEPT !.at = "menu"], "")
  /\ server' = Closed(server)
  /\ UNCHANGED <<page, tasks, strayed, missed>>

\* activateOption, of the form.
Activate(request) ==
  /\ Form /\ tui.request = "" /\ Keys
  /\ request = "apply" => ~tui.newVideo \/ tui.ready
  /\ RequestOptions(tui, request)

EditLoop ==
  /\ Form /\ tui.request = "" /\ tui.newVideo /\ Keys
  /\ RequestOptions([tui EXCEPT !.at = "trim"], "")

\* activateVideoTrim, of the page for the cut.
MoveCut ==
  /\ Trimming /\ tui.request = "" /\ Keys
  /\ \E c \in Cut : tui' = [tui EXCEPT !.cut = c]
  /\ UNCHANGED <<frames, acts>>

PreviewLoop ==
  /\ Trimming /\ tui.request = "" /\ Keys
  /\ ~tui.ready \/ tui.cut # tui.accepted
  /\ RequestOptions(tui, "prepareLoop")

StopPreview ==
  /\ Trimming /\ tui.request = "prepareLoop" /\ Keys
  /\ RequestOptions(tui, "stopPreview")

Done ==
  /\ Trimming /\ tui.request = "" /\ tui.ready /\ Keys
  /\ RequestOptions([tui EXCEPT !.at = "form"], "")

Cancel ==
  /\ Trimming /\ Keys
  /\ \/ tui.request \in {"", "prepareLoop", "stopPreview"}
     \/ tui.checking /\ tui.request = "choose"
  /\ RequestOptions(tui, "discardVideo")

-----------------------------------------------------------------------------
\* The page.  close() ends the generation of the trimmer: its requests are aborted and its
\* tasks end without a word.
Trimmer == {"upload", "prepare", "stop", "discard"}
Abandon(ts) == {t \in ts : t.kind \notin Trimmer}
Close(candidate) == [candidate EXCEPT !.local = FALSE, !.source = FALSE, !.accepted = 0]

Task(kind, step, cut) == [kind |-> kind, step |-> step, cut |-> cut, cur |-> TRUE]

\* reply: nothing is said of an operation that is not the last; p is the page as it is then.
Reply(t, action, cut, p) ==
  LET video == IF p.candidate.kind = "none" THEN p.saved = "video"
               ELSE p.candidate.kind = "video"
      answer == [act |-> action, cut |-> cut, video |-> video, live |-> frames = <<>>]
  IN acts' = IF t.cur THEN Append(acts, answer) ELSE acts

\* What save() posts.
SavedBody(c) ==
  CASE c.file = "none" -> "settings"
    [] c.file # "none" /\ c.kind # "video" -> "image"
    [] OTHER -> "video"

\* receive: each request begins a task; a state of the same number is only shown.
Started(f) ==
  LET c == page.candidate IN
  CASE f.request \in {"load", "choose"} -> {Task(f.request, "ready", 0)}
    [] f.request = "prepareLoop" -> {Task("prepare", "render", f.cut)}
    [] f.request = "stopPreview" -> {Task("stop", "join", 0)}
    [] f.request = "discardVideo" -> {Task("discard", "request", 0)}
    [] f.request = "remove" -> {Task("save", "remove", 0)}
    [] f.request = "apply" -> {Task("save", SavedBody(c), c.accepted)}
    [] OTHER -> {}

\* stopRendering aborts the encoding only; a loop that is there goes on to be accepted.
Interrupted(ts) == {t \in ts : ~(t.kind = "prepare" /\ t.step = "render")}

Left(f, ts) ==
  CASE ~f.open \/ f.request = "discardVideo" -> Abandon(ts)
    [] f.open /\ f.request = "stopPreview" -> Interrupted(ts)
    [] f.open /\ f.request = "prepareLoop" -> {t \in ts : t.kind # "prepare"}
    [] OTHER -> ts

Receive ==
  /\ frames # <<>>
  /\ LET f == Head(frames)
         stale == {[t EXCEPT !.cur = FALSE, !.cut = IF t.kind = "save" THEN 0 ELSE @] :
                     t \in Left(f, tasks)}
     IN /\ frames' = Tail(frames)
        /\ tasks' = IF f.open THEN stale \cup Started(f) ELSE stale
        /\ page' = [page EXCEPT !.open = f.open, !.choosing = f.open /\ f.request = "choose",
             !.candidate = IF ~f.open THEN Blank
                           ELSE IF f.request = "discardVideo" THEN Close(@) ELSE @]
  /\ UNCHANGED <<tui, acts, server, strayed, missed>>

Replace(t, new) == tasks' = (tasks \ {t}) \cup new
Unserved == UNCHANGED <<tui, frames, server, missed>>

\* restore: what is saved is read again and shown, unless that fails.
Activated(p, broken) ==
  [p EXCEPT !.broken = broken, !.saved = IF broken THEN @ ELSE server.saved]

\* load and choose wait for the saved background, and read it again if that had failed.
Restored(p) == IF p.broken THEN {Activated(p, broken) : broken \in BOOLEAN} ELSE {p}

Loaded(t) ==
  /\ t.kind = "load" /\ Replace(t, {})
  /\ page' \in Restored(page)
  /\ Reply(t, IF page'.broken THEN "failed" ELSE "loaded", 0, page')
  /\ Unserved /\ UNCHANGED strayed

ShowPicker(t) ==
  /\ t.kind = "choose" /\ Replace(t, {})
  /\ \E p \in Restored(page) :
       /\ page' = [p EXCEPT !.picker = @ \/ (t.cur /\ ~p.broken)]
       /\ IF p.broken THEN Reply(t, "failed", 0, p) ELSE UNCHANGED acts
       /\ missed' = (missed \/ (t.cur /\ p.broken /\ p.candidate.accepted # 0))
  /\ UNCHANGED <<tui, frames, server, strayed>>

\* The user picks a file, or none.
Pick ==
  /\ page.picker
  /\ \/ /\ page.choosing
        /\ \E type \in FileType :
             /\ page' = [page EXCEPT !.picker = FALSE, !.candidate.file = type]
             /\ tasks' = tasks \cup {Task("file", type, 0)}
     \/ /\ ~page.choosing
        /\ page' = [page EXCEPT !.picker = FALSE, !.candidate.file = "none"]
        /\ UNCHANGED tasks
  /\ Unserved /\ UNCHANGED <<acts, strayed>>

CancelPick ==
  /\ page.picker
  /\ page' = [page EXCEPT !.picker = FALSE]
  /\ Reply([Task("file", "image", 0) EXCEPT !.cur = page.open], "cancelled", 0, page)
  /\ Unserved /\ UNCHANGED <<tasks, strayed>>

\* previewFile goes on once the first bytes of the file are read, without a look at the
\* number of the operation.
Stray(t) == strayed' = (strayed \/ ~t.cur)

SelectSource(t) ==
  /\ t.kind = "file" /\ t.step = "video"
  /\ page' = [page EXCEPT !.candidate = [Close(@) EXCEPT !.local = TRUE]]
  /\ tasks' = Abandon(tasks \ {t}) \cup {[t EXCEPT !.kind = "upload", !.step = "request"]}
  /\ Reply(t, "checking", 0, page)
  /\ Stray(t) /\ Unserved

ReplaceSource(t) ==
  /\ t.kind = "file" /\ t.step = "image" /\ page.candidate.local
  /\ page' = [page EXCEPT !.candidate = Close(@)]
  /\ tasks' = Abandon(tasks \ {t}) \cup {[t EXCEPT !.step = "request"]}
  /\ Stray(t) /\ Unserved /\ UNCHANGED acts

SelectImage(t) ==
  /\ t.kind = "file"
  /\ t.step = "done" \/ (t.step = "image" /\ ~page.candidate.local)
  /\ page' = [page EXCEPT !.candidate.kind = "image"]
  /\ Replace(t, {[t EXCEPT !.step = "decode"]})
  /\ Stray(t) /\ Unserved /\ UNCHANGED acts

ShowImage(t) ==
  /\ t.kind = "file" /\ t.step = "decode" /\ Replace(t, {})
  /\ Reply(t, "selected", 0, page)
  /\ Unserved /\ UNCHANGED <<page, strayed>>

-----------------------------------------------------------------------------
\* The requests of the trimmer.  The server knows the editor that the page names only while
\* the screen is open, and the rendering only while the program asks for it.  Of the tasks
\* that outlive a close(), one that is not the last belongs to an earlier opening.
Current == page.open /\ \A i \in DOMAIN frames : frames[i].open
Rendering(t) == Current /\ t.cur /\ tui.request = "prepareLoop"

Serve(t, files, step) ==
  /\ server' = [server EXCEPT !.files = files]
  /\ Replace(t, {[t EXCEPT !.step = step]})
  /\ UNCHANGED <<tui, frames, acts, page, strayed, missed>>

Stage(t) ==
  /\ t.kind = "upload" /\ t.step = "request" /\ Current
  /\ Serve(t, [NoFiles EXCEPT !.source = TRUE], "done")

Render(t) ==
  /\ t.kind = "prepare" /\ t.step = "render" /\ Rendering(t)
  /\ page.candidate.source /\ server.files.source
  /\ Serve(t, [server.files EXCEPT !.pending = t.cut], "rendered")

\* The page can show the loop: only now does it replace the one before.
Acknowledge(t) ==
  /\ t.kind = "prepare" /\ t.step = "rendered" /\ Current
  /\ server.files.pending = t.cut
  /\ Serve(t, [server.files EXCEPT !.accepted = t.cut, !.pending = 0], "done")

\* Mutant of Joined: Stop does not wait for the task that prepares the loop.
JoinsNothing == TRUE
Joined == \A t \in tasks : t.kind # "prepare"

Join(t) ==
  /\ t.kind = "stop" /\ t.step = "join" /\ Joined
  /\ Replace(t, IF t.cur THEN {[t EXCEPT !.step = "request"]} ELSE {})
  /\ Unserved /\ UNCHANGED <<acts, page, strayed>>

ServeStop(t) ==
  /\ t.kind = "stop" /\ t.step = "request" /\ Current
  /\ page.candidate.source /\ server.files.source
  /\ Serve(t, [server.files EXCEPT !.pending = 0], "done")

ServeDiscard(t) ==
  /\ t.kind \in {"discard", "file"} /\ t.step = "request"
  /\ Serve(t, IF Current /\ t.cur THEN NoFiles ELSE server.files, "done")

\* What the page does with an answer, if the operation is still the last one.
Selected(t) ==
  /\ t.kind = "upload" /\ t.step = "done" /\ Replace(t, {})
  /\ page' = IF t.cur THEN [page EXCEPT !.candidate.source = TRUE, !.candidate.kind = "video"]
             ELSE page
  /\ Reply(t, "sourceSelected", 0, page')
  /\ Unserved /\ UNCHANGED strayed

Accepted(t) ==
  /\ t.kind = "prepare" /\ t.step = "done" /\ Replace(t, {})
  /\ page' = [page EXCEPT !.candidate.accepted = t.cut]
  /\ Reply(t, "loopReady", t.cut, page')
  /\ Unserved /\ UNCHANGED strayed

Stopped(t) ==
  /\ t.kind = "stop" /\ t.step = "done" /\ Replace(t, {})
  /\ Reply(t, "previewStopped", page.candidate.accepted, page)
  /\ Unserved /\ UNCHANGED <<page, strayed>>

Discarded(t) ==
  /\ t.kind = "discard" /\ t.step = "done" /\ Replace(t, {})
  /\ page' = IF t.cur THEN [page EXCEPT !.candidate = Blank] ELSE page
  /\ Reply(t, "discarded", 0, page')
  /\ Unserved /\ UNCHANGED strayed

\* Any request fails, also after it took effect; so does the decoding of an image.
Failed(t) ==
  /\ \/ t.kind \in {"upload", "prepare"}
     \/ t.kind = "file" /\ t.step \in {"image", "request", "done", "decode"}
  /\ page' = [page EXCEPT !.candidate =
       IF t.kind \in {"upload", "file"} /\ t.cur THEN Blank
       ELSE IF t.kind = "upload" THEN Close(@) ELSE @]
  /\ tasks' = IF t.kind = "upload" \/ (t.kind = "file" /\ t.cur)
              THEN Abandon(tasks \ {t}) ELSE tasks \ {t}
  /\ Reply(t, "failed", 0, page')
  /\ Unserved /\ UNCHANGED strayed

StopFails(t) ==
  /\ t.kind = "stop" /\ t.step \in {"request", "done"} /\ Replace(t, {})
  /\ Reply(t, "failed", 0, page)
  /\ missed' = (missed \/ t.cur)
  /\ UNCHANGED <<tui, frames, server, page, strayed>>

DiscardFails(t) ==
  /\ t.kind = "discard" /\ t.step = "request"
  /\ Replace(t, {[t EXCEPT !.step = "done"]})
  /\ Unserved /\ UNCHANGED <<acts, page, strayed>>

-----------------------------------------------------------------------------
\* save().  The server refuses a video that is sent as an image, and a loop that is not the
\* one it holds; a request without a loop is not sent.
Store(t) ==
  /\ t.kind = "save"
  /\ CASE t.step = "video" -> /\ Current /\ t.cur /\ t.cut # 0 /\ server.files.accepted = t.cut
                             /\ server' = [files |-> NoFiles, saved |-> "video"]
       [] t.step = "image" -> /\ page.candidate.file = "image"
                             /\ server' = [server EXCEPT !.saved = "still"]
       [] t.step = "remove" -> server' = [server EXCEPT !.saved = "still"]
       [] t.step = "settings" -> UNCHANGED server
       [] t.step = "stored" -> FALSE
  /\ Replace(t, {[t EXCEPT !.step = "stored"]})
  /\ UNCHANGED <<tui, frames, acts, page, strayed, missed>>

\* The page shows what was saved.  If it cannot ("displayFailed"), or if files were left over
\* ("warning"), it discards the preview, again without a look at the number of the operation.
Saved(t) ==
  /\ t.kind = "save" /\ t.step = "stored" /\ Replace(t, {})
  /\ page' = [page EXCEPT !.saved = server.saved]
  /\ Reply(t, "saved", 0, page')
  /\ Unserved /\ UNCHANGED strayed

SavedWithWarning(t) ==
  /\ t.kind = "save" /\ t.step = "stored"
  /\ tasks' = Abandon(tasks \ {t})
  /\ \E broken \in BOOLEAN :
       page' = [page EXCEPT !.saved = server.saved, !.candidate = Blank, !.broken = @ \/ broken]
  /\ Reply(t, "warning", 0, page')
  /\ Stray(t) /\ Unserved

\* The answer is an error, or it is lost and the saved background is read again.
SaveRefused(t) ==
  /\ t.kind = "save" /\ t.step # "stored" /\ Replace(t, {})
  /\ Reply(t, "failed", 0, page)
  /\ Unserved /\ UNCHANGED <<page, strayed>>

SaveUnconfirmed(t) ==
  /\ t.kind = "save" /\ Replace(t, {})
  /\ \E broken \in BOOLEAN : page' = Activated(page, broken)
  /\ Reply(t, "unconfirmed", 0, page')
  /\ Unserved /\ UNCHANGED strayed

-----------------------------------------------------------------------------
\* updateBrowserOptions: answers to the operation that the program asked for last.

\* Mutant of Owned: any answer to an operation of that kind is taken.
OwnedByKind(a) == tui.request # ""
Owned(a) == tui.at \in {"form", "trim"} /\ a.live /\ tui.request # ""

Ignores(a) ==
  CASE a.act \in {"checking", "cancelled", "selected", "sourceSelected"} -> tui.request # "choose"
    [] a.act = "loopReady" -> tui.request # "prepareLoop"
    [] a.act = "previewStopped" -> tui.request # "stopPreview"
    [] a.act = "discarded" -> tui.request # "discardVideo"
    [] a.act = "loaded" -> tui.request # "load"
    [] a.act \in {"saved", "warning"} -> tui.request \notin {"apply", "remove"}
    [] a.act \in {"failed", "unconfirmed"} -> FALSE

Answered == [tui EXCEPT !.request = "", !.checking = FALSE]
Shown(s, cut) == [s EXCEPT !.ready = TRUE, !.accepted = cut]

\* Mutant of AfterStop: what Stop brings with it is dropped.
AfterStopForgotten(a) == Answered

\* A loop acknowledged before Stop remains the usable preview.
AfterStop(a) ==
  IF a.cut = 0 \/ (tui.ready /\ tui.accepted = a.cut) THEN Answered ELSE Shown(Answered, a.cut)

After(a) ==
  CASE a.act = "checking" -> [tui EXCEPT !.checking = TRUE]
    [] a.act = "sourceSelected" -> [Answered EXCEPT !.at = "trim", !.video = TRUE,
                                      !.newVideo = TRUE, !.ready = FALSE, !.cut = 1, !.accepted = 1]
    [] a.act = "selected" -> [Answered EXCEPT !.newVideo = FALSE, !.video = a.video, !.cut = 1, !.accepted = 1]
    [] a.act = "loopReady" -> Shown(Answered, a.cut)
    [] a.act = "previewStopped" -> AfterStop(a)
    [] a.act \in {"discarded", "warning"} -> [Unsaved(Answered) EXCEPT !.video = a.video]
    [] a.act = "saved" -> [Unsaved(Answered) EXCEPT !.video = a.video, !.at = "away"]
    [] a.act = "loaded" -> [Answered EXCEPT !.video = a.video]
    [] a.act = "failed" /\ tui.request = "choose" -> [Unsaved(Answered) EXCEPT !.video = a.video]
    [] OTHER -> Answered

Update ==
  /\ acts # <<>>
  /\ LET a == Head(acts)
         taken == Owned(a) /\ ~Ignores(a)
         closes == taken /\ a.act = "saved"
     IN /\ tui' = IF taken THEN After(a) ELSE tui
        /\ frames' = IF closes THEN Append(frames, [open |-> FALSE, request |-> "", cut |-> 1])
                     ELSE frames
        /\ acts' = Tail(acts)
        /\ server' = IF closes THEN Closed(server) ELSE server
  /\ UNCHANGED <<page, tasks, strayed, missed>>

-----------------------------------------------------------------------------
Next ==
  \/ OpenMenu \/ LeaveMenu \/ OpenVisual \/ LeaveForm \/ EditLoop
  \/ \E request \in {"choose", "apply", "remove"} : Activate(request)
  \/ MoveCut \/ PreviewLoop \/ StopPreview \/ Done \/ Cancel
  \/ Receive \/ Pick \/ CancelPick \/ Update
  \/ \E t \in tasks :
       \/ Loaded(t) \/ ShowPicker(t)
       \/ SelectSource(t) \/ ReplaceSource(t) \/ SelectImage(t) \/ ShowImage(t)
       \/ Stage(t) \/ Render(t) \/ Acknowledge(t) \/ Join(t) \/ ServeStop(t) \/ ServeDiscard(t)
       \/ Selected(t) \/ Accepted(t) \/ Stopped(t) \/ Discarded(t) \/ Failed(t)
       \/ StopFails(t) \/ DiscardFails(t)
       \/ Store(t) \/ Saved(t) \/ SavedWithWarning(t) 
       \/ SaveRefused(t) \/ SaveUnconfirmed(t)

Spec == Init /\ [][Next]_vars

-----------------------------------------------------------------------------
\* An operation the program waits for is answered: its request, its task, the file picker
\* or its answer is on its way.
AwaitedIsComing ==
  tui.request # "" /\ tui.at \in {"form", "trim"} /\ ~strayed
    => \/ frames # <<>> \/ (\E i \in DOMAIN acts : acts[i].live /\ acts[i].act # "checking")
       \/ (page.picker /\ tui.request = "choose") \/ \E t \in tasks : t.cur

Quiet == frames = <<>> /\ acts = <<>>
OffersVideo == tui.newVideo /\ tui.at \in {"form", "trim"} /\ tui.request = ""
HoldsVideo ==
  /\ page.candidate.source /\ page.candidate.kind = "video"
  /\ tui.ready => page.candidate.accepted # 0

\* While nothing is under way, the page holds the video that the program offers to cut, and
\* a loop of it if the program offers to apply one.
CandidateIsHeld == OffersVideo /\ Quiet /\ ~strayed => HoldsVideo

\* The same, whatever is left of operations of earlier pages.
LateResultsChangeNothing == OffersVideo /\ Quiet => HoldsVideo

\* The loop that is saved is the one the program shows as previewed, also when the rendering
\* of another one was stopped too late.  Two errors are left out: if the request to stop
\* fails, the program does not learn of a loop that was accepted in time; and if the picker
\* cannot be shown, it forgets a loop that the page keeps.  Either loop may then be saved.
SavedAsPreviewed ==
  \A t \in tasks : t.step = "video" /\ Store(t)
    => missed \/ (tui.ready /\ t.cut = tui.accepted)

-----------------------------------------------------------------------------
(* What these rest on.  An operation is asked for when none is awaited,     *)
(* except for those that end one: so the requests on their way, what the    *)
(* page works on and the answers on their way are of one operation each.    *)

Screen == tui.at \in {"form", "trim"}
Requests ==
  {"", "load", "choose", "apply", "remove", "prepareLoop", "stopPreview", "discardVideo"}
Frame == [open : BOOLEAN, request : Requests, cut : Cut]
Act == [act : {"checking", "cancelled", "selected", "sourceSelected", "loopReady",
               "previewStopped", "discarded", "loaded", "saved", "warning", "failed",
               "unconfirmed"}, cut : Cut \cup {0}, video : BOOLEAN, live : BOOLEAN]
TuiState ==
  [at : {"away", "menu", "form", "trim"}, request : Requests, checking : BOOLEAN,
   video : BOOLEAN, newVideo : BOOLEAN, ready : BOOLEAN, cut : Cut, accepted : Cut]
Candidate ==
  [kind : {"none", "image", "video"}, file : {"none", "image", "video"}, local : BOOLEAN,
   source : BOOLEAN, accepted : Cut \cup {0}]
Page ==
  [open : BOOLEAN, picker : BOOLEAN, choosing : BOOLEAN, saved : {"still", "video"},
   broken : BOOLEAN, candidate : Candidate]
TaskType ==
  [kind : {"load", "choose", "file", "upload", "prepare", "stop", "discard", "save"},
   step : {"ready", "render", "rendered", "join", "request", "done", "decode", "remove",
           "settings", "image", "video", "stored"}, cut : Cut \cup {0}, cur : BOOLEAN]
Server ==
  [files : [source : BOOLEAN, pending : Cut \cup {0}, accepted : Cut \cup {0}],
   saved : {"still", "video"}]

TypeOK ==
  /\ tui \in TuiState /\ page \in Page /\ server \in Server
  /\ frames \in Seq(Frame) /\ acts \in Seq(Act) /\ tasks \subseteq TaskType
  /\ strayed \in BOOLEAN /\ missed \in BOOLEAN

ScreenOK ==
  /\ tui.checking => Screen
  /\ tui.newVideo /\ Screen => tui.request # "load"

\* What the page works on now.
Working == (\E t \in tasks : t.cur) \/ (page.picker /\ page.choosing)

\* Asked for when nothing is awaited.
Fresh(f) == f.open /\ f.request \in {"", "choose", "apply", "remove", "prepareLoop"}
Plain(f) == f.open /\ f.request = ""

BeginsOne(i) ==
  /\ Fresh(frames[i]) => ~Working /\ \A j \in DOMAIN frames : j < i => Plain(frames[j])
  /\ frames[i].request = "choose" => ~page.picker
StopsOne(i) ==
  frames[i].request = "stopPreview" =>
    /\ ~(page.picker /\ page.choosing) /\ \A t \in tasks : t.cur => t.kind = "prepare"
    /\ \A j \in DOMAIN frames : j < i => Plain(frames[j]) \/ frames[j].request = "prepareLoop"
DiscardsOne(i) ==
  frames[i].request = "discardVideo" =>
    \A j \in DOMAIN frames : j < i => frames[j].request # "apply"
OpenBefore(i) == (i = 1 /\ page.open) \/ (i # 1 /\ frames[i - 1].open)
OpensOne(i) ==
  IF frames[i].open THEN frames[i].request = "load" <=> ~OpenBefore(i) ELSE frames[i].request = ""
QueueOK ==
  \A i \in DOMAIN frames : BeginsOne(i) /\ StopsOne(i) /\ DiscardsOne(i) /\ OpensOne(i)

LastOK ==
  /\ frames # <<>> =>
       /\ frames[Len(frames)].open <=> Screen
       /\ Screen => frames[Len(frames)].request = tui.request
  /\ frames = <<>> =>
       /\ page.open <=> Screen
       /\ Screen /\ tui.request # "" => (page.choosing <=> tui.request = "choose")
  /\ Screen /\ tui.request = "" => ~Working /\ \A i \in DOMAIN frames : Plain(frames[i])
  /\ Screen => Current \/ tui.request = "load"

FramesOK == QueueOK /\ LastOK

Kinds(request) ==
  CASE request = "choose" -> {"choose", "file", "upload"}
    [] request = "prepareLoop" -> {"prepare"}
    [] request = "stopPreview" -> {"stop"}
    [] request = "discardVideo" -> {"discard"}
    [] request = "load" -> {"load"}
    [] request \in {"apply", "remove"} -> {"save"}
    [] OTHER -> {}

\* What the page still works on may be ended by what is asked for now.
Outlived(t) ==
  /\ frames # <<>>
  /\ \/ tui.request \in {"load", "discardVideo"}
     \/ tui.request = "stopPreview" /\ t.kind = "prepare"

Saves == {"settings", "image", "video", "remove", "stored"}

TasksOK ==
  /\ \A t, u \in tasks : t.cur /\ u.cur => t = u
  /\ page.picker /\ page.choosing => \A t \in tasks : ~t.cur
  /\ ~page.open => ~page.choosing /\ \A t \in tasks : ~t.cur
  /\ Screen => \A t \in tasks : t.cur => t.kind \in Kinds(tui.request) \/ Outlived(t)
  /\ \A t \in tasks :
       /\ t.kind \in {"stop", "discard"} => t.cur
       /\ t.kind = "upload" => t.cur \/ strayed
       /\ t.kind = "save" => t.step \in Saves
       /\ t.kind = "prepare" =>
            t.cut # 0 /\ (t.cur \/ \E u \in tasks : u.cur /\ u.kind = "stop" /\ u.step = "join")

\* The answers that end an operation.
Finals(request) ==
  CASE request = "choose" -> {"cancelled", "selected", "sourceSelected", "failed"}
    [] request = "prepareLoop" -> {"loopReady", "failed"}
    [] request = "stopPreview" -> {"previewStopped", "failed"}
    [] request = "discardVideo" -> {"discarded"}
    [] request = "load" -> {"loaded", "failed"}
    [] request \in {"apply", "remove"} -> {"saved", "warning", "failed", "unconfirmed"}
    [] OTHER -> {}

Final(i) == acts[i].live /\ acts[i].act \in Finals(tui.request)

ActsOK ==
  Screen /\ tui.request # "" =>
    /\ \A i \in DOMAIN acts : acts[i].live =>
         /\ frames = <<>>
         /\ acts[i].act \in Finals(tui.request)
              \/ (acts[i].act = "checking" /\ tui.request = "choose")
              \/ (acts[i].act = "cancelled" /\ tui.request # "choose")
    /\ \A i, j \in DOMAIN acts : Final(i) /\ Final(j) => i = j
    /\ \A i \in DOMAIN acts : Final(i) => ~Working
    /\ ~strayed => frames # <<>> \/ Working \/ \E i \in DOMAIN acts : Final(i)

\* The candidate.
Loop == page.candidate.accepted
KnownLoop(a) == a.cut = Loop \/ (strayed /\ Loop = 0)
CandidateOK ==
  /\ Loop # 0 => page.candidate.local
  /\ page.candidate.source => page.candidate.local
  /\ ~page.open => Loop = 0
  /\ \A t \in tasks :
       /\ t.kind = "prepare" /\ t.step # "render" => page.candidate.local
       /\ t.cur /\ t.kind = "upload" => Loop = 0 /\ page.candidate.local
       /\ t.cur /\ t.kind = "file" /\ t.step \in {"request", "done", "decode"} => Loop = 0

AnswersOK ==
  Screen /\ tui.request # "" =>
    \A i \in DOMAIN acts : acts[i].live =>
      /\ acts[i].act \in {"sourceSelected", "selected", "warning", "discarded"} => Loop = 0
      /\ acts[i].act = "failed" /\ tui.request = "choose" => Loop = 0 \/ missed
      /\ acts[i].act = "failed" /\ tui.request = "stopPreview" => missed
      /\ acts[i].act = "loopReady" => acts[i].cut # 0 /\ KnownLoop(acts[i])
      /\ acts[i].act = "previewStopped" => KnownLoop(acts[i])
      /\ acts[i].act = "sourceSelected" /\ ~strayed =>
           page.candidate.source /\ page.candidate.kind = "video"

NewVideoIsHeld ==
  tui.newVideo /\ Screen /\ ~strayed =>
    \/ HoldsVideo
    \/ tui.request = "discardVideo"
    \/ /\ tui.request \in {"apply", "remove"}
       /\ \E i \in DOMAIN acts : acts[i].live /\ acts[i].act = "warning"
    \/ /\ tui.request = "choose"
       /\ \/ \E t \in tasks : t.cur /\ t.kind \in {"file", "upload"}
          \/ \E i \in DOMAIN acts :
               acts[i].live /\ acts[i].act \in {"selected", "sourceSelected", "failed"}

LoopIsKnown ==
  ~missed /\ Current /\ Loop # 0 =>
    \/ tui.request \in {"stopPreview", "discardVideo"}
    \/ tui.ready /\ tui.accepted = Loop
    \/ /\ tui.request = "prepareLoop"
       /\ \E i \in DOMAIN acts : acts[i].live /\ acts[i].act = "loopReady" /\ acts[i].cut = Loop

SavesOK ==
  \A t \in tasks : t.kind = "save" /\ t.step = "video" /\ t.cur /\ t.cut # 0 /\ Current
    => missed \/ (tui.ready /\ tui.accepted = t.cut)

IInv ==
  /\ TypeOK /\ ScreenOK /\ FramesOK /\ TasksOK /\ ActsOK /\ CandidateOK /\ AnswersOK
  /\ NewVideoIsHeld /\ LoopIsKnown /\ SavesOK
=============================================================================
