----------------------------- MODULE VisualStore -----------------------------
(***************************************************************************)
(* The background of one user: files in a folder and a row that selects    *)
(* one of them.  The two are stored apart, so the order of the writes      *)
(* decides what a crash or a failure leaves behind.  One process serves    *)
(* requests, each in its own goroutine, behind one gate.                   *)
(***************************************************************************)
EXTENDS Integers

CONSTANTS
  Asset,       \* file names, chosen at random
  VideoAsset,  \* those that end in .mp4; a poster belongs to each
  Request,     \* goroutines that serve a request
  Nothing      \* no background, nobody

ASSUME VisualAssumption ==
  VideoAsset \subseteq Asset /\ Nothing \notin Asset \cup Request

VARIABLES
  selection,   \* background_asset of the row
  disk,        \* the display copy and the poster of every name
  gate,        \* the request that holds Service.gate
  request      \* what each request is doing

visualVars == <<selection, disk, gate, request>>

Part == {"display", "poster"}
Content == {"absent", "partial", "whole"}
Kind == {"import", "apply", "settings", "remove", "background", "poster"}
Step == {"idle", "loaded", "writing", "written", "removing"}

\* row is what was loaded, asset the new name, part the file in hand, and
\* target the name whose files are being removed.
Job == [kind : Kind, step : Step, row : Asset \cup {Nothing}, asset : Asset \cup {Nothing},
        part : Part, target : Asset \cup {Nothing}]

TypeOK ==
  /\ selection \in Asset \cup {Nothing}
  /\ disk \in [Asset -> [Part -> Content]]
  /\ gate \in Request \cup {Nothing}
  /\ request \in [Request -> Job]

Idle == [kind |-> "settings", step |-> "idle", row |-> Nothing, asset |-> Nothing,
         part |-> "display", target |-> Nothing]

Init ==
  /\ selection = Nothing
  /\ disk = [a \in Asset |-> [p \in Part |-> "absent"]]
  /\ gate = Nothing
  /\ request = [r \in Request |-> Idle]
-----------------------------------------------------------------------------
Parts(a) == IF a \in VideoAsset THEN Part ELSE {"display"}

\* Both files of a video, the one of an image, written to the end and synced.
Complete(a) == \A p \in Parts(a) : disk[a][p] = "whole"

At(r, step) == request[r].step = step
Set(r, job) == request' = [request EXCEPT ![r] = job]

\* The handler returns and gives the gate back.
Release(r) ==
  /\ gate' = Nothing
  /\ Set(r, Idle)

\* removeAsset begins with the display copy.  Nothing is removed of no asset.
RemoveAsset(r, a) ==
  IF a = Nothing
  THEN Release(r)
  ELSE /\ Set(r, [request[r] EXCEPT !.step = "removing", !.target = a, !.part = "display"])
       /\ UNCHANGED gate

\* Mutant of Acquire: readers of a file do not wait for the gate.
AcquireToWrite(r, kind) ==
  IF kind \in {"background", "poster"} THEN UNCHANGED gate ELSE gate = Nothing /\ gate' = r

\* Writers give up at once when the gate is taken, readers wait for it.
Acquire(r, kind) == gate = Nothing /\ gate' = r

\* load: every handler reads the row first, while it holds the gate.
Load(r, kind) ==
  /\ At(r, "idle")
  /\ Acquire(r, kind)
  /\ Set(r, [Idle EXCEPT !.kind = kind, !.step = "loaded", !.row = selection])
  /\ UNCHANGED <<selection, disk>>

\* Load alone, a background that is not selected, and every refusal or failure
\* before the first write.
Return(r) ==
  /\ At(r, "loaded")
  /\ gate' = IF gate = r THEN Nothing ELSE gate
  /\ Set(r, Idle)
  /\ UNCHANGED <<selection, disk>>

\* O_EXCL: the name was not there, so the file is new and empty.
OpenFile(r, a, p) ==
  /\ disk[a][p] = "absent"
  /\ disk' = [disk EXCEPT ![a][p] = "partial"]
  /\ Set(r, [request[r] EXCEPT !.step = "writing", !.asset = a, !.part = p])
  /\ UNCHANGED <<selection, gate>>

\* commitBackground begins: a fresh name, of the kind that the request brings.
CommitBackground(r, a) ==
  /\ At(r, "loaded")
  /\ request[r].kind = IF a \in VideoAsset THEN "apply" ELSE "import"
  /\ a # selection
  /\ \A p \in Part : disk[a][p] = "absent"
  /\ OpenFile(r, a, "display")

\* Mutant of LastPart: the poster is taken to be optional.
LastPartDisplay(r) == request[r].part = "display"

\* The file in hand is the last one that has to be written before the row.
LastPart(r) == request[r].asset \in VideoAsset => request[r].part = "poster"

WritePart(r) ==
  /\ At(r, "writing")
  /\ disk[request[r].asset][request[r].part] = "partial"
  /\ disk' = [disk EXCEPT ![request[r].asset][request[r].part] = "whole"]
  /\ Set(r, [request[r] EXCEPT !.step = "written"])
  /\ UNCHANGED <<selection, gate>>

WritePoster(r) ==
  /\ At(r, "written")
  /\ ~LastPart(r)
  /\ OpenFile(r, request[r].asset, "poster")

\* A write, a sync or the save failed, or the request was cancelled: the new
\* files go.
Undo(r) ==
  /\ request[r].step \in {"writing", "written"}
  /\ RemoveAsset(r, request[r].asset)
  /\ UNCHANGED <<selection, disk>>

\* The row selects the new files; then the previous ones go.
SaveBackground(r) ==
  /\ At(r, "written")
  /\ LastPart(r)
  /\ selection' = request[r].asset
  /\ RemoveAsset(r, request[r].row)
  /\ UNCHANGED disk

\* UpdateSettings and UpdateAccessibility write the whole row as it was loaded,
\* with other preferences.
SaveSettings(r) ==
  /\ At(r, "loaded")
  /\ request[r].kind = "settings"
  /\ selection' = request[r].row
  /\ Release(r)
  /\ UNCHANGED disk

Remove(r) ==
  /\ At(r, "loaded")
  /\ request[r].kind = "remove"
  /\ selection' = Nothing
  /\ RemoveAsset(r, request[r].row)
  /\ UNCHANGED disk

\* One file is removed, or its removal fails and it stays.  The poster of a
\* video is next in either case.
RemoveFile(r) ==
  LET a == request[r].target
      p == request[r].part
  IN /\ At(r, "removing")
     /\ \/ disk' = [disk EXCEPT ![a][p] = "absent"]
        \/ UNCHANGED disk
     /\ IF a \in VideoAsset /\ p = "display"
        THEN Set(r, [request[r] EXCEPT !.part = "poster"]) /\ UNCHANGED gate
        ELSE Release(r)
     /\ UNCHANGED selection

\* The process ends at any point and is started again.
Crash ==
  /\ gate' = Nothing
  /\ request' = [r \in Request |-> Idle]
  /\ UNCHANGED <<selection, disk>>
-----------------------------------------------------------------------------
Next ==
  \/ \E r \in Request :
       \/ \E kind \in Kind : Load(r, kind)
       \/ Return(r)
       \/ \E a \in Asset : CommitBackground(r, a)
       \/ WritePart(r) \/ WritePoster(r) \/ Undo(r)
       \/ SaveBackground(r) \/ SaveSettings(r) \/ Remove(r) \/ RemoveFile(r)
  \/ Crash

Spec == Init /\ [][Next]_visualVars
-----------------------------------------------------------------------------
(* Properties *)

\* The selected background is complete on the disk in every state, so also
\* after a crash, a failed or cancelled import, and removals that failed.
SelectionIsComplete == selection # Nothing => Complete(selection)

\* A request that was told to send the selected file finds it: no replacement
\* removes the file between the reading of the row and the opening.
ReadersFindFiles ==
  \A r \in Request :
     LET a == request[r].row
         p == IF request[r].kind = "poster" THEN "poster" ELSE "display"
     IN At(r, "loaded") /\ request[r].kind \in {"background", "poster"}
        /\ a # Nothing /\ p \in Parts(a) => disk[a][p] = "whole"
=============================================================================
