---------------------------- MODULE ScreensProofs ----------------------------
(***************************************************************************)
(* Safety of the files of the background, for all sets of file names and   *)
(* requests, and of the screens, for all values of their bounds.  A screen *)
(* keeps its inductive invariant while it is the one that runs, and so the *)
(* theorems follow for all of them.                                        *)
(***************************************************************************)
EXTENDS Screens, ReadingScreensProofs, WritingScreensProofs

-----------------------------------------------------------------------------
(* The files of the background.                                            *)

\* A request past its load holds the gate, so there is one at most.
GateHeld == \A r \in Request : request[r].step # "idle" => gate = r

\* What was loaded is still the selection until the request writes it.
RowIsCurrent ==
  \A r \in Request : request[r].step \in {"loaded", "writing", "written"} => request[r].row = selection

\* The files being written are not selected, and those written before the file
\* in hand are whole.
NewFiles ==
  \A r \in Request :
     LET job == request[r]
     IN job.step \in {"writing", "written"} =>
          /\ job.asset \in Asset
          /\ job.asset # selection
          /\ job.part = "poster" => job.asset \in VideoAsset
          /\ job.part = "poster" => disk[job.asset]["display"] = "whole"
          /\ job.step = "written" => disk[job.asset][job.part] = "whole"

\* The files being removed are not selected.
OldFiles ==
  \A r \in Request :
     At(r, "removing") => request[r].target \in Asset /\ request[r].target # selection

Inv ==
  TypeOK /\ GateHeld /\ RowIsCurrent /\ NewFiles /\ OldFiles /\ SelectionIsComplete

\* Nothing is selected at first, and no request is past its load.
LEMMA InitInv == Init => Inv
  BY VisualAssumption
  DEF Init, Inv, TypeOK, Idle, Job, Kind, Step, Part, Content, GateHeld, RowIsCurrent, NewFiles,
      OldFiles, SelectionIsComplete, At

\* While a request is past its load, every other one is idle.
LEMMA OthersIdle ==
  ASSUME Inv, NEW r \in Request, request[r].step # "idle"
  PROVE  \A o \in Request \ {r} : request[o].step = "idle"
  BY VisualAssumption DEF Inv, GateHeld

\* A step in which the request that holds the gate gets a proper job, or ends,
\* and all others stay idle.  What must be shown is only about that job.
LEMMA OneJob ==
  ASSUME Inv, NEW r \in Request, NEW job \in Job,
         Set(r, job), gate' = IF job.step = "idle" THEN Nothing ELSE r,
         \A o \in Request \ {r} : request[o].step = "idle",
         selection' \in Asset \cup {Nothing}, disk' \in [Asset -> [Part -> Content]],
         SelectionIsComplete',
         job.step \in {"loaded", "writing", "written"} => job.row = selection',
         job.step \in {"writing", "written"} =>
            /\ job.asset \in Asset
            /\ job.asset # selection'
            /\ job.part = "poster" => job.asset \in VideoAsset
            /\ job.part = "poster" => disk'[job.asset]["display"] = "whole"
            /\ job.step = "written" => disk'[job.asset][job.part] = "whole",
         job.step = "removing" => job.target \in Asset /\ job.target # selection'
  PROVE  Inv'
<1>1. TypeOK'  BY DEF Set, Inv, TypeOK
<1>2. request'[r] = job /\ \A o \in Request \ {r} : request'[o] = request[o]
      BY DEF Set, Inv, TypeOK
<1>3. GateHeld'  BY <1>2 DEF GateHeld
<1>4. RowIsCurrent'  BY <1>2 DEF RowIsCurrent
<1>5. NewFiles'
  <2> SUFFICES ASSUME NEW o \in Request, request'[o].step \in {"writing", "written"}
               PROVE  /\ request'[o].asset \in Asset
                      /\ request'[o].asset # selection'
                      /\ request'[o].part = "poster" => request'[o].asset \in VideoAsset
                      /\ request'[o].part = "poster" => disk'[request'[o].asset]["display"] = "whole"
                      /\ request'[o].step = "written" => disk'[request'[o].asset][request'[o].part] = "whole"
      BY DEF NewFiles
  <2>1. o = r  BY <1>2
  <2> QED  BY <1>2, <2>1
<1>6. OldFiles'  BY <1>2 DEF OldFiles, At
<1> QED  BY <1>1, <1>3, <1>4, <1>5, <1>6 DEF Inv

\* What RemoveAsset does: the next job removes an asset that is not selected, or
\* the request ends because there is none.
LEMMA RemoveAssetInv ==
  ASSUME Inv, NEW r \in Request, request[r].step # "idle",
         NEW a \in Asset \cup {Nothing}, RemoveAsset(r, a), a # Nothing => a # selection',
         selection' \in Asset \cup {Nothing}, UNCHANGED disk, SelectionIsComplete'
  PROVE  Inv'
<1>1. disk' \in [Asset -> [Part -> Content]]  BY DEF Inv, TypeOK
<1>2. gate = r  BY DEF Inv, GateHeld
<1>3. \A o \in Request \ {r} : request[o].step = "idle"  BY OthersIdle
<1>4. CASE a = Nothing
  <2>1. Idle \in Job  BY DEF Idle, Job, Kind, Step, Part
  <2>2. Set(r, Idle) /\ gate' = Nothing  BY <1>4 DEF RemoveAsset, Release
  <2> QED  BY <1>1, <1>3, <2>1, <2>2, OneJob DEF Idle
<1>5. CASE a # Nothing
  <2> DEFINE job == [request[r] EXCEPT !.step = "removing", !.target = a, !.part = "display"]
  <2>1. request[r] \in Job  BY DEF Inv, TypeOK
  <2>2. job \in Job /\ job.step = "removing" /\ job.target = a
        BY <2>1, <1>5 DEF Job, Step, Part
  <2>3. Set(r, job) /\ gate' = r  BY <1>2, <1>5 DEF RemoveAsset
  <2> HIDE DEF job
  <2> QED  BY <1>1, <1>3, <1>5, <2>2, <2>3, OneJob
<1> QED  BY <1>4, <1>5

\* No step breaks the invariant.
LEMMA NextInv == Inv /\ [Next]_visualVars => Inv'
<1> SUFFICES ASSUME Inv, [Next]_visualVars PROVE Inv'
    OBVIOUS
<1> USE VisualAssumption
<1>1. ASSUME NEW r \in Request, NEW kind \in Kind, Load(r, kind) PROVE Inv'
  <2> DEFINE job == [Idle EXCEPT !.kind = kind, !.step = "loaded", !.row = selection]
  <2>1. job \in Job /\ job.step = "loaded" /\ job.row = selection
        BY DEF Idle, Job, Kind, Step, Part, Inv, TypeOK
  <2>2. \A o \in Request : request[o].step = "idle"
        BY <1>1 DEF Load, Acquire, Inv, GateHeld
  <2>3. Set(r, job) /\ gate' = r /\ UNCHANGED <<selection, disk>>  BY <1>1 DEF Load, Acquire
  <2>4. SelectionIsComplete'  BY <2>3 DEF Inv, SelectionIsComplete, Complete
  <2>5. selection' \in Asset \cup {Nothing} /\ disk' \in [Asset -> [Part -> Content]]
        BY <2>3 DEF Inv, TypeOK
  <2> HIDE DEF job
  <2> QED  BY <2>1, <2>2, <2>3, <2>4, <2>5, OneJob
<1>2. ASSUME NEW r \in Request, Return(r) PROVE Inv'
  <2>1. gate = r /\ \A o \in Request \ {r} : request[o].step = "idle"
        BY <1>2, OthersIdle DEF Return, At, Inv, GateHeld
  <2>2. Set(r, Idle) /\ gate' = Nothing /\ UNCHANGED <<selection, disk>>
        BY <1>2, <2>1 DEF Return
  <2>3. SelectionIsComplete'  BY <2>2 DEF Inv, SelectionIsComplete, Complete
  <2>4. selection' \in Asset \cup {Nothing} /\ disk' \in [Asset -> [Part -> Content]]
        BY <2>2 DEF Inv, TypeOK
  <2>5. Idle \in Job  BY DEF Idle, Job, Kind, Step, Part
  <2> QED  BY <2>1, <2>2, <2>3, <2>4, <2>5, OneJob DEF Idle
<1>3. ASSUME NEW r \in Request, NEW a \in Asset, NEW p \in Part, OpenFile(r, a, p),
             request[r].step \in {"loaded", "written"}, a # selection,
             p = "poster" => a \in VideoAsset /\ disk[a]["display"] = "whole"
      PROVE  Inv'
  <2> DEFINE job == [request[r] EXCEPT !.step = "writing", !.asset = a, !.part = p]
  <2>1. request[r] \in Job /\ gate = r /\ \A o \in Request \ {r} : request[o].step = "idle"
        BY <1>3, OthersIdle DEF Inv, TypeOK, GateHeld
  <2>2. job \in Job  BY <2>1 DEF Job, Step
  <2>3. /\ job.step = "writing" /\ job.asset = a /\ job.part = p
        /\ job.row = request[r].row
        BY <2>1 DEF Job
  <2>4. Set(r, job) /\ gate' = r /\ UNCHANGED selection  BY <1>3, <2>1 DEF OpenFile
  <2>5. /\ disk' \in [Asset -> [Part -> Content]]
        /\ \A b \in Asset \ {a} : disk'[b] = disk[b]
        /\ p = "poster" => disk'[a]["display"] = disk[a]["display"]
        BY <1>3 DEF OpenFile, Inv, TypeOK, Part, Content
  <2>6. SelectionIsComplete'
        BY <1>3, <2>4, <2>5 DEF Inv, TypeOK, SelectionIsComplete, Complete
  <2>7. request[r].row = selection  BY <1>3 DEF Inv, RowIsCurrent
  <2>8. selection' \in Asset \cup {Nothing}  BY <2>4 DEF Inv, TypeOK
  <2> HIDE DEF job
  <2> QED  BY <1>3, <2>1, <2>2, <2>3, <2>4, <2>5, <2>6, <2>7, <2>8, OneJob
<1>4. ASSUME NEW r \in Request, NEW a \in Asset, CommitBackground(r, a) PROVE Inv'
      BY <1>3, <1>4 DEF CommitBackground, At, Part
<1>5. ASSUME NEW r \in Request, WritePart(r) PROVE Inv'
  <2> DEFINE a == request[r].asset
             p == request[r].part
             job == [request[r] EXCEPT !.step = "written"]
  <2>1. request[r] \in Job /\ gate = r /\ \A o \in Request \ {r} : request[o].step = "idle"
        BY <1>5, OthersIdle DEF WritePart, At, Inv, TypeOK, GateHeld
  <2>2. /\ job \in Job /\ job.step = "written" /\ job.asset = a /\ job.part = p
        /\ job.row = request[r].row
        BY <2>1 DEF Job, Step
  <2>3. /\ a \in Asset /\ a # selection /\ p \in Part
        /\ p = "poster" => a \in VideoAsset /\ disk[a]["display"] = "whole"
        BY <1>5, <2>1 DEF WritePart, At, Inv, NewFiles, Job
  <2>4. Set(r, job) /\ gate' = r /\ UNCHANGED selection  BY <1>5, <2>1 DEF WritePart
  <2>5. /\ disk' \in [Asset -> [Part -> Content]]
        /\ \A b \in Asset \ {a} : disk'[b] = disk[b]
        /\ disk'[a][p] = "whole"
        /\ p = "poster" => disk'[a]["display"] = "whole"
        BY <1>5, <2>3 DEF WritePart, Inv, TypeOK, Part, Content
  <2>6. SelectionIsComplete'
        BY <2>3, <2>4, <2>5 DEF Inv, TypeOK, SelectionIsComplete, Complete
  <2>7. request[r].row = selection  BY <1>5 DEF WritePart, At, Inv, RowIsCurrent
  <2>8. selection' \in Asset \cup {Nothing}  BY <2>4 DEF Inv, TypeOK
  <2> HIDE DEF job, a, p
  <2> QED  BY <2>1, <2>2, <2>3, <2>4, <2>5, <2>6, <2>7, <2>8, OneJob
<1>6. ASSUME NEW r \in Request, WritePoster(r) PROVE Inv'
  <2>1. request[r] \in Job  BY DEF Inv, TypeOK
  <2>2. /\ request[r].asset \in VideoAsset
        /\ request[r].asset # selection
        /\ request[r].part = "display"
        /\ disk[request[r].asset]["display"] = "whole"
        BY <1>6, <2>1 DEF WritePoster, LastPart, At, Inv, NewFiles, Job, Part
  <2> QED  BY <1>3, <1>6, <2>2 DEF WritePoster, At, Part
<1>7. ASSUME NEW r \in Request, Undo(r) PROVE Inv'
  <2>1. request[r].asset \in Asset /\ request[r].asset # selection
        BY <1>7 DEF Undo, Inv, NewFiles
  <2>2. SelectionIsComplete' /\ selection' \in Asset \cup {Nothing}
        BY <1>7 DEF Undo, Inv, TypeOK, SelectionIsComplete, Complete
  <2> QED  BY <1>7, <2>1, <2>2, RemoveAssetInv DEF Undo
<1>8. ASSUME NEW r \in Request, SaveBackground(r) PROVE Inv'
  <2> DEFINE a == request[r].asset
  <2>1. request[r] \in Job  BY DEF Inv, TypeOK
  <2>2. a \in Asset /\ a # selection /\ request[r].row = selection
        BY <1>8 DEF SaveBackground, At, Inv, NewFiles, RowIsCurrent
  <2>3. Complete(a)
    <3>1. CASE a \in VideoAsset
          BY <1>8, <3>1 DEF SaveBackground, LastPart, At, Inv, NewFiles, Complete, Parts, Part
    <3>2. CASE a \notin VideoAsset
          BY <1>8, <2>1, <3>2 DEF SaveBackground, At, Inv, NewFiles, Complete, Parts, Part, Job
    <3> QED  BY <3>1, <3>2
  <2>4. selection' = a /\ UNCHANGED disk  BY <1>8 DEF SaveBackground
  <2>5. SelectionIsComplete'  BY <2>3, <2>4 DEF SelectionIsComplete, Complete
  <2>6. request[r].row \in Asset \cup {Nothing}  BY <2>2 DEF Inv, TypeOK
  <2>7. RemoveAsset(r, request[r].row) /\ request[r].step # "idle"
        BY <1>8 DEF SaveBackground, At
  <2> HIDE DEF a
  <2> QED  BY <2>2, <2>4, <2>5, <2>6, <2>7, RemoveAssetInv
<1>9. ASSUME NEW r \in Request, SaveSettings(r) PROVE Inv'
  <2>1. request[r].row = selection /\ gate = r
        BY <1>9 DEF SaveSettings, At, Inv, RowIsCurrent, GateHeld
  <2>2. \A o \in Request \ {r} : request[o].step = "idle"
        BY <1>9, OthersIdle DEF SaveSettings, At
  <2>3. Set(r, Idle) /\ gate' = Nothing /\ UNCHANGED <<selection, disk>>
        BY <1>9, <2>1 DEF SaveSettings, Release
  <2>4. SelectionIsComplete'  BY <2>3 DEF Inv, SelectionIsComplete, Complete
  <2>5. selection' \in Asset \cup {Nothing} /\ disk' \in [Asset -> [Part -> Content]]
        BY <2>3 DEF Inv, TypeOK
  <2>6. Idle \in Job  BY DEF Idle, Job, Kind, Step, Part
  <2> QED  BY <2>2, <2>3, <2>4, <2>5, <2>6, OneJob DEF Idle
<1>10. ASSUME NEW r \in Request, Remove(r) PROVE Inv'
  <2>1. request[r].row = selection  BY <1>10 DEF Remove, At, Inv, RowIsCurrent
  <2>2. selection' = Nothing /\ UNCHANGED disk /\ RemoveAsset(r, request[r].row)
        BY <1>10 DEF Remove
  <2>3. SelectionIsComplete'  BY <2>2 DEF SelectionIsComplete
  <2>4. request[r].step # "idle"  BY <1>10 DEF Remove, At
  <2>5. request[r].row \in Asset \cup {Nothing}  BY <2>1 DEF Inv, TypeOK
  <2> QED  BY <2>2, <2>3, <2>4, <2>5, RemoveAssetInv
<1>11. ASSUME NEW r \in Request, RemoveFile(r) PROVE Inv'
  <2> DEFINE a == request[r].target
             job == IF a \in VideoAsset /\ request[r].part = "display"
                    THEN [request[r] EXCEPT !.part = "poster"] ELSE Idle
  <2>1. request[r] \in Job /\ gate = r /\ \A o \in Request \ {r} : request[o].step = "idle"
        BY <1>11, OthersIdle DEF RemoveFile, At, Inv, TypeOK, GateHeld
  <2>2. a \in Asset /\ a # selection  BY <1>11 DEF RemoveFile, Inv, OldFiles
  <2>3. /\ job \in Job
        /\ job.step \in {"removing", "idle"}
        /\ job.step = "removing" => job.target = a
        BY <1>11, <2>1 DEF RemoveFile, At, Idle, Job, Kind, Step, Part
  <2>4. Set(r, job) /\ gate' = (IF job.step = "idle" THEN Nothing ELSE r) /\ UNCHANGED selection
        BY <1>11, <2>1 DEF RemoveFile, At, Release, Idle, Job
  <2>5. /\ disk' \in [Asset -> [Part -> Content]]
        /\ \A b \in Asset \ {a} : disk'[b] = disk[b]
    <3>1. request[r].part \in Part  BY <2>1 DEF Job
    <3>2. disk' = [disk EXCEPT ![a][request[r].part] = "absent"] \/ disk' = disk
          BY <1>11 DEF RemoveFile
    <3>3. disk \in [Asset -> [Part -> Content]]  BY DEF Inv, TypeOK
    <3> HIDE DEF job
    <3> QED  BY <2>2, <3>1, <3>2, <3>3 DEF Content
  <2>6. SelectionIsComplete'
        BY <2>2, <2>4, <2>5 DEF Inv, TypeOK, SelectionIsComplete, Complete
  <2>7. selection' \in Asset \cup {Nothing}  BY <2>4 DEF Inv, TypeOK
  <2> HIDE DEF job, a
  <2> QED  BY <2>1, <2>2, <2>3, <2>4, <2>5, <2>6, <2>7, OneJob
<1>12. ASSUME Crash PROVE Inv'
  <2>1. /\ \A r \in Request : request'[r] = Idle
        /\ request' \in [Request -> Job]
        BY <1>12 DEF Crash, Idle, Job, Kind, Step, Part
  <2>2. TypeOK' /\ SelectionIsComplete'
        BY <1>12, <2>1 DEF Crash, Inv, TypeOK, SelectionIsComplete, Complete
  <2> QED  BY <2>1, <2>2 DEF Inv, GateHeld, RowIsCurrent, NewFiles, OldFiles, At, Idle
<1>13. CASE UNCHANGED visualVars
  <2>1. TypeOK' /\ SelectionIsComplete'
        BY <1>13 DEF visualVars, Inv, TypeOK, SelectionIsComplete, Complete
  <2>2. (GateHeld /\ RowIsCurrent /\ NewFiles /\ OldFiles)'
        BY <1>13 DEF visualVars, Inv, GateHeld, RowIsCurrent, NewFiles, OldFiles, At
  <2> QED  BY <2>1, <2>2 DEF Inv
<1> QED  BY <1>1, <1>2, <1>4, <1>5, <1>6, <1>7, <1>8, <1>9, <1>10, <1>11, <1>12, <1>13 DEF Next

\* The selected background is complete on the disk, whatever fails and whenever
\* the process ends.
THEOREM SelectionAlwaysComplete == Spec => []SelectionIsComplete
<1>1. Inv => SelectionIsComplete  BY DEF Inv
<1> QED  BY <1>1, InitInv, NextInv, PTL DEF Spec

\* A reader that holds the gate finds the file that the row names.
THEOREM ReadersAlwaysFindFiles == Spec => []ReadersFindFiles
<1>1. Inv => ReadersFindFiles
      BY DEF Inv, RowIsCurrent, SelectionIsComplete, Complete, ReadersFindFiles, At
<1> QED  BY <1>1, InitInv, NextInv, PTL DEF Spec

-----------------------------------------------------------------------------
(* The screens together: the one that runs keeps its invariant, and the    *)
(* files keep theirs.                                                      *)

ScreensInv ==
  /\ Inv
  /\ at = "spoken" => Spoken!IInv
  /\ at = "thoughts" => Thoughts!IInv /\ Thoughts!StepsOK
  /\ at = "form" => Form!IInv
  /\ at = "subjects" => Subjects!IInv
  /\ at = "day" => Day!IInv
  /\ at = "cards" => Cards!IInv
  /\ at = "goals" => Goals!IInv
  /\ at = "filters" => Filters!IInv
  /\ at = "setup" => Setup!IInv
  /\ at = "visual" => Visual!IInv

LEMMA ScreensInitInv == ScreensInit => ScreensInv
<1> SUFFICES ASSUME ScreensInit PROVE ScreensInv
  OBVIOUS
<1>1. Inv
  BY InitInv DEF ScreensInit
<1>2. at = "spoken" => Spoken!IInv
  BY SpokenInitIInv DEF ScreensInit
<1>3. at = "thoughts" => Thoughts!IInv /\ Thoughts!StepsOK
  BY ThoughtsInitIInv, ThoughtsInitSteps DEF ScreensInit
<1>4. at = "form" => Form!IInv
  BY FormInitIInv DEF ScreensInit
<1>5. at = "subjects" => Subjects!IInv
  BY SubjectsInitIInv DEF ScreensInit
<1>6. at = "day" => Day!IInv
  BY DayInitIInv DEF ScreensInit
<1>7. at = "cards" => Cards!IInv
  BY CardsInitIInv DEF ScreensInit
<1>8. at = "goals" => Goals!IInv
  BY GoalsInitIInv DEF ScreensInit
<1>9. at = "filters" => Filters!IInv
  BY FiltersInitIInv DEF ScreensInit
<1>10. at = "setup" => Setup!IInv
  BY SetupInitIInv DEF ScreensInit
<1>11. at = "visual" => Visual!IInv
  BY VisualInitIInv DEF ScreensInit
<1> QED BY <1>1, <1>2, <1>3, <1>4, <1>5, <1>6, <1>7, <1>8, <1>9, <1>10, <1>11 DEF ScreensInv

LEMMA ScreensNextInv ==
  ASSUME ScreensInv, [ScreensNext]_ScreensVars
  PROVE  ScreensInv'
<1>1. at' = at
  BY DEF ScreensNext, ScreensVars
<1>2. Inv'
  <2>1. [Next]_visualVars
    BY DEF ScreensNext, ScreensVars
  <2> QED BY <2>1, NextInv DEF ScreensInv
<1>3. CASE at = "spoken"
  <2>1. Spoken!Next \/ UNCHANGED Spoken!vars
    BY <1>3 DEF ScreensNext, ScreensVars, slots, Spoken!vars
  <2> QED BY <1>1, <1>2, <1>3, <2>1, SpokenNextPreserves DEF ScreensInv
<1>4. CASE at = "thoughts"
  <2>1. Thoughts!Next \/ UNCHANGED Thoughts!vars
    BY <1>4 DEF ScreensNext, ScreensVars, slots, Thoughts!vars
  <2> QED BY <1>1, <1>2, <1>4, <2>1, ThoughtsNextPreserves, ThoughtsStepsPreserved DEF ScreensInv
<1>5. CASE at = "form"
  <2>1. Form!Next \/ UNCHANGED Form!vars
    BY <1>5 DEF ScreensNext, ScreensVars, slots, Form!vars
  <2> QED BY <1>1, <1>2, <1>5, <2>1, FormNextPreserves DEF ScreensInv
<1>6. CASE at = "subjects"
  <2>1. Subjects!Next \/ UNCHANGED Subjects!vars
    BY <1>6 DEF ScreensNext, ScreensVars, slots, Subjects!vars
  <2> QED BY <1>1, <1>2, <1>6, <2>1, SubjectsNextPreserves DEF ScreensInv
<1>7. CASE at = "day"
  <2>1. Day!Next \/ UNCHANGED Day!vars
    BY <1>7 DEF ScreensNext, ScreensVars, slots, Day!vars
  <2> QED BY <1>1, <1>2, <1>7, <2>1, DayNextPreserves DEF ScreensInv
<1>8. CASE at = "cards"
  <2>1. Cards!Next \/ UNCHANGED Cards!vars
    BY <1>8 DEF ScreensNext, ScreensVars, slots, Cards!vars
  <2> QED BY <1>1, <1>2, <1>8, <2>1, CardsNextPreserves DEF ScreensInv
<1>9. CASE at = "goals"
  <2>1. Goals!Next \/ UNCHANGED Goals!vars
    BY <1>9 DEF ScreensNext, ScreensVars, slots, Goals!vars
  <2> QED BY <1>1, <1>2, <1>9, <2>1, GoalsNextPreserves DEF ScreensInv
<1>10. CASE at = "filters"
  <2>1. Filters!Next \/ UNCHANGED Filters!vars
    BY <1>10 DEF ScreensNext, ScreensVars, slots, Filters!vars
  <2> QED BY <1>1, <1>2, <1>10, <2>1, FiltersNextPreserves DEF ScreensInv
<1>11. CASE at = "setup"
  <2>1. Setup!Next \/ UNCHANGED Setup!vars
    BY <1>11 DEF ScreensNext, ScreensVars, slots, Setup!vars
  <2> QED BY <1>1, <1>2, <1>11, <2>1, SetupNextPreserves DEF ScreensInv
<1>12. CASE at = "visual"
  <2>1. Visual!Next \/ UNCHANGED Visual!vars
    BY <1>12 DEF ScreensNext, ScreensVars, slots, Visual!vars
  <2> QED BY <1>1, <1>2, <1>12, <2>1, VisualNextPreserves DEF ScreensInv
<1>13. CASE at \notin {"spoken", "thoughts", "form", "subjects", "day", "cards", "goals", "filters", "setup", "visual"}
  BY <1>1, <1>2, <1>13 DEF ScreensInv
<1> QED BY <1>3, <1>4, <1>5, <1>6, <1>7, <1>8, <1>9, <1>10, <1>11, <1>12, <1>13

\* The inductive invariants of the screens and of the files hold throughout.
THEOREM ScreensInvariant == ScreensSpec => []ScreensInv
  BY ScreensInitInv, ScreensNextInv, PTL DEF ScreensSpec

\* Of what was dictated only the cue that names a Subject is taken out of the text, however
\* revisions, the names that are read, the end of the recording and the keys are ordered; and a
\* cue that is not certain stays, unless its name was known in time or the user chose a Subject
\* (voice.go, refreshSpokenSubject and freezeSpokenSubject).
THEOREM SpeechIsKeptAlways == ScreensSpec => []SpeechIsKept
<1>1. ScreensInv => SpeechIsKept
  BY DEF ScreensInv, SpeechIsKept, Spoken!IInv, Spoken!DraftOK, Spoken!Taken,
         Spoken!OnlyTheCueIsTaken, Spoken!UncertainSpeechStays
<1> QED BY <1>1, ScreensInvariant, PTL

\* A Thought between two that the window shows is shown or known to have arrived since
\* (browser.go, mergeThoughts); the draft that waits for a Subject is the one that the Subject
\* returns to (tui/subject.go); and the form of an Event keeps a draft that waits, and its
\* pastes go into the text and field they were asked for (events/form.go).
THEOREM NothingIsLostAlways == ScreensSpec => []NothingIsLost
<1>1. ScreensInv => NothingIsLost
  BY DEF ScreensInv, NothingIsLost, Thoughts!IInv, Subjects!IInv, Form!IInv, Form!PastesOK,
         Form!Owned, Form!Freezes, Form!PasteIsUnchanged
<1> QED BY <1>1, ScreensInvariant, PTL

\* What the user changed and was told of is shown, or known to be missing, whatever reads are
\* answered late: an Event saved, a Subject created for the form, Subjects and their aliases,
\* Thoughts created and the designation of one, which only a MindsetChanged that comes after a
\* later change brings back as it was, until it is read again (mindset.go).
THEOREM OwnChangesAreShownAlways == ScreensSpec => []OwnChangesAreShown
<1>1. ScreensInv => OwnChangesAreShown
  <2>1. at = "thoughts" /\ ScreensInv => Thoughts!OwnThoughtsAreListed /\ Thoughts!BadgesAreTrue
    BY ThoughtsConsequences DEF ScreensInv
  <2>2. at = "cards" /\ ScreensInv => Cards!OwnSaveIsShown
    BY DEF ScreensInv, Cards!IInv, Cards!ListsOK
  <2> QED BY <2>1, <2>2 DEF ScreensInv, OwnChangesAreShown, Subjects!IInv, Form!IInv
<1> QED BY <1>1, ScreensInvariant, PTL

\* On every screen, what it waits for is on its way: no result that is discarded, replaced or
\* cancelled leaves it "loading", "saving" or "checking" for good.  On the background's screen
\* this holds until the end of an earlier operation changes what the page holds (the screens'
\* receive functions, tui/options.go, visual.js).
THEOREM AwaitedIsComingAlways == ScreensSpec => []AwaitedIsComing
<1>1. ScreensInv => AwaitedIsComing
  <2>1. at = "visual" /\ ScreensInv => Visual!AwaitedIsComing
    BY VisualConsequences DEF ScreensInv
  <2> QED BY <2>1 DEF ScreensInv, AwaitedIsComing, Day!IInv, Cards!IInv, Goals!IInv,
                      Subjects!IInv, Thoughts!IInv, Form!IInv, Setup!IInv
<1> QED BY <1>1, ScreensInvariant, PTL

\* What is shown together belongs together and is what was asked for last: the day with its
\* counts and times, the open card with its Thoughts, the Goal, the Goals and Subjects that a
\* filter or a search lets pass, the Event being saved, the download under way and the model
\* it loaded, the video held by the page.
THEOREM ShownIsRequestedAlways == ScreensSpec => []ShownIsRequested
<1>1. ScreensInv => ShownIsRequested
  <2>1. at = "goals" /\ ScreensInv => Goals!ShownIsRequested /\ Goals!AcceptedWasSeen
    BY GoalsConsequences DEF ScreensInv
  <2>2. /\ at = "setup" /\ ScreensInv
        => Setup!OneCall /\ Setup!ProgressIsOfDownload /\ Setup!ReadyIsLoaded
    BY SetupConsequences DEF ScreensInv
  <2>3. at = "cards" /\ ScreensInv => Cards!OpenCardIsSelected
    BY DEF ScreensInv, Cards!IInv, Cards!CardOK
  <2>4. at = "form" /\ ScreensInv => Form!SavedIsShown
    BY DEF ScreensInv, Form!IInv, Form!SavesOK, Form!Owned, Form!SavedIsShown
  <2>5. at = "filters" /\ ScreensInv => Filters!ShownAsChosen /\ Filters!MenuShowsQuery
    BY FiltersConsequences DEF ScreensInv
  <2>6. at = "visual" /\ ScreensInv => Visual!CandidateIsHeld
    BY VisualConsequences DEF ScreensInv
  <2> QED BY <2>1, <2>2, <2>3, <2>4, <2>5, <2>6 DEF ScreensInv, ShownIsRequested, Day!IInv
<1> QED BY <1>1, ScreensInvariant, PTL

\* The Subject that the user chose stays, and the text and Subject of a draft handed over to
\* be stored stay as they were shown (voice.go, attachVoiceResult); and the loop that is saved
\* is the one that was previewed, unless the program missed what the page holds.
THEOREM SavedAsShownAlways == ScreensSpec => SavedAsShown
<1>1. ScreensInv /\ [ScreensNext]_ScreensVars
      => [ /\ at = "spoken" => Spoken!ChoiceIsKept /\ Spoken!SavedAsShown
           /\ at = "visual" => Visual!SavedAsPreviewed ]_slots
  <2> SUFFICES ASSUME ScreensInv, [ScreensNext]_ScreensVars, slots' # slots
               PROVE  /\ at = "spoken" => Spoken!ChoiceIsKept /\ Spoken!SavedAsShown
                      /\ at = "visual" => Visual!SavedAsPreviewed
    OBVIOUS
  <2>1. ASSUME at = "spoken" PROVE Spoken!ChoiceIsKept /\ Spoken!SavedAsShown
    <3>1. Spoken!Next
      BY <2>1 DEF ScreensNext, ScreensVars, slots
    <3> QED BY <2>1, <3>1, SpokenStepKeepsChoice, SpokenStepKeepsSaved DEF ScreensInv
  <2>2. ASSUME at = "visual" PROVE Visual!SavedAsPreviewed
    BY <2>2, VisualSavedLoopIsShown DEF ScreensInv
  <2> QED BY <2>1, <2>2
<1> QED BY <1>1, ScreensInvariant, PTL DEF ScreensSpec, SavedAsShown

\* The day that is followed is today's or being loaded, the times of its Subjects do not go
\* back (events/day_load.go, events/subject_time.go); a Goal stays selected as long as it is
\* shown, whatever filters and lists arrive (goals/list_controls.go); no Thought is passed over
\* by a step of the selection (browse_thoughts_view.go); and the bar of a download does not go
\* back (speech_setup.go).
THEOREM StepsAreContinuousAlways == ScreensSpec => StepsAreContinuous
<1>1. ScreensInv /\ [ScreensNext]_ScreensVars
      => [ /\ at = "day" => Day!FollowsToday /\ Day!TimesNeverGoBack
           /\ at = "filters" => Filters!SelectionStays
           /\ at = "setup" => Setup!ProgressNeverGoesBack
           /\ at = "thoughts" => Thoughts!NothingIsSkipped ]_slots
  <2> SUFFICES ASSUME ScreensInv, [ScreensNext]_ScreensVars, slots' # slots
               PROVE  /\ at = "day" => Day!FollowsToday /\ Day!TimesNeverGoBack
                      /\ at = "filters" => Filters!SelectionStays
                      /\ at = "setup" => Setup!ProgressNeverGoesBack
                      /\ at = "thoughts" => Thoughts!NothingIsSkipped
    OBVIOUS
  <2>1. ASSUME at = "day" PROVE Day!FollowsToday /\ Day!TimesNeverGoBack
    <3>1. Day!Next
      BY <2>1 DEF ScreensNext, ScreensVars, slots
    <3> QED BY <2>1, <3>1, DayContinuity DEF ScreensInv
  <2>2. ASSUME at = "filters" PROVE Filters!SelectionStays
    <3>1. Filters!Next
      BY <2>2 DEF ScreensNext, ScreensVars, slots
    <3> QED BY <2>2, <3>1, FiltersContinuity DEF ScreensInv
  <2>3. ASSUME at = "setup" PROVE Setup!ProgressNeverGoesBack
    <3>1. Setup!Next
      BY <2>3 DEF ScreensNext, ScreensVars, slots
    <3> QED BY <2>3, <3>1, SetupContinuity DEF ScreensInv
  <2>4. ASSUME at = "thoughts" PROVE Thoughts!NothingIsSkipped
    <3>1. Thoughts!Next
      BY <2>4 DEF ScreensNext, ScreensVars, slots
    <3> QED BY <2>4, <3>1, ThoughtsStepsPreserved DEF ScreensInv
  <2> QED BY <2>1, <2>2, <2>3, <2>4
<1> QED BY <1>1, ScreensInvariant, PTL DEF ScreensSpec, StepsAreContinuous
=============================================================================
