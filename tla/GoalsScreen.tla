----------------------------- MODULE GoalsScreen -----------------------------
(***************************************************************************)
(* The Goals screen of the terminal: the list, a Goal's details, the form  *)
(* that creates or edits one, and the picker of its Subjects, from which a *)
(* Subject may be created in the form of the root model.  At most one      *)
(* request is awaited: beginRequest gives it a new owner token, cancels    *)
(* the one before, and Update takes only the answer of that owner.  A      *)
(* request is a command of "wire"; it runs on its own and its answer       *)
(* arrives in any order.  Other sessions change the same Goals.            *)
(*                                                                         *)
(* A Goal and its Subjects are known by the version of the Goal: every     *)
(* change of either one makes a new version (GoalStore).  The filters of   *)
(* the list and the values of the fields are left out.                     *)
(***************************************************************************)
EXTENDS Naturals, FiniteSets

CONSTANTS
  MaxGoal,      \* Goals 1..MaxGoal; those after the first are created
  MaxVersion,   \* bound: versions of a Goal
  MaxRequests,  \* bound: requests before the user stops asking
  MaxWire       \* bound: commands under way when the user asks again

Goal == 1..MaxGoal
NoGoal == [goal |-> 0, version |-> 0]

VARIABLES
  store,        \* version of each Goal; 0: not there
  root,         \* root screen: home, Goals, or the Subject form and the visit it returns to
  screen,       \* Model.screen, and pickerReturn
  owner,        \* Model.owner: the request awaited (0: nil), and the last number used
  state,        \* Model.open, loading, saving, and whether status reports a failure
  selected,     \* Model.selected
  requested,    \* Model.requestedGoalID
  picker,       \* visits so far, pickerReady, selectedIDs as the Goal and version they were
                \*   read from, pickerBefore, and subjectCreation as the visit it is for
  wire

vars == <<store, root, screen, owner, state, selected, requested, picker, wire>>

Init ==
  /\ store = [g \in Goal |-> IF g = 1 THEN 1 ELSE 0]
  /\ root = [at |-> "home", visit |-> 0]
  /\ screen = [view |-> "list", back |-> "detail"]
  /\ owner = [now |-> 0, last |-> 0]
  /\ state = [open |-> FALSE, loading |-> FALSE, saving |-> FALSE, failed |-> FALSE]
  /\ selected = NoGoal /\ requested = 0
  /\ picker = [visit |-> 0, ready |-> FALSE, ids |-> NoGoal, before |-> NoGoal, creation |-> 0]
  /\ wire = {}

-----------------------------------------------------------------------------
Message(kind, goal, version, ids) ==
  [kind |-> kind, num |-> owner.last + 1, goal |-> goal, version |-> version, ids |-> ids,
   step |-> 0]

\* beginRequest, with the command that it is for.
Begin(m, saving) ==
  /\ owner' = [now |-> owner.last + 1, last |-> owner.last + 1]
  /\ state' = [state EXCEPT !.loading = TRUE, !.saving = saving, !.failed = FALSE]
  /\ wire' = wire \cup {m}

LoadList == Begin(Message("list", 0, 0, NoGoal), FALSE) /\ UNCHANGED <<selected, requested>>
LoadDetail(g, view) ==
  /\ requested' = g
  /\ selected' = IF view = "detail" THEN NoGoal ELSE selected
  /\ Begin(Message("detail", g, 0, NoGoal), FALSE)
LoadPicker(back) ==
  /\ picker' = [picker EXCEPT !.ready = FALSE]
  /\ Begin(Message("picker", IF back = "detail" THEN selected.goal ELSE 0, 0, NoGoal), FALSE)

MayAsk == owner.last < MaxRequests /\ Cardinality(wire) <= MaxWire
Idle == root.at = "goals" /\ state.open /\ ~state.loading
Quiet == UNCHANGED <<store, root>>

-----------------------------------------------------------------------------
\* Other sessions of the user.
OtherSession ==
  /\ \E g \in Goal : /\ store[g] \in 1..(MaxVersion - 1)
                     /\ store' = [store EXCEPT ![g] = @ + 1]
  /\ UNCHANGED <<root, screen, owner, state, selected, requested, picker, wire>>

\* Keys.
Open ==
  /\ root.at = "home" /\ MayAsk
  /\ root' = [root EXCEPT !.at = "goals"]
  /\ screen' = [screen EXCEPT !.view = "list"]
  /\ owner' = [now |-> owner.last + 1, last |-> owner.last + 1]
  /\ state' = [state EXCEPT !.open = TRUE, !.loading = TRUE, !.failed = FALSE]
  /\ wire' = wire \cup {Message("list", 0, 0, NoGoal)}
  /\ UNCHANGED <<store, selected, requested, picker>>

OpenGoal ==
  /\ Idle /\ screen.view = "list" /\ MayAsk
  /\ screen' = [screen EXCEPT !.view = "detail"]
  /\ \E g \in Goal : store[g] # 0 /\ LoadDetail(g, "detail")
  /\ Quiet /\ UNCHANGED picker

Retry ==
  /\ Idle /\ state.failed /\ MayAsk
  /\ CASE screen.view = "list" -> LoadList /\ UNCHANGED picker
       [] screen.view = "detail" -> LoadDetail(requested, "detail") /\ UNCHANGED picker
       [] screen.view = "edit" -> LoadDetail(selected.goal, "edit") /\ UNCHANGED picker
       [] screen.view = "picker" -> LoadPicker(screen.back) /\ UNCHANGED <<selected, requested>>
       [] screen.view = "create" -> FALSE
  /\ Quiet /\ UNCHANGED screen

StartForm ==
  /\ Idle
  /\ \/ /\ screen.view = "list"
        /\ screen' = [screen EXCEPT !.view = "create"]
        /\ selected' = NoGoal
        /\ picker' = [picker EXCEPT !.ids = NoGoal]
     \/ /\ screen.view = "detail" /\ selected # NoGoal
        /\ screen' = [screen EXCEPT !.view = "edit"]
        /\ UNCHANGED <<selected, picker>>
  /\ state' = [state EXCEPT !.failed = FALSE]
  /\ Quiet /\ UNCHANGED <<owner, requested, wire>>

\* The picker opens on the Goal shown, or on the draft of a new one.
OpenPicker ==
  LET back == screen.view
  IN /\ Idle /\ MayAsk
     /\ back = "create" \/ (back = "detail" /\ selected # NoGoal)
     /\ screen' = [view |-> "picker", back |-> back]
     /\ picker' = [picker EXCEPT !.visit = @ + 1, !.ready = FALSE, !.before = picker.ids]
     /\ Begin(Message("picker", IF back = "detail" THEN selected.goal ELSE 0, 0, NoGoal), FALSE)
     /\ Quiet /\ UNCHANGED <<selected, requested>>

\* Mutant of Cancelled: Esc forgets that nothing is loading any more.
CancelledLoading == [state EXCEPT !.failed = FALSE]
Cancelled == [state EXCEPT !.loading = FALSE, !.failed = FALSE]

\* Esc: cancels what is awaited, and goes back one screen.
Esc ==
  /\ root.at = "goals" /\ state.open /\ ~state.saving
  /\ screen.view # "list" /\ MayAsk
  /\ CASE screen.view \in {"detail", "create"} ->
            screen' = [screen EXCEPT !.view = "list"] /\ LoadList /\ UNCHANGED picker
       [] screen.view = "edit" ->
            /\ screen' = [screen EXCEPT !.view = "detail"]
            /\ LoadDetail(selected.goal, "detail") /\ UNCHANGED picker
       [] screen.view = "picker" ->
            /\ screen' = [screen EXCEPT !.view = screen.back]
            /\ picker' = [picker EXCEPT !.ids = picker.before]
            /\ IF screen.back = "detail" THEN LoadDetail(selected.goal, "detail")
               ELSE /\ owner' = [owner EXCEPT !.now = 0]
                    /\ state' = Cancelled
                    /\ UNCHANGED <<selected, requested, wire>>
  /\ Quiet

Close ==
  /\ root.at = "goals" /\ state.open /\ ~state.saving /\ screen.view = "list"
  /\ owner' = [owner EXCEPT !.now = 0]
  /\ state' = [state EXCEPT !.open = FALSE, !.loading = FALSE]
  /\ root' = [root EXCEPT !.at = "home"]
  /\ picker' = [picker EXCEPT !.creation = 0]
  /\ UNCHANGED <<store, screen, selected, requested, wire>>

\* saveProperties and saveSubjects, with the version that the screen has seen.
SaveProperties ==
  /\ Idle /\ screen.view \in {"create", "edit"} /\ MayAsk
  /\ Begin(Message(IF screen.view = "create" THEN "new" ELSE "edit",
                   selected.goal, selected.version, picker.ids), TRUE)
  /\ Quiet /\ UNCHANGED <<screen, selected, requested, picker>>

PickerKeys == Idle /\ screen.view = "picker" /\ picker.ready /\ picker.creation = 0

SaveSubjects ==
  /\ PickerKeys /\ screen.back = "detail" /\ MayAsk
  /\ Begin(Message("members", selected.goal, selected.version, picker.ids), TRUE)
  /\ Quiet /\ UNCHANGED <<screen, selected, requested, picker>>

DonePicking ==
  /\ PickerKeys /\ screen.back = "create"
  /\ screen' = [screen EXCEPT !.view = "create"]
  /\ Quiet /\ UNCHANGED <<owner, state, selected, requested, picker, wire>>

-----------------------------------------------------------------------------
\* The creation of a Subject: the request travels to the root as a message, and its token
\* is compared when the root takes it and when the root returns.
RequestCreation ==
  /\ PickerKeys /\ Cardinality(wire) <= MaxWire
  /\ owner' = [owner EXCEPT !.now = 0]
  /\ picker' = [picker EXCEPT !.creation = picker.visit]
  /\ wire' = wire \cup {[Message("creation", 0, 0, NoGoal) EXCEPT !.num = picker.visit]}
  /\ Quiet /\ UNCHANGED <<screen, state, selected, requested>>

Awaiting(visit) ==
  state.open /\ screen.view = "picker" /\ picker.creation # 0 /\ visit = picker.creation

RootTakesRequest(m) ==
  /\ m.kind = "creation"
  /\ root' = IF root.at = "goals" /\ Awaiting(m.num) THEN [at |-> "form", visit |-> m.num]
             ELSE root
  /\ wire' = wire \ {m}
  /\ UNCHANGED <<store, screen, owner, state, selected, requested, picker>>

\* The form was saved or left.
ReturnFromCreation ==
  /\ root.at = "form"
  /\ root' = [at |-> "goals", visit |-> 0]
  /\ picker' = IF Awaiting(root.visit) THEN [picker EXCEPT !.creation = 0] ELSE picker
  /\ UNCHANGED <<store, screen, owner, state, selected, requested, wire>>

-----------------------------------------------------------------------------
\* The commands.  The picker reads the Goal first, then its Subjects, with other sessions
\* between the two reads; the other reads are taken for one.
Ran(m, ran) == wire' = (wire \ {m}) \cup {ran}

\* Mutant of ReadPicker: the picker reads the Subjects first.
ReadPickerBackwards(m) ==
  CASE m.goal = 0 -> [m EXCEPT !.step = 2]
    [] m.goal # 0 /\ m.step = 0 ->
         [m EXCEPT !.step = 1, !.ids = [goal |-> m.goal, version |-> store[m.goal]]]
    [] OTHER -> [m EXCEPT !.step = 2, !.version = store[m.goal]]
ReadPicker(m) ==
  CASE m.goal = 0 -> [m EXCEPT !.step = 2]
    [] m.goal # 0 /\ m.step = 0 -> [m EXCEPT !.step = 1, !.version = store[m.goal]]
    [] OTHER -> [m EXCEPT !.step = 2, !.ids = [goal |-> m.goal, version |-> store[m.goal]]]

Run(m) ==
  /\ m.step < 2
  /\ \/ m.kind = "list" /\ Ran(m, [m EXCEPT !.step = 2]) /\ UNCHANGED store
     \/ /\ m.kind = "detail" /\ UNCHANGED store
        /\ Ran(m, [m EXCEPT !.step = 2, !.version = store[m.goal]])
     \/ m.kind = "picker" /\ Ran(m, ReadPicker(m)) /\ UNCHANGED store
     \/ /\ m.kind \in {"edit", "members"}
        /\ store[m.goal] = m.version /\ m.version < MaxVersion
        /\ store' = [store EXCEPT ![m.goal] = @ + 1]
        /\ Ran(m, [m EXCEPT !.step = 2])
     \/ /\ m.kind = "new"
        /\ \E g \in Goal : /\ store[g] = 0 /\ (\A h \in 1..(g - 1) : store[h] # 0)
                           /\ store' = [store EXCEPT ![g] = 1]
                           /\ Ran(m, [m EXCEPT !.step = 2, !.goal = g])
  /\ UNCHANGED <<root, screen, owner, state, selected, requested, picker>>

-----------------------------------------------------------------------------
\* Mutant of Owned: while details are shown, any details that arrive are taken.
OwnedByScreen(m) ==
  /\ m.kind # "creation" /\ state.open
  /\ m.num = owner.now \/ (m.kind = "detail" /\ screen.view = "detail")
Owned(m) == m.kind # "creation" /\ state.open /\ m.num = owner.now
Saves == {"new", "edit", "members"}

Discard(m) ==
  /\ m.kind # "creation" /\ ~Owned(m) /\ (m.kind \in Saves => m.step = 2)
  /\ wire' = wire \ {m}
  /\ UNCHANGED <<store, root, screen, owner, state, selected, requested, picker>>

\* A command that has not done its work may fail, a save also for its version.
Fail(m) ==
  /\ Owned(m) /\ m.step < 2
  /\ state' = [state EXCEPT !.loading = FALSE, !.saving = FALSE, !.failed = TRUE]
  /\ wire' = wire \ {m}
  /\ UNCHANGED <<store, root, screen, owner, selected, requested, picker>>

\* The answer of a save shows the details and reads them again.
TakeSave(m) ==
  /\ Owned(m) /\ m.step = 2 /\ state.saving
  /\ screen' = [screen EXCEPT !.view = "detail"]
  /\ requested' = m.goal /\ selected' = NoGoal
  /\ owner' = [now |-> owner.last + 1, last |-> owner.last + 1]
  /\ state' = [state EXCEPT !.saving = FALSE, !.failed = FALSE]
  /\ wire' = (wire \ {m}) \cup {Message("detail", m.goal, 0, NoGoal)}
  /\ Quiet /\ UNCHANGED picker

\* Other answers go to the screen that is shown.  The list does not use the Goal selected
\* before, which is dropped here.
TakeRead(m) ==
  LET found == [goal |-> m.goal, version |-> m.version]
      manages == screen.view = "picker" /\ screen.back = "detail"
  IN /\ Owned(m) /\ m.step = 2 /\ ~state.saving
     /\ state' = [state EXCEPT !.loading = FALSE, !.failed = FALSE]
     /\ selected' = CASE screen.view = "list" -> NoGoal
                      [] screen.view = "picker" -> IF manages THEN found ELSE selected
                      [] OTHER -> found
     /\ picker' = IF screen.view # "picker" THEN picker
                  ELSE [picker EXCEPT !.ready = TRUE, !.ids = IF manages THEN m.ids ELSE @]
     /\ wire' = wire \ {m}
     /\ Quiet /\ UNCHANGED <<screen, owner, requested>>

-----------------------------------------------------------------------------
Next ==
  \/ OtherSession
  \/ Open \/ OpenGoal \/ Retry \/ StartForm \/ OpenPicker \/ Esc \/ Close
  \/ SaveProperties \/ SaveSubjects \/ DonePicking
  \/ RequestCreation \/ ReturnFromCreation
  \/ \E m \in wire : \/ RootTakesRequest(m) \/ Run(m) \/ Discard(m) \/ Fail(m)
                     \/ TakeSave(m) \/ TakeRead(m)

Spec == Init /\ [][Next]_vars

-----------------------------------------------------------------------------
\* Subjects that were accepted in place of a Goal's own were chosen from exactly those they
\* replaced: of the same Goal, and unchanged since they were read, although the picker
\* reads the Goal and its Subjects in two steps and several requests are under way.
AcceptedWasSeen ==
  \A m \in wire : m.kind = "members" /\ m.step = 2
                  => m.ids = [goal |-> m.goal, version |-> m.version]

\* Details, the edit form and the picker show the Goal that was asked for last, not that of
\* an answer that comes late.
ShownIsRequested ==
  selected # NoGoal /\ screen.view \in {"detail", "edit", "picker"} /\ state.open
    => selected.goal = requested

\* The answer awaited is on its way, and while a save is awaited it is the answer of the
\* save: update reads the Goal of the answer without looking at its kind.
AwaitedIsComing ==
  state.open /\ state.loading
    => \E m \in wire : /\ m.num = owner.now /\ m.kind # "creation"
                       /\ state.saving <=> m.kind \in Saves

\* "Identifies the picker visit awaiting a return from the root Subject form"
\* (goals/model.go:102): the picker that ignores keys until a creation returns is the visit
\* that asked for it.
CreationIsOfThisVisit ==
  screen.view = "picker" /\ picker.creation # 0 => picker.creation = picker.visit

-----------------------------------------------------------------------------
(* What these rest on: what is awaited is what the screen shown asked for,  *)
(* and the Subjects in the picker were read after its Goal.                 *)

Read == [goal : Nat, version : Nat]
Messages ==
  [kind : {"list", "detail", "picker", "new", "edit", "members", "creation"}, num : Nat,
   goal : Nat, version : Nat, ids : Read, step : 0..2]

TypeOK ==
  /\ store \in [Goal -> Nat]
  /\ root \in [at : {"home", "goals", "form"}, visit : Nat]
  /\ screen \in [view : {"list", "detail", "create", "edit", "picker"},
                 back : {"detail", "create"}]
  /\ owner \in [now : Nat, last : Nat]
  /\ state \in [open : BOOLEAN, loading : BOOLEAN, saving : BOOLEAN, failed : BOOLEAN]
  /\ selected \in Read /\ requested \in Nat
  /\ picker \in [visit : Nat, ready : BOOLEAN, ids : Read, before : Read, creation : Nat]
  /\ wire \in SUBSET Messages

\* Of a Goal there are the details, the edit form and the picker of its own Subjects.
OfGoal == screen.view \in {"detail", "edit"} \/ (screen.view = "picker" /\ screen.back = "detail")

GoalsInView ==
  /\ root.at = "home" <=> ~state.open
  /\ ~state.open => screen.view = "list" /\ owner.now = 0 /\ ~state.loading
  /\ state.saving => state.open /\ state.loading
  /\ IF OfGoal
     THEN /\ requested \in Goal
          /\ selected.goal = requested \/ (screen.view = "detail" /\ selected = NoGoal)
     ELSE screen.view # "list" => selected = NoGoal

\* The answer that a screen which saves nothing waits for.
Expected(m) ==
  /\ screen.view = "list" => m.kind = "list"
  /\ screen.view \in {"detail", "edit"} => m.kind = "detail" /\ m.goal = requested
  /\ screen.view = "picker" =>
       m.kind = "picker" /\ m.goal = (IF screen.back = "detail" THEN requested ELSE 0)
  /\ screen.view # "create"

OneAwaited ==
  /\ owner.now <= owner.last
  /\ \A m \in wire : m.kind # "creation" =>
       /\ 0 < m.num /\ m.num <= owner.last
       /\ m.num = owner.now =>
            /\ state.loading
            /\ state.saving <=> m.kind \in Saves
            /\ ~state.saving => Expected(m)
  /\ \A m, n \in wire :
       m.kind # "creation" /\ n.kind # "creation" /\ m.num = n.num => m = n

\* The Subjects that go with a version of a Goal were read after it.
ReadAfter(goal, version, ids) ==
  goal \in Goal /\ ids.goal = goal /\ version <= ids.version /\ ids.version <= store[goal]

ReadOK(m) ==
  /\ m.kind \in {"detail", "edit", "members"} => m.goal \in Goal
  /\ m.kind = "new" /\ m.step = 2 => m.goal \in Goal
  /\ m.kind = "picker" /\ m.goal # 0 =>
       /\ m.goal \in Goal
       /\ m.step = 1 => m.version <= store[m.goal]
       /\ m.step = 2 => ReadAfter(m.goal, m.version, m.ids)
  /\ m.kind = "members" => ReadAfter(m.goal, m.version, m.ids)
  /\ m.kind = "members" /\ m.step = 2 => m.ids = [goal |-> m.goal, version |-> m.version]
Reads == \A m \in wire : ReadOK(m)

PickerOK ==
  screen.view = "picker" /\ screen.back = "detail" /\ picker.ready =>
    ReadAfter(selected.goal, selected.version, picker.ids)

IInv == TypeOK /\ GoalsInView /\ OneAwaited /\ Reads /\ PickerOK /\ AwaitedIsComing
=============================================================================
