------------------------------ MODULE EventForm ------------------------------
(***************************************************************************)
(* The form that starts or ends an Event: three fields, the Subjects that  *)
(* are chosen in a picker, a paste from the clipboard, the list of         *)
(* Subjects, a Subject that the root creates for the draft, and the save.  *)
(* All four are answered later, in any order; EventCards has what a save   *)
(* does to the timeline and SubjectsScreen the root's side of a creation.  *)
(*                                                                         *)
(* A field is the number of its edits, and the query in the second one     *)
(* narrows the rows of the picker to any part of the list.  Numbers of     *)
(* saves, revisions of the draft and of the list are only compared with    *)
(* the last one: a message is "live" as long as its number is.  Cancelling *)
(* a command that has not answered removes it.                             *)
(***************************************************************************)
EXTENDS Naturals, FiniteSets

CONSTANTS
  MaxSubject,  \* Subjects 1..MaxSubject; those after the first are created here
  MaxText,     \* bound: edits of a field
  MaxWire      \* bound: commands under way when the user asks again

Subject == 1..MaxSubject
Field == 0..2
Search == 1
Time == 2

VARIABLES
  store,    \* the Subjects there are
  form,     \* eventForm: open, ending, saving, suspended, index, the text of its fields
  picker,   \* subjectPicker: open, searching, row (0: Create subject...), items, selected,
            \*   before, loading
  root,     \* whether the root's creation screen is open for this form, and is saving
  wire,     \* commands under way and answers not yet delivered
  created,  \* history: Subjects created for this draft
  kept      \* history: the draft when it was suspended

vars == <<store, form, picker, root, wire, created, kept>>

Draft == [index |-> form.index, text |-> form.text, selected |-> picker.selected]
NoDraft == [index |-> 0, text |-> [f \in Field |-> 0], selected |-> {}]

Closed == [open |-> FALSE, ending |-> FALSE, saving |-> FALSE, suspended |-> FALSE,
           index |-> 0, text |-> [f \in Field |-> 0]]
NoPicker == [open |-> FALSE, searching |-> FALSE, row |-> 0, items |-> {}, selected |-> {},
             before |-> {}, loading |-> FALSE]

Init ==
  /\ store = {1}
  /\ form = Closed /\ picker = NoPicker
  /\ root = [open |-> FALSE, saving |-> FALSE]
  /\ wire = {}
  /\ created = {} /\ kept = NoDraft

-----------------------------------------------------------------------------
Message(kind, draft) ==
  [kind |-> kind, draft |-> draft, live |-> TRUE, ran |-> FALSE, items |-> {}, ok |-> FALSE]

\* The messages that remain when commands are cancelled and their number is passed.
Cancelled(kinds, w) == {m \in w : m.kind \in kinds => m.ran}
Passed(kinds, w) ==
  {IF m.kind \in kinds THEN [m EXCEPT !.live = FALSE, !.draft = NoDraft] ELSE m : m \in w}
Stopped(kinds) == Passed(kinds, Cancelled(kinds, wire))
MayAsk == Cardinality(wire) <= MaxWire

\* startForm; a form that ends the ongoing Event has only its time.
StartForm ==
  /\ ~form.open /\ MayAsk
  /\ \E ending \in BOOLEAN :
       /\ form' = [Closed EXCEPT !.open = TRUE, !.ending = ending,
                                 !.index = IF ending THEN Time ELSE 0]
       /\ picker' = [NoPicker EXCEPT !.loading = ~ending]
       /\ wire' = Stopped({"list", "paste", "create", "save"})
                  \cup (IF ending THEN {} ELSE {Message("list", NoDraft)})
  /\ UNCHANGED <<store, root, created, kept>>

-----------------------------------------------------------------------------
\* What a closed picker and a form that is not suspended no longer need is reset, to keep the
\* states few.

\* Keys.  updateForm takes none while the draft is being saved or is suspended.
Keys == form.open /\ ~form.saving /\ ~form.suspended /\ UNCHANGED <<store, root>>
History == UNCHANGED <<created, kept>>

\* What changes the draft stops a paste and passes its revision.
Revised == wire' = Stopped({"paste"})
\* Mutant of TabRevised: the focus moves on and the paste is still awaited.
TabUnrevised == UNCHANGED wire
TabRevised == Revised

CancelPicker ==
  /\ Keys /\ picker.open
  /\ picker' = [picker EXCEPT !.selected = picker.before, !.before = {},
                              !.open = FALSE, !.searching = FALSE]
  /\ UNCHANGED <<form, wire>> /\ History

CancelForm ==
  /\ Keys /\ ~picker.open
  /\ form' = Closed /\ picker' = NoPicker
  /\ wire' = Stopped({"list", "paste", "create", "save"})
  /\ created' = {} /\ kept' = NoDraft

Tab ==
  /\ Keys /\ ~picker.open /\ ~form.ending
  /\ \E step \in {1, 2} : form' = [form EXCEPT !.index = (form.index + step) % 3]
  /\ TabRevised
  /\ UNCHANGED picker /\ History

\* Text is typed, or pasted by the terminal.  A changed query begins at the first row.
Typed == form' = [form EXCEPT !.text[form.index] = @ + 1]
Rows == IF form.index = Search THEN [picker EXCEPT !.row = 0] ELSE picker
Type ==
  /\ Keys /\ form.text[form.index] < MaxText
  /\ Typed /\ Revised
  /\ picker' = Rows
  /\ History

AskPaste ==
  /\ Keys /\ MayAsk
  /\ wire' = Cancelled({"paste"}, wire) \cup {Message("paste", Draft)}
  /\ UNCHANGED <<form, picker>> /\ History

\* Enter on the field of Subjects opens the picker; "/" searches in it, Enter ends that.
OpenPicker ==
  /\ Keys /\ ~form.ending /\ form.index = Search /\ ~picker.open
  /\ picker' = [picker EXCEPT !.before = picker.selected, !.open = TRUE, !.searching = FALSE]
  /\ UNCHANGED <<form, wire>> /\ History

SearchRows ==
  /\ Keys /\ picker.open
  /\ picker' = [picker EXCEPT !.searching = ~picker.searching]
  /\ UNCHANGED <<form, wire>> /\ History

MoveRow ==
  /\ Keys /\ picker.open /\ ~picker.searching
  /\ \E row \in picker.items \cup {0} : picker' = [picker EXCEPT !.row = row]
  /\ UNCHANGED <<form, wire>> /\ History

ConfirmPicker ==
  /\ Keys /\ picker.open /\ ~picker.searching /\ picker.row # 0
  /\ picker' = [picker EXCEPT !.open = FALSE, !.before = {}]
  /\ UNCHANGED <<form, wire>> /\ History

\* selectSubject.
Toggled(set, s) == (set \ {s}) \cup ({s} \ set)
ToggleSubject ==
  /\ Keys /\ picker.open /\ ~picker.searching /\ picker.row # 0
  /\ picker' = [picker EXCEPT !.selected = Toggled(@, picker.row)]
  /\ Revised
  /\ UNCHANGED form /\ History

\* The first row asks the root for its creation screen; the draft waits for the return.
CreateSubject ==
  /\ Keys /\ picker.open /\ ~picker.searching /\ picker.row = 0 /\ MayAsk
  /\ form' = [form EXCEPT !.suspended = TRUE]
  /\ wire' = Stopped({"paste"}) \cup {[Message("create", NoDraft) EXCEPT !.ran = TRUE]}
  /\ kept' = Draft
  /\ UNCHANGED <<picker, created>>

\* Mutant of Freezes: a paste is still taken while the draft is being saved.
FreezesKeys == FALSE
Freezes == form.saving \/ form.suspended

\* Ctrl+S anywhere, Enter outside the field of Subjects.
Save ==
  /\ Keys /\ MayAsk
  /\ form' = [form EXCEPT !.saving = TRUE]
  /\ wire' = Cancelled({"paste"}, wire) \cup {Message("save", Draft)}
  /\ UNCHANGED picker /\ History

-----------------------------------------------------------------------------
\* Commands run; a save may be refused and every read may fail.
Run(m) ==
  /\ ~m.ran
  /\ \E ok \in BOOLEAN :
       wire' = (wire \ {m}) \cup {[m EXCEPT !.ran = TRUE, !.ok = ok,
                                            !.items = IF m.kind = "list" THEN store ELSE {}]}
  /\ UNCHANGED <<store, form, picker, root>> /\ History

Owned(m) == m.live /\ form.open /\ (m.kind = "list" => picker.loading)
Taken(m) == m.ran /\ wire' = wire \ {m} /\ UNCHANGED <<store, root>>

Drop(m) ==
  /\ Taken(m) /\ m.kind # "create"
  /\ \/ ~Owned(m)
     \/ m.kind = "paste" /\ (Freezes \/ ~m.ok)
  /\ UNCHANGED <<form, picker>> /\ History

\* acceptSubjects: after a failure the list stays as it is.
TakeSubjects(m) ==
  /\ m.kind = "list" /\ Taken(m) /\ Owned(m)
  /\ picker' = [picker EXCEPT !.loading = FALSE, !.row = 0,
                              !.items = IF m.ok THEN m.items ELSE @]
  /\ UNCHANGED form /\ History

\* The text of the clipboard goes where a paste of the terminal would; one that the field
\* cannot hold is dropped.
TakePaste(m) ==
  /\ m.kind = "paste" /\ m.ran /\ m.ok /\ Owned(m) /\ ~Freezes
  /\ form.text[form.index] < MaxText
  /\ Typed /\ picker' = Rows
  /\ wire' = Passed({"paste"}, Cancelled({"paste"}, wire \ {m}))
  /\ UNCHANGED <<store, root>> /\ History

TakeSave(m) ==
  /\ m.kind = "save" /\ Taken(m) /\ Owned(m)
  /\ IF m.ok
     THEN /\ form' = Closed /\ picker' = NoPicker
          /\ created' = {} /\ kept' = NoDraft
     ELSE /\ form' = [form EXCEPT !.saving = FALSE]
          /\ UNCHANGED picker /\ History

-----------------------------------------------------------------------------
\* The root: it opens the creation screen for a form that waits, and returns with the
\* Subject or without one.
TakeRequest(m) ==
  /\ m.kind = "create" /\ wire' = wire \ {m}
  /\ root' = IF m.live /\ form.open /\ form.suspended
             THEN [open |-> TRUE, saving |-> FALSE] ELSE root
  /\ UNCHANGED <<store, form, picker>> /\ History

CreateAtRoot ==
  /\ root.open /\ ~root.saving
  /\ root' = [root EXCEPT !.saving = TRUE]
  /\ UNCHANGED <<store, form, picker, wire>> /\ History

CreationFails ==
  /\ root.open /\ root.saving
  /\ root' = [root EXCEPT !.saving = FALSE]
  /\ UNCHANGED <<store, form, picker, wire>> /\ History

Resumed ==
  /\ form' = [form EXCEPT !.suspended = FALSE, !.index = Search]
  /\ kept' = NoDraft

\* Mutant of Unawaited: a list that was asked for before the creation is still awaited.
StillAwaited == [loading |-> picker.loading, wire |-> wire]
Unawaited == [loading |-> FALSE, wire |-> Stopped({"list"})]

ReturnWithSubject ==
  /\ root.open /\ root.saving
  /\ root' = [open |-> FALSE, saving |-> FALSE]
  /\ Resumed
  /\ \E s \in Subject \ store :
       /\ store' = store \cup {s}
       /\ created' = created \cup {s}
       /\ picker' = [picker EXCEPT !.loading = Unawaited.loading, !.items = @ \cup {s},
                                   !.selected = @ \cup {s}]
  /\ wire' = Unawaited.wire

\* Esc, which the creation screen takes only while nothing is being created.
ReturnEmpty ==
  /\ root.open /\ ~root.saving
  /\ root' = [root EXCEPT !.open = FALSE]
  /\ Resumed
  /\ UNCHANGED <<store, picker, wire, created>>

-----------------------------------------------------------------------------
Next ==
  \/ StartForm \/ CancelPicker \/ CancelForm \/ Tab \/ Type \/ AskPaste \/ OpenPicker
  \/ SearchRows \/ MoveRow \/ ConfirmPicker \/ ToggleSubject \/ CreateSubject \/ Save
  \/ CreateAtRoot \/ CreationFails \/ ReturnWithSubject \/ ReturnEmpty
  \/ \E m \in wire : Run(m) \/ Drop(m) \/ TakeSubjects(m) \/ TakePaste(m) \/ TakeSave(m)
                     \/ TakeRequest(m)

Spec == Init /\ [][Next]_vars

-----------------------------------------------------------------------------
\* A paste that will be taken goes into the field it was asked for, and no field was changed
\* since: not by a key, another paste, or a form that was closed or sent and came back.
PasteIsUnchanged ==
  \A m \in wire : m.kind = "paste" /\ Owned(m) /\ ~Freezes
    => m.draft.index = form.index /\ m.draft.text = form.text

\* What is being saved is what the form shows, whatever is answered meanwhile.
SavedIsShown ==
  \A m \in wire : m.kind = "save" /\ Owned(m) => form.saving /\ m.draft = Draft

\* A draft that waits for its Subject stays as it was left.
SuspendedIsKept == form.suspended => Draft = kept

\* A Subject that was created for the draft stays among its choices, whatever list arrives.
CreatedIsListed == created \subseteq picker.items

Coming(kind) == \E m \in wire : m.kind = kind /\ m.live

\* What the form waits for is on its way.
AwaitedIsComing ==
  /\ form.saving => Coming("save")
  /\ picker.loading => Coming("list")
  /\ form.suspended => Coming("create") \/ root.open

-----------------------------------------------------------------------------
(* What these rest on: a message is known by what it may still do, and a  *)
(* live one was sent for the form that is open now.                        *)

Kind == {"list", "paste", "create", "save"}
Drafts == [index : Field, text : [Field -> Nat], selected : SUBSET Nat]
Messages == [kind : Kind, draft : Drafts, live : BOOLEAN, ran : BOOLEAN, items : SUBSET Nat,
             ok : BOOLEAN]

Forms == [open : BOOLEAN, ending : BOOLEAN, saving : BOOLEAN, suspended : BOOLEAN,
          index : Field, text : [Field -> Nat]]
Pickers == [open : BOOLEAN, searching : BOOLEAN, row : Nat, items : SUBSET Nat,
            selected : SUBSET Nat, before : SUBSET Nat, loading : BOOLEAN]

\* The values of the variables.
TypeOK ==
  /\ store \in SUBSET Nat /\ created \in SUBSET Nat /\ kept \in Drafts
  /\ form \in Forms /\ picker \in Pickers /\ root \in [open : BOOLEAN, saving : BOOLEAN]
  /\ wire \in SUBSET Messages

\* The form does one thing at a time, and a closed form nothing.
OneThing ==
  /\ root.open => form.suspended
  /\ form.saving \/ form.suspended \/ picker.loading => form.open
  /\ ~(form.saving /\ form.suspended)
  /\ ~form.open => created = {}

\* One save is live, while the form is saving the draft it carries.
SavesOK ==
  /\ \A m \in wire : m.kind = "save" /\ m.live => form.saving /\ m.draft = Draft
  /\ \A m, n \in wire : m.kind = "save" /\ m.live /\ n.kind = "save" /\ n.live => m = n

\* A live paste was asked for with the text and the focus that the form still has, and not
\* before the draft was left.
PastesOK == \A m \in wire : m.kind = "paste" /\ m.live =>
  /\ ~form.suspended
  /\ form.open => m.draft.index = form.index /\ m.draft.text = form.text

\* A live list was asked for before any Subject was created.
ListsOK == \A m \in wire : m.kind = "list" /\ m.live => created = {}

IInv ==
  /\ TypeOK /\ OneThing /\ SavesOK /\ PastesOK /\ ListsOK
  /\ SuspendedIsKept /\ CreatedIsListed /\ AwaitedIsComing
=============================================================================
