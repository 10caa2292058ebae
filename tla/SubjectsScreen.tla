--------------------------- MODULE SubjectsScreen ---------------------------
(***************************************************************************)
(* The Subject screens of the terminal and the root model that routes to   *)
(* them: the list, a Subject's details, its forms and its aliases, and the *)
(* creation form that an Event form, a Goal picker or a voice draft may    *)
(* ask for and that returns to the one that asked.                         *)
(*                                                                         *)
(* Every read and write is a command of "wire": it runs on its own and its *)
(* answer arrives in any order.  The code gives it a new pointer and keeps *)
(* that pointer as long as the answer is wanted; here a message is "live"  *)
(* as long as its pointer is kept.  A list is known by how many changes of *)
(* this session it shows, the aliases of a Subject likewise.  Names,       *)
(* filters and the Thoughts themselves are left out.                       *)
(***************************************************************************)
EXTENDS Naturals, FiniteSets

CONSTANTS
  MaxSubject,  \* Subjects 1..MaxSubject; those after the first are created
  MaxChanges,  \* bound: changes of Subjects or Thoughts
  MaxAliases,  \* bound: changes of the aliases of a Subject
  MaxWire      \* bound: commands under way when the user asks again

Subject == 1..MaxSubject
Drafts == {"event", "goal", "voice"}

VARIABLES
  store,    \* the Subjects there are, changes made so far, alias changes of each Subject
  screen,   \* Model.screen
  list,     \* loading and listStale; the changes that the rows show
  conflict, \* whether the error shown is the alias that has the name
  selected, \* subjects.selected
  alias,    \* subjectAliasState: saving (writeRequest), mode, loading, failed; the Subject
            \*   and the changes its rows show
  waits,    \* the drafts that are suspended until a creation returns
  return,   \* those of subjectReturn, goalSubjectReturn, voiceSubjectReturn that are set
  back,     \* voiceSubjectScreen
  wire

vars == <<store, screen, list, conflict, selected, alias, waits, return, back, wire>>

NoAlias == [saving |-> FALSE, mode |-> "browse", loading |-> FALSE, failed |-> FALSE,
            of |-> 0, shown |-> 0]

Init ==
  /\ store = [subjects |-> {1}, changes |-> 0, aliases |-> [s \in Subject |-> 0]]
  /\ screen = "home"
  /\ list = [loading |-> FALSE, stale |-> FALSE, shown |-> 0]
  /\ conflict = FALSE
  /\ selected = 0
  /\ alias = NoAlias
  /\ waits = {} /\ return = {} /\ back = "voice"
  /\ wire = {}

-----------------------------------------------------------------------------
\* "work" is done by the command; then "done" or "failed" is answered.
Message(kind, subject) ==
  [kind |-> kind, subject |-> subject, live |-> TRUE, is |-> "work", shown |-> 0]

\* The messages that remain when the pointers of some kinds are dropped or replaced.
Retire(kinds) == {IF m.kind \in kinds THEN [m EXCEPT !.live = FALSE] ELSE m : m \in wire}
Reads == {"list", "get"}
MayAsk == Cardinality(wire) <= MaxWire
Others == UNCHANGED <<store, waits, return, back>>

\* listSubjects and getSubject, which replace the read before.
Read(kind, subject) ==
  /\ list' = [list EXCEPT !.loading = TRUE]
  /\ wire' = Retire(Reads) \cup {Message(kind, subject)}

\* openHome and openThoughtDraft stop the read of the Subject list.
Leave(to) == screen' = to /\ wire' = Retire(Reads) /\ UNCHANGED list

-----------------------------------------------------------------------------
\* Keys of the home screen, the Goals screen and a voice draft.  A form that waits for a
\* creation keeps its screen, except that Esc leaves the Goal picker.
OpenList ==
  /\ screen = "home" /\ "event" \notin waits /\ MayAsk
  /\ screen' = "list" /\ Read("list", 0)
  /\ Others /\ UNCHANGED <<conflict, selected, alias>>

OpenGoals ==
  /\ screen = "home" /\ "event" \notin waits
  /\ screen' = "goals"
  /\ UNCHANGED <<store, list, conflict, selected, alias, waits, return, back, wire>>

LeaveGoals ==
  /\ screen = "goals"
  /\ Leave("home")
  /\ waits' = waits \ {"goal"}
  /\ UNCHANGED <<store, conflict, selected, alias, return, back>>

OpenVoice ==
  /\ \/ screen = "home" /\ "event" \notin waits
     \/ screen = "list" /\ ~list.loading
     \/ screen \in {"detail", "misc"} /\ "voice" \notin waits
  /\ Leave("voice")
  /\ UNCHANGED <<store, conflict, selected, alias, waits, return, back>>

LeaveVoice ==
  /\ screen = "voice" /\ "voice" \notin waits
  /\ Leave("home")
  /\ UNCHANGED <<store, conflict, selected, alias, waits, return, back>>

\* A Thought is saved; keys wait for its result, and counts are told of it later.
SaveThought ==
  /\ screen \in {"voice", "detail", "misc"} /\ "voice" \notin waits
  /\ store.changes < MaxChanges /\ MayAsk
  /\ store' = [store EXCEPT !.changes = @ + 1]
  /\ wire' = wire \cup {Message("changed", 0)}
  /\ UNCHANGED <<screen, list, conflict, selected, alias, waits, return, back>>

Ask(d) ==
  /\ d \notin waits /\ MayAsk
  /\ CASE d = "event" -> screen = "home"
       [] d = "goal" -> screen = "goals"
       [] d = "voice" -> screen \in {"voice", "detail", "misc"}
  /\ waits' = waits \cup {d}
  /\ wire' = Retire({d}) \cup {Message(d, 0)}
  /\ UNCHANGED <<store, screen, list, conflict, selected, alias, return, back>>

-----------------------------------------------------------------------------
\* openSubjectCreate.
OpenCreate ==
  /\ screen' = "create"
  /\ list' = [list EXCEPT !.loading = FALSE]
  /\ conflict' = FALSE

\* Update: each kind of request is checked against its child, an Event or Goal request
\* also against the screen.
Accepted(m) ==
  /\ m.live /\ m.kind \in waits
  /\ m.kind = "event" => screen = "home"
  /\ m.kind = "goal" => screen = "goals"

TakeAsk(m) ==
  /\ m.kind \in Drafts /\ Accepted(m)
  /\ return' = return \cup {m.kind}
  /\ back' = IF m.kind = "voice" THEN screen ELSE back
  /\ wire' = Retire(Reads \cup {"create"}) \ {m}
  /\ OpenCreate
  /\ UNCHANGED <<store, selected, alias, waits>>

DropAsk(m) ==
  /\ m.kind \in Drafts /\ ~Accepted(m)
  /\ wire' = wire \ {m}
  /\ UNCHANGED <<store, screen, list, conflict, selected, alias, waits, return, back>>

\* A creation that ends returns to the Goal picker, else to the voice draft, else to the
\* Event form: the first of them that asked.
\* Mutant of First: the Event form is forgotten.
FirstOfTwo == {d \in return : d = "goal" \/ (d = "voice" /\ "goal" \notin return)}
First == {d \in return : \/ d = "goal" \/ (d = "voice" /\ "goal" \notin return)
                        \/ (d = "event" /\ return = {"event"})}

ReturnTo(d) ==
  /\ return' = return \ {d} /\ waits' = waits \ {d}
  /\ screen' = CASE d = "event" -> "home" [] d = "goal" -> "goals" [] d = "voice" -> back

-----------------------------------------------------------------------------
\* Keys of the list.
Retry ==
  /\ screen = "list" /\ ~list.loading /\ MayAsk
  /\ Read("list", 0)
  /\ Others /\ UNCHANGED <<screen, conflict, selected, alias>>

LeaveList ==
  /\ screen = "list"
  /\ Leave("home")
  /\ UNCHANGED <<store, conflict, selected, alias, waits, return, back>>

ChooseRow ==
  /\ screen = "list" /\ ~list.loading /\ MayAsk
  /\ \/ /\ screen' = "misc" /\ wire' = Retire(Reads) /\ selected' = 0
        /\ UNCHANGED <<list, conflict, return>>
     \/ /\ OpenCreate
        /\ wire' = Retire(Reads \cup {"create"}) /\ return' = return \ {"event"}
        /\ UNCHANGED selected
     \/ /\ \E s \in store.subjects : Read("get", s)
        /\ UNCHANGED <<screen, conflict, selected, return>>
  /\ UNCHANGED <<store, alias, waits, back>>

\* Keys of the creation form, and of the form that promotes an alias in its place.
Confirm ==
  /\ conflict' = FALSE
  /\ list' = [list EXCEPT !.loading = TRUE]
  /\ wire' = Retire({"create"}) \cup {Message("create", 0)}

SubmitCreate ==
  /\ screen = "create" /\ ~list.loading /\ MayAsk
  /\ Confirm
  /\ Others /\ UNCHANGED <<screen, selected, alias>>

ReviewAlias ==
  /\ screen = "create" /\ ~list.loading /\ conflict
  /\ screen' = "fromAlias" /\ conflict' = FALSE
  /\ Others /\ UNCHANGED <<list, selected, alias, wire>>

KeepAlias ==
  /\ screen = "fromAlias" /\ ~list.loading
  /\ screen' = "create"
  /\ Others /\ UNCHANGED <<list, conflict, selected, alias, wire>>

SubmitPromotion ==
  /\ screen = "fromAlias" /\ ~list.loading /\ MayAsk
  /\ Confirm
  /\ Others /\ UNCHANGED <<screen, selected, alias>>

CancelCreate ==
  /\ screen = "create" /\ ~list.loading
  /\ conflict' = FALSE /\ wire' = Retire({"create"})
  /\ \/ \E d \in First : ReturnTo(d)
     \/ First = {} /\ screen' = "list" /\ UNCHANGED <<waits, return>>
  /\ UNCHANGED <<store, list, selected, alias, back>>

\* Keys of the details, while no Thought is edited there.
LeaveDetail ==
  /\ screen \in {"detail", "misc"} /\ "voice" \notin waits /\ MayAsk
  /\ screen' = "list" /\ selected' = 0
  /\ IF list.stale THEN Read("list", 0) ELSE UNCHANGED <<list, wire>>
  /\ Others /\ UNCHANGED <<conflict, alias>>

OpenForm ==
  /\ screen = "detail" /\ "voice" \notin waits /\ selected # 0
  /\ screen' \in {"edit", "delete"}
  /\ Others /\ UNCHANGED <<list, conflict, selected, alias, wire>>

LeaveForm ==
  /\ screen \in {"edit", "delete"} /\ ~list.loading
  /\ screen' = "detail"
  /\ Others /\ UNCHANGED <<list, conflict, selected, alias, wire>>

SubmitForm ==
  /\ screen \in {"edit", "delete"} /\ ~list.loading /\ MayAsk
  /\ list' = [list EXCEPT !.loading = TRUE]
  /\ wire' = wire \cup {Message(screen, selected)}
  /\ Others /\ UNCHANGED <<screen, conflict, selected, alias>>

-----------------------------------------------------------------------------
\* The aliases of the selected Subject: their state is new whenever they are opened.
\* listSubjectAliases, from the state "a".
ListAliases(a) ==
  /\ alias' = [a EXCEPT !.loading = TRUE]
  /\ wire' = Retire({"aliases"}) \cup {Message("aliases", selected)}

OpenAliases ==
  /\ screen = "detail" /\ "voice" \notin waits /\ selected # 0 /\ MayAsk
  /\ screen' = "aliases"
  /\ ListAliases(NoAlias)
  /\ Others /\ UNCHANGED <<list, conflict, selected>>

AliasKeys == screen = "aliases" /\ ~alias.saving

RetryAliases ==
  /\ AliasKeys /\ alias.mode = "browse" /\ ~alias.loading /\ MayAsk
  /\ ListAliases(alias)
  /\ Others /\ UNCHANGED <<screen, list, conflict, selected>>

LeaveAliases ==
  /\ AliasKeys /\ alias.mode = "browse"
  /\ screen' = "detail" /\ alias' = NoAlias
  /\ wire' = Retire({"aliases"})
  /\ Others /\ UNCHANGED <<list, conflict, selected>>

AliasForm ==
  /\ AliasKeys /\ alias.mode = "browse" /\ ~alias.loading /\ ~alias.failed
  /\ \E mode \in {"edit", "remove"} : alias' = [alias EXCEPT !.mode = mode]
  /\ Others /\ UNCHANGED <<screen, list, conflict, selected, wire>>

LeaveAliasForm ==
  /\ AliasKeys /\ alias.mode # "browse"
  /\ alias' = [alias EXCEPT !.mode = "browse", !.failed = FALSE]
  /\ Others /\ UNCHANGED <<screen, list, conflict, selected, wire>>

SaveAlias ==
  /\ AliasKeys /\ alias.mode # "browse" /\ MayAsk
  /\ alias' = [alias EXCEPT !.saving = TRUE, !.loading = TRUE, !.failed = FALSE]
  /\ wire' = wire \cup {Message("alias", selected)}
  /\ Others /\ UNCHANGED <<screen, list, conflict, selected>>

-----------------------------------------------------------------------------
\* The commands.  A write of this session is a change; it may also fail.
Writes == {"create", "edit", "delete"}

Run(m) ==
  LET changed == [store EXCEPT !.changes = @ + 1]
  IN /\ m.is = "work" /\ m.kind \notin Drafts \cup {"changed"}
     /\ \E done \in {"done", "failed"} :
          /\ wire' = (wire \ {m}) \cup
                     {[m EXCEPT !.is = done,
                                !.shown = CASE m.kind = "list" -> store.changes
                                            [] m.kind = "aliases" -> store.aliases[m.subject]
                                            [] OTHER -> 0]}
          /\ store' = CASE done = "failed" \/ m.kind \in {"list", "get", "aliases"} -> store
                        [] done = "done" /\ m.kind = "alias" ->
                             [store EXCEPT !.aliases[m.subject] = @ + 1]
                        [] done = "done" /\ m.kind = "create" ->
                             [changed EXCEPT !.subjects = @ \cup {Cardinality(@) + 1}]
                        [] done = "done" /\ m.kind \in {"edit", "delete"} -> changed
          /\ done = "done" /\ m.kind \in Writes => store.changes < MaxChanges
          /\ done = "done" /\ m.kind = "create" => store.subjects # Subject
          /\ done = "done" /\ m.kind = "alias" => store.aliases[m.subject] < MaxAliases
  /\ UNCHANGED <<screen, list, conflict, selected, alias, waits, return, back>>

-----------------------------------------------------------------------------
\* The answers.
Answer(m) == m.is # "work" /\ wire' = wire \ {m}
Failed(m) == m.is = "failed"

\* Mutant of Owned: any answer for the Subject list is taken while the list is shown.
OwnedOnList(m) == m.live \/ (m.kind = "list" /\ screen = "list")
Owned(m) ==
  /\ m.live
  /\ m.kind = "list" => screen = "list"
  /\ m.kind \in {"aliases", "alias"} => screen = "aliases" /\ m.subject = selected

Discard(m) ==
  /\ Answer(m) /\ ~Owned(m)
  /\ UNCHANGED <<store, screen, list, conflict, selected, alias, waits, return, back>>

TakeList(m) ==
  /\ Answer(m) /\ m.kind = "list" /\ Owned(m)
  /\ list' = IF Failed(m) THEN [list EXCEPT !.loading = FALSE]
             ELSE [list EXCEPT !.loading = FALSE, !.stale = FALSE, !.shown = m.shown]
  /\ Others /\ UNCHANGED <<screen, conflict, selected, alias>>

TakeSubject(m) ==
  /\ Answer(m) /\ m.kind = "get" /\ Owned(m)
  /\ list' = [list EXCEPT !.loading = FALSE]
  /\ IF Failed(m) THEN UNCHANGED <<screen, selected>>
     ELSE screen' = "detail" /\ selected' = m.subject
  /\ Others /\ UNCHANGED <<conflict, alias>>

\* A failed creation may report an alias that has the name.
TakeCreated(m) ==
  /\ Answer(m) /\ m.kind = "create" /\ Owned(m)
  /\ list' = [list EXCEPT !.loading = FALSE, !.stale = @ \/ ~Failed(m)]
  /\ IF Failed(m)
     THEN /\ conflict' \in {FALSE, screen = "create"}
          /\ UNCHANGED <<screen, selected, waits, return>>
     ELSE /\ conflict' = FALSE
          /\ selected' = IF First \subseteq {"event"} THEN Cardinality(store.subjects)
                         ELSE selected
          /\ \/ \E d \in First : ReturnTo(d)
             \/ First = {} /\ screen' = "detail" /\ UNCHANGED <<waits, return>>
  /\ UNCHANGED <<store, alias, back>>

TakeEdited(m) ==
  /\ Answer(m) /\ m.kind = "edit"
  /\ IF Failed(m) THEN list' = [list EXCEPT !.loading = FALSE] /\ UNCHANGED screen
     ELSE list' = [list EXCEPT !.loading = FALSE, !.stale = TRUE] /\ screen' = "detail"
  /\ Others /\ UNCHANGED <<conflict, selected, alias>>

TakeDeleted(m) ==
  /\ m.is # "work" /\ m.kind = "delete"
  /\ IF Failed(m)
     THEN /\ list' = [list EXCEPT !.loading = FALSE]
          /\ wire' = wire \ {m} /\ UNCHANGED <<screen, selected>>
     ELSE /\ screen' = "list" /\ selected' = 0
          /\ list' = [list EXCEPT !.loading = TRUE, !.stale = TRUE]
          /\ wire' = (Retire(Reads) \ {m}) \cup {Message("list", 0)}
  /\ Others /\ UNCHANGED <<conflict, alias>>

TakeAliases(m) ==
  /\ Answer(m) /\ m.kind = "aliases" /\ Owned(m)
  /\ alias' = IF Failed(m) THEN [alias EXCEPT !.loading = FALSE, !.failed = TRUE]
              ELSE [alias EXCEPT !.loading = FALSE, !.failed = FALSE,
                                 !.of = m.subject, !.shown = m.shown]
  /\ Others /\ UNCHANGED <<screen, list, conflict, selected>>

\* Mutant of ReadBack: a saved alias is not read back.
NotReadBack(m) == alias' = [alias EXCEPT !.saving = FALSE, !.loading = FALSE, !.mode = "browse"]
                  /\ wire' = wire \ {m}
ReadBack(m) ==
  /\ alias' = [alias EXCEPT !.saving = FALSE, !.mode = "browse"]
  /\ wire' = (Retire({"aliases"}) \ {m}) \cup {Message("aliases", m.subject)}

TakeAlias(m) ==
  /\ m.is # "work" /\ m.kind = "alias" /\ Owned(m)
  /\ IF Failed(m)
     THEN /\ alias' = [alias EXCEPT !.saving = FALSE, !.loading = FALSE, !.failed = TRUE]
          /\ wire' = wire \ {m}
     ELSE ReadBack(m)
  /\ Others /\ UNCHANGED <<screen, list, conflict, selected>>

\* thoughts.ChangedMsg
TakeChanged(m) ==
  /\ m.kind = "changed"
  /\ IF screen = "list" /\ ~list.loading
     THEN /\ list' = [list EXCEPT !.stale = TRUE, !.loading = TRUE]
          /\ wire' = (Retire(Reads) \ {m}) \cup {Message("list", 0)}
     ELSE /\ list' = [list EXCEPT !.stale = TRUE]
          /\ wire' = wire \ {m}
  /\ Others /\ UNCHANGED <<screen, conflict, selected, alias>>

-----------------------------------------------------------------------------
Next ==
  \/ OpenList \/ OpenGoals \/ LeaveGoals \/ OpenVoice \/ LeaveVoice \/ SaveThought
  \/ \E d \in Drafts : Ask(d)
  \/ Retry \/ LeaveList \/ ChooseRow
  \/ SubmitCreate \/ ReviewAlias \/ KeepAlias \/ SubmitPromotion \/ CancelCreate
  \/ LeaveDetail \/ OpenForm \/ LeaveForm \/ SubmitForm
  \/ OpenAliases \/ RetryAliases \/ LeaveAliases \/ AliasForm \/ LeaveAliasForm \/ SaveAlias
  \/ \E m \in wire : \/ TakeAsk(m) \/ DropAsk(m) \/ Run(m) \/ Discard(m)
                     \/ TakeList(m) \/ TakeSubject(m) \/ TakeCreated(m) \/ TakeEdited(m)
                     \/ TakeDeleted(m) \/ TakeAliases(m) \/ TakeAlias(m) \/ TakeChanged(m)

Spec == Init /\ [][Next]_vars

-----------------------------------------------------------------------------
\* listStale is right: the rows show every change of this session, or the list is known to
\* be stale, or the message that will say so is on its way.
StaleIsKnown ==
  \/ list.shown = store.changes \/ list.stale
  \/ \E m \in wire : m.kind = "changed" \/ (m.kind \in Writes /\ m.is = "done")

\* A draft suspended for a creation is never left behind: its request is on its way to the
\* root, or the creation form is shown on its behalf, and on behalf of it alone.
SuspendedDraftReturns ==
  \A d \in Drafts :
    /\ d \in waits => d \in return \/ \E m \in wire : m.kind = d /\ m.live
    /\ d \in return => screen \in {"create", "fromAlias"} /\ return = {d}

\* At rest the aliases shown are those of the selected Subject, with every change that this
\* session made to them.
AliasesAreCurrent ==
  screen = "aliases" /\ ~alias.loading /\ ~alias.failed
    => alias.of = selected /\ alias.shown = store.aliases[selected]

\* The answer that a screen waits for, with its keys off, is on its way.
AwaitedIsComing ==
  LET coming(kinds) == \E m \in wire : m.live /\ m.kind \in kinds
  IN /\ list.loading => /\ screen = "list" => coming(Reads)
                        /\ screen \in {"create", "fromAlias"} => coming({"create"})
                        /\ screen \in {"edit", "delete"} => coming({screen})
     /\ alias.loading /\ screen = "aliases" =>
          coming(IF alias.saving THEN {"alias"} ELSE {"aliases"})

-----------------------------------------------------------------------------
(* What these rest on.  A draft waits on the screen where it asked.  What   *)
(* writes is under way only while the screen that sent it waits with its    *)
(* keys off, and what reads is wanted only by the screen that asked.        *)

ScreenNames == {"home", "list", "goals", "voice", "detail", "misc", "create", "fromAlias",
                "edit", "delete", "aliases"}
AskedOn(d) == CASE d = "event" -> {"home"} [] d = "goal" -> {"goals"}
                [] d = "voice" -> {"voice", "detail", "misc"}
FormOf(kind) == IF kind = "create" THEN {"create", "fromAlias"} ELSE {kind}

Kind == Drafts \cup Reads \cup Writes \cup {"aliases", "alias", "changed"}
Messages == [kind : Kind, subject : 0..MaxSubject, live : BOOLEAN,
             is : {"work", "done", "failed"}, shown : Nat]

Lists == [loading : BOOLEAN, stale : BOOLEAN, shown : Nat]
AliasStates == [saving : BOOLEAN, mode : {"browse", "edit", "remove"}, loading : BOOLEAN,
                failed : BOOLEAN, of : 0..MaxSubject, shown : Nat]

MessageOK(m) ==
  /\ m.kind \in {"get", "aliases", "alias"} => m.subject # 0
  /\ m.kind \in Drafts \cup {"changed"} => m.is = "work"

TypeOK ==
  /\ store \in [subjects : SUBSET Subject, changes : Nat, aliases : [Subject -> Nat]]
  /\ screen \in ScreenNames
  /\ list \in Lists
  /\ conflict \in BOOLEAN
  /\ selected \in 0..MaxSubject
  /\ alias \in AliasStates
  /\ waits \in SUBSET Drafts /\ return \in SUBSET waits
  /\ back \in AskedOn("voice")
  /\ wire \in SUBSET Messages
  /\ \A m \in wire : MessageOK(m)

\* A draft that waits still shows the screen where it asked, or the form stands for it.
WaitsWhereAsked == \A d \in waits \ return : screen \in AskedOn(d)

\* Which screen an answer is wanted on, and that its write is under way while it waits.
Wanted ==
  \A m \in wire :
    /\ m.live /\ m.kind \in Drafts => m.kind \notin return
    /\ m.live /\ m.kind \in Reads => screen = "list"
    /\ m.kind \in Writes => m.live /\ list.loading /\ screen \in FormOf(m.kind)
    /\ m.kind = "alias" => m.live /\ screen = "aliases" /\ m.subject = selected /\ alias.saving
    /\ m.live /\ m.kind = "aliases" =>
         /\ screen = "aliases" /\ m.subject = selected
         /\ alias.loading /\ ~alias.saving /\ alias.mode = "browse"

\* Of each kind one at most is wanted.
OneWanted ==
  \A m, n \in wire :
    /\ m.kind \in Writes /\ n.kind \in Writes => m = n
    /\ m.kind = "alias" /\ n.kind = "alias" => m = n
    /\ m.live /\ n.live /\ m.kind \in Reads /\ n.kind \in Reads => m = n
    /\ m.live /\ n.live /\ m.kind = n.kind /\ m.kind \in Drafts \cup {"aliases"} => m = n

\* What a wanted read saw is still so.
SawAll ==
  \A m \in wire : m.live /\ m.is = "done" =>
    /\ m.kind = "list" => m.shown = store.changes
    /\ m.kind = "aliases" => m.shown = store.aliases[selected]

\* A form for an alias was opened on rows that were current, and they are until it is saved.
AliasOK ==
  /\ alias.saving => screen = "aliases" /\ alias.loading /\ alias.mode # "browse"
  /\ screen = "aliases" => selected # 0 /\ (alias.loading => alias.saving \/ alias.mode = "browse")
  /\ screen = "aliases" /\ alias.mode # "browse"
       /\ (\A m \in wire : m.kind = "alias" => m.is # "done")
       => alias.of = selected /\ alias.shown = store.aliases[selected]

NothingLoads == screen \in {"detail", "misc", "aliases"} => ~list.loading

IInv ==
  /\ TypeOK /\ WaitsWhereAsked /\ SuspendedDraftReturns /\ Wanted /\ OneWanted /\ SawAll
  /\ AliasOK /\ AliasesAreCurrent /\ NothingLoads /\ StaleIsKnown /\ AwaitedIsComing
=============================================================================
