----------------------------- MODULE EventCards -----------------------------
(***************************************************************************)
(* The cards of the home timeline and the form that starts and ends        *)
(* Events.  DayLoad is about which day is read and shown; here the list of *)
(* a load has cards, one of them is selected and one may be open, and an   *)
(* Event is saved, while other sessions change the same store.  Handlers   *)
(* run one by one; every read and save is a command of "wire" that runs    *)
(* once, on its own, and whose answer reaches Update later, in any order.  *)
(*                                                                         *)
(* A card is an Event or a group of Thoughts outside Events; its number is *)
(* its place in time.  Card 1 is yesterday's, the others are today's.      *)
(* Scrolling, Subjects of the card, the Thought list under it and the      *)
(* fields of the form are left out.                                        *)
(***************************************************************************)
EXTENDS Naturals, FiniteSets

CONSTANTS
  MaxCard,       \* cards are numbered in the order of their start
  Groups,        \* the cards that are groups of Thoughts outside Events
  MaxLoads,      \* bound: loads before the user stops asking
  MaxOpened,     \* bound: cards opened by a key, likewise
  MaxForms,      \* bound: forms started, likewise
  MaxWire        \* bound: commands under way when the user acts

Card == 1..MaxCard

Event == Card \ Groups
Today == 2
Day == 1..Today
Of(d) == IF d = 1 THEN {1} ELSE Card \ {1}

VARIABLES
  store,         \* what the store lists, and the ongoing Event (0: none)
  active,        \* between Open and Close
  day,           \* Model.day
  entries,       \* Model.entries: cards, the one shown as ongoing, the load they are from
  load,          \* Model.load: number, day and entriesPending
  pos,           \* Model.position: entryIndex, followNow, and target = targetDayBoundary
  card,          \* Model.expansion, expanded, opening, and the scope of Model.picker
  form,          \* Model.save, and Model.form: open, the Event to end, saving
  saved,         \* history: number of the load under way when a save was acknowledged
  wire           \* commands under way and answers not yet delivered

vars == <<store, active, day, entries, load, pos, card, form, saved, wire>>

Message(kind, num, d, c) ==
  [kind |-> kind, num |-> num, day |-> d, card |-> c, ran |-> FALSE, shown |-> {},
   ongoing |-> 0]

Index(c, set) == Cardinality({x \in set : x < c})
Last(set) == IF set = {} THEN 0 ELSE Cardinality(set) - 1
At(i, set) == IF set = {} THEN 0 ELSE CHOOSE c \in set : Index(c, set) = i
Selected == At(pos.index, entries.shown)

Init ==
  /\ store = [listed |-> {}, ongoing |-> 0]
  /\ active = FALSE /\ day = Today
  /\ entries = [shown |-> {}, ongoing |-> 0, from |-> 0]
  /\ load = [num |-> 0, day |-> 0, pending |-> FALSE]
  /\ pos = [index |-> 0, follow |-> TRUE, boundary |-> TRUE]
  /\ card = [num |-> 0, key |-> 0, opening |-> FALSE, picker |-> 0]
  /\ form = [num |-> 0, open |-> FALSE, ending |-> 0, saving |-> FALSE]
  /\ saved = [c \in Card |-> MaxLoads + MaxForms]
  /\ wire = {}

-----------------------------------------------------------------------------
\* The store.  A new Event starts when none is ongoing and after every other one.
StartEvent(c) ==
  /\ c \in Event \ store.listed /\ store.ongoing = 0
  /\ \A e \in store.listed \cap Event : e < c
  /\ store' = [listed |-> store.listed \cup {c}, ongoing |-> c]
EndEvent(c) ==
  /\ c # 0 /\ store.ongoing = c
  /\ store' = [store EXCEPT !.ongoing = 0]

\* Another session of the user; groups of Thoughts come and go.
OtherSession ==
  /\ \/ \E c \in Card : StartEvent(c) \/ EndEvent(c)
     \/ \E c \in Groups : store' = [store EXCEPT !.listed = (@ \ {c}) \cup ({c} \ @)]
  /\ UNCHANGED <<active, day, entries, load, pos, card, form, saved, wire>>

-----------------------------------------------------------------------------
\* Mutant of LoadDay: the load invalidates the answer of an opening card and still waits for it.
LoadDayOpening(d) ==
  /\ load' = [num |-> load.num + 1, day |-> d, pending |-> TRUE]
  /\ card' = [card EXCEPT !.num = @ + 1]
\* loadDay: cards and an open card stay until the list arrives; an opening one is dropped.
LoadDay(d) ==
  /\ load' = [num |-> load.num + 1, day |-> d, pending |-> TRUE]
  /\ card' = [card EXCEPT !.num = @ + 1, !.opening = FALSE]

List(d) == {Message("entries", load.num + 1, d, 0)}
Ask(d) == LoadDay(d) /\ wire' = wire \cup List(d)
MayAsk == load.num < MaxLoads /\ Cardinality(wire) <= MaxWire
NoLoad == UNCHANGED <<load, card, wire>>
Kept == UNCHANGED <<store, day, entries, saved>>

Opened(c) == [num |-> card.num + 1, key |-> c, opening |-> TRUE,
              picker |-> IF card.key = c THEN card.picker ELSE 0]
Opening(c) == Message("open", card.num + 1, 0, c)
MayOpen == card.num < load.num + MaxOpened /\ Cardinality(wire) <= MaxWire

Open ==
  /\ ~active /\ MayAsk
  /\ active' = TRUE
  /\ Ask(IF pos.follow THEN Today ELSE day)
  /\ Kept /\ UNCHANGED <<pos, form>>

Close ==
  /\ active /\ ~form.open /\ MayAsk
  /\ active' = FALSE
  /\ load' = [load EXCEPT !.num = @ + 1]
  /\ card' = [card EXCEPT !.num = @ + 1, !.key = 0, !.picker = 0]
  /\ Kept /\ UNCHANGED <<pos, form, wire>>

-----------------------------------------------------------------------------
\* Keys, while no form is open.  Those of the timeline need that no card is; the cards of a
\* day that is being left take none but those that load.
Keys == active /\ ~form.open /\ UNCHANGED active /\ Kept
TimelineKeys == Keys /\ card.key = 0
Leaving == load.pending /\ load.day # day
Wanted == IF load.pending THEN load.day ELSE day

\* On the boundary of the day the last card is the selected one.
OnBoundary == IF pos.boundary THEN Last(entries.shown) ELSE pos.index

ChangeDay ==
  /\ TimelineKeys /\ MayAsk
  /\ \E d \in Day \ {Wanted} : Ask(d)
  /\ pos' = [pos EXCEPT !.index = OnBoundary, !.follow = FALSE]
  /\ UNCHANGED form

Reload ==
  /\ TimelineKeys /\ MayAsk
  /\ Ask(Wanted)
  /\ pos' = [pos EXCEPT !.index = OnBoundary]
  /\ UNCHANGED form

End ==
  /\ TimelineKeys /\ MayAsk
  /\ pos' = [index |-> Last(entries.shown), follow |-> TRUE, boundary |-> TRUE]
  /\ IF day # Today \/ load.pending THEN Ask(Today) ELSE NoLoad
  /\ UNCHANGED form

\* Up, down and home; down from the last card reaches the boundary of the day.
Move ==
  /\ TimelineKeys /\ ~Leaving
  /\ \/ /\ entries.shown # {}
        /\ pos' \in {[index |-> i, follow |-> FALSE, boundary |-> FALSE] :
                      i \in 0..Last(entries.shown)}
     \/ pos' = [index |-> Last(entries.shown), follow |-> (day = Today), boundary |-> TRUE]
  /\ NoLoad /\ UNCHANGED form

OpenSelected ==
  /\ TimelineKeys /\ ~Leaving /\ MayOpen /\ entries.shown # {}
  /\ LET c == At(OnBoundary, entries.shown)
     IN card' = Opened(c) /\ wire' = wire \cup {Opening(c)}
  /\ pos' = [index |-> OnBoundary, follow |-> FALSE, boundary |-> FALSE]
  /\ UNCHANGED <<load, form>>

ReopenCard ==
  /\ Keys /\ card.key # 0 /\ MayOpen
  /\ card' = Opened(card.key) /\ wire' = wire \cup {Opening(card.key)}
  /\ UNCHANGED <<load, pos, form>>

\* Esc; in the timeline it drops what an opening that lost its card still brings.
CollapseCard ==
  /\ Keys
  /\ \/ card.key # 0
     \/ card.opening /\ ~Leaving
  /\ card' = [num |-> card.num + 1, key |-> 0, opening |-> FALSE, picker |-> 0]
  /\ UNCHANGED <<load, pos, form, wire>>

-----------------------------------------------------------------------------
\* The form; a save belongs to the form that sent it and is not cancelled with the screen.
StartForm ==
  /\ TimelineKeys /\ form.num < MaxForms
  /\ \E c \in {0, entries.ongoing} :
       /\ c # 0 => ~Leaving /\ At(OnBoundary, entries.shown) = c
       /\ form' = [num |-> form.num + 1, open |-> TRUE, ending |-> c, saving |-> FALSE]
  /\ pos' = [pos EXCEPT !.index = OnBoundary]
  /\ NoLoad

CancelForm ==
  /\ active /\ form.open /\ ~form.saving
  /\ form' = [num |-> form.num + 1, open |-> FALSE, ending |-> 0, saving |-> FALSE]
  /\ Kept /\ NoLoad /\ UNCHANGED <<active, pos>>

SaveForm ==
  /\ active /\ form.open /\ ~form.saving
  /\ form' = [form EXCEPT !.saving = TRUE]
  /\ wire' = wire \cup {Message("save", form.num, 0, form.ending)}
  /\ Kept /\ UNCHANGED <<active, load, pos, card>>

-----------------------------------------------------------------------------
\* A command runs: ListEntriesInRange and OpenThoughtsView read, Create and End write.
Ran(m, answer) == wire' = (wire \ {m}) \cup {[answer EXCEPT !.ran = TRUE]}

Run(m) ==
  /\ ~m.ran
  /\ \/ /\ m.kind = "entries" /\ UNCHANGED store
        /\ LET listed == store.listed \cap Of(m.day)
           IN Ran(m, [m EXCEPT !.shown = listed,
                       !.ongoing = IF store.ongoing \in listed THEN store.ongoing ELSE 0])
     \/ /\ m.kind = "open" /\ m.card \in store.listed /\ UNCHANGED store
        /\ Ran(m, [m EXCEPT !.ongoing = IF store.ongoing = m.card THEN m.card ELSE 0])
     \/ /\ m.kind = "save"
        /\ \E c \in IF m.card = 0 THEN Card ELSE {m.card} :
             /\ IF m.card = 0 THEN StartEvent(c) ELSE EndEvent(c)
             /\ Ran(m, [m EXCEPT !.card = c])
  /\ UNCHANGED <<active, day, entries, load, pos, card, form, saved>>

-----------------------------------------------------------------------------
\* Mutant of Owned: a load drops the lists of earlier ones only where they are for another day.
OwnedByDay(m) ==
  active /\ CASE m.kind = "entries" -> load.pending /\ (m.num = load.num \/ m.day = load.day)
              [] m.kind = "open" -> m.num = card.num
              [] m.kind = "save" -> m.num = form.num
\* Update takes an answer only while its number is the one it waits for.
Owned(m) ==
  active /\ CASE m.kind = "entries" -> load.pending /\ m.num = load.num
              [] m.kind = "open" -> m.num = card.num
              [] m.kind = "save" -> m.num = form.num

Discard(m) ==
  /\ ~Owned(m) /\ (m.kind = "save" => m.ran)
  /\ wire' = wire \ {m}
  /\ UNCHANGED <<store, active, day, entries, load, pos, card, form, saved>>

\* Mutant of Landing: the selection stays at its place, whichever card is there now.
LandingByIndex(shown, ongoing, before, index) ==
  IF pos.follow THEN (IF ongoing = 0 THEN Last(shown) ELSE Index(ongoing, shown))
  ELSE IF index > Last(shown) THEN Last(shown) ELSE index
\* Where the selection lands: following the clock, on the ongoing or last card; else on the
\* card selected before where it is still listed; else at its place.
Landing(shown, ongoing, before, index) ==
  IF pos.follow THEN (IF ongoing = 0 THEN Last(shown) ELSE Index(ongoing, shown))
  ELSE IF before \in shown THEN Index(before, shown)
  ELSE IF index > Last(shown) THEN Last(shown) ELSE index

\* entriesListedMsg: the list makes its day the day shown, and an open card that is still
\* listed is read again.
TakeEntries(m) ==
  LET moved == load.day # day
      reopens == ~moved /\ card.key # 0 /\ card.key \in m.shown
  IN /\ m.kind = "entries" /\ m.ran /\ Owned(m)
     /\ day' = load.day
     /\ entries' = [shown |-> m.shown, ongoing |-> m.ongoing, from |-> load.num]
     /\ load' = [load EXCEPT !.pending = FALSE]
     /\ pos' = [index |-> IF moved THEN Landing(m.shown, m.ongoing, 0, 0)
                          ELSE Landing(m.shown, m.ongoing, Selected, pos.index),
                follow |-> pos.follow /\ ~reopens,
                boundary |-> IF moved THEN pos.follow ELSE pos.boundary /\ ~reopens]
     /\ card' = IF reopens THEN Opened(card.key) ELSE [card EXCEPT !.key = 0, !.picker = 0]
     /\ wire' = (wire \ {m}) \cup (IF reopens THEN {Opening(card.key)} ELSE {})
     /\ UNCHANGED <<store, active, form, saved>>

RefuseEntries(m) ==
  /\ m.kind = "entries" /\ ~m.ran /\ Owned(m)
  /\ load' = [load EXCEPT !.pending = FALSE]
  /\ wire' = wire \ {m}
  /\ UNCHANGED <<store, active, day, entries, pos, card, form, saved>>

\* entryOpenedMsg: the card shows its Event as it was read with its Thoughts.
TakeOpened(m) ==
  /\ m.kind = "open" /\ Owned(m)
  /\ card' = [card EXCEPT !.opening = FALSE, !.picker = IF m.ran THEN m.card ELSE @]
  /\ entries' = IF m.ran /\ entries.ongoing = m.card
                THEN [entries EXCEPT !.ongoing = m.ongoing] ELSE entries
  /\ wire' = wire \ {m}
  /\ UNCHANGED <<store, active, day, load, pos, form, saved>>

RefuseSave(m) ==
  /\ m.kind = "save" /\ ~m.ran /\ Owned(m)
  /\ form' = [form EXCEPT !.saving = FALSE]
  /\ wire' = wire \ {m}
  /\ UNCHANGED <<store, active, day, entries, load, pos, card, saved>>

\* eventSavedMsg: a started Event brings today back, an ended one reloads the day shown.
TakeSave(m) ==
  LET d == IF form.ending = 0 THEN Today ELSE day
  IN /\ m.kind = "save" /\ m.ran /\ Owned(m)
     /\ form' = [form EXCEPT !.open = FALSE, !.saving = FALSE, !.ending = 0]
     /\ pos' = IF form.ending = 0 THEN [pos EXCEPT !.follow = TRUE, !.boundary = TRUE] ELSE pos
     /\ LoadDay(d)
     /\ wire' = (wire \ {m}) \cup List(d)
     /\ saved' = [saved EXCEPT ![m.card] = load.num]
     /\ UNCHANGED <<store, active, day, entries>>

-----------------------------------------------------------------------------
Answer(m) == \/ Run(m) \/ Discard(m) \/ TakeEntries(m) \/ RefuseEntries(m)
             \/ TakeOpened(m) \/ RefuseSave(m) \/ TakeSave(m)

Next ==
  \/ OtherSession
  \/ Open \/ Close \/ ChangeDay \/ Reload \/ End \/ Move
  \/ OpenSelected \/ ReopenCard \/ CollapseCard
  \/ StartForm \/ CancelForm \/ SaveForm
  \/ \E m \in wire : Answer(m)

Spec == Init /\ [][Next]_vars

-----------------------------------------------------------------------------
\* The open card is a card of the list, it is the selected one (so that the keys of the
\* timeline act on it once it is collapsed), and the Thoughts under it are its own, through
\* reloads in which other cards come and go and through answers to earlier openings.
OpenCardIsSelected ==
  card.key # 0 => /\ card.key = Selected
                  /\ card.picker \in {0, card.key}

\* A list asked for after a save was acknowledged has the Event of the save: the list of an
\* earlier load that answers late never takes its place.
OwnSaveIsShown ==
  \A c \in Event : c \in Of(day) /\ entries.from > saved[c] => c \in entries.shown

Coming(kind, num) == \E m \in wire : m.kind = kind /\ m.num = num

\* What the screen waits for is on its way: while it shows that it loads, opens or saves,
\* the one answer that it will take is under way, although loads, keys and closings keep
\* changing the numbers.  (Update has no other way to clear these flags.)
AwaitedIsComing ==
  /\ active /\ load.pending => Coming("entries", load.num)
  /\ active /\ card.opening => Coming("open", card.num)
  /\ form.saving => active /\ Coming("save", form.num)

-----------------------------------------------------------------------------
(* What these rest on: of each kind at most the last message asked for is   *)
(* taken, it is for the day, card or form that the screen has, and no form  *)
(* is open while a card is.                                                 *)

IsMessage(m) ==
  /\ m = [kind |-> m.kind, num |-> m.num, day |-> m.day, card |-> m.card,
          ran |-> m.ran, shown |-> m.shown, ongoing |-> m.ongoing]
  /\ m.num \in Nat /\ m.ran \in BOOLEAN /\ m.shown \in SUBSET Card

TypeOK ==
  /\ store \in [listed : SUBSET Card, ongoing : {0} \cup Card]
  /\ active \in BOOLEAN /\ day \in Day
  /\ entries = [shown |-> entries.shown, ongoing |-> entries.ongoing, from |-> entries.from]
  /\ entries.shown \in SUBSET Card /\ entries.from \in Nat
  /\ load \in [num : Nat, day : {0} \cup Day, pending : BOOLEAN]
  /\ pos \in [index : Nat, follow : BOOLEAN, boundary : BOOLEAN]
  /\ card = [num |-> card.num, key |-> card.key, opening |-> card.opening,
             picker |-> card.picker]
  /\ card.num \in Nat /\ card.opening \in BOOLEAN
  /\ form = [num |-> form.num, open |-> form.open, ending |-> form.ending,
             saving |-> form.saving]
  /\ form.num \in Nat /\ form.open \in BOOLEAN /\ form.saving \in BOOLEAN
  /\ saved \in [Card -> Nat]
  /\ \A m \in wire : IsMessage(m)

\* Which answers may still be taken, and what they are for.
Numbers ==
  /\ load.pending => load.day # 0
  /\ \A m \in wire :
       /\ m.kind = "entries" => m.num <= load.num /\ (m.num = load.num => m.day = load.day)
       /\ m.kind = "open" =>
            m.num <= card.num /\ (m.num = card.num /\ card.key # 0 => m.card = card.key)
       /\ m.kind = "save" => m.num <= form.num /\ (m.num = form.num => form.saving)
  /\ \A m, n \in wire :
       m.kind = "save" /\ n.kind = "save" /\ m.num = n.num => m = n

Unopened == IF form.open THEN 1 ELSE 0
MayStillOpen == IF form.num <= MaxForms THEN form.num ELSE MaxForms

FormOK ==
  /\ form.saving => form.open
  /\ form.open => active /\ card.key = 0 /\ form.num \in 1..MaxForms
  /\ load.num + Unopened <= MaxLoads + MayStillOpen

CardOK == (card.key # 0 => ~pos.follow) /\ OpenCardIsSelected

\* What was saved stays in the store, and in every list that was read after it.
ListsOK ==
  /\ store.ongoing \in {0} \cup (store.listed \cap Event)
  /\ \A m \in wire : m.kind = "save" /\ m.ran => m.card \in store.listed \cap Event
  /\ \A c \in Event : c \in store.listed \/ saved[c] >= MaxLoads + MaxForms
  /\ \A m \in wire : m.kind = "entries" /\ m.ran =>
       \A c \in Event : c \in Of(m.day) /\ m.num > saved[c] => c \in m.shown
  /\ entries.from <= load.num
  /\ OwnSaveIsShown

IInv == TypeOK /\ Numbers /\ FormOK /\ CardOK /\ ListsOK /\ AwaitedIsComing
=============================================================================
