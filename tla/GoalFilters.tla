----------------------------- MODULE GoalFilters -----------------------------
(***************************************************************************)
(* The controls of the Goal list: status, priority and Subject, over the   *)
(* Goals that were read last; the menu in which a Subject is searched; and *)
(* the selected Goal, which is kept while what is shown changes around it. *)
(* GoalsScreen has which reads are accepted; here an accepted one brings   *)
(* any list the store may hold by then.  The search of the menu runs as a  *)
(* command (listfilter.Scope) and its matches arrive later, perhaps in a   *)
(* menu that was closed and opened again.                                  *)
(*                                                                         *)
(* The Subjects to choose from are sorted, and a choice is an index among  *)
(* them.  A query is a number, and what it matches any set.  Which control *)
(* has the focus, the mouse, pages and layout are left out: a control that *)
(* can be changed from some focus can be changed here.                     *)
(***************************************************************************)
EXTENDS Integers, FiniteSets

CONSTANTS
  MaxGoal,      \* Goals 1..MaxGoal
  MaxSubject,   \* Subjects 1..MaxSubject, in the order of their names
  MaxPriority,  \* priorities from high to low; 0 is the filter that takes all
  Listings,     \* Listings[g]: how Goal g may be listed, or Absent
  MenuMatches,  \* MenuMatches[q]: the options whose label contains query q; all of them for 0
  MaxWire       \* bound: searches under way when the query is changed

Goal == 1..MaxGoal
Subject == 1..MaxSubject
Absent == [listed |-> FALSE, active |-> FALSE, priority |-> 0, subjects |-> {}]
Query == DOMAIN MenuMatches

Priorities == 0..MaxPriority
Statuses == 0..2      \* All, Active, Inactive
AllSubjects == 0
Misc == -1            \* Goals without a live Subject

VARIABLES
  rows,      \* Model.listRows
  loading,   \* Model.loading
  selected,  \* Model.selected: the Goal whose details were left, 0 for none
  controls,  \* visibility, priorityFilter, subjectFilter
  last,      \* lastGoalIDsByPriority
  list,      \* Model.list: the Goals shown and the selected one, 0 for none
  menu,      \* subjectMenu: open, searching, query, the options visible
  wire,      \* searches under way; live while their revision is the last
  wanted     \* history: the Subject chosen by its name

vars == <<rows, loading, selected, controls, last, list, menu, wire, wanted>>

\* collectFilterSubjects: the Subjects of the listed Goals, in their order.
Offered(r) == UNION {r[g].subjects : g \in Goal}
Position(s, r) == Cardinality({t \in Offered(r) : t < s}) + 2
Options(r) == 0 .. Cardinality(Offered(r)) + 1
Meant(i, r) ==
  IF i = 0 THEN AllSubjects
  ELSE IF i = 1 THEN Misc
  ELSE CHOOSE s \in Offered(r) : Position(s, r) = i

ClosedMenu == [open |-> FALSE, searching |-> FALSE, query |-> 0, visible |-> {}]

Init ==
  /\ rows = [g \in Goal |-> Absent]
  /\ loading = FALSE /\ selected = 0
  /\ controls = [status |-> 1, priority |-> 0, subject |-> 0]
  /\ last = [p \in Priorities |-> 0]
  /\ list = [shown |-> {}, at |-> 0]
  /\ menu = ClosedMenu
  /\ wire = {} /\ wanted = AllSubjects

-----------------------------------------------------------------------------
\* applyListControls.
MatchesSubject(g, i, r) ==
  CASE i = 0 -> TRUE
    [] i = 1 -> r[g].subjects = {}
    [] OTHER -> i \in Options(r) /\ Meant(i, r) \in r[g].subjects

Shown(c, r) ==
  {g \in Goal :
     /\ r[g].listed
     /\ c.status = 1 => r[g].active
     /\ c.status = 2 => ~r[g].active
     /\ c.priority > 0 => r[g].priority = c.priority
     /\ MatchesSubject(g, c.subject, r)}

Before(g, h, r) ==
  \/ r[g].active /\ ~r[h].active
  \/ /\ r[g].active = r[h].active
     /\ \/ r[g].priority < r[h].priority
        \/ r[g].priority = r[h].priority /\ g < h

FirstOf(set, r) == IF set = {} THEN 0 ELSE CHOOSE g \in set : \A h \in set \ {g} : Before(g, h, r)

\* Mutant of Kept: the selection stays at its place in the list.
KeptPlace(c, r) ==
  LET set == Shown(c, r)
      place == Cardinality({h \in list.shown : Before(h, list.at, rows)})
      there == {g \in set : Cardinality({h \in set : Before(h, g, r)}) = place}
  IN IF selected \in set THEN selected
     ELSE IF there # {} THEN CHOOSE g \in there : TRUE ELSE FirstOf(set, r)
Kept(c, r) ==
  LET id == IF selected # 0 THEN selected ELSE list.at
      set == Shown(c, r)
  IN IF id \in set THEN id ELSE FirstOf(set, r)

Apply(c, r) ==
  /\ controls' = c /\ rows' = r
  /\ list' = [shown |-> Shown(c, r), at |-> Kept(c, r)]
  /\ selected' = 0

-----------------------------------------------------------------------------
\* Reads.  A list is asked for when the screen is opened, to retry, or on the way back from
\* the details of a Goal or from its creation.
Load ==
  /\ ~menu.open
  /\ loading' = TRUE
  /\ selected' \in {selected} \cup Goal \cup {0}
  /\ UNCHANGED <<rows, controls, last, list, menu, wire, wanted>>

LoadFails ==
  /\ loading /\ loading' = FALSE
  /\ UNCHANGED <<rows, selected, controls, last, list, menu, wire, wanted>>

\* Mutant of Resolved: the index stays, whatever Subject it means now.
SameIndex(i, r) == i
Resolved(i, r) ==
  IF i < 2 THEN i
  ELSE IF Meant(i, rows) \in Offered(r) THEN Position(Meant(i, rows), r) ELSE 0

Loaded ==
  /\ loading /\ loading' = FALSE
  /\ \E r \in [Goal -> UNION {Listings[g] : g \in Goal}] :
       /\ \A g \in Goal : r[g] \in Listings[g]
       /\ Apply([controls EXCEPT !.subject = Resolved(@, r)], r)
       /\ wanted' = IF wanted \in Subject \ Offered(r) THEN AllSubjects ELSE wanted
  /\ UNCHANGED <<last, menu, wire>>

-----------------------------------------------------------------------------
\* Keys of the list, while nothing is loading and the menu is closed.
Keys == ~loading /\ ~menu.open /\ UNCHANGED <<loading, menu, wire, wanted>>

Move ==
  /\ Keys
  /\ \E g \in list.shown : list' = [list EXCEPT !.at = g]
  /\ UNCHANGED <<rows, selected, controls, last>>

ChangeStatus ==
  /\ Keys
  /\ \E status \in Statuses : Apply([controls EXCEPT !.status = status], rows)
  /\ UNCHANGED last

\* changePriorityFilter: the Goal selected last under the new priority is, if it is shown.
ChangePriority ==
  /\ Keys
  /\ \E priority \in Priorities \ {controls.priority} :
       LET c == [controls EXCEPT !.priority = priority]
           memory == IF list.at = 0 THEN last ELSE [last EXCEPT ![controls.priority] = list.at]
           set == Shown(c, rows)
       IN /\ last' = memory
          /\ controls' = c /\ selected' = 0
          /\ list' = [shown |-> set,
                      at |-> IF memory[priority] \in set THEN memory[priority]
                             ELSE Kept(c, rows)]
  /\ UNCHANGED rows

\* Mutant of MayOpenMenu: the menu also opens while the list is read again.
MayOpenMenuLoading == ~menu.open
MayOpenMenu == ~menu.open /\ ~loading

\* listfilter.Scope: the revision that a search was asked under is passed.
Invalidated == {[m EXCEPT !.live = FALSE] : m \in wire}

OpenMenu ==
  /\ MayOpenMenu
  /\ menu' = [open |-> TRUE, searching |-> FALSE, query |-> 0, visible |-> Options(rows)]
  /\ wire' = Invalidated
  /\ UNCHANGED <<rows, loading, selected, controls, last, list, wanted>>

-----------------------------------------------------------------------------
\* Keys of the menu.
MenuKeys == menu.open /\ UNCHANGED <<rows, loading, last>>

CloseMenu ==
  /\ MenuKeys
  /\ menu' = ClosedMenu /\ wire' = Invalidated
  /\ UNCHANGED <<selected, controls, list, wanted>>

\* "/" begins with all of them.
StartSearch ==
  /\ MenuKeys /\ ~menu.searching
  /\ menu' = [menu EXCEPT !.searching = TRUE]
  /\ UNCHANGED <<selected, controls, list, wire, wanted>>

\* The options stay until the matches of the new query arrive.
ChangeQuery ==
  /\ MenuKeys /\ menu.searching /\ Cardinality(wire) <= MaxWire
  /\ \E q \in Query \ {menu.query} :
       /\ menu' = [menu EXCEPT !.query = q]
       /\ wire' = Invalidated \cup {[query |-> q, live |-> TRUE]}
  /\ UNCHANGED <<selected, controls, list, wanted>>

\* selectSubjectMenuOption, of the option under the cursor.
ChooseOption ==
  /\ MenuKeys
  /\ \E i \in menu.visible :
       /\ Apply([controls EXCEPT !.subject = i], rows)
       /\ wanted' = Meant(i, rows)
  /\ menu' = ClosedMenu /\ wire' = Invalidated

\* Mutant of Owns: any matches are taken.
OwnsAny(m) == TRUE
Owns(m) == m.live

\* Matches reach the menu while it is open; otherwise they are for the list, whose scope
\* does not own them.
TakeMatches(m) ==
  /\ wire' = wire \ {m}
  /\ menu' = IF menu.open /\ menu.searching /\ Owns(m)
             THEN [menu EXCEPT !.visible = Options(rows) \cap MenuMatches[m.query]] ELSE menu
  /\ UNCHANGED <<rows, loading, selected, controls, last, list, wanted>>

-----------------------------------------------------------------------------
Next ==
  \/ Load \/ LoadFails \/ Loaded \/ Move \/ ChangeStatus \/ ChangePriority
  \/ OpenMenu \/ CloseMenu \/ StartSearch \/ ChangeQuery \/ ChooseOption
  \/ \E m \in wire : TakeMatches(m)

Spec == Init /\ [][Next]_vars

-----------------------------------------------------------------------------
\* The Goals shown are those of the last list that have the status, the priority and the
\* Subject that were chosen, the Subject being the one whose name was chosen, although it
\* is kept as an index among the Subjects of a list that has changed since.
ShownAsChosen ==
  list.shown =
    {g \in Goal : /\ rows[g].listed
                  /\ controls.status # 0 => rows[g].active = (controls.status = 1)
                  /\ controls.priority \in {0, rows[g].priority}
                  /\ \/ wanted = AllSubjects
                     \/ wanted = Misc /\ rows[g].subjects = {}
                     \/ wanted \in rows[g].subjects}

\* The menu offers what the query matches, or the matches are still to come.
MenuShowsQuery ==
  menu.open =>
    \/ menu.visible = Options(rows) \cap MenuMatches[menu.query]
    \/ \E m \in wire : m.live /\ m.query = menu.query

\* A Goal stays selected as long as it is shown, except for a key that moves the selection,
\* details that were visited, or a priority under which another one was selected last.
SelectionStays ==
  \/ list'.at = list.at
  \/ list.at \notin list'.shown
  \/ selected # 0
  \/ controls'.priority # controls.priority
  \/ list'.shown = list.shown /\ controls' = controls /\ rows' = rows

-----------------------------------------------------------------------------
(* What these rest on: the index that is kept is the place of the Subject   *)
(* that was chosen among those offered now, which do not change while the   *)
(* menu shows them; and a search that is live is for the query shown.       *)

Rows ==
  [Goal -> [listed : BOOLEAN, active : BOOLEAN, priority : Nat, subjects : SUBSET Subject]]

TypeOK ==
  /\ rows \in Rows /\ loading \in BOOLEAN
  /\ controls \in [status : Statuses, priority : Nat, subject : Nat]
  /\ menu \in [open : BOOLEAN, searching : BOOLEAN, query : Query, visible : SUBSET Nat]
  /\ wire \subseteq [query : Query, live : BOOLEAN]

IndexIsOfWanted ==
  \/ controls.subject = 0 /\ wanted = AllSubjects
  \/ controls.subject = 1 /\ wanted = Misc
  \/ wanted \in Offered(rows) /\ controls.subject = Position(wanted, rows)

MenuIsOfRows == menu.open => ~loading /\ menu.visible \subseteq Options(rows)

SearchesAreOfMenu ==
  \A m \in wire : m.live => menu.open /\ menu.searching /\ m.query = menu.query

IInv ==
  /\ TypeOK /\ IndexIsOfWanted /\ list.shown = Shown(controls, rows)
  /\ MenuIsOfRows /\ SearchesAreOfMenu /\ MenuShowsQuery
=============================================================================
