------------------------------ MODULE GoalStore ------------------------------
(***************************************************************************)
(* The Goal stores of one user: Goals with their versions, the numbered    *)
(* Subject-Goal links, and the hierarchy of Goals.  Each action is one     *)
(* store transaction, or one of the reads a client makes before it writes. *)
(* A client reads a Goal, then (in another transaction) its live Subjects  *)
(* or its activation, and writes with the version of the first read.       *)
(***************************************************************************)
EXTENDS Integers, FiniteSetsExt

CONSTANTS
  Subject,     \* subject_id of every Subject the user will ever create
  Goal,        \* goal_id of every Goal the user will ever create
  Client,      \* callers that edit Goals
  Nothing,     \* "this client edits no Goal"
  MaxVersion   \* bound: largest Goal version reached

ASSUME VersionAssumption == MaxVersion \in Nat
ASSUME NothingAssumption ==
  Nothing \notin [goal : Goal, version : Int,
                  listed : BOOLEAN, subjects : SUBSET Subject,
                  activation : {"active", "inactive", "unread"}]

VARIABLES
  subjectState,  \* "absent", "live" or "deleted"
  goal,          \* rows of the goals table; version 0 means not inserted yet
  number,        \* goal_number of each subject_goals row; 0 means no row
  linked,        \* the subject_goals rows with deleted_at NULL
  parents,       \* rows of goal_parents, as <<child, parent>>
  held           \* what each client read of the Goal it edits

vars == <<subjectState, goal, number, linked, parents, held>>

Pair == Subject \X Goal
Row == [state : {"absent", "active", "inactive", "deleted"},
        version : 0 .. MaxVersion]
\* subjects counts once they are listed.
Edit == [goal : Goal, version : 0 .. MaxVersion,
         listed : BOOLEAN, subjects : SUBSET Subject,
         activation : {"active", "inactive", "unread"}]

LiveSubjects == {s \in Subject : subjectState[s] = "live"}
VisibleGoals == {g \in Goal : goal[g].state \in {"active", "inactive"}}
LiveSubjectsOf(g) == {s \in LiveSubjects : <<s, g>> \in linked}

TypeOK ==
  /\ subjectState \in [Subject -> {"absent", "live", "deleted"}]
  /\ goal \in [Goal -> Row]
  /\ number \in [Pair -> Nat]
  /\ linked \in SUBSET Pair
  /\ parents \in SUBSET (Goal \X Goal)
  /\ held \in [Client -> Edit \cup {Nothing}]

Init ==
  /\ subjectState = [s \in Subject |-> "absent"]
  /\ goal = [g \in Goal |-> [state |-> "absent", version |-> 0]]
  /\ number = [p \in Pair |-> 0]
  /\ linked = {}
  /\ parents = {}
  /\ held = [c \in Client |-> Nothing]
-----------------------------------------------------------------------------
\* Mutant of NextNumber: numbers of retired links are given out again.
NextLiveNumber(s) == 1 + Max({0} \cup {number[p] : p \in linked \cap ({s} \X Goal)})

\* One more than every number the Subject ever gave out, retired links included.
NextNumber(s) == 1 + Max({number[<<s, g>>] : g \in Goal})

\* Mutant of Numbered: a reactivated link gets a new number.
NumberedAfresh(g, ss) ==
  [p \in Pair |-> IF p[2] = g /\ p[1] \in ss /\ p \notin linked
                  THEN NextNumber(p[1])
                  ELSE number[p]]

\* The numbers once the Subjects in ss are linked to g: a link that existed
\* before keeps its number.
Numbered(g, ss) ==
  [p \in Pair |-> IF p[2] = g /\ p[1] \in ss /\ number[p] = 0
                  THEN NextNumber(p[1])
                  ELSE number[p]]

\* The next version of Goal g's row, in state s.
Advanced(g, s) == [state |-> s, version |-> goal[g].version + 1]

\* No Goal of set has a parent outside it.
ClosedUnder(edges, set) == \A e \in edges : e[1] \in set => e[2] \in set

\* g and everything above it, through retained deleted Goals too.
SelfAndAncestors(edges, g) ==
  {h \in Goal : \A set \in SUBSET Goal :
                   g \in set /\ ClosedUnder(edges, set) => h \in set}
-----------------------------------------------------------------------------
CreateSubject(s) ==
  /\ subjectState[s] = "absent"
  /\ subjectState' = [subjectState EXCEPT ![s] = "live"]
  /\ UNCHANGED <<goal, number, linked, parents, held>>

\* Mutant of DeleteSubject: the links of the Subject are retired with it.
DeleteSubjectAndLinks(s) ==
  /\ s \in LiveSubjects
  /\ subjectState' = [subjectState EXCEPT ![s] = "deleted"]
  /\ linked' = linked \ ({s} \X Goal)
  /\ UNCHANGED <<goal, number, parents, held>>

\* Links, numbers and Goal versions stay as they are.
DeleteSubject(s) ==
  /\ s \in LiveSubjects
  /\ subjectState' = [subjectState EXCEPT ![s] = "deleted"]
  /\ UNCHANGED <<goal, number, linked, parents, held>>

CreateGoalWithSubjects(g, state, ss) ==
  /\ goal[g].state = "absent"
  /\ MaxVersion > 0
  /\ ss \subseteq LiveSubjects
  /\ goal' = [goal EXCEPT ![g] = [state |-> state, version |-> 1]]
  /\ number' = Numbered(g, ss)
  /\ linked' = linked \cup (ss \X {g})
  /\ UNCHANGED <<subjectState, parents, held>>

CreateGoal(g, state) == CreateGoalWithSubjects(g, state, {})

\* Mutant of AddSubjectGoal: the version of the Goal does not advance.
AddSubjectGoalQuietly(s, g) ==
  /\ g \in VisibleGoals
  /\ s \in LiveSubjects
  /\ <<s, g>> \notin linked
  /\ number' = Numbered(g, {s})
  /\ linked' = linked \cup {<<s, g>>}
  /\ UNCHANGED <<subjectState, goal, parents, held>>

\* An active link is a duplicate and rolls the transaction back.
AddSubjectGoal(s, g) ==
  /\ g \in VisibleGoals
  /\ s \in LiveSubjects
  /\ <<s, g>> \notin linked
  /\ goal[g].version < MaxVersion
  /\ goal' = [goal EXCEPT ![g] = Advanced(g, goal[g].state)]
  /\ number' = Numbered(g, {s})
  /\ linked' = linked \cup {<<s, g>>}
  /\ UNCHANGED <<subjectState, parents, held>>

RemoveSubjectGoal(s, g) ==
  /\ g \in VisibleGoals
  /\ s \in LiveSubjectsOf(g)
  /\ goal[g].version < MaxVersion
  /\ goal' = [goal EXCEPT ![g] = Advanced(g, goal[g].state)]
  /\ linked' = linked \ {<<s, g>>}
  /\ UNCHANGED <<subjectState, number, parents, held>>

\* Mutant of AddGoalParent: ancestors are not sought through deleted Goals.
AddGoalParentAmongVisible(child, parent) ==
  /\ child \in VisibleGoals
  /\ parent \in VisibleGoals
  /\ <<child, parent>> \notin parents
  /\ child \notin SelfAndAncestors(parents \cap (VisibleGoals \X VisibleGoals), parent)
  /\ parents' = parents \cup {<<child, parent>>}
  /\ UNCHANGED <<subjectState, goal, number, linked, held>>

\* The inserted edge must not close a cycle.
AddGoalParent(child, parent) ==
  /\ child \in VisibleGoals
  /\ parent \in VisibleGoals
  /\ <<child, parent>> \notin parents
  /\ child \notin SelfAndAncestors(parents, parent)
  /\ parents' = parents \cup {<<child, parent>>}
  /\ UNCHANGED <<subjectState, goal, number, linked, held>>

RemoveGoalParent(child, parent) ==
  /\ <<child, parent>> \in parents
  /\ parents' = parents \ {<<child, parent>>}
  /\ UNCHANGED <<subjectState, goal, number, linked, held>>
-----------------------------------------------------------------------------
GetGoal(c, g) ==
  /\ g \in VisibleGoals
  /\ held' = [held EXCEPT ![c] = [goal |-> g, version |-> goal[g].version,
                                  listed |-> FALSE, subjects |-> {},
                                  activation |-> "unread"]]
  /\ UNCHANGED <<subjectState, goal, number, linked, parents>>

\* The second read of the Goals picker.
ListLiveSubjectsForGoal(c) ==
  /\ held[c] # Nothing
  /\ held[c].goal \in VisibleGoals
  /\ ~held[c].listed
  /\ held' = [held EXCEPT ![c].listed = TRUE,
                          ![c].subjects = LiveSubjectsOf(held[c].goal)]
  /\ UNCHANGED <<subjectState, goal, number, linked, parents>>

\* The read that goal.Service.Update makes for the settings its caller omits.
ReadOmittedSettings(c) ==
  /\ held[c] # Nothing
  /\ held[c].goal \in VisibleGoals
  /\ held[c].activation = "unread"
  /\ held' = [held EXCEPT ![c].activation = goal[held[c].goal].state]
  /\ UNCHANGED <<subjectState, goal, number, linked, parents>>

\* A write goes through only while the Goal is visible at the version read.
Writable(c) ==
  /\ held[c] # Nothing
  /\ held[c].goal \in VisibleGoals
  /\ goal[held[c].goal].version = held[c].version

UpdateGoal(c, state) ==
  LET g == held[c].goal
  IN /\ Writable(c)
     /\ goal[g].version < MaxVersion
     /\ goal' = [goal EXCEPT ![g] = Advanced(g, state)]
     /\ held' = [held EXCEPT ![c] = Nothing]
     /\ UNCHANGED <<subjectState, number, linked, parents>>

UpdateGoalOmittingActivation(c) ==
  /\ held[c] # Nothing
  /\ held[c].activation # "unread"
  /\ UpdateGoal(c, held[c].activation)

\* Progress, links and parents of the deleted Goal are retained.
DeleteGoal(c) ==
  LET g == held[c].goal
  IN /\ Writable(c)
     /\ goal[g].version < MaxVersion
     /\ goal' = [goal EXCEPT ![g] = Advanced(g, "deleted")]
     /\ held' = [held EXCEPT ![c] = Nothing]
     /\ UNCHANGED <<subjectState, number, linked, parents>>

\* The live Subjects of the Goal become ss; links of deleted Subjects stay.
\* An identical set still needs the current version but does not advance it.
ReplaceGoalSubjects(c, ss) ==
  LET g == held[c].goal
      changed == ss # LiveSubjectsOf(g)
  IN /\ Writable(c)
     /\ held[c].listed
     /\ ss \subseteq LiveSubjects
     /\ changed => goal[g].version < MaxVersion
     /\ goal' = IF changed THEN [goal EXCEPT ![g] = Advanced(g, goal[g].state)]
                           ELSE goal
     /\ number' = Numbered(g, ss)
     /\ linked' = (linked \ (LiveSubjects \X {g})) \cup (ss \X {g})
     /\ held' = [held EXCEPT ![c] = Nothing]
     /\ UNCHANGED <<subjectState, parents>>

Next ==
  \/ \E s \in Subject : CreateSubject(s) \/ DeleteSubject(s)
  \/ \E g \in Goal, state \in {"active", "inactive"} :
        \/ CreateGoal(g, state)
        \/ \E ss \in SUBSET Subject : CreateGoalWithSubjects(g, state, ss)
  \/ \E s \in Subject, g \in Goal : AddSubjectGoal(s, g) \/ RemoveSubjectGoal(s, g)
  \/ \E child, parent \in Goal :
        AddGoalParent(child, parent) \/ RemoveGoalParent(child, parent)
  \/ \E c \in Client, g \in Goal : GetGoal(c, g)
  \/ \E c \in Client :
        \/ ListLiveSubjectsForGoal(c)
        \/ ReadOmittedSettings(c)
        \/ UpdateGoalOmittingActivation(c)
        \/ DeleteGoal(c)
        \/ \E state \in {"active", "inactive"} : UpdateGoal(c, state)
        \/ \E ss \in SUBSET Subject : ReplaceGoalSubjects(c, ss)

Spec == Init /\ [][Next]_vars
-----------------------------------------------------------------------------
(* Properties *)

\* Goals form no cycle, whatever edges are added, removed and left behind by
\* deleted Goals: no Goal is reachable from a parent of it.
NoCycle == \A e \in parents : e[1] \notin SelfAndAncestors(parents, e[2])

\* A live link has a number, and a Subject never gives two Goals the same one:
\* the UNIQUE constraint on (subject_id, goal_number) never fires.
NumbersAreReferences ==
  /\ \A p \in linked : number[p] > 0
  /\ \A s \in Subject : \A g, h \in Goal :
        number[<<s, g>>] = number[<<s, h>>] /\ number[<<s, g>>] > 0 => g = h

\* A number, once given, is given for good: retiring and reactivating a link
\* keeps it, and a new link gets one that no Goal of the Subject ever had.
NumbersAreStable ==
  [][\A p \in Pair : \/ number'[p] = number[p]
                     \/ /\ number[p] = 0
                        /\ \A g \in Goal : number[<<p[1], g>>] < number'[p]]_vars

\* Optimistic concurrency over two reads: while the version a client holds is
\* the stored one, what it read later (the Subjects still live, the activation)
\* is the stored truth too.  Subjects deleted since are gone from both.
CurrentVersionMeansCurrentGoal ==
  \A c \in Client : held[c] # Nothing /\ Writable(c) =>
     /\ held[c].listed =>
          held[c].subjects \cap LiveSubjects = LiveSubjectsOf(held[c].goal)
     /\ held[c].activation # "unread" => held[c].activation = goal[held[c].goal].state

-----------------------------------------------------------------------------
(* What the invariants rest on *)

\* The row of a Goal that is not inserted has version 0.
AbsentAtZero == \A g \in Goal : goal[g].state = "absent" => goal[g].version = 0

\* Links, and what clients listed, are of Subjects that have been created.
Known == {s \in Subject : subjectState[s] # "absent"}
LinksKnown ==
  /\ \A p \in linked : p[1] \in Known
  /\ \A c \in Client : held[c] # Nothing => held[c].subjects \subseteq Known

\* No client holds a version the store has not reached.
HeldBehind ==
  \A c \in Client : held[c] # Nothing => held[c].version <= goal[held[c].goal].version

IInv ==
  /\ TypeOK
  /\ AbsentAtZero
  /\ LinksKnown
  /\ HeldBehind
  /\ NumbersAreReferences
  /\ NoCycle
  /\ CurrentVersionMeansCurrentGoal
-----------------------------------------------------------------------------
(* Refinement *)

\* The catalog that the Event store reads.
Catalog == INSTANCE GoalCatalog WITH
  goalState <- [g \in Goal |-> goal[g].state],
  links <- linked

\* The Goal store implements the catalog: versions, numbers and the hierarchy
\* add nothing to what links and activations may do.
ImplementsCatalog == Catalog!CatalogSpec
=============================================================================
