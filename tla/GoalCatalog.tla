----------------------------- MODULE GoalCatalog -----------------------------
(***************************************************************************)
(* What the rest of the program sees of Subjects, Goals and the links      *)
(* between them: which rows are live, which Goals are active, and which    *)
(* Subject-Goal pairs are linked.  EventStore reads this to decide who     *)
(* earns credit; GoalStore, with its versions and numbers, implements it.  *)
(* One user owns every row: each statement of the stores is confined to    *)
(* the caller's user_id.                                                   *)
(***************************************************************************)
EXTENDS Integers

CONSTANTS
  Subject,   \* subject_id of every Subject the user will ever create
  Goal       \* goal_id of every Goal the user will ever create

VARIABLES
  subjectState,  \* "absent" until inserted, then "live", then "deleted"
  goalState,     \* "absent", "active", "inactive" or "deleted"
  links          \* <<subject, goal>> rows of subject_goals with deleted_at NULL

catalogVars == <<subjectState, goalState, links>>

LiveSubjects == {s \in Subject : subjectState[s] = "live"}
VisibleGoals == {g \in Goal : goalState[g] \in {"active", "inactive"}}

\* Mutant of Eligible: an inactive or deleted Goal earns credit too.
EligibleInAnyState(ss) ==
  {p \in Goal \X Subject : /\ p[2] \in ss \cap LiveSubjects
                           /\ <<p[2], p[1]>> \in links}

(***************************************************************************)
(* The Goals that an assignment to the Subjects in ss makes eligible for   *)
(* credit, as <<goal, subject>> pairs: live Subject, live link, active and *)
(* undeleted Goal.                                                         *)
(***************************************************************************)
Eligible(ss) ==
  {p \in Goal \X Subject : /\ p[2] \in ss \cap LiveSubjects
                           /\ <<p[2], p[1]>> \in links
                           /\ goalState[p[1]] = "active"}

CatalogTypeOK ==
  /\ subjectState \in [Subject -> {"absent", "live", "deleted"}]
  /\ goalState \in [Goal -> {"absent", "active", "inactive", "deleted"}]
  /\ links \in SUBSET (Subject \X Goal)

CatalogInit ==
  /\ subjectState = [s \in Subject |-> "absent"]
  /\ goalState = [g \in Goal |-> "absent"]
  /\ links = {}
-----------------------------------------------------------------------------
InsertSubject(s) ==
  /\ subjectState[s] = "absent"
  /\ subjectState' = [subjectState EXCEPT ![s] = "live"]
  /\ UNCHANGED <<goalState, links>>

\* The links of a deleted Subject are retained.
RetireSubject(s) ==
  /\ subjectState[s] = "live"
  /\ subjectState' = [subjectState EXCEPT ![s] = "deleted"]
  /\ UNCHANGED <<goalState, links>>

InsertGoal(g, state, ss) ==
  /\ goalState[g] = "absent"
  /\ state \in {"active", "inactive"}
  /\ ss \subseteq LiveSubjects
  /\ goalState' = [goalState EXCEPT ![g] = state]
  /\ links' = links \cup (ss \X {g})
  /\ UNCHANGED subjectState

ConfigureGoal(g, state) ==
  /\ g \in VisibleGoals
  /\ state \in {"active", "inactive"}
  /\ goalState' = [goalState EXCEPT ![g] = state]
  /\ UNCHANGED <<subjectState, links>>

RetireGoal(g) ==
  /\ g \in VisibleGoals
  /\ goalState' = [goalState EXCEPT ![g] = "deleted"]
  /\ UNCHANGED <<subjectState, links>>

Link(s, g) ==
  /\ g \in VisibleGoals
  /\ s \in LiveSubjects
  /\ <<s, g>> \notin links
  /\ links' = links \cup {<<s, g>>}
  /\ UNCHANGED <<subjectState, goalState>>

Unlink(s, g) ==
  /\ g \in VisibleGoals
  /\ s \in LiveSubjects
  /\ <<s, g>> \in links
  /\ links' = links \ {<<s, g>>}
  /\ UNCHANGED <<subjectState, goalState>>

\* ss becomes the Goal's live set; links of deleted Subjects stay as they are.
Relink(g, ss) ==
  /\ g \in VisibleGoals
  /\ ss \subseteq LiveSubjects
  /\ links' = (links \ (LiveSubjects \X {g})) \cup (ss \X {g})
  /\ UNCHANGED <<subjectState, goalState>>

\* Every step of the catalog but the deletion of a Subject, which other
\* components take part in.
GoalStep ==
  \/ \E s \in Subject : InsertSubject(s)
  \/ \E g \in Goal, state \in {"active", "inactive"} :
        \/ \E ss \in SUBSET Subject : InsertGoal(g, state, ss)
        \/ ConfigureGoal(g, state)
  \/ \E g \in Goal : RetireGoal(g)
  \/ \E s \in Subject, g \in Goal : Link(s, g) \/ Unlink(s, g)
  \/ \E g \in Goal, ss \in SUBSET Subject : Relink(g, ss)

CatalogNext == GoalStep \/ \E s \in Subject : RetireSubject(s)

CatalogSpec == CatalogInit /\ [][CatalogNext]_catalogVars
=============================================================================
