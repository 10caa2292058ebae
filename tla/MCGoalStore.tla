----------------------------- MODULE MCGoalStore -----------------------------
(***************************************************************************)
(* Small instances of GoalStore.  Clients, Subjects and Goals are          *)
(* interchangeable model values.                                           *)
(***************************************************************************)
EXTENDS GoalStore, TLC

Symmetry ==
  Permutations(Client) \cup Permutations(Subject) \cup Permutations(Goal)

\* Edges and links never read one another: the third Goal is for the hierarchy, which is
\* explored without Subjects, and the links are explored with two Goals and no edges.
LinksOrHierarchy ==
  \/ \A s \in Subject : subjectState[s] = "absent"
  \/ parents = {} /\ \E g \in Goal : goal[g].state = "absent"
=============================================================================
