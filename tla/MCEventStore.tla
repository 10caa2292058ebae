----------------------------- MODULE MCEventStore -----------------------------
(***************************************************************************)
(* Small instances of EventStore.  Events, clients, Subjects and Goals are *)
(* interchangeable model values.                                           *)
(***************************************************************************)
EXTENDS EventStore, TLC

Symmetry ==
  Permutations(EventId) \cup Permutations(Client)
    \cup Permutations(Subject) \cup Permutations(Goal)

\* The track is explored without Subjects, with three Events; credit with two.  No
\* decision about the track reads an assignment, a link or a contribution.
TrackOrCredit ==
  \/ /\ \A s \in Subject : subjectState[s] = "absent"
     /\ \A g \in Goal : goalState[g] = "absent"
  \/ /\ now <= 1
     /\ \E e \in EventId : ~Inserted(e)
=============================================================================
