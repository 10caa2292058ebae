------------------------------ MODULE MCScreens ------------------------------
(* Each screen on a small instance.                                         *)
EXTENDS MCVisualStore, Screens

\* Goal 1 changes its priority and Subjects or is deleted, Goal 2 its activation, so that the
\* index of Subject 2 changes.  The query matches "Misc" and the first Subject offered.
Listed(active, priority, subjects) ==
  [listed |-> TRUE, active |-> active, priority |-> priority, subjects |-> subjects]
MCListings ==
  <<{Listed(TRUE, 1, {1}), Listed(TRUE, 2, {1, 2}),
     [listed |-> FALSE, active |-> FALSE, priority |-> 0, subjects |-> {}]},
    {Listed(TRUE, 2, {2}), Listed(FALSE, 2, {2})}>>
MCMatches == [query \in 0..1 |-> IF query = 0 THEN 0..3 ELSE {1, 2}]
=============================================================================
