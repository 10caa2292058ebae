\* Three Events without Subjects for the track; two Events with two Subjects and a Goal
\* for assignments, versions and credit; one client that holds an edit.
CONSTANTS
  EventId = {e1, e2, e3}
  Client = {c1}
  Subject = {s1, s2}
  Goal = {g1}
  Nothing = Nothing
  MaxTime = 3
  MaxVersion = 3
SPECIFICATION Spec
SYMMETRY Symmetry
CONSTRAINT TrackOrCredit
INVARIANTS
  NoOverlap
  EarnedThroughAssignment
  CurrentVersionMeansCurrentRow
PROPERTIES
  EarnedIsKept
  CompletionCredits
CHECK_DEADLOCK FALSE
