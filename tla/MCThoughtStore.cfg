\* One Thought that moves between two Subjects, an alias, and three names, so that
\* one is free for a renaming; two clients review the alias and edit the Thought.
CONSTANTS
  Subject = {s1, s2}
  Alias = {a1}
  Name = {n1, n2, n3}
  Client = {c1, c2}
  Thought = {t1}
  Body = {b1}
  Nothing = Nothing
  MaxVersion = 3
  MaxTime = 2
  MaxPeriods = 2
SPECIFICATION Spec
SYMMETRY Symmetry
INVARIANTS
  AcceptedEditIsCurrent
  EveryThoughtIsListed
  PeriodsChronological
  OneOwnerPerName
  RefusedNameResolves
PROPERTIES
  PromotionTakesReviewed
CHECK_DEADLOCK FALSE
