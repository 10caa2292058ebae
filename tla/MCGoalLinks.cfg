\* Two Goals with two Subjects and one client that holds an edit while links are added,
\* retired and numbered around it; and three Goals without Subjects for the hierarchy.
CONSTANTS
  Subject = {s1, s2}
  Goal = {g1, g2, g3}
  Client = {c1}
  Nothing = Nothing
  MaxVersion = 3
SPECIFICATION Spec
SYMMETRY Symmetry
CONSTRAINT LinksOrHierarchy
INVARIANTS
  NumbersAreReferences
  NoCycle
  CurrentVersionMeansCurrentGoal
PROPERTIES
  NumbersAreStable
  ImplementsCatalog
CHECK_DEADLOCK FALSE
