\* One session: two requests, two openings of the screen, a rendering, and a
\* source beside its loop.
CONSTANTS
  Session = {s1}
  Request = {r1, r2}
  Nothing = Nothing
  MaxScreen = 2
  MaxRender = 1
  MaxFile = 2
SPECIFICATION Spec
SYMMETRY Symmetry
INVARIANTS
  FilesInUseStay
PROPERTIES
  OtherScreensFilesStay
  StoppedMeansStopped
CHECK_DEADLOCK FALSE
