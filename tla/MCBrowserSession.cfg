\* Two sessions one after the other, two requests, one opening of the screen.
CONSTANTS
  Session = {s1, s2}
  Request = {r1, r2}
  Nothing = Nothing
  MaxScreen = 1
  MaxRender = 0
  MaxFile = 1
SPECIFICATION FairSpec
INVARIANTS
  NothingOutlives
PROPERTIES
  SessionsEnd
CHECK_DEADLOCK FALSE
