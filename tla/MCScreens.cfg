SPECIFICATION ScreensSpec
CONSTANTS
  v1 = v1
  v2 = v2
  i1 = i1
  i2 = i2
  r1 = r1
  r2 = r2
  Asset <- MCAsset
  VideoAsset <- MCVideoAsset
  Request <- MCRequest
  Nothing = Nothing
  MaxClock = 3
  MaxLoads = 2
  MaxCard = 3
  Groups = {2}
  MaxOpened = 1
  MaxForms = 1
  MaxGoal = 2
  MaxVersion = 3
  MaxRequests = 6
  MaxPriority = 1
  Listings <- MCListings
  MenuMatches <- MCMatches
  MaxSubject = 2
  MaxChanges = 1
  MaxAliases = 1
  MaxThought = 6
  Present = {1, 2, 4}
  Marked = 2
  Batch = 1
  MaxText = 1
  MaxRecordings = 2
  MaxCut = 2
  MaxTasks = 1
  MaxPageWire = 0
  MaxAttempt = 2
  TotalBytes = 2
  MaxWire = 1
INVARIANTS
  AwaitedIsComing
  ShownIsRequested
  OwnChangesAreShown
  NothingIsLost
  SpeechIsKept
  SelectionIsComplete
  ReadersFindFiles
PROPERTIES
  SavedAsShown
  StepsAreContinuous
CHECK_DEADLOCK FALSE
