\* Two recordings, which may each publish an update, one draft after the other.  No symmetry:
\* the run checks liveness too.
SPECIFICATION FairSpec
CONSTANTS
  Recording = {r1, r2}
  Nothing = Nothing
  MaxRevision = 1
  QueueLimit = 1
INVARIANTS
  RecordingsAreJoined
PROPERTIES
  DraftIsFrozen
  StopCompletes
  CloseCompletes
