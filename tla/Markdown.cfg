SPECIFICATION Spec
CONSTANTS
  Writers = {w1, w2}
  Readers = {r}
  Clearers = {c}
  Cancellable = {w1}
  Orphan = Orphan
  NoTask = NoTask
  Limit = 2
  MaxCalls = 3
  MaxFaults = 1
INVARIANT DiskIsTrue
PROPERTY NoRollback
PROPERTY CallsEnd
CHECK_DEADLOCK FALSE
