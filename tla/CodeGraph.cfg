SPECIFICATION Spec
CONSTANTS
  a = a
  b = b
  r = r
  x = x
  Streams = {a}
  Turns = {b}
  Refreshers = {r}
  Indexer = x
  MaxEvents = 1
  MaxCode = 2
INVARIANT RefreshIsFresh
INVARIANT StreamsAreClean
PROPERTY IndexedOnce
PROPERTY StreamsEnd
CHECK_DEADLOCK FALSE
