CONSTANTS
  owner = owner
  noTask = noTask
  a = a
  b = b
  Owner <- owner
  NoTask <- noTask
  Callers <- Two
  MaxReconnects = 1
  Cancellable <- One
  MaxCalls = 1
  MaxProcs = 2
SPECIFICATION FairSpec
INVARIANT LinkIsHeld
INVARIANT AnswersAreOwn
PROPERTY SparesFreshLink
PROPERTY CallsEnd
CHECK_DEADLOCK FALSE
