SPECIFICATION FairAreaSpec
CONSTANTS
  Limit = 2
  KeepRecent = 1
  MinCandidates = 1
  HalfLife = 2
  Scopes = {alice}
  NoScope = NoScope
  Tasks = {t1, t2}
  NoTask = NoTask
  Calls = {"append", "pin", "unpin", "reinforce", "forget", "consolidate", "profile"}
  Importances = {2}
  Ttls = {0, 2}
  FourDModes = {FALSE, TRUE}
  MaxClock = 4
INVARIANT AreaIsConsistent
INVARIANT SizeBound
PROPERTY EntriesAreKept
PROPERTY ImplementsAtomicHistory
PROPERTY EveryCallReturns
CHECK_DEADLOCK FALSE
