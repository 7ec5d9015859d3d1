SPECIFICATION FairSpec
CONSTANTS
  a = a
  e1 = e1
  k1 = k1
  tag = tag
  access = access
  other = other
  Nothing = Nothing
  Turns <- One
  Requests <- One
  Others = {e1}
  Entries = {a, e1}
  Keys = {k1}
  Layers <- Vector
  Tags <- Tagged
  Scopes <- Tag
  MaxEntries = 1
  A4Present = TRUE
  Modes = {"buffered", "live"}
  Kinds = {"task", "mission"}
  Routes = {"direct", "convert"}
  Features = {"planning", "supervision", "archive", "faults"}
  Toolsets = {{}, {"wp2", "wp3"}}
  Calls = {access, other}
  AccessCall = access
  Retries = 2
  MaxSteps = 2
  Chunks = 2
  MaxInterrupts = 2
INVARIANT MemoryIsTrue
INVARIANT NothingIsHidden
INVARIANT RequestsAreTrue
PROPERTY ImplementsReadGate
PROPERTY TurnsEnd
CHECK_DEADLOCK FALSE
