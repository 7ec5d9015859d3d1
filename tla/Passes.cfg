SPECIFICATION PassSpec
CONSTANTS
  Limit = 4
  KeepRecent = 1
  MinCandidates = 2
  HalfLife = 0
  Scopes = {default}
  NoScope = NoScope
  Conversations = {c1}
  Cancellable = {c1}
  Hooks = {"annotate", "extract", "profile", "consolidate", "evolve"}
  FourD = TRUE
  ExtractAt = 2
  ProfileAt = 2
  ConsolidateAt = 4
  EvolveAt = 3
  Window = 2
  ProfileWindow = 6
  MaxFacts = 2
  MinCount = 1
  MinCluster = 1
  Intents = {x}
  NoIntent = NoIntent
  Forgets = {"fact"}
  ModelMayFail = TRUE
  MaxTime = 6
INVARIANT DerivedOnce
INVARIANT DeltaMissesNothing
CHECK_DEADLOCK FALSE
