SPECIFICATION RecallSpec
CONSTANTS
  t1 = t1
  t2 = t2
  t3 = t3
  r = r
  k = k
  None = None
  Requests = {t1, t2, t3}
  Old = {r}
  Keys = {k}
  K = 2
  Scale = 3660
  Ops <- MCOps
  Settings <- MCSettings
  Relevance <- MCRelevance
  Offers <- MCOffers
INVARIANT RecallIsSound
PROPERTY AnnotationsKept
PROPERTY CallsEnd
CHECK_DEADLOCK FALSE
