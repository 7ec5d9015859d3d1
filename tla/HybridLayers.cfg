SPECIFICATION HybridFairSpec
CONSTANTS
  Appenders = {w1, w2, w3}
  Getters = {r1}
  MayBeCancelled = {w1, w2, r1}
  Nobody = Nobody
  Missing = Missing
  MaxAppends = 4
INVARIANT LayersAgree
PROPERTY GrowsUnlessOverlapped
PROPERTY HybridCallsEnd
CHECK_DEADLOCK FALSE
