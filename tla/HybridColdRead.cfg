SPECIFICATION HybridSpec
CONSTANTS
  Appenders = {w1, w2}
  Getters = {r1}
  MayBeCancelled = {}
  Nobody = Nobody
  Missing = Missing
  MaxAppends = 2
INVARIANT AckedVisible
CHECK_DEADLOCK FALSE
