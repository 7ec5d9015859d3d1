SPECIFICATION Spec
CONSTANTS
  t1 = t1
  t2 = t2
  t3 = t3
  p = p
  d = d
  f = f
  None = None
  Tasks = {t1, t2, t3}
  Callers = {t1, t2, t3}
  Ids = {p, d}
  Safe <- MCSafe
  DefaultId = d
  Files = {f}
  Ops <- MCOps
  Tries = 2
  MaxClients = 2
INVARIANT ClientIsOpen
INVARIANT ZonesAreTrue
PROPERTY RequestsEnd
CHECK_DEADLOCK FALSE
