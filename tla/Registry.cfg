SPECIFICATION Spec
CONSTANTS
  a = a
  b = b
  t1 = t1
  t2 = t2
  c1 = c1
  c2 = c2
  c3 = c3
  here = here
  Here = here
  Instances = {here}
  Clients <- Servers
  Terrs <- TwoTerrs
  Names <- Tools_
  Nobody = Nobody
  Jobs <- TwoJobs
  Kinds = {"add", "open", "remove", "reload", "mcp", "directory", "close"}
  Mcps <- MC_Mcps
  Own <- MC_Own
  Serves <- MC_Serves
  Faults = {"fail", "cancel", "raise"}
  MaxJobs = 3
  Mortal = {c1}
INVARIANT ClientsAreOwned
INVARIANT WholeOrGone
INVARIANT OffStaysOff
PROPERTY JobsEnd
CHECK_DEADLOCK FALSE
