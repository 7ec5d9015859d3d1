SPECIFICATION Spec
CONSTANTS
  a = a
  b = b
  main = main
  mail = mail
  r1 = r1
  r2 = r2
  c1 = c1
  c2 = c2
  c3 = c3
  g1 = g1
  g2 = g2
  g3 = g3
  g4 = g4
  Nobody = Nobody
  Instances = {1, 2}
  Clients <- MC_Clients
  GraphClients = {g1, g2, g3, g4}
  Terrs = {mail}
  Ids = {mail}
  Names = {"read_mail", "send_mail", "graph"}
  Graph = "graph"
  Reads <- MC_Reads
  Writes <- MC_Writes
  Repos = {r1, r2}
  EnvRepo = r1
  Reqs <- TwoReqs
  Main = main
  Kinds = {"apply", "connect", "disconnect", "graph"}
  MaxRequests = 3
  Mortal = {c1, g1}
INVARIANT ClientsAreOwned
INVARIANT RunningIsShown
INVARIANT WritesAreGranted
PROPERTY RequestsEnd
CHECK_DEADLOCK FALSE
