\* One replica that runs one task at a time; a feedback is sent twice, nobody retries.
CONSTANTS
  Replicas = {p1}
  Handlers = {h1, h2}
  None = None
  a1 = a1  a2 = a2  f1 = f1  f2 = f2
  Runs = {f1, f2}
  u = u
  Users = {u}
  c1 = c1  c2 = c2
  Contents = {c1}
  UserOf <- OneUser
  TypeOf <- ByName
  ContentOf <- SameContent
  MaxConcurrentTasks = 1
  Environment = {"crash", "expire", "cancel", "dbError"}
SPECIFICATION FairSpec
INVARIANTS OneActiveTask
PROPERTIES EveryRequestReturns RunningSettles
