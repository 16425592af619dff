\* One replica with the default limit of two tasks, two requests at a time.
CONSTANTS
  Replicas = {p1}
  Handlers = {h1, h2}
  None = None
  a1 = a1  a2 = a2  f1 = f1  f2 = f2
  Runs = {a1, a2}
  u = u
  Users = {u}
  c1 = c1  c2 = c2
  Contents = {c1, c2}
  UserOf <- OneUser
  TypeOf <- ByName
  ContentOf <- OwnContent
  MaxConcurrentTasks = 2
  Environment = {}
SPECIFICATION Spec
INVARIANTS OneActiveTask
CHECK_DEADLOCK FALSE
