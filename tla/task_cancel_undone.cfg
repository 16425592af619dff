\* One replica, one request at a time, and cancellations.
CONSTANTS
  Replicas = {p1}
  Handlers = {h1}
  None = None
  a1 = a1  a2 = a2  f1 = f1  f2 = f2
  Runs = {a1, f1, f2}
  u = u
  Users = {u}
  c1 = c1  c2 = c2
  Contents = {c1, c2}
  UserOf <- OneUser
  TypeOf <- ByName
  ContentOf <- OwnContent
  MaxConcurrentTasks = 1
  Environment = {"cancel"}
SPECIFICATION Spec
PROPERTIES ImplementsLifecycle
