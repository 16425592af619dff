\* Two replicas, two requests at a time, two article runs of one user; crashes,
\* cancellations and retries, but no expiring contexts or failing statements.
CONSTANTS
  Replicas = {p1, p2}
  Handlers = {h1, h2}
  None = None
  a1 = a1  a2 = a2  f1 = f1  f2 = f2
  Runs = {a1, a2}
  u = u
  Users = {u}
  c1 = c1  c2 = c2
  Contents = {c1, c2}
  UserOf <- OneUser
  TypeOf <- ByName
  ContentOf <- OwnContent
  MaxConcurrentTasks = 1
  Environment = {"crash", "cancel", "retry"}
SPECIFICATION Spec
SYMMETRY Symmetry
INVARIANTS TypeOK SlotsAccounted CancellationSticks NoEffectAfterCancel OrphansExplained
PROPERTIES KeepsLifecycle
