\* One goroutine, one feedback of a user who is not the default one.
CONSTANTS
  Handlers = {h1}
  None = None
  f1 = f1  f2 = f2
  Feedbacks = {f1, f2}
  u1 = u1  u2 = u2
  Users = {u1, u2}
  UserOf <- TwoUsers
  DefaultUser = u1
  MaxStarts = 2
  Environment = {}
SPECIFICATION Spec
CHECK_DEADLOCK FALSE
INVARIANT ProfilesOwn
