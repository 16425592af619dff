\* One goroutine, one feedback, a process that may stop anywhere.
CONSTANTS
  Handlers = {h1}
  None = None
  f1 = f1  f2 = f2
  Feedbacks = {f1}
  u1 = u1  u2 = u2
  Users = {u1}
  UserOf <- OneUser
  DefaultUser = u1
  MaxStarts = 2
  Environment = {"interrupt"}
SPECIFICATION Spec
CHECK_DEADLOCK FALSE
INVARIANT AppliedOnce
