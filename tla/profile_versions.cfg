\* Two jobs at a time on the profile of one user.
CONSTANTS
  Handlers = {h1, h2}
  None = None
  f1 = f1  f2 = f2
  Feedbacks = {f1}
  u1 = u1  u2 = u2
  Users = {u1}
  UserOf <- OneUser
  DefaultUser = u1
  MaxStarts = 4
  Environment = {"rebuild", "rollback", "interrupt", "dbError"}
SPECIFICATION FairSpec
CHECK_DEADLOCK FALSE
INVARIANTS TypeOK CompletedHasVersion
PROPERTIES ImplementsHistory JobsEnd
