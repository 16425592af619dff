\* One run of one article, retried while it is executed; nothing fails.
CONSTANTS
  w1 = w1  w2 = w2  r1 = r1  r2 = r2  a1 = a1  a2 = a2
  Workers <- Goroutines
  Runs = {r1}
  Articles = {a1}
  None = None
  MaxRetries = 2
  Environment = {}
SPECIFICATION Spec
CHECK_DEADLOCK FALSE
INVARIANT PostedSkipped
