\* One run at a time; the agent fails, and nothing else.
CONSTANTS
  w1 = w1  w2 = w2  r1 = r1  r2 = r2  a1 = a1  a2 = a2
  Workers = {w1}
  Runs = {r1}
  Articles <- ArticleUids
  None = None
  MaxRetries = 1
  Environment = {"agentError"}
SPECIFICATION Spec
CHECK_DEADLOCK FALSE
INVARIANT NoArticleLost
