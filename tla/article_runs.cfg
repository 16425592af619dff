\* Two overlapping runs, two articles, every failure.
CONSTANTS
  w1 = w1  w2 = w2  r1 = r1  r2 = r2  a1 = a1  a2 = a2
  Workers <- Goroutines
  Runs <- RunIds
  Articles <- ArticleUids
  None = None
  MaxRetries = 2
  Environment = {"crash", "cancel", "dbError", "agentError", "badFetch"}
SPECIFICATION Spec
SYMMETRY Symmetry
CHECK_DEADLOCK FALSE
INVARIANTS OneRunPerArticle NoSecondPost LossExplained
