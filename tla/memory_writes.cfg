\* Two runs, one of them delivered twice, one retry; failures stay failures.
CONSTANTS
  Runs = {r1, r2}
  Workers = {w1, w2}
  x = x  y = y
  Contents = {x, y}
  Gain <- Gains
  Limit = 20
  MaxRetries = 1
  Fallback = FALSE
  MaxDeliveries = 3
  MaxLate = 1
  None = None
SPECIFICATION Spec
SYMMETRY Symmetry
INVARIANTS LossesExplained SuccessIsStored WeightIsTotal
PROPERTIES ImplementsLedger
CHECK_DEADLOCK FALSE
