\* A refused chain takes the write of another call with it.
SPECIFICATION Spec
CONSTANTS
  Task = {t1, t2}
  Backend = {1, 2}
  Kind = {"claude", "codex"}
  KindOf <- TwoKinds
  None = None
  MaxLevel = 1
  Threshold = 1
  Chains <- TwoChains
  MaxTime = 1
  MaxCalls = 2
PROPERTY DeleteLands
\* The server may sit idle once the bounded number of calls has been made.
CHECK_DEADLOCK FALSE
