\* Two calls at a time on the shared connection, with restarts between any two statements.
SPECIFICATION Spec
CONSTANTS
  Task = {t1, t2}
  Backend = {1, 2}
  Kind = {"claude", "codex"}
  KindOf <- TwoKinds
  None = None
  MaxLevel = 1
  Threshold = 1
  Chains <- SomeChains
  MaxTime = 1
  MaxCalls = 3
SYMMETRY Interchangeable
INVARIANTS TypeOK NoTxLeaked ChainAtomic 
\* The server may sit idle once the bounded number of calls has been made.
CHECK_DEADLOCK FALSE
