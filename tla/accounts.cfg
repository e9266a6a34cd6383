\* Two coroutines on two accounts: every pair of calls, with restarts.
SPECIFICATION Spec
CONSTANTS
  t1 = t1  t2 = t2  p1 = p1  p2 = p2  v1 = v1  v2 = v2
  Task = {t1, t2}
  Kind = {claude}
  Name = {n1}
  Value = {p1}
  Key = {v1, v2}
  Unset = Unset
  MaxBackends = 2
  MaxCalls = 4
  CreateConfigs <- Identities
  UpdateConfigs <- None
SYMMETRY Symmetry
INVARIANTS TypeOK CredentialHasRow DeletedStaysDeleted StatusBacked StatusExplained NoDuplicateAccount
PROPERTY DirOfLiveAccountKept
\* The server may sit idle once the bounded number of calls has been made.
CHECK_DEADLOCK FALSE
