\* Two update calls, one renaming, one changing the config.
SPECIFICATION Spec
CONSTANTS
  t1 = t1  t2 = t2  p1 = p1  p2 = p2  v1 = v1  v2 = v2
  Task = {t1, t2}
  Kind = {claude}
  Name = {n1, n2}
  Value = {p1}
  Key = {v1}
  Unset = Unset
  MaxBackends = 1
  MaxCalls = 3
  CreateConfigs <- OnePath
  UpdateConfigs <- Cleared
PROPERTY UnspecifiedLeftUnchanged
\* The server may sit idle once the bounded number of calls has been made.
CHECK_DEADLOCK FALSE
