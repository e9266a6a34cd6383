\* One tab reconnects while its old stream still runs down.
SPECIFICATION Spec
CONSTANTS
  MaxLog = 2
  Stream = {s1, s2}
  Client = {c1}
  Resuming = {c1}
  None = None
  MaxEvents = 2
  MaxQueued = 1
PROPERTY NothingDropped
\* Each request is made once, then the system rests.
CHECK_DEADLOCK FALSE
