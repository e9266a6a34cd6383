\* Liveness: hanging generations, silent disconnects, restarts.
SPECIFICATION Chats
CONSTANTS
  MaxLog = 2
  Stream = {s1, s2}
  Client = {c1, c2}
  Resuming = {}
  None = None
  MaxEvents = 2
  MaxQueued = 1
  p2 = p2
  o1 = o1
  b1 = b1
  MaxSessions = 2
  PanelSend = {p1, p2}
  OtherSend = {o1}
  Backend = {b1, b2}
  MaxDeltas = 1
  Nothing = Nothing
INVARIANTS TypesOK PromptIsHistory 
PROPERTIES RequestsEnd
\* Each request is made once, then the system rests.
CHECK_DEADLOCK FALSE
