\* Two tabs, each of which may also reconnect, a ring smaller than one answer.
SPECIFICATION Spec
CONSTANTS
  MaxLog = 2
  Stream = {s1, s2}
  Client = {c1, c2}
  Resuming = {c1, c2}
  None = None
  MaxEvents = 3
  MaxQueued = 1
INVARIANTS LogIsOwned NothingSentTwice SentInOrder
SYMMETRY Interchangeable
\* Each request is made once, then the system rests.
CHECK_DEADLOCK FALSE
