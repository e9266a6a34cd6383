SPECIFICATION Terminals
CONSTANTS
  MaxWords = 3
  MaxOut = 1
  MaxPastes = 1
  MaxPieces = 2
  MaxPtys = 2
  MaxSockets = 2
  Threads = 2
  MaxKeys = 1
INVARIANTS TypesOK ToldAsItWent 
 
\* A login is over once its CLI is; a websocket once it has closed.
CHECK_DEADLOCK FALSE
