SPECIFICATION Logins
CONSTANTS
  s1 = s1
  s2 = s2
  request = request
  sweep = sweep
  None = None
  Stream <- MCStream
  Canceller <- MCCanceller
  Sweeper <- MCSweeper
  MaxQueue = 1
  Flow = {"cli", "api_key"}
  Login = {l1, l2}
  MaxPrompts = 1
  NoLogin = NoLogin
INVARIANTS TypeOK CliIsEnded 
PROPERTIES SignalsItsChild LoginsEnd
\* A login is over once everybody has left it.
CHECK_DEADLOCK FALSE
