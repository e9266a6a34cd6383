\* Two streams of one session.
SPECIFICATION Spec
CONSTANTS
  s1 = s1
  s2 = s2
  request = request
  sweep = sweep
  None = None
  Stream <- MCStream
  Canceller <- MCCanceller
  Sweeper <- MCSweeper
  MaxQueue = 1
  Flow = {"cli"}
INVARIANT EveryCliIsEnded
\* The session is over once everybody has left it.
CHECK_DEADLOCK FALSE
