\* Three runs, a flush and two shutdowns around a queue of two: a flush means
\* what it says, nothing accepted is lost, and every call returns.
SPECIFICATION AsyncSpec
CONSTANTS
  Runs = {r1, r2, r3}
  Flushes = {f1}
  Closes = {k1, k2}
  Buffer = 2
\* Everybody may have called and returned.
CHECK_DEADLOCK FALSE
INVARIANTS
  NoSendOnClosedQueue
  FlushedMeansAttempted
  StoppedMeansDrained
  AcceptedOnce
PROPERTIES
  FlushReturns
  CloseReturns
