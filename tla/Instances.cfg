\* Two windows, each of which may be tried twice; two buffers each.  All stops
\* when the instances are destroyed, or the process has died.
CONSTANTS
  Windows = {w1, w2}
  NFRAMES = 2
  MaxInits = 2
SPECIFICATION FairSpec
INVARIANTS
  TypeOK
  NothingOutlives
  FailedInitClean
  LogLost
PROPERTY
  InitReturns
CHECK_DEADLOCK FALSE
