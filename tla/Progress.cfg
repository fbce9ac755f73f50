\* Liveness with one application thread that may also synchronize.  It stops
\* for good when it synchronizes after the encoder thread has died.
CONSTANTS
  NFRAMES = 3
  AppThreads = {t1}
  Encoder = enc
  Sizes = {1}
  SyncCallers = {t1}
SPECIFICATION FairSpec
PROPERTIES
  SentFrameReturned
  CallReturns
  SyncWakes
  DestructorJoins
CHECK_DEADLOCK FALSE
