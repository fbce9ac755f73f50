\* One application thread, the three buffers of the code and two window sizes.
CONSTANTS
  NFRAMES = 3
  AppThreads = {t1}
  Encoder = enc
  Sizes = {1, 2}
  SyncCallers = {}
SPECIFICATION Spec
INVARIANTS
  TypeOK
  ExhaustedOnlyAfterLoss
  AppContextRestored
  FrameDrawable
  QueueBound
