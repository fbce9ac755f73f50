\* Two application threads on the three buffers of the code, against each other
\* and against FrameLifecycle.
CONSTANTS
  NFRAMES = 3
  AppThreads = {t1, t2}
  Encoder = enc
  Sizes = {1}
  SyncCallers = {}
SPECIFICATION Spec
INVARIANTS
  OneOwner
  WaitCompleteNeverBlocks
  ContextExclusive
PROPERTY
  Refines
