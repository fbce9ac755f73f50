\* One encoder, two server processes one after the other, an application that is
\* started twice, and a signal; pipes are full at two messages, and receives time
\* out however soon.
CONSTANTS
  Encoders = {e1}
  HWM = 2
  Patience = {FALSE}
  Interruptible = {"mighty", e1}
  MaxServers = 2
  MaxStarts = 2
SPECIFICATION Spec
INVARIANTS
  TypeOK
  NullOnlyAfterRestart
PROPERTY
  OwnSegment
