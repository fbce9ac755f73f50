\* No receive times out while an answer is under way.  The server is restarted
\* twice; a pipe holds more than ever is under way to an encoder that works.
CONSTANTS
  Encoders = {e1}
  HWM = 4
  Patience = {TRUE}
  Interruptible = {"mighty", e1}
  MaxServers = 3
  MaxStarts = 2
SPECIFICATION FairSpec
INVARIANT
  OneAhead
PROPERTY
  ServedInTheEnd
