\* Two clients, three lines, a ring of two buffers, one kill, one restart.
\* Everything stops when all the lines are printed.
CONSTANTS
  Clients = {c1, c2}
  MAX_BUFFERS = 2
  MaxLines = 3
  MaxStarts = 2
  MaxKills = 1
SPECIFICATION FairSpec
INVARIANTS
  TypeOK
  AsManyAsLoggers
  InOrder
PROPERTY
  AllPrinted
CHECK_DEADLOCK FALSE
