\* Two contexts, two sockets besides the monitor's, two messages; the C library
\* makes two contexts and keeps three sockets and two contents.
CONSTANTS
  Contexts = {c1, c2}
  Sockets = {s1, s2, mon}
  Monitor = mon
  Messages = {m1, m2}
  MaxContexts = 2
  MaxHandles = 3
  MaxBlocks = 2
SPECIFICATION Spec
INVARIANTS
  HandlesOwned
  BlocksCounted
SYMMETRY Perms
