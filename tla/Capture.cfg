\* All trees of three windows below the root; sizes that are padded to 32 and to 64;
\* two frames, so that the first may still be in the queue with the second.
CONSTANTS
  N = 3
  Sizes = {0, 32, 33}
  MaxFrames = 2
SPECIFICATION Spec
INVARIANTS
  TypeOK
  WindowsInOrder
  FileInOrder
PROPERTY
  UsesNvIFR
