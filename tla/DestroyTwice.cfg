\* The comment on NvIFROGLDestroyTransferObject, against what the plugin calls it with.
CONSTANTS
  Sizes = {1, 2}
  Pins = {0}
  Segments = {1}
  IntMax = 511
  MaxObjects = 2
  MaxCount = 1
SPECIFICATION Spec
INVARIANT
  HandleLive
