\* Two window sizes, of which the second is too large for an int of ten bits, a
\* server that may ask for a size, two segments, and three transfer objects, so
\* that resizes and restarts follow one another.
CONSTANTS
  Sizes = {1, 2}
  Pins = {0, 2}
  Segments = {1, 2}
  IntMax = 511
  MaxObjects = 3
  MaxCount = 2
SPECIFICATION Spec
INVARIANTS
  TypeOK
  CodedSize
  OwnFrame
  NothingLeaks
  RateFits
PROPERTIES
  Decodable
  UsesNvIFR
