\* The comment on context_t::close, against RRTransDestroy.
CONSTANTS
  Windows = {w1}
  NFRAMES = 3
  MaxInits = 1
SPECIFICATION FairSpec
PROPERTY
  ContextTerminates
CHECK_DEADLOCK FALSE
