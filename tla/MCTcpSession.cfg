SPECIFICATION Spec
CONSTANTS
  Streams <- MixedStreams
  Segment = 6
  Windows = {1, 2}
CHECK_DEADLOCK FALSE
INVARIANTS TypeOK Framed
PROPERTIES CallsAnswered
