SPECIFICATION Spec
CONSTANTS
  Streams <- MixedStreams
  Segment = 6
  Windows = {2}
CHECK_DEADLOCK FALSE
INVARIANTS WaitsForData
