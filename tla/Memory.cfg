SPECIFICATION Spec
CONSTANTS
  Register = {1, 2}
  Cell = {1}
  SegmentRange = 4096
  ForeignArguments = FALSE
  MaxThreads = 2
  MaxFrames = 2
  MaxSegments = 5
  MaxNames = 5
INVARIANTS
  TypeOK
  SegmentsAreContiguous
  PointersNameObjects
  PointersAvoidRegisters
PROPERTY ImplementsObjects
CHECK_DEADLOCK FALSE
