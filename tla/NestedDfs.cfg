\* every graph on three vertices, searched without a bound, iteratively, and
\* with a bound
SPECIFICATION Spec
CONSTANTS
  v1 = v1
  v2 = v2
  v3 = v3
  Vertex = {v1, v2, v3}
  Answers <- MCAnswers
  InitialBound = 1
  Modes <- MCAllModes
INVARIANTS
  TypeOK
  SearchInv
  VisitedIsClosed
  ViolationIsReal
  HoldsIsComplete
PROPERTIES
  Refinement
  Termination
CHECK_DEADLOCK FALSE
