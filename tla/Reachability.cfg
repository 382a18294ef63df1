\* every program with two edges out of a and one out of b
SPECIFICATION Spec
CONSTANTS
  a = a
  b = b
  bad = bad
  Expl = {a, b, bad}
  Errors <- MCErrors
  Data = {0, 1}
  HitPolicy = "subseteq"
  Programs <- MCPrograms
  MaxMissed = 1
INVARIANTS
  TypeOK
  SafeIsSound
  ErrorIsReal
  ExpandedOnce
  GraphSimulates
  NoSuperfluousState
  SearchInv
PROPERTIES
  Termination
  Refinement
CHECK_DEADLOCK FALSE
