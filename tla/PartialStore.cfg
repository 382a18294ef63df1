\* the same programs searched with the comparison of SMTStorePartial
SPECIFICATION Spec
CONSTANTS
  a = a
  b = b
  bad = bad
  Expl = {a, b, bad}
  Errors <- MCErrors
  Data = {0, 1}
  HitPolicy = "partial"
  Programs <- MCPrograms
  MaxMissed = 0
INVARIANTS
  SafeIsSound
CHECK_DEADLOCK FALSE
