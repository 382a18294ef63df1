\* the LTL command as it is built: states inside stored ones are dropped
SPECIFICATION Spec
CONSTANTS
  l1 = l1
  l2 = l2
  q = q
  r = r
  Location = {l1, l2}
  BaState = {q, r}
  Expl <- MCExpl
  Data = {0, 1}
  HitPolicy = "subseteq"
  Programs <- MCPrograms
  Automata <- MCAutomata
  InitialBound = 1
  Modes <- MCModes
  MaxMissed = 1
INVARIANTS
  HoldsIsSound
  ViolationIsRealOrAbsorbed
  ProductInv
CHECK_DEADLOCK FALSE
