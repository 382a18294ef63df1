\* a violation is reported in the graph of stored states
SPECIFICATION Spec
CONSTANTS
  l1 = l1
  l2 = l2
  q = q
  r = r
  Location = {l1, l2}
  BaState = {q, r}
  Expl <- MCExpl
  Data = {0, 1}
  HitPolicy = "subseteq"
  Programs <- MCPrograms
  Automata <- MCAutomata
  InitialBound = 1
  Modes <- MCModes
  MaxMissed = 0
INVARIANTS
  ViolationIsReal
CHECK_DEADLOCK FALSE
