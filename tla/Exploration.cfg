SPECIFICATION FairSpec
CONSTANTS
  gx = gx
  gy = gy
  main_r = main_r
  main_c = main_c
  thread_r = thread_r
  thread_c = thread_c
  mtx = mtx
  handle1 = handle1
  handle2 = handle2
  Var = {gx, gy, main_r, main_c, thread_r, thread_c}
  Val = {0, 1, 2}
  Slot = {mtx, handle1, handle2}
  Shared = {gx, gy}
  MaxSteps = 30
  Programs <- RegularPrograms
INVARIANTS
  TypeOK
  NoAssertFails
  LayoutMatchesControl
  KnownsAreReached
  SafeIsSound
  FinalsAreCovered
PROPERTY Termination
CHECK_DEADLOCK FALSE
