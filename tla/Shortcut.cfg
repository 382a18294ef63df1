SPECIFICATION Spec
CONSTANTS
  Generations = 16
  Frame <- MCFrame
  Threads <- MCThreads
  Menus <- MCMenus
  MaxAsked = 1
CHECK_DEADLOCK FALSE
INVARIANT AnswersAreSound
