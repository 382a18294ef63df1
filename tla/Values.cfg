SPECIFICATION Spec
CONSTANTS
  Generations = 16
  WordWidth = 3
  MachineWidths <- MCMachineWidths
  Frame <- MCFrame
  Threads <- MCThreads
  GlobalInit <- MCGlobalInit
  Menus <- MCMenus
  WithGaps = FALSE
CHECK_DEADLOCK FALSE
INVARIANTS TypeOK DefinitionsOK EmptyIsExact
PROPERTY ImplementsValuations
