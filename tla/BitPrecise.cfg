SPECIFICATION Spec
CONSTANTS
  Generations = 16
  WordWidth = 3
  MachineWidths <- MCMachineWidths
  Frame <- MCFrame
  Threads <- MCThreads
  GlobalInit <- MCGlobalInit
  Menus <- MCMenus
  WithGaps = TRUE
CHECK_DEADLOCK FALSE
PROPERTY ImplementsValuations
