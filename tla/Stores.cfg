SPECIFICATION Spec
CONSTANTS
  Generations = 16
  Frame <- MCFrame
  Threads <- MCThreads
  Menus <- MCMenus
  MaxAsked = 2
CHECK_DEADLOCK FALSE
INVARIANTS GroupsPartition GroupsTellTheSame AnswersDecideInclusion GroupwiseIsWhole BlobsKeepStores
