SPECIFICATION FairSpec
CONSTANTS
  LOW = 3
  MAX_FDS = 6
  Tables <- TablesSmall
  Actions <- ActionsSmall
  MaxActions = 2
  AttributeSets <- AttributesSmall
INVARIANTS ResultTrue DescriptorsRestored ProgramAsAsked TwoProcesses
PROPERTIES SpawnReturns
