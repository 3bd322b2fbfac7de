SPECIFICATION FairDataSpec
CONSTANTS
  Configs <- MCConfigs
  NodeNames <- MCNodeNames
  Environments <- MCEnvironments
INVARIANTS DataTypeOK ProfileMissesAtMostOne DeathsExplained ReportsWithinLimits
PROPERTIES FirstDrawStays Finishes
