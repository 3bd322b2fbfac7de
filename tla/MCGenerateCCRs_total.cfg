SPECIFICATION FairSpec
CONSTANT Configs <- MCConfigs
PROPERTY TotalIsRun
