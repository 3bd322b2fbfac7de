SPECIFICATION Spec
CONSTANT
  Configs <- MCConfigs
PROPERTY RunListsReplaceRunList
