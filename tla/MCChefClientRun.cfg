SPECIFICATION Spec
CONSTANT
  Configs <- MCConfigs
INVARIANTS TypeOK ClientIsReal FirstRunOnly NodeIsNamed
PROPERTIES SavesEnvironment AttributesSurvive
