SPECIFICATION Spec
CONSTANT
  Configs <- MCConfigs
PROPERTY DetectsMissingCollector
