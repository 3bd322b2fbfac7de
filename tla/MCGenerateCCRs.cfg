SPECIFICATION FairSpec
CONSTANT Configs <- MCConfigs
INVARIANTS TypeOK BatchBarrier CountersAddUp RunsFillTheDays PanicsExplained
PROPERTIES ImplementsBatches Terminates
