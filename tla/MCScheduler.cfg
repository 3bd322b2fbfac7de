SPECIFICATION FairSpec
CONSTANTS
  NumNodes = 3
  ReplacementRate = "sometimes"
  SkipClientCreation = FALSE
  Hung <- MCHung
  MaxNames = 5
INVARIANTS TypeOK SlotConservation CloserNeverBlocks OneRunPerNode
PROPERTIES FirstRunExactlyOnce RetiredForGood Paced EverySlotKeepsRunning ImplementsFleet
