SPECIFICATION FairServiceSpec
CONSTANTS
  NumNodes = 2
  ReplacementRate = "never"
  SkipClientCreation = FALSE
  Hung <- MCHung
  MaxNames = 2
  LivenessAgent = TRUE
  SendsActions = TRUE
  MaxCalls = 1
  MaxBackground = 1
  CounterMod = 4
INVARIANTS ServiceTypeOK ProfileIsComplete
PROPERTIES RefinesScheduler SignalEndsTheProcess HandoverEnds SlotsKeepRunning
\* The process stops on a signal.
CHECK_DEADLOCK FALSE
