SPECIFICATION FairSpec
CONSTANTS
  NoFrame = NoFrame
  HostFrames <- PairShapes
  AirFrames <- NoShapes
  MaxFrames = 2
  Commands <- OpenCommands
  WatchdogTicks = 4
  BlinkTicks = 5
  PowerLoss = FALSE
INVARIANTS Service
PROPERTIES PromiseKept OutBankDrains
