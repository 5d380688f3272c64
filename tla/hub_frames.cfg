SPECIFICATION FairSpec
CONSTANTS
  NoFrame = NoFrame
  HostFrames <- MixedShapes
  AirFrames <- RadioShapes
  MaxFrames = 1
  Commands <- AllCommands
  WatchdogTicks = 6
  BlinkTicks = 5
  PowerLoss = TRUE
INVARIANTS TypeOK PendingExtra BootloaderRequested
PROPERTIES RequestSticks RequestsHappen
