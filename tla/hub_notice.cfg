SPECIFICATION Spec
CONSTANTS
  NoFrame = NoFrame
  HostFrames <- QueryShapes
  AirFrames <- NoShapes
  MaxFrames = 1
  Commands <- OpenCommands
  WatchdogTicks = 4
  BlinkTicks = 5
  PowerLoss = FALSE
PROPERTIES EveryPacketNoticed
