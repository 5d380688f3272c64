SPECIFICATION ToolFairSpec
CONSTANTS
  BufferSize = 92
  Defaults <- FactoryDefaults
  Arrivals <- OtherFrames
  MaxFrames = 1
  MaxClock = 1
  MenuChoices <- UserChoices
  IPs <- UserIPs
  Ports <- UserPorts
  MACs <- UserMACs
  TokenModulus = 3
  MaxRequests = 3
  MaxStarts = 2
INVARIANTS AnswersGoBack WellFormed NoticeNamesFrame AcceptsOwnReply SettingsInForce DiesForReason
PROPERTIES ToolReturns
CHECK_DEADLOCK FALSE
