SPECIFICATION FairSpec
CONSTANTS
  BankSize = 2
  HeaderSize = 1
  MaxFrame = 2
  Lengths <- FrameLengths
  StreamTimeout = 1
  MaxReceived = 2
  MaxSent = 1
  MaxResets = 1
  MaxSuspends = 1
INVARIANTS HostReadsWhatWasSent FramesAreMessages TimeoutCountsFrames
PROPERTIES StreamsEnd
CHECK_DEADLOCK FALSE
