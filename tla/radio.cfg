SPECIFICATION FairSpec
CONSTANTS
  FifoSize = 4
  StatusMax = 3
  CountModulus = 8
  FrameLengths <- Lengths
  TestPacketSize = 5
  PayloadValues <- Values
  MaxPackets = 2
INVARIANTS AirIntact FifoNeverOverflows IdleBetweenPackets
PROPERTIES TxEnds
