SPECIFICATION FairSpec
CONSTANTS
  Requests <- AllRequests
  ControlEndpointSize = 2
  ResponseLengths <- MessageLengths
  MaxSetups = 2
  MaxResets = 2
  MaxSuspends = 1
INVARIANTS ConfigurationHasEndpoints InterruptArmed NoMutualWait
PROPERTIES Enumerates
CHECK_DEADLOCK FALSE
