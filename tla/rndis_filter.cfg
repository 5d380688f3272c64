SPECIFICATION Spec
CONSTANTS
  Requests <- AllRequests
  MaxCommands = 2
INVARIANTS DataNeedsFilter
