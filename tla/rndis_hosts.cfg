SPECIFICATION FairSpec
CONSTANTS
  Requests <- AllRequests
  MaxCommands = 3
INVARIANTS AnswersLast AnnouncedHeld
PROPERTIES CommandAnswered
