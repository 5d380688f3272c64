SPECIFICATION Spec
CONSTANTS
  FieldSize = 1
  UserValues <- OneUser
INVARIANTS Configured BootloaderAsked ConfigAsSet ConfigOneWhole
