SPECIFICATION Spec
CONSTANTS
  FieldSize = 1
  UserValues <- OneUser
INVARIANTS ConfigOneActive
