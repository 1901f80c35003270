SPECIFICATION WrapSpec
CONSTANTS
  MaxBody = 3
  ScriptSize = 2
  MaxHeaders = 2
  None = None
  Unsent = Unsent
INVARIANTS
  LengthMatches
  OthersUntouched
CHECK_DEADLOCK FALSE
