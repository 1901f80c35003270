SPECIFICATION Spec
CONSTANTS
  Alphabet <- Chars
  Lower <- LowerChar
  WordChars <- LatinLetters
  MaxPrefixSize = 5
  Inputs <- AllInputs
INVARIANTS StorageSuffices FailureUndone FindsLeftmost NextMatchFollowsForward
PROPERTIES SearchEnds
CHECK_DEADLOCK FALSE
