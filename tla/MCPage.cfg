\* Jobs end when their page is made, and the program ends when one panics.
SPECIFICATION Spec
CONSTANTS
  g1 = g1
  g2 = g2
  None = None
  Goroutines = {g1, g2}
  Labels = {"x", "y"}
  Pages = {g1, g2}
  Items <- MCItems
  Blocks <- MCBlocks
  NL = "n"
  MaxRun = 2
  MaxTimeouts = 1
  Cases <- AllCases
  Files <- AllFiles
  HTML <- MCHTML
CHECK_DEADLOCK FALSE
INVARIANTS
  RulesWhole
  CodeKept
  NumbersAgree
  NotesListed
PROPERTIES
  RulesStay
  PagesEnd
