SPECIFICATION FairSpec
CONSTANTS
  Char = {"quote", "escape", "letter"}
  NUL = "NUL"
  quote = "quote"
  Escape = {"quote", "escape"}
  Needles <- MCNeedles
  modifier <- MCmodifier
  Size = 5
  SIZE_MAX = 15
INVARIANTS InBounds ResultsRight
PROPERTY CallsReturn
