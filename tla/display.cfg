SPECIFICATION Spec
CONSTANTS
  Texts <- MCTexts
  NCaptures = 2
  before = 1
  after = 1
  enable_line_numbers = TRUE
INVARIANTS TypeOK CapturedShown ContextShown GapsMarked NoPanic OnlyTrailerCut
