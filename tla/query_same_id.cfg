SPECIFICATION Spec
CONSTANTS
  MaxValue = 20
  Constraints <- MCConstraints
  Searches <- MCSameId
  CIntegers <- MCCIntegers
INVARIANTS MatchesMeaning
