SPECIFICATION Spec
CONSTANTS
  MaxValue = 20
  Constraints <- MCConstraints
  Searches <- MCAfterIf
  CIntegers <- MCCIntegers
INVARIANTS MatchesMeaning
