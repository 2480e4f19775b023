SPECIFICATION Spec
CONSTANTS
  MaxValue = 20
  Constraints <- MCConstraints
  Searches <- MCArguments
  CIntegers <- MCCIntegers
INVARIANTS MatchesMeaning
