SPECIFICATION Spec
CONSTANTS
  MaxValue = 20
  Constraints <- MCConstraints
  Searches <- MCSearches
  CIntegers <- MCCIntegers
INVARIANTS MatchesMeaning NoneTwice
