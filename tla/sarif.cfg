SPECIFICATION Spec
CONSTANTS
  Hit <- MCHit
  Sources <- MCSources
  Ranges <- MCRanges
INVARIANTS TypeOK OneLineAbove OrderIndependent
