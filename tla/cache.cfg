SPECIFICATION FairSpec
CONSTANTS
  p1 = p1 p2 = p2
  Procs <- MCProcs
  Blocks <- MCBlocks
  NBUF = 3
  Nobody = Nobody
  MaxHold = 1
  MaxPins = 1
  MaxCalls <- MCCalls
INVARIANTS TypeOK HeldIsTheBuffer RefcntRight
PROPERTIES ImplementsStore CallsReturn
