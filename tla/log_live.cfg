SPECIFICATION FairSpec
CONSTANTS
  o1 = o1 o2 = o2 o3 = o3 s1 = s1
  b1 = b1 b2 = b2 b3 = b3 b4 = b4 b5 = b5
  Ops <- MCOps2
  Syncers <- MCSync
  Boot = Boot
  Blocks <- MCBlocks2
  NoBlock = NoBlock
  MAXOPBLOCKS = 2
  LOGSIZE = 4
  NLOG = 5
  OpBlocks = 1
  MaxCrashes = 1
PROPERTY CallsReturn
