SPECIFICATION FairSpec
CONSTANTS
  NPROC = 6
  CPUs = 2
  NUM_THREAD = 2
  nstress = 2
  Programs <- MCPrograms
  Loads <- MCLoads
INVARIANTS MemoryRight EveryLiveQueued TestsHold
PROPERTY Ends
