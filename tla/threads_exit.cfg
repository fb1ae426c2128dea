SPECIFICATION Spec
CONSTANTS
  NPROC = 6
  CPUs = 2
  NUM_THREAD = 2
  nstress = 2
  Programs <- MCPrograms
  Loads <- ExitLoads
PROPERTY ZombieStays
