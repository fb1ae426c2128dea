SPECIFICATION MCSpec
CONSTANTS
  NPROC = 4
  PGSIZE = 6
  NPTENTRIES = 2
  NUPDE = 4
  NKPDE = 1
  MAXARG = 4
  MINUNITS = 8
  Images <- MCImages
  Programs <- MCPrograms
  Tests <- MCTests
  Apics = {0, 1, 2}
  BSP = 0
  NCPU = 3
  LowPages = 3
  NSLOT = 3
  Scenarios <- MCScenarios
INVARIANTS FramesOnce SpaceRight TestsHold NcliRight IntrOff OwnOnly NoLostWakeup
PROPERTY ImplementsSpaces
