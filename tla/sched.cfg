SPECIFICATION Spec
CONSTANTS
  init = init p1 = p1 p2 = p2 p3 = p3 c1 = c1 c2 = c2
  initproc = init
  None = None
  Procs <- MCProcs4
  Cpus <- MCCpus2
  Workloads <- MCWorkloads
  TOTAL_TICKET = 6400
  proc_allot <- MCAllot
  level_allot <- MCLevelAllot
  BoostTicks = 4
  ASLEEP = 200
  UINT = 16
SYMMETRY Alike
INVARIANTS EveryoneHeld OneCpu Lag SharesRight
