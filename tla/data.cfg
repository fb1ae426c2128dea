SPECIFICATION Spec
CONSTANTS
  Files <- MCFiles
  NDIRECT = 1
  NINDIRECT = 2
  BSIZE = 2
  FSSIZE = 40
  BPB = 16
  MAXOPBLOCKS = 6
  LOGSIZE = 1
  NINODES = 8
  IPB = 8
  Inputs <- MCInputs
  Disk <- MCDisk
  Meta <- MCMeta
  Host <- MCHost
  Workloads <- MCWorkloads
INVARIANTS ReadsBack BlocksRight
