SPECIFICATION Spec
CONSTANTS
  Files <- MCFilesHuge
  NDIRECT = 1
  NINDIRECT = 4
  BSIZE = 4
  FSSIZE = 210
  BPB = 28
  MAXOPBLOCKS = 10
  LOGSIZE = 1
  NINODES = 8
  IPB = 8
  Inputs <- MCInputsHuge
  Disk <- MCDisk
  Meta <- MCMeta
  Host <- MCHost
  Workloads <- MCHuge
INVARIANT TxnFits
