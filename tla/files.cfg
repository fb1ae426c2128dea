SPECIFICATION Spec
CONSTANTS
  None = None
  PIPESIZE = 2
  UINT = 4
  Payloads <- MCPayloads
  Reads <- MCReads
  MaxCalls = 5
  BUFSIZE = 4
  CHUNK = 3
  CHUNKS = 2
  MAXARGS = 6
  Sizes <- MCSizes
  Main <- MCMain
  Calls <- MCCalls
  Holds <- MCHolds
INVARIANTS RefsRight PipeEnds SleepersWait ProgramsEnd
PROPERTY ImplementsChannel
CHECK_DEADLOCK FALSE
