SPECIFICATION FairSpec
CONSTANTS
  NPROC = 3
  ninodes = 14
  NINODE = 8
  NFILE = 4
  DIRSIZ = 14
  Files = {"README", "cat", "echo"}
  N = 4
  Children = 2
  Programs <- MCPrograms
  Scripts <- MCScripts
  Typing <- MCTyping
  INPUT_BUF = 5
  UINT = 10
INVARIANTS RefsRight LinksRight NoOrphan TestsHold
PROPERTIES ImplementsTerminal Ends
