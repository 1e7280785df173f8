SPECIFICATION ExecSpec
CONSTANTS
  Uids <- MCUids
  NoUid = NoUid
  Files <- MCFiles
  Requests <- MCRequests
  PAGE = 4
  DYN_BASE = 16
  STACK_TOP = 1024
  STACK_SIZE = 224
  MAX_ARG_STRINGS = 4
  MaxScripts = 3
  MaxVfds = 1
INVARIANT HostAgrees
PROPERTY IdsAreKept
 
INVARIANT ImageWhole
INVARIANT StackReadsBack
CHECK_DEADLOCK FALSE
