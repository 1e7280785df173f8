SPECIFICATION FairSpec
CONSTANTS
  th1 = th1
  th2 = th2
  Threads = {th1, th2}
  NoThread = NoThread
  VkernStart = 2
  VkernSize = 2
  FfsBits = 2
  Unit = 1
  NewFds <- MCUserFds
CHECK_DEADLOCK FALSE
INVARIANT TableAgrees
 
 
 
