SPECIFICATION Spec
CONSTANTS
  uaddrA = uaddrA
  uaddrB = uaddrB
  b1 = b1
  b2 = b2
  b3 = b3
  b4 = b4
  x = x
  NoThread = NoThread
  NoBlock = NoBlock
  NoAddr = NoAddr
  FUTEX_WAITERS = 10
  Threads <- MCThreads
  Addrs <- MCAddrs
  Blocks <- MCBlocks
  Bits <- MCBits
  Words <- MCWords
  Commands <- MCQueues
  Counts <- MCCounts
  TimedWaits = FALSE
  SpuriousWakeups = FALSE
SYMMETRY MCSymmetry
INVARIANT EntriesAwaited
 
PROPERTY AbstractFutex
CHECK_DEADLOCK FALSE
