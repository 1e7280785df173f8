SPECIFICATION Spec
CONSTANTS
  uaddrA = uaddrA
  uaddrB = uaddrB
  b1 = b1
  b2 = b2
  b3 = b3
  b4 = b4
  x = x
  NoThread = NoThread
  NoBlock = NoBlock
  NoAddr = NoAddr
  FUTEX_WAITERS = 10
  Threads <- MCThreeThreads
  Addrs <- MCAddr
  Blocks <- MCThreeBlocks
  Bits <- MCBits
  Words <- MCWords
  Commands <- MCTimed
  Counts <- MCCounts
  TimedWaits = TRUE
  SpuriousWakeups = TRUE
SYMMETRY MCBlockSymmetry
INVARIANT SleepersQueued
CHECK_DEADLOCK FALSE
