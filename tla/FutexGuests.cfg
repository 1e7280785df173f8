SPECIFICATION GuestsSpec
CONSTANTS
  uaddrA = uaddrA
  uaddrB = uaddrB
  b1 = b1
  b2 = b2
  b3 = b3
  x = x
  NoThread = NoThread
  NoBlock = NoBlock
  NoAddr = NoAddr
  FUTEX_WAITERS = 10
  Threads <- MCThreads
  Lock = uaddrB
  Addrs <- MCAddrs
  CondWords <- MCCondWords
  CondUsers = {1, 2}
  Conds = {uaddrA}
  Blocks <- MCBlocks
  Bits <- MCBits
  Words <- MCWords
  Counts <- MCCounts
  Commands <- MCCommands
  TimedWaits = FALSE
  SpuriousWakeups = FALSE
INVARIANT NoLostWakeup
INVARIANT PiMutualExclusion
PROPERTY StaleWaitEnds
CHECK_DEADLOCK FALSE
