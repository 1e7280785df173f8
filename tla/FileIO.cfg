SPECIFICATION Spec
CONSTANTS
  t1 = t1
  t2 = t2
  Threads = {t1, t2}
  Kinds <- MCKinds
  Chars <- MCChars
  Mtu <- MCMtu
  MaxCalls = 2
  Room = 3
  MaxBytes = 3
  VkernStart = 3
CHECK_DEADLOCK FALSE
INVARIANT TerminalKept
INVARIANT SettingsKept
INVARIANT BytesInOrder
 
