SPECIFICATION FairSpec
CONSTANTS
  Threads = {th1, th2, th3}
  Procs = {init, child, grandchild}
  Root = init
  NoProc = NoProc
  NoThread = NoThread
CHECK_DEADLOCK FALSE
INVARIANT OthersGone
INVARIANT TasksCounted
INVARIANT GuestHasVcpu
INVARIANT ArgOutlives
INVARIANT StatusKept
PROPERTY CallsEnd
