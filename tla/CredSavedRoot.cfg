SPECIFICATION Spec
CONSTANTS
  Uids <- MCUids
  NoUid = NoUid
INVARIANT SavedRoot
CHECK_DEADLOCK FALSE
