CONSTANTS
  i1 = i1
  i2 = i2
  i3 = i3
  Inodes <- MCInodes
  Names <- MCNames
  Targets <- MCTargets
  Paths <- MCPaths
  LOOP_MAX = 2
  HostLoops = 3
  MaxNames = 3
SPECIFICATION Spec
SYMMETRY Symmetry
INVARIANT LookupAgrees
INVARIANT CwdNamed
CHECK_DEADLOCK FALSE
