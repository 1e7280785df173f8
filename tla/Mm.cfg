SPECIFICATION Spec
CONSTANTS
  N = 4
  MaxLen = 3
  Prots = {"rw", "r"}
  Objs = {o1, o2, o3}
  MmapTop = 2
  StartBrk = 1
  PageSize = 2
  MaxCopy = 4
 
INVARIANT FaultEnds
INVARIANT RegionsDisjoint
INVARIANT ViewsAgree
 
SYMMETRY Symmetry
CHECK_DEADLOCK FALSE
