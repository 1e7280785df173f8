SPECIFICATION Spec
CONSTANT K = 10
INVARIANT Balanced
INVARIANT ListFollowsTree
INVARIANT RangeFound
