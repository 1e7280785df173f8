SPECIFICATION FairSpec
CONSTANTS
  Sigs <- MCSigs
  Acts <- MCActs
  Masks <- MCMasks
  MaxDepth = 2
CHECK_DEADLOCK FALSE
INVARIANT MaskHeld
INVARIANT LoopPerFrame
 
PROPERTY CaughtIsTaken
