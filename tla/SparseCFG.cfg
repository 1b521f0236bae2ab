SPECIFICATION Spec
CONSTANTS
  Null = Null
  CFGs <- MCCFGs
INVARIANTS NoInventedJump ExactWithoutSkippedMerge AdvanceSkipsNoUser
PROPERTIES Terminates
CHECK_DEADLOCK FALSE
