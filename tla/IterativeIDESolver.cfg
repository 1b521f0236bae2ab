SPECIFICATION Spec
CONSTANTS
  Programs = {"Calls", "Backward", "Collect", "TwoExits"}
  MaxDepth = 3
  NO_NODE = NO_NODE
  TOP = TOP
  Top = TOP
  BOTTOM = BOTTOM
  GCModes = {"Disabled", "Enabled", "EnabledAggressively"}
  EndSummaryTabModes = {TRUE, FALSE}
  Node <- MCNode
  Fun <- MCFun
  FunOf <- MCFunOf
  StartPoints <- MCStartPoints
  ExitInst <- MCExitInst
  CallSite <- MCCallSite
  SuccsOf <- MCSuccsOf
  CalleesOf <- MCCalleesOf
  advanceToNextUser <- MCadvanceToNextUser
  Fact <- MCFact
  NormalFlow <- MCNormalFlow
  CallFlow <- MCCallFlow
  RetFlow <- MCRetFlow
  CallToRetFlow <- MCCallToRetFlow
  HasSummaryFF <- MCHasSummaryFF
  SummaryFF <- MCSummaryFF
  EF <- MCEF
  allTop <- MCallTop
  IdentityEdge <- MCIdentityEdge
  NormalEF <- MCNormalEF
  CallEF <- MCCallEF
  ReturnEF <- MCReturnEF
  CallToRetEF <- MCCallToRetEF
  SummaryEF <- MCSummaryEF
  extend <- MCextend
  combine <- MCcombine
  applyFunction <- MCapplyFunction
  Value <- MCValue
  join <- MCjoin
  InitialSeeds <- MCInitialSeeds
  isInteresting <- MCisInteresting
INVARIANTS RefCountExact NoLostReturn NoReanalysis IterativeResults
PROPERTY Termination
CHECK_DEADLOCK FALSE
