SPECIFICATION Spec
CONSTANTS
  Programs = {"Self"}
  EagerModes = {FALSE}
  VersioningModes = {TRUE, FALSE}
  Node <- MCNode
  Fun <- MCFun
  FunOf <- MCFunOf
  StartPoints <- MCStartPoints
  ExitInst <- MCExitInst
  CallSite <- MCCallSite
  SuccsOf <- MCSuccsOf
  CalleesOf <- MCCalleesOf
  NodesInSCC <- MCNodesInSCC
  Fact <- MCFact
  Zero <- MCZero
  initialSeeds <- MCinitialSeeds
  normalFlow <- MCnormalFlow
  invCallFlow <- MCinvCallFlow
  returnFlow <- MCreturnFlow
  callToRetFlow <- MCcallToRetFlow
  hasSummaryFlow <- MChasSummaryFlow
  summaryFlow <- MCsummaryFlow
  generated <- MCgenerated
  sinks <- MCsinks
  shouldBeInSummary <- MCshouldBeInSummary
INVARIANT EveryLeakReported
CHECK_DEADLOCK FALSE
