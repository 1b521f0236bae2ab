SPECIFICATION Spec
CONSTANTS
  Programs = {"Mutual"}
  EagerModes = {TRUE, FALSE}
  VersioningModes = {TRUE, FALSE}
  Node <- MCNode
  Fun <- MCFun
  FunOf <- MCFunOf
  StartPoints <- MCStartPoints
  ExitInst <- MCExitInst
  CallSite <- MCCallSite
  SuccsOf <- MCSuccsOf
  CalleesOf <- MCCalleesOf
  NodesInSCC <- MCNodesInSCC
  Fact <- MCFact
  Zero <- MCZero
  initialSeeds <- MCinitialSeeds
  normalFlow <- MCnormalFlow
  invCallFlow <- MCinvCallFlow
  returnFlow <- MCreturnFlow
  callToRetFlow <- MCcallToRetFlow
  hasSummaryFlow <- MChasSummaryFlow
  summaryFlow <- MCsummaryFlow
  generated <- MCgenerated
  sinks <- MCsinks
  shouldBeInSummary <- MCshouldBeInSummary
INVARIANTS NoLostLeak MonoResults
PROPERTY Termination
CHECK_DEADLOCK FALSE
