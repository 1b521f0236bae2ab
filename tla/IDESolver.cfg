SPECIFICATION TablesSpec
CONSTANTS
  Programs = {"Calls", "Backward", "Sparse", "Unbalanced"}
  MaxDepth = 3
  AutoAddZero = TRUE
  FollowReturnsPastSeeds = TRUE
  ComputeValues = TRUE
  NoNode = NO_NODE
  NO_NODE = NO_NODE
  Top = TOP
  TOP = TOP
  Bottom = BOTTOM
  BOTTOM = BOTTOM
  Zero = "0"
  Node <- MCNode
  Fun <- MCFun
  FunOf <- MCFunOf
  StartPointsOf <- MCStartPointsOf
  ExitInst <- MCExitInst
  CallSite <- MCCallSite
  SuccsOf <- MCSuccsOf
  ReturnSitesOf <- MCReturnSitesOf
  CalleesOf <- MCCalleesOf
  NonCallStartNodes <- MCNonCallStartNodes
  NextUser <- MCNextUser
  Fact <- MCFact
  NormalFF <- MCNormalFF
  CallFF <- MCCallFF
  RetFF <- MCRetFF
  CallToRetFF <- MCCallToRetFF
  HasSummaryFF <- MCHasSummaryFF
  SummaryFF <- MCSummaryFF
  EF <- MCEF
  allTop <- MCallTop
  IdentityEdge <- MCIdentityEdge
  NormalEF <- MCNormalEF
  CallEF <- MCCallEF
  ReturnEF <- MCReturnEF
  CallToRetEF <- MCCallToRetEF
  SummaryEF <- MCSummaryEF
  extend <- MCextend
  combine <- MCcombine
  applyFunction <- MCapplyFunction
  Value <- MCValue
  join <- MCjoin
  InitialSeeds <- MCInitialSeeds
INVARIANTS TypeOK NoLostFlow NoLostUnbalanced NoLostValue SummaryFresh IncomingExact
           ValidPathResults LookupsConsistent
PROPERTIES JumpFnOnlyGrow Termination
CHECK_DEADLOCK FALSE
