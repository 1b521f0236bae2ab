--------------------------- MODULE IDESolverProofs ---------------------------
(***************************************************************************)
(* Proofs about IDESolver, for every ICFG and every problem that satisfy   *)
(* the assumptions of that module (a flow function may return any set of   *)
(* facts and a function may have any number of start points; nothing is    *)
(* assumed to be finite).                                                  *)
(*                                                                         *)
(* Phase1Inv is inductive.  NoLostFlow is not by itself: an exit creates   *)
(* duties at the calls whose facts enter its function and serves the calls *)
(* in IncomingTab, so IncomingExact has to say that these are the same.    *)
(* NoLostUnbalanced needs it too, in the other direction: no registered    *)
(* call means that no flow has entered.  What is absorbed stays absorbed   *)
(* because combine is associative, commutative and idempotent; popping an  *)
(* entry absorbs it.  Phase II never changes the tables of Phase I, so the *)
(* invariant is about the whole run.                                       *)
(*                                                                         *)
(* Three further parts rest on it.  ValueInv is the invariant of Phase II: *)
(* every value that a settled value has to reach is in the value table or  *)
(* is still to be propagated.  NoInventedFlow is the other half of Phase I *)
(* (the jump functions are below every solution of the flow equations,     *)
(* where composition is monotone), and NoInventedValue that of Phase II.   *)
(***************************************************************************)
EXTENDS IDESolverTables, TLAPS

(***************************************************************************)
(* Tables.                                                                 *)
(***************************************************************************)
\* The cached flow functions return facts.
LEMMA FlowTypes ==
  ASSUME NEW n \in Node, NEW d \in Fact
  PROVE  /\ \A m \in Node : /\ NormalFlow(n, m, d) \subseteq Fact
                            /\ CallToRetFlow(n, m, d) \subseteq Fact
         /\ \A g \in Fun : /\ CallFlow(n, g, d) \subseteq Fact
                           /\ \A x, m \in Node :
                                RetFlow(n, g, x, m, d) \subseteq Fact
BY FlowAssumption DEF NormalFlow, CallToRetFlow, CallFlow, RetFlow,
     ZeroedFlowFunction

\* A propagation is sent to a node, also by a sparse ICFG.
LEMMA DestNType ==
  ASSUME NEW n \in Node, NEW m \in Node, NEW d \in Fact
  PROVE  DestN(n, m, d) \in Node
BY ICFGAssumption DEF DestN

\* The start points of a function are nodes of it.
LEMMA StartPointsType ==
  ASSUME NEW g \in Fun
  PROVE  \A sp \in StartPoints(g) : sp \in Node /\ FunOf(sp) = g
BY ICFGAssumption DEF StartPoints

\* A path edge and its fields.
LEMMA pathEdgeType ==
  ASSUME NEW d1 \in Fact, NEW n \in Node, NEW d2 \in Fact, NEW f \in EF
  PROVE  /\ pathEdge(d1, n, d2, f) \in PathEdge
         /\ pathEdge(d1, n, d2, f).src = d1
         /\ pathEdge(d1, n, d2, f).tgt = n
         /\ pathEdge(d1, n, d2, f).dst = d2
         /\ pathEdge(d1, n, d2, f).ef = f
BY DEF pathEdge, PathEdge

\* processNormalFlow puts path edges on the worklist.
LEMMA NormalPushesType ==
  ASSUME NEW d1 \in Fact, NEW n \in Node, NEW d2 \in Fact, NEW f \in EF
  PROVE  NormalPushes(d1, n, d2, f) \subseteq PathEdge
<1> SUFFICES ASSUME NEW m \in SuccsOf(n), NEW d3 \in NormalFlow(n, m, d2)
             PROVE  pathEdge(d1, DestN(n, m, d3), d3,
                             extend(f, NormalEF(n, d2, m, d3))) \in PathEdge
  BY DEF NormalPushes
<1>1. m \in Node
  BY ICFGAssumption
<1>2. d3 \in Fact
  BY <1>1, FlowTypes
<1>3. extend(f, NormalEF(n, d2, m, d3)) \in EF
  BY <1>1, <1>2, EdgeFunctionAssumption
<1> QED
  BY <1>1, <1>2, <1>3, DestNType, pathEdgeType

\* So does the call-to-return flow of processCall,
LEMMA CallToRetPushesType ==
  ASSUME NEW d1 \in Fact, NEW n \in Node, NEW d2 \in Fact, NEW f \in EF
  PROVE  CallToRetPushes(d1, n, d2, f) \subseteq PathEdge
<1> SUFFICES ASSUME NEW m \in ReturnSitesOf(n), NEW d3 \in CallToRetFlow(n, m, d2)
             PROVE  pathEdge(d1, DestN(n, m, d3), d3,
                             extend(f, CallToRetEF(n, d2, m, d3))) \in PathEdge
  BY DEF CallToRetPushes
<1>1. m \in Node
  BY ICFGAssumption
<1>2. d3 \in Fact
  BY <1>1, FlowTypes
<1>3. extend(f, CallToRetEF(n, d2, m, d3)) \in EF
  BY <1>1, <1>2, EdgeFunctionAssumption
<1> QED
  BY <1>1, <1>2, <1>3, DestNType, pathEdgeType

\* its treatment of special summaries,
LEMMA SummaryPushesType ==
  ASSUME NEW d1 \in Fact, NEW n \in Node, NEW d2 \in Fact, NEW f \in EF
  PROVE  SummaryPushes(d1, n, d2, f) \subseteq PathEdge
<1> SUFFICES ASSUME NEW g \in CalleesOf(n), NEW m \in ReturnSitesOf(n),
                    NEW d3 \in SummaryFF(n, g, d2)
             PROVE  pathEdge(d1, DestN(n, m, d3), d3,
                             extend(f, SummaryEF(n, d2, m, d3))) \in PathEdge
  BY DEF SummaryPushes
<1>1. m \in Node /\ g \in Fun
  BY ICFGAssumption
<1>2. d3 \in Fact
  BY <1>1, FlowAssumption
<1>3. extend(f, SummaryEF(n, d2, m, d3)) \in EF
  BY <1>1, <1>2, EdgeFunctionAssumption
<1> QED
  BY <1>1, <1>2, <1>3, DestNType, pathEdgeType

\* and a callee summary applied at one call.
LEMMA ReturnPushesType ==
  ASSUME NEW d1 \in Fact, NEW n \in Node, NEW d2 \in Fact, NEW f \in EF,
         NEW g \in Fun, NEW d3 \in Fact, NEW x \in Node, NEW d4 \in Fact,
         NEW fs \in EF
  PROVE  ReturnPushes(d1, n, d2, f, g, d3, x, d4, fs) \subseteq PathEdge
<1> DEFINE F(r, d5) == extend(f, extend(extend(CallEF(n, d2, g, d3), fs),
                                        ReturnEF(n, g, x, d4, r, d5)))
<1> SUFFICES ASSUME NEW r \in ReturnSitesOf(n), NEW d5 \in RetFlow(n, g, x, r, d4)
             PROVE  pathEdge(d1, DestN(n, r, d5), d5, F(r, d5)) \in PathEdge
  BY DEF ReturnPushes
<1>1. r \in Node
  BY ICFGAssumption
<1>2. d5 \in Fact
  BY <1>1, FlowTypes
<1>3. F(r, d5) \in EF
  <2>1. CallEF(n, d2, g, d3) \in EF /\ ReturnEF(n, g, x, d4, r, d5) \in EF
    BY <1>1, <1>2, EdgeFunctionAssumption
  <2> QED
    BY <2>1, EdgeFunctionAssumption
<1> HIDE DEF F
<1> QED
  BY <1>1, <1>2, <1>3, DestNType, pathEdgeType

\* The start points and facts that a call enters, member by member.
LEMMA EnteredType ==
  ASSUME NEW n \in Node, NEW d2 \in Fact
  PROVE  /\ Entered(n, d2) \subseteq Node \X Fact
         /\ \A sp, d3 : <<sp, d3>> \in Entered(n, d2) <=>
              \E g \in CalleesOf(n) : /\ ~HasSummaryFF(n, g)
                                      /\ sp \in StartPoints(g)
                                      /\ d3 \in CallFlow(n, g, d2)
<1>1. \A g \in CalleesOf(n) : g \in Fun
  BY ICFGAssumption
<1>2. \A sp, d3 : <<sp, d3>> \in Entered(n, d2) <=>
              \E g \in CalleesOf(n) : /\ ~HasSummaryFF(n, g)
                                      /\ sp \in StartPoints(g)
                                      /\ d3 \in CallFlow(n, g, d2)
  BY DEF Entered
<1>3. \A g \in CalleesOf(n) :
        StartPoints(g) \subseteq Node /\ CallFlow(n, g, d2) \subseteq Fact
  BY <1>1, StartPointsType, FlowTypes
<1> QED
  BY <1>2, <1>3 DEF Entered

\* All that processCall pushes are path edges.
LEMMA CallPushesType ==
  ASSUME TableTypeOK, NEW d1 \in Fact, NEW n \in Node, NEW d2 \in Fact,
         NEW f \in EF
  PROVE  CallPushes(d1, n, d2, f) \subseteq PathEdge
<1>1. EntryPushes(n, d2) \subseteq PathEdge
  <2> SUFFICES ASSUME NEW s \in Entered(n, d2)
               PROVE  pathEdge(s[2], s[1], s[2], IdentityEdge) \in PathEdge
    BY DEF EntryPushes
  <2>1. s \in Node \X Fact
    BY EnteredType
  <2> QED
    BY <2>1, EdgeFunctionAssumption, pathEdgeType
<1>2. EndSummaryPushes(d1, n, d2, f) \subseteq PathEdge
  <2> SUFFICES ASSUME NEW k \in DOMAIN EndsummaryTab
               PROVE  ReturnPushes(d1, n, d2, f, FunOf(k[1]), k[2], k[3], k[4],
                                   EndsummaryTab[k]) \subseteq PathEdge
    BY DEF EndSummaryPushes
  <2>1. k \in Node \X Fact \X ExitInst \X Fact /\ EndsummaryTab[k] \in EF
    BY DEF TableTypeOK
  <2>2. k[1] \in Node /\ k[2] \in Fact /\ k[3] \in Node /\ k[4] \in Fact
    BY <2>1, ICFGAssumption
  <2> QED
    BY <2>1, <2>2, ICFGAssumption, ReturnPushesType
<1> QED
  BY <1>1, <1>2, SummaryPushesType, CallToRetPushesType DEF CallPushes

\* Membership in the union over the registered calls.
LEMMA ExitPushesMember ==
  ASSUME NEW d1, NEW n, NEW d2, NEW f, NEW p
  PROVE  p \in ExitPushes(d1, n, d2, f) <=>
           \E c \in CallSite : \E d4 \in Inc(FunOf(n), d1, c) :
             \E d3 \in reverseLookup(c, d4) :
               p \in ReturnPushes(d3, c, d4, JumpFn[<<d3, c, d4>>], FunOf(n),
                                  d1, n, d2, f)
<1> DEFINE R(c, d4, d3) == ReturnPushes(d3, c, d4, JumpFn[<<d3, c, d4>>],
                                        FunOf(n), d1, n, d2, f)
<1>1. ExitPushes(d1, n, d2, f) =
        UNION {UNION {UNION {R(c, d4, d3) : d3 \in reverseLookup(c, d4)} :
                        d4 \in Inc(FunOf(n), d1, c)} : c \in CallSite}
  BY DEF ExitPushes
<1> HIDE DEF R
<1>2. p \in ExitPushes(d1, n, d2, f) <=>
           \E c \in CallSite : \E d4 \in Inc(FunOf(n), d1, c) :
             \E d3 \in reverseLookup(c, d4) : p \in R(c, d4, d3)
  BY <1>1
<1> QED
  BY <1>2 DEF R

\* processExit pushes path edges towards registered calls,
LEMMA ExitPushesType ==
  ASSUME TableTypeOK, NEW d1 \in Fact, NEW n \in Node, NEW d2 \in Fact,
         NEW f \in EF
  PROVE  ExitPushes(d1, n, d2, f) \subseteq PathEdge
<1> SUFFICES ASSUME NEW c \in CallSite, NEW d4 \in Inc(FunOf(n), d1, c),
                    NEW d3 \in reverseLookup(c, d4)
             PROVE  ReturnPushes(d3, c, d4, JumpFn[<<d3, c, d4>>], FunOf(n),
                                 d1, n, d2, f) \subseteq PathEdge
  BY ExitPushesMember
<1>1. c \in Node /\ FunOf(n) \in Fun
  BY ICFGAssumption
<1>2. d4 \in Fact
  BY DEF Inc
<1>3. d3 \in Fact /\ JumpFn[<<d3, c, d4>>] \in EF
  BY DEF reverseLookup, TableTypeOK
<1> QED
  BY <1>1, <1>2, <1>3, ReturnPushesType

\* and past the seeds.
LEMMA UnbalancedPushesType ==
  ASSUME NEW n \in Node, NEW d2 \in Fact, NEW f \in EF
  PROVE  UnbalancedPushes(n, d2, f) \subseteq PathEdge
<1> SUFFICES ASSUME NEW c \in CallersOf(FunOf(n)), NEW r \in ReturnSitesOf(c),
                    NEW d5 \in RetFlow(c, FunOf(n), n, r, d2)
             PROVE  pathEdge(Zero, r, d5, extend(f,
                      ReturnEF(c, FunOf(n), n, d2, r, d5))) \in PathEdge
  BY DEF UnbalancedPushes
<1>1. c \in Node /\ FunOf(n) \in Fun
  BY ICFGAssumption DEF CallersOf
<1>2. r \in Node
  BY <1>1, ICFGAssumption
<1>3. d5 \in Fact
  BY <1>1, <1>2, FlowTypes
<1>4. extend(f, ReturnEF(c, FunOf(n), n, d2, r, d5)) \in EF
  BY <1>1, <1>2, <1>3, EdgeFunctionAssumption
<1> QED
  BY <1>2, <1>3, <1>4, FlowAssumption, pathEdgeType

-----------------------------------------------------------------------------
(***************************************************************************)
(* propagate().                                                            *)
(***************************************************************************)
\* A lookup returns an edge function, allTop when nothing is stored.
LEMMA jumpFunctionType ==
  ASSUME TableTypeOK, NEW d1, NEW n, NEW d2
  PROVE  jumpFunction(d1, n, d2) \in EF
BY EdgeFunctionAssumption DEF TableTypeOK, jumpFunction

\* A join can only be allTop when nothing was stored and nothing came in.
LEMMA combineNotTop ==
  ASSUME NEW f \in EF, NEW g \in EF, combine(f, g) # f
  PROVE  combine(f, g) \in EF \ {allTop}
<1>1. combine(f, g) \in EF
  BY EdgeFunctionAssumption
<1>2. combine(f, combine(f, g)) = combine(f, g)
  BY CombineAssumption
<1>3. combine(f, allTop) = f
  BY CombineAssumption, EdgeFunctionAssumption
<1> QED
  BY <1>1, <1>2, <1>3

\* What one pop that changes the table does to it.
LEMMA propagateFacts ==
  ASSUME TableTypeOK, NEW e \in WorkList, isNewFunction(e),
         JumpFn' = addFunction(e.src, e.tgt, e.dst, fPrime(e))
  PROVE  /\ e.src \in Fact /\ e.tgt \in Node /\ e.dst \in Fact /\ e.ef \in EF
         /\ fPrime(e) \in EF \ {allTop}
         /\ DOMAIN JumpFn' = DOMAIN JumpFn \cup {<<e.src, e.tgt, e.dst>>}
         /\ JumpFn'[<<e.src, e.tgt, e.dst>>] = fPrime(e)
         /\ \A k \in DOMAIN JumpFn :
              k # <<e.src, e.tgt, e.dst>> => JumpFn'[k] = JumpFn[k]
<1>1. e.src \in Fact /\ e.tgt \in Node /\ e.dst \in Fact /\ e.ef \in EF
  BY DEF TableTypeOK, PathEdge
<1>2. fPrime(e) \in EF \ {allTop}
  BY <1>1, jumpFunctionType, combineNotTop DEF fPrime, isNewFunction
<1>3. JumpFn' = Put(JumpFn, {<<e.src, e.tgt, e.dst>>}, fPrime(e))
  BY <1>2 DEF addFunction
<1> QED
  BY <1>1, <1>2, <1>3 DEF Put

\* A propagation that is accounted for stays so, whatever is joined in later;
\* this is where associativity and commutativity of combine are needed.
LEMMA CoveredKept ==
  ASSUME TableTypeOK, NEW e \in WorkList, isNewFunction(e),
         JumpFn' = addFunction(e.src, e.tgt, e.dst, fPrime(e)),
         NEW p \in PathEdge, Covered(p)
  PROVE  Covered(p)'
<1> DEFINE j == jumpFunction(p.src, p.tgt, p.dst)
<1>1. j \in EF /\ p.ef \in EF /\ e.ef \in EF
  BY jumpFunctionType, propagateFacts DEF PathEdge
<1>2. combine(j, p.ef) = j
  BY DEF Covered
<1>3. CASE <<p.src, p.tgt, p.dst>> = <<e.src, e.tgt, e.dst>>
  <2>1. j' = combine(j, e.ef)
    <3>1. p.src = e.src /\ p.tgt = e.tgt /\ p.dst = e.dst
      BY <1>3
    <3> QED
      BY <3>1, propagateFacts DEF jumpFunction, fPrime
  <2>2. combine(combine(j, e.ef), p.ef) = combine(j, combine(e.ef, p.ef))
    BY <1>1, CombineAssumption
  <2>3. combine(e.ef, p.ef) = combine(p.ef, e.ef)
    BY <1>1, CombineAssumption
  <2>4. combine(j, combine(p.ef, e.ef)) = combine(combine(j, p.ef), e.ef)
    BY <1>1, CombineAssumption
  <2>5. combine(j', p.ef) = j'
    BY <1>2, <2>1, <2>2, <2>3, <2>4
  <2> QED
    BY <2>5 DEF Covered
<1>4. CASE <<p.src, p.tgt, p.dst>> # <<e.src, e.tgt, e.dst>>
  <2>1. j' = j
    <3> DEFINE k == <<p.src, p.tgt, p.dst>>
    <3>1. k \in DOMAIN JumpFn' <=> k \in DOMAIN JumpFn
      BY <1>4, propagateFacts
    <3>2. k \in DOMAIN JumpFn => JumpFn'[k] = JumpFn[k]
      BY <1>4, propagateFacts
    <3> QED
      BY <3>1, <3>2 DEF jumpFunction
  <2> QED
    BY <1>2, <2>1 DEF Covered
<1> QED
  BY <1>3, <1>4

\* The popped propagation itself is accounted for afterwards.
LEMMA PoppedCovered ==
  ASSUME TableTypeOK, NEW e \in WorkList, isNewFunction(e),
         JumpFn' = addFunction(e.src, e.tgt, e.dst, fPrime(e))
  PROVE  Covered(e)'
<1> DEFINE j == jumpFunction(e.src, e.tgt, e.dst)
<1>1. j \in EF /\ e.ef \in EF
  BY jumpFunctionType, propagateFacts
<1>2. j' = combine(j, e.ef)
  BY propagateFacts DEF jumpFunction, fPrime
<1>3. combine(combine(j, e.ef), e.ef) = combine(j, combine(e.ef, e.ef))
  BY <1>1, CombineAssumption
<1>4. combine(e.ef, e.ef) = e.ef
  BY <1>1, CombineAssumption
<1>5. combine(j', e.ef) = j'
  BY <1>2, <1>3, <1>4
<1> QED
  BY <1>5 DEF Covered

\* A propagation that is pending or absorbed stays so in a pop.
LEMMA PropagatedKept ==
  ASSUME TableTypeOK, NEW e \in WorkList, isNewFunction(e),
         JumpFn' = addFunction(e.src, e.tgt, e.dst, fPrime(e)),
         WorkList \ {e} \subseteq WorkList',
         NEW p \in PathEdge, Propagated(p)
  PROVE  Propagated(p)'
<1>1. CASE p = e
  BY <1>1, PoppedCovered DEF Propagated
<1>2. CASE p # e /\ p \in WorkList
  BY <1>2 DEF Propagated
<1>3. CASE Covered(p)
  BY <1>3, CoveredKept DEF Propagated
<1> QED
  BY <1>1, <1>2, <1>3 DEF Propagated

-----------------------------------------------------------------------------
(***************************************************************************)
(* Type correctness of the tables.                                         *)
(***************************************************************************)
\* The steps that leave Phase I's tables alone.
Frame == /\ UNCHANGED <<Seeds, phase1Vars>>
         /\ (phase' = "init") = (phase = "init")

\* For the tables of Phase I a step is one of: the seeds, a pop, or nothing.
LEMMA NextCases ==
  ASSUME [Next]_vars
  PROVE  \/ submitInitialSeeds
         \/ /\ phase = "tabulate"
            /\ UNCHANGED <<Seeds, phase>>
            /\ \E e \in WorkList : \/ propagateOld(e) \/ processCall(e)
                                   \/ processNormalFlow(e) \/ processExit(e)
         \/ Frame
<1>1. CASE submitInitialSeeds
  BY <1>1
<1>2. CASE doNext
  BY <1>2 DEF doNext, pathEdgeProcessingTask
<1>3. CASE doFinalize
  BY <1>3 DEF doFinalize, Frame
<1>4. CASE Phase2
  BY <1>4 DEF Phase2, submitInitialValue, nextValue, propagateValue,
     startComputation, valueComputationTask, computeValue, endComputation,
     Frame, phase2Vars
<1>5. CASE UNCHANGED vars
  BY <1>5 DEF vars, Frame
<1> QED
  BY <1>1, <1>2, <1>3, <1>4, <1>5 DEF Next, Phase1

\* The empty tables are well typed.
LEMMA TableTypeInit == Init => TableTypeOK
BY ValueAssumption DEF Init, TableTypeOK

\* Phase II leaves the tables of Phase I as they are.
LEMMA TableTypeFrame ==
  ASSUME TableTypeOK, Frame, phase' \in {"init", "tabulate", "values", "compute", "done"}
  PROVE  TableTypeOK'
BY DEF TableTypeOK, Frame, phase1Vars

\* submitInitialSeeds keeps the tables well typed.
LEMMA TableTypeSeeds ==
  ASSUME TableTypeOK, submitInitialSeeds
  PROVE  TableTypeOK'
<1> DEFINE Z == {<<k[1], Zero>> : k \in DOMAIN Seeds}
<1>1. Seeds' = Put(Seeds, Z \ DOMAIN Seeds, Bottom)
  BY DEF submitInitialSeeds
<1>2. Z \subseteq Node \X Fact
  BY FlowAssumption DEF TableTypeOK
<1>3. DOMAIN Seeds' \subseteq Node \X Fact
  BY <1>1, <1>2 DEF Put, TableTypeOK
<1>4. \A k \in DOMAIN Seeds' : Seeds'[k] \in Value
  BY <1>1, ValueAssumption DEF Put, TableTypeOK
<1>5. WorkList' \subseteq PathEdge
  <2> SUFFICES ASSUME NEW k \in DOMAIN Seeds'
               PROVE  pathEdge(k[2], k[1], k[2], IdentityEdge) \in PathEdge
    BY DEF submitInitialSeeds
  <2>1. k[1] \in Node /\ k[2] \in Fact
    BY <1>3
  <2> QED
    BY <2>1, EdgeFunctionAssumption, pathEdgeType
<1> QED
  BY <1>3, <1>4, <1>5 DEF submitInitialSeeds, TableTypeOK

\* So does one pop, whatever kind of node it is about.
LEMMA TableTypeNext ==
  ASSUME TableTypeOK, UNCHANGED <<Seeds, phase>>, NEW e \in WorkList,
         propagateOld(e) \/ processCall(e) \/ processNormalFlow(e) \/ processExit(e)
  PROVE  TableTypeOK'
<1>1. CASE propagateOld(e)
  BY <1>1 DEF propagateOld, TableTypeOK
<1>2. ASSUME isNewFunction(e),
             JumpFn' = addFunction(e.src, e.tgt, e.dst, fPrime(e))
      PROVE  /\ DOMAIN JumpFn' \subseteq Fact \X Node \X Fact
             /\ \A k \in DOMAIN JumpFn' : JumpFn'[k] \in EF \ {allTop}
  <2> DEFINE key == <<e.src, e.tgt, e.dst>>
  <2>1. /\ key \in Fact \X Node \X Fact
        /\ fPrime(e) \in EF \ {allTop}
        /\ DOMAIN JumpFn' = DOMAIN JumpFn \cup {key}
        /\ JumpFn'[key] = fPrime(e)
        /\ \A k \in DOMAIN JumpFn : k # key => JumpFn'[k] = JumpFn[k]
    BY <1>2, propagateFacts
  <2> HIDE DEF key
  <2> QED
    BY <2>1 DEF TableTypeOK
<1>3. CASE processCall(e)
  <2> USE <1>3 DEF processCall
  <2>1. WorkList' \subseteq PathEdge
    BY propagateFacts, CallPushesType DEF TableTypeOK
  <2>2. IncomingTab' \subseteq Node \X Fact \X CallSite \X Fact
    <3>1. e.tgt \in Node /\ e.dst \in Fact
      BY propagateFacts
    <3>2. Entered(e.tgt, e.dst) \subseteq Node \X Fact
      BY <3>1, EnteredType
    <3> QED
      BY <3>1, <3>2 DEF TableTypeOK
  <2> QED
    BY <1>2, <2>1, <2>2 DEF TableTypeOK
<1>4. CASE processNormalFlow(e)
  <2> USE <1>4 DEF processNormalFlow
  <2>1. WorkList' \subseteq PathEdge
    BY propagateFacts, NormalPushesType DEF TableTypeOK
  <2> QED
    BY <1>2, <2>1 DEF TableTypeOK
<1>5. CASE processExit(e)
  <2> USE <1>5 DEF processExit
  <2>1. WorkList' \subseteq PathEdge
    <3>1. /\ e.src \in Fact /\ e.tgt \in Node /\ e.dst \in Fact
          /\ fPrime(e) \in EF
      BY propagateFacts
    <3> QED
      BY <3>1, ExitPushesType, UnbalancedPushesType, NormalPushesType
         DEF TableTypeOK
  <2>2. UnbalancedRetSites' \subseteq Node
    BY DEF UnbalancedTargets, TableTypeOK
  <2>3. /\ DOMAIN EndsummaryTab' \subseteq Node \X Fact \X ExitInst \X Fact
        /\ \A k \in DOMAIN EndsummaryTab' : EndsummaryTab'[k] \in EF
    <3> DEFINE K == {<<sp, e.src, e.tgt, e.dst>> : sp \in StartPoints(FunOf(e.tgt))}
    <3>1. EndsummaryTab' = Put(EndsummaryTab, K, fPrime(e))
      BY DEF addEndSummary
    <3>2. K \subseteq Node \X Fact \X ExitInst \X Fact
      <4>1. e.src \in Fact /\ e.tgt \in Node /\ e.dst \in Fact
        BY propagateFacts
      <4>2. StartPoints(FunOf(e.tgt)) \subseteq Node
        BY <4>1, ICFGAssumption, StartPointsType
      <4> QED
        BY <4>1, <4>2
    <3>3. fPrime(e) \in EF
      BY propagateFacts
    <3> HIDE DEF K
    <3> QED
      BY <3>1, <3>2, <3>3 DEF Put, TableTypeOK
  <2> QED
    BY <1>2, <2>1, <2>2, <2>3 DEF TableTypeOK
<1> QED
  BY <1>1, <1>3, <1>4, <1>5

\* Every step keeps the tables of Phase I well typed.
LEMMA TableTypeStep == TableTypeOK /\ [Next]_vars => TableTypeOK'
<1> SUFFICES ASSUME TableTypeOK, [Next]_vars PROVE TableTypeOK'
  OBVIOUS
<1>1. phase' \in {"init", "tabulate", "values", "compute", "done"}
  BY DEF Next, Phase1, Phase2, submitInitialSeeds, doNext, doFinalize,
     submitInitialValue, nextValue, propagateValue, startComputation,
     valueComputationTask, computeValue, endComputation, vars, TableTypeOK
<1> QED
  BY <1>1, NextCases, TableTypeFrame, TableTypeSeeds, TableTypeNext

-----------------------------------------------------------------------------
(***************************************************************************)
(* IncomingTab.                                                            *)
(***************************************************************************)
\* The calls that a path edge to call c with fact d2 registers.
Registered(k) == {<<s[1], s[2], k[2], k[3]>> : s \in Entered(k[2], k[3])}

\* Equality with a union of registrations, member by member.
LEMMA RegisteredMember ==
  ASSUME NEW I, NEW D
  PROVE  I = UNION {Registered(k) : k \in {x \in D : x[2] \in CallSite}} <=>
           \A t : t \in I <=> \E k \in D : k[2] \in CallSite /\ t \in Registered(k)
OBVIOUS

\* IncomingExact, member by member.
LEMMA IncomingMember ==
  IncomingExact <=>
    \A t : t \in IncomingTab <=>
      \E k \in DOMAIN JumpFn : k[2] \in CallSite /\ t \in Registered(k)
<1>1. IncomingExact <=>
        IncomingTab = UNION {Registered(k) :
                               k \in {x \in DOMAIN JumpFn : x[2] \in CallSite}}
  BY Zenon DEF IncomingExact, Registered
<1> QED
  BY <1>1, RegisteredMember, Zenon

\* The same after a step.
LEMMA IncomingMemberNext ==
  IncomingExact' <=>
    \A t : t \in IncomingTab' <=>
      \E k \in DOMAIN JumpFn' : k[2] \in CallSite /\ t \in Registered(k)
<1>1. IncomingExact' <=>
        IncomingTab' = UNION {Registered(k) :
                                k \in {x \in DOMAIN JumpFn' : x[2] \in CallSite}}
  BY Zenon DEF IncomingExact, Registered
<1> QED
  BY <1>1, RegisteredMember, Zenon

\* No call is registered at the beginning.
LEMMA IncomingInit == Init => IncomingExact
BY DEF Init, IncomingExact

\* Only processCall registers calls, and it stores their jump function too.
LEMMA IncomingStep ==
  ASSUME TableTypeOK, IncomingExact, [Next]_vars
  PROVE  IncomingExact'
<1>1. ASSUME JumpFn' = JumpFn, IncomingTab' = IncomingTab
      PROVE  IncomingExact'
  BY <1>1 DEF IncomingExact
<1>2. CASE Frame
  BY <1>1, <1>2 DEF Frame, phase1Vars
<1>3. CASE submitInitialSeeds
  BY <1>1, <1>3 DEF submitInitialSeeds
<1>4. ASSUME NEW e \in WorkList,
             propagateOld(e) \/ processCall(e) \/ processNormalFlow(e) \/ processExit(e)
      PROVE  IncomingExact'
  <2> DEFINE key == <<e.src, e.tgt, e.dst>>
  <2>1. CASE propagateOld(e)
    BY <1>1, <2>1 DEF propagateOld
  <2>2. CASE processCall(e)
    <3>1. DOMAIN JumpFn' = DOMAIN JumpFn \cup {key}
      BY <2>2, propagateFacts DEF processCall
    <3>2. key[2] \in CallSite /\ IncomingTab' = IncomingTab \cup Registered(key)
      BY <2>2 DEF processCall, Registered
    <3> HIDE DEF key
    <3>3. \A t : t \in IncomingTab' <=>
            \E k \in DOMAIN JumpFn' : k[2] \in CallSite /\ t \in Registered(k)
      BY <3>1, <3>2, IncomingMember
    <3> QED
      BY <3>3, IncomingMemberNext
  <2>3. CASE processNormalFlow(e) \/ processExit(e)
    <3>1. DOMAIN JumpFn' = DOMAIN JumpFn \cup {key}
      BY <2>3, propagateFacts DEF processNormalFlow, processExit
    <3>2. key[2] \notin CallSite /\ IncomingTab' = IncomingTab
      BY <2>3 DEF processNormalFlow, processExit
    <3> HIDE DEF key
    <3>3. \A t : t \in IncomingTab' <=>
            \E k \in DOMAIN JumpFn' : k[2] \in CallSite /\ t \in Registered(k)
      BY <3>1, <3>2, IncomingMember
    <3> QED
      BY <3>3, IncomingMemberNext
  <2> QED
    BY <1>4, <2>1, <2>2, <2>3
<1> QED
  BY <1>2, <1>3, <1>4, NextCases

\* processExit finds every registered call, although each start point of the
\* callee overwrites what an earlier one contributed to Inc.
LEMMA IncComplete ==
  ASSUME TableTypeOK, IncomingExact, NEW g \in Fun, NEW d1 \in Fact,
         NEW c \in CallSite, NEW d4 \in Fact, NEW sp \in StartPoints(g),
         <<sp, d1, c, d4>> \in IncomingTab
  PROVE  d4 \in Inc(g, d1, c)
<1> DEFINE SP == StartPointsOf(g)
           L == Len(SP)
<1>1. PICK k \in DOMAIN JumpFn :
        k[2] \in CallSite /\ <<sp, d1, c, d4>> \in Registered(k)
  BY IncomingMember
<1>2. k[2] = c /\ k[3] = d4 /\ <<sp, d1>> \in Entered(c, d4)
  <2>1. PICK s \in Entered(k[2], k[3]) :
          <<sp, d1, c, d4>> = <<s[1], s[2], k[2], k[3]>>
    BY <1>1 DEF Registered
  <2>2. k[2] = c /\ k[3] = d4 /\ s[1] = sp /\ s[2] = d1
    BY <2>1
  <2>3. s \in Node \X Fact
    BY <2>1, <2>2, EnteredType, ICFGAssumption
  <2> QED
    BY <2>1, <2>2, <2>3
<1>3. c \in Node
  BY ICFGAssumption
<1>4. PICK h \in CalleesOf(c) : /\ ~HasSummaryFF(c, h)
                                /\ sp \in StartPoints(h)
                                /\ d1 \in CallFlow(c, h, d4)
  BY <1>2, <1>3, EnteredType
<1>5. h = g
  BY <1>3, <1>4, ICFGAssumption, StartPointsType
<1>6. SP \in Seq(Node) /\ L \in Nat /\ L >= 1 /\ SP[L] \in StartPoints(g)
  BY ICFGAssumption DEF StartPoints
<1>7. <<SP[L], d1>> \in Entered(c, d4)
  BY <1>3, <1>4, <1>5, <1>6, EnteredType
<1>8. <<SP[L], d1, c, d4>> \in Registered(k)
  BY <1>2, <1>7 DEF Registered
<1>9. <<SP[L], d1, c, d4>> \in IncomingTab
  BY <1>1, <1>8, IncomingMember
<1> DEFINE Known == {i \in 1 .. L : \E x \in Fact : <<SP[i], d1, c, x>> \in IncomingTab}
<1>10. L \in Known /\ \A j \in Known : j <= L
  BY <1>6, <1>9
<1>11. Inc(g, d1, c) = {x \in Fact : \E i \in Known :
                          /\ \A j \in Known : j <= i
                          /\ <<SP[i], d1, c, x>> \in IncomingTab}
  BY DEF Inc
<1> HIDE DEF Known, L, SP
<1> QED
  BY <1>9, <1>10, <1>11

-----------------------------------------------------------------------------
(***************************************************************************)
(* No flow is lost.                                                        *)
(***************************************************************************)
\* A key of the jump-function table and what is stored there.
LEMMA JumpFnKey ==
  ASSUME TableTypeOK, NEW k \in DOMAIN JumpFn
  PROVE  /\ k[1] \in Fact /\ k[2] \in Node /\ k[3] \in Fact
         /\ k = <<k[1], k[2], k[3]>>
         /\ jumpFunction(k[1], k[2], k[3]) = JumpFn[k]
         /\ JumpFn[k] \in EF
<1>1. k \in Fact \X Node \X Fact /\ JumpFn[k] \in EF
  BY DEF TableTypeOK
<1>2. k[1] \in Fact /\ k[2] \in Node /\ k[3] \in Fact /\ k = <<k[1], k[2], k[3]>>
  BY <1>1
<1> QED
  BY <1>1, <1>2 DEF jumpFunction

\* Duties are path edges.
LEMMA ObligedType ==
  ASSUME TableTypeOK, NEW k \in DOMAIN JumpFn
  PROVE  Obliged(k[1], k[2], k[3]) \subseteq PathEdge
BY JumpFnKey, CallPushesType, NormalPushesType DEF Obliged

\* What a pop that changes the table leaves of the duties of other path edges.
LEMMA OtherJumpFn ==
  ASSUME TableTypeOK, NEW e \in WorkList, isNewFunction(e),
         JumpFn' = addFunction(e.src, e.tgt, e.dst, fPrime(e)),
         NEW k \in DOMAIN JumpFn'
  PROVE  \/ /\ k[1] = e.src /\ k[2] = e.tgt /\ k[3] = e.dst
            /\ jumpFunction(k[1], k[2], k[3])' = fPrime(e)
         \/ /\ k \in DOMAIN JumpFn
            /\ jumpFunction(k[1], k[2], k[3])' = jumpFunction(k[1], k[2], k[3])
<1> DEFINE key == <<e.src, e.tgt, e.dst>>
<1>1. CASE k = key
  BY <1>1, propagateFacts DEF jumpFunction
<1>2. CASE k # key
  <2>1. k \in DOMAIN JumpFn /\ JumpFn'[k] = JumpFn[k]
    BY <1>2, propagateFacts
  <2> QED
    BY <2>1, JumpFnKey DEF jumpFunction
<1> QED
  BY <1>1, <1>2

\* After processCall no duty of any path edge is lost.
LEMMA FlowOfCall ==
  ASSUME TableTypeOK, NoLostFlow, NEW e \in WorkList, processCall(e),
         NEW k \in DOMAIN JumpFn', NEW p \in Obliged(k[1], k[2], k[3])'
  PROVE  Propagated(p)'
<1>1. CASE /\ k[1] = e.src /\ k[2] = e.tgt /\ k[3] = e.dst
           /\ jumpFunction(k[1], k[2], k[3])' = fPrime(e)
  <2>1. p \in CallPushes(e.src, e.tgt, e.dst, fPrime(e))
    BY <1>1 DEF processCall, Obliged, CallPushes, EndSummaryPushes
  <2> QED
    BY <2>1 DEF processCall, Propagated
<1>2. CASE /\ k \in DOMAIN JumpFn
           /\ jumpFunction(k[1], k[2], k[3])' = jumpFunction(k[1], k[2], k[3])
  <2>1. p \in Obliged(k[1], k[2], k[3])
    BY <1>2 DEF processCall, Obliged, CallPushes, EndSummaryPushes
  <2>2. p \in PathEdge /\ Propagated(p)
    BY <1>2, <2>1, ObligedType DEF NoLostFlow
  <2> QED
    BY <2>2, PropagatedKept DEF processCall
<1> QED
  BY <1>1, <1>2, OtherJumpFn DEF processCall

\* Nor after processNormalFlow.
LEMMA FlowOfNormal ==
  ASSUME TableTypeOK, NoLostFlow, NEW e \in WorkList, processNormalFlow(e),
         NEW k \in DOMAIN JumpFn', NEW p \in Obliged(k[1], k[2], k[3])'
  PROVE  Propagated(p)'
<1>1. CASE /\ k[1] = e.src /\ k[2] = e.tgt /\ k[3] = e.dst
           /\ jumpFunction(k[1], k[2], k[3])' = fPrime(e)
  <2>1. p \in NormalPushes(e.src, e.tgt, e.dst, fPrime(e))
    BY <1>1 DEF processNormalFlow, Obliged
  <2> QED
    BY <2>1 DEF processNormalFlow, Propagated
<1>2. CASE /\ k \in DOMAIN JumpFn
           /\ jumpFunction(k[1], k[2], k[3])' = jumpFunction(k[1], k[2], k[3])
  <2>1. p \in Obliged(k[1], k[2], k[3])
    BY <1>2 DEF processNormalFlow, Obliged, CallPushes, EndSummaryPushes
  <2>2. p \in PathEdge /\ Propagated(p)
    BY <1>2, <2>1, ObligedType DEF NoLostFlow
  <2> QED
    BY <2>2, PropagatedKept DEF processNormalFlow
<1> QED
  BY <1>1, <1>2, OtherJumpFn DEF processNormalFlow

\* Nor after processExit: its new summary adds duties to calls, which are
\* exactly the registered ones, and it serves all of them.
LEMMA FlowOfExit ==
  ASSUME TableTypeOK, IncomingExact, NoLostFlow, NEW e \in WorkList,
         processExit(e),
         NEW k \in DOMAIN JumpFn', NEW p \in Obliged(k[1], k[2], k[3])'
  PROVE  Propagated(p)'
<1> DEFINE K == {<<sp, e.src, e.tgt, e.dst>> : sp \in StartPoints(FunOf(e.tgt))}
<1>1. CASE /\ k[1] = e.src /\ k[2] = e.tgt /\ k[3] = e.dst
           /\ jumpFunction(k[1], k[2], k[3])' = fPrime(e)
  <2>1. p \in NormalPushes(e.src, e.tgt, e.dst, fPrime(e))
    BY <1>1 DEF processExit, Obliged
  <2> QED
    BY <2>1 DEF processExit, Propagated
<1>2. CASE /\ k \in DOMAIN JumpFn
           /\ jumpFunction(k[1], k[2], k[3])' = jumpFunction(k[1], k[2], k[3])
  <2> DEFINE f == jumpFunction(k[1], k[2], k[3])
  \* A duty that does not come from the new summaries was a duty before.
  <2>1. CASE p \in Obliged(k[1], k[2], k[3])
    <3>1. p \in PathEdge /\ Propagated(p)
      BY <1>2, <2>1, ObligedType DEF NoLostFlow
    <3> QED
      BY <3>1, PropagatedKept DEF processExit
  <2>2. CASE p \notin Obliged(k[1], k[2], k[3])
    <3>1. k[2] \in CallSite /\ p \in EndSummaryPushes(k[1], k[2], k[3], f)'
      BY <1>2, <2>2 DEF Obliged, CallPushes
    <3>2. PICK x \in DOMAIN EndsummaryTab' :
            /\ <<x[1], x[2]>> \in Entered(k[2], k[3])
            /\ p \in ReturnPushes(k[1], k[2], k[3], f, FunOf(x[1]), x[2], x[3],
                                  x[4], EndsummaryTab'[x])
      BY <1>2, <3>1 DEF EndSummaryPushes
    <3>3. EndsummaryTab' = Put(EndsummaryTab, K, fPrime(e))
      BY DEF processExit, addEndSummary
    <3>4. x \in K
      <4>1. ASSUME x \notin K PROVE FALSE
        <5>1. x \in DOMAIN EndsummaryTab /\ EndsummaryTab'[x] = EndsummaryTab[x]
          BY <3>3, <4>1 DEF Put
        <5>2. p \in EndSummaryPushes(k[1], k[2], k[3], f)
          BY <3>2, <5>1 DEF EndSummaryPushes
        <5> QED
          BY <2>2, <3>1, <5>2 DEF Obliged, CallPushes
      <4> QED
        BY <4>1
    <3>5. EndsummaryTab'[x] = fPrime(e)
      BY <3>3, <3>4 DEF Put
    <3>6. PICK sp \in StartPoints(FunOf(e.tgt)) : x = <<sp, e.src, e.tgt, e.dst>>
      BY <3>4
    <3>7. /\ x[1] = sp /\ x[2] = e.src /\ x[3] = e.tgt /\ x[4] = e.dst
          /\ e.src \in Fact /\ e.tgt \in Node /\ FunOf(e.tgt) \in Fun
          /\ FunOf(x[1]) = FunOf(e.tgt)
      BY <3>6, propagateFacts, ICFGAssumption, StartPointsType DEF processExit
    <3>8. p \in ReturnPushes(k[1], k[2], k[3], f, FunOf(e.tgt), e.src, e.tgt,
                             e.dst, fPrime(e))
      BY <3>2, <3>5, <3>7
    <3>9. <<sp, e.src, k[2], k[3]>> \in IncomingTab
      <4>1. <<sp, e.src>> \in Entered(k[2], k[3])
        BY <3>2, <3>7
      <4>2. <<sp, e.src, k[2], k[3]>> \in Registered(k)
        BY <4>1 DEF Registered
      <4> QED
        BY <1>2, <3>1, <4>2, IncomingMember
    <3>10. k[3] \in Inc(FunOf(e.tgt), e.src, k[2])
      BY <1>2, <3>1, <3>7, <3>9, IncComplete, JumpFnKey
    <3>11. k[1] \in reverseLookup(k[2], k[3]) /\ f = JumpFn[<<k[1], k[2], k[3]>>]
      BY <1>2, JumpFnKey DEF reverseLookup
    <3>12. p \in ExitPushes(e.src, e.tgt, e.dst, fPrime(e))
      BY <3>1, <3>8, <3>10, <3>11, ExitPushesMember
    <3> QED
      BY <3>12 DEF processExit, Propagated
  <2> QED
    BY <2>1, <2>2
<1> QED
  BY <1>1, <1>2, OtherJumpFn DEF processExit

\* Before initialize() there is nothing to hand on.
NoJumpFnYet == phase = "init" => DOMAIN JumpFn = {}

\* The table is filled only after the seeds were submitted.
LEMMA NoJumpFnYetStep ==
  ASSUME NoJumpFnYet, [Next]_vars
  PROVE  NoJumpFnYet'
<1>1. CASE submitInitialSeeds
  BY <1>1 DEF submitInitialSeeds, NoJumpFnYet
<1>2. CASE phase = "tabulate" /\ UNCHANGED <<Seeds, phase>>
  BY <1>2 DEF NoJumpFnYet
<1>3. CASE Frame
  BY <1>3 DEF Frame, phase1Vars, NoJumpFnYet
<1> QED
  BY <1>1, <1>2, <1>3, NextCases

\* No step loses a flow or a seed.
LEMMA NoLostFlowStep ==
  ASSUME TableTypeOK, IncomingExact, NoJumpFnYet, NoLostFlow, [Next]_vars
  PROVE  NoLostFlow'
<1> DEFINE seed(k) == pathEdge(k[2], k[1], k[2], IdentityEdge)
<1>1. \A k \in DOMAIN Seeds : seed(k) \in PathEdge
  <2> SUFFICES ASSUME NEW k \in DOMAIN Seeds PROVE seed(k) \in PathEdge
    OBVIOUS
  <2>1. k[1] \in Node /\ k[2] \in Fact
    BY DEF TableTypeOK
  <2> QED
    BY <2>1, EdgeFunctionAssumption, pathEdgeType
<1>2. CASE Frame
  <2>1. ASSUME NEW p PROVE Propagated(p)' = Propagated(p)
    BY <1>2 DEF Frame, phase1Vars, Propagated, Covered, jumpFunction
  <2>2. ASSUME NEW d1, NEW n, NEW d2
        PROVE  Obliged(d1, n, d2)' = Obliged(d1, n, d2)
    BY <1>2 DEF Frame, phase1Vars, Obliged, CallPushes, EndSummaryPushes,
       jumpFunction
  <2>3. JumpFn' = JumpFn /\ Seeds' = Seeds /\ (phase' = "init") = (phase = "init")
    BY <1>2 DEF Frame, phase1Vars
  <2> QED
    BY <2>1, <2>2, <2>3 DEF NoLostFlow
<1>3. CASE submitInitialSeeds
  BY <1>3 DEF submitInitialSeeds, NoJumpFnYet, NoLostFlow, Propagated
<1>4. ASSUME NEW e \in WorkList, phase = "tabulate", UNCHANGED <<Seeds, phase>>,
             propagateOld(e) \/ processCall(e) \/ processNormalFlow(e) \/ processExit(e)
      PROVE  NoLostFlow'
  <2>1. CASE propagateOld(e)
    <3>1. ASSUME NEW p, Propagated(p) PROVE Propagated(p)'
      BY <2>1, <3>1 DEF propagateOld, Propagated, Covered, jumpFunction,
         isNewFunction, fPrime
    <3>2. ASSUME NEW d1, NEW n, NEW d2
          PROVE  Obliged(d1, n, d2)' = Obliged(d1, n, d2)
      BY <2>1 DEF propagateOld, Obliged, CallPushes, EndSummaryPushes, jumpFunction
    <3>3. JumpFn' = JumpFn
      BY <2>1 DEF propagateOld
    <3> QED
      BY <1>4, <3>1, <3>2, <3>3 DEF NoLostFlow
  <2>2. CASE processCall(e) \/ processNormalFlow(e) \/ processExit(e)
    <3>1. \A k \in DOMAIN JumpFn' :
            \A p \in Obliged(k[1], k[2], k[3])' : Propagated(p)'
      BY <2>2, FlowOfCall, FlowOfNormal, FlowOfExit
    <3>2. /\ isNewFunction(e)
          /\ JumpFn' = addFunction(e.src, e.tgt, e.dst, fPrime(e))
          /\ WorkList \ {e} \subseteq WorkList'
      BY <2>2 DEF processCall, processNormalFlow, processExit
    <3>3. \A k \in DOMAIN Seeds : Propagated(seed(k))'
      <4> SUFFICES ASSUME NEW k \in DOMAIN Seeds PROVE Propagated(seed(k))'
        OBVIOUS
      <4>1. Propagated(seed(k)) /\ seed(k) \in PathEdge
        BY <1>1, <1>4 DEF NoLostFlow
      <4> HIDE DEF seed
      <4> QED
        BY <3>2, <4>1, PropagatedKept
    <3> QED
      BY <1>4, <3>1, <3>3 DEF NoLostFlow
  <2> QED
    BY <1>4, <2>1, <2>2
<1> QED
  BY <1>2, <1>3, <1>4, NextCases

-----------------------------------------------------------------------------
(***************************************************************************)
(* End summaries.                                                          *)
(***************************************************************************)
\* A key of the summary table.
LEMMA EndsummaryKey ==
  ASSUME TableTypeOK, NEW k \in DOMAIN EndsummaryTab
  PROVE  k = <<k[1], k[2], k[3], k[4]>>
BY DEF TableTypeOK

\* A jump function of an exit and its summaries change together.
LEMMA SummaryStep ==
  ASSUME TableTypeOK, SummaryFresh, [Next]_vars
  PROVE  SummaryFresh'
<1>1. ASSUME JumpFn' = JumpFn, EndsummaryTab' = EndsummaryTab
      PROVE  SummaryFresh'
  BY <1>1 DEF SummaryFresh, jumpFunction
<1>2. CASE Frame
  BY <1>1, <1>2 DEF Frame, phase1Vars
<1>3. CASE submitInitialSeeds
  BY <1>1, <1>3 DEF submitInitialSeeds
<1>4. ASSUME NEW e \in WorkList, propagateOld(e)
      PROVE  SummaryFresh'
  BY <1>1, <1>4 DEF propagateOld
<1>5. ASSUME NEW e \in WorkList, processCall(e) \/ processNormalFlow(e)
      PROVE  SummaryFresh'
  <2> DEFINE key == <<e.src, e.tgt, e.dst>>
  <2>1. /\ isNewFunction(e)
        /\ JumpFn' = addFunction(e.src, e.tgt, e.dst, fPrime(e))
        /\ EndsummaryTab' = EndsummaryTab
        /\ e.tgt \notin ExitInst \ CallSite
    BY <1>5 DEF processCall, processNormalFlow
  <2>2. /\ DOMAIN JumpFn' = DOMAIN JumpFn \cup {key}
        /\ \A k \in DOMAIN JumpFn : k # key => JumpFn'[k] = JumpFn[k]
    BY <2>1, propagateFacts
  <2>3. \A d1, n, d2 : n \in ExitInst \ CallSite =>
          jumpFunction(d1, n, d2)' = jumpFunction(d1, n, d2)
    <3> SUFFICES ASSUME NEW d1, NEW n \in ExitInst \ CallSite, NEW d2
                 PROVE  jumpFunction(d1, n, d2)' = jumpFunction(d1, n, d2)
      OBVIOUS
    <3>1. <<d1, n, d2>> # key
      BY <2>1
    <3> QED
      BY <2>2, <3>1 DEF jumpFunction
  <2>4. \A k \in DOMAIN JumpFn' : k[2] \in ExitInst \ CallSite => k \in DOMAIN JumpFn
    BY <2>1, <2>2
  <2> QED
    BY <2>1, <2>3, <2>4 DEF SummaryFresh
<1>6. ASSUME NEW e \in WorkList, processExit(e)
      PROVE  SummaryFresh'
  <2> DEFINE key == <<e.src, e.tgt, e.dst>>
             K == {<<sp, e.src, e.tgt, e.dst>> : sp \in StartPoints(FunOf(e.tgt))}
  <2>1. /\ isNewFunction(e)
        /\ JumpFn' = addFunction(e.src, e.tgt, e.dst, fPrime(e))
        /\ EndsummaryTab' = Put(EndsummaryTab, K, fPrime(e))
        /\ e.tgt \in ExitInst \ CallSite
    BY <1>6 DEF processExit, addEndSummary
  <2>2. /\ DOMAIN JumpFn' = DOMAIN JumpFn \cup {key}
        /\ JumpFn'[key] = fPrime(e)
        /\ \A k \in DOMAIN JumpFn : k # key => JumpFn'[k] = JumpFn[k]
    BY <2>1, propagateFacts
  <2>3. ASSUME NEW k \in DOMAIN EndsummaryTab'
        PROVE  /\ k[3] \in ExitInst \ CallSite /\ k[1] \in StartPoints(FunOf(k[3]))
               /\ EndsummaryTab'[k] = jumpFunction(k[2], k[3], k[4])'
    <3>1. CASE k \in K
      <4>1. PICK sp \in StartPoints(FunOf(e.tgt)) : k = <<sp, e.src, e.tgt, e.dst>>
        BY <3>1
      <4>2. k[1] = sp /\ k[2] = e.src /\ k[3] = e.tgt /\ k[4] = e.dst
        BY <4>1
      <4>3. EndsummaryTab'[k] = fPrime(e)
        BY <2>1, <3>1 DEF Put
      <4>4. jumpFunction(e.src, e.tgt, e.dst)' = fPrime(e)
        BY <2>2 DEF jumpFunction
      <4> QED
        BY <2>1, <4>1, <4>2, <4>3, <4>4
    <3>2. CASE k \notin K
      <4>1. k \in DOMAIN EndsummaryTab /\ EndsummaryTab'[k] = EndsummaryTab[k]
        BY <2>1, <3>2 DEF Put
      <4>2. /\ k[3] \in ExitInst \ CallSite /\ k[1] \in StartPoints(FunOf(k[3]))
            /\ EndsummaryTab[k] = jumpFunction(k[2], k[3], k[4])
        BY <4>1 DEF SummaryFresh
      <4>3. <<k[2], k[3], k[4]>> # key
        <5>1. ASSUME <<k[2], k[3], k[4]>> = key PROVE FALSE
          <6>1. k[2] = e.src /\ k[3] = e.tgt /\ k[4] = e.dst
            BY <5>1
          <6>2. k = <<k[1], e.src, e.tgt, e.dst>>
            BY <4>1, <6>1, EndsummaryKey
          <6> QED
            BY <3>2, <4>2, <6>1, <6>2
        <5> QED
          BY <5>1
      <4>4. jumpFunction(k[2], k[3], k[4])' = jumpFunction(k[2], k[3], k[4])
        BY <2>2, <4>3 DEF jumpFunction
      <4> QED
        BY <4>1, <4>2, <4>4
    <3> QED
      BY <3>1, <3>2
  <2>4. ASSUME NEW k \in DOMAIN JumpFn', k[2] \in ExitInst \ CallSite,
               NEW sp \in StartPoints(FunOf(k[2]))
        PROVE  <<sp, k[1], k[2], k[3]>> \in DOMAIN EndsummaryTab'
    <3>1. DOMAIN EndsummaryTab' = DOMAIN EndsummaryTab \cup K
      BY <2>1 DEF Put
    <3>2. CASE k = key
      BY <2>4, <3>1, <3>2
    <3>3. CASE k \in DOMAIN JumpFn
      BY <2>4, <3>1, <3>3 DEF SummaryFresh
    <3> QED
      BY <2>2, <2>4, <3>2, <3>3
  <2> QED
    BY <2>3, <2>4 DEF SummaryFresh
<1> QED
  BY <1>2, <1>3, <1>4, <1>5, <1>6, NextCases

-----------------------------------------------------------------------------
(***************************************************************************)
(* Unbalanced returns.                                                     *)
(***************************************************************************)
\* With a registered call for d1 at any start point, Inc is not empty.
IncNonempty ==
  TableTypeOK /\ IncomingExact =>
    \A g \in Fun, d1 \in Fact, c \in CallSite, d4 \in Fact :
      \A sp \in StartPoints(g) :
        <<sp, d1, c, d4>> \in IncomingTab => d4 \in Inc(g, d1, c)

\* IncComplete in a form that can be primed,
LEMMA IncNonemptyLemma == IncNonempty
BY IncComplete DEF IncNonempty

\* and primed.
LEMMA IncNonemptyNext == IncNonempty'
BY IncNonemptyLemma, PTL

\* Calls are never unregistered, so what is unbalanced now always was.
LEMMA UnbalancedBefore ==
  ASSUME TableTypeOK', IncomingExact', IncomingTab \subseteq IncomingTab',
         NEW d1 \in Fact, NEW n \in Node, isUnbalanced(d1, n)'
  PROVE  isUnbalanced(d1, n)
<1> DEFINE g == FunOf(n)
<1>1. g \in Fun
  BY ICFGAssumption
<1>2. \A c \in CallSite : Inc(g, d1, c)' = {}
  BY DEF isUnbalanced
<1>3. ASSUME NEW c \in CallSite, NEW d4 \in Inc(g, d1, c) PROVE FALSE
  <2>1. d4 \in Fact /\ \E sp \in StartPoints(g) : <<sp, d1, c, d4>> \in IncomingTab
    BY DEF Inc, StartPoints
  <2>2. d4 \in Inc(g, d1, c)'
    BY <1>1, <2>1, IncNonemptyNext DEF IncNonempty
  <2> QED
    BY <1>2, <2>2
<1> QED
  BY <1>3 DEF isUnbalanced

\* No step loses a flow past the seeds.
LEMMA UnbalancedStep ==
  ASSUME TableTypeOK, TableTypeOK', IncomingExact, IncomingExact',
         NoJumpFnYet, NoLostUnbalanced, [Next]_vars
  PROVE  NoLostUnbalanced'
<1> DEFINE Duty(k, f) ==
             /\ \A p \in UnbalancedPushes(k[2], k[3], f) : Propagated(p)
             /\ UnbalancedTargets(k[2], k[3]) \subseteq UnbalancedRetSites
<1>1. SUFFICES ASSUME NEW k \in DOMAIN JumpFn', k[1] = Zero,
                      k[2] \in ExitInst \ CallSite, isUnbalanced(k[1], k[2])'
               PROVE  Duty(k, JumpFn[k])'
  BY DEF NoLostUnbalanced
<1>2. k[1] \in Fact /\ k[2] \in Node /\ k[3] \in Fact /\ JumpFn'[k] \in EF
  BY DEF TableTypeOK
\* A path edge whose duty had been done before.
<1>3. ASSUME k \in DOMAIN JumpFn, JumpFn'[k] = JumpFn[k],
             IncomingTab \subseteq IncomingTab',
             UnbalancedRetSites \subseteq UnbalancedRetSites',
             \A p \in PathEdge : Propagated(p) => Propagated(p)'
      PROVE  Duty(k, JumpFn[k])'
  <2>1. isUnbalanced(k[1], k[2])
    BY <1>1, <1>2, <1>3, UnbalancedBefore
  <2>2. Duty(k, JumpFn[k])
    BY <1>1, <1>3, <2>1 DEF NoLostUnbalanced
  <2>3. UnbalancedPushes(k[2], k[3], JumpFn[k]) \subseteq PathEdge
    BY <1>2, <1>3, UnbalancedPushesType
  <2> QED
    BY <1>3, <2>2, <2>3
<1>4. CASE Frame
  <2>1. \A p \in PathEdge : Propagated(p) => Propagated(p)'
    BY <1>4 DEF Frame, phase1Vars, Propagated, Covered, jumpFunction
  <2> QED
    BY <1>3, <1>4, <2>1 DEF Frame, phase1Vars
<1>5. CASE submitInitialSeeds
  BY <1>1, <1>5 DEF submitInitialSeeds, NoJumpFnYet
<1>6. ASSUME NEW e \in WorkList, propagateOld(e)
      PROVE  Duty(k, JumpFn[k])'
  <2>1. \A p \in PathEdge : Propagated(p) => Propagated(p)'
    BY <1>6 DEF propagateOld, Propagated, Covered, jumpFunction,
       isNewFunction, fPrime
  <2> QED
    BY <1>3, <1>6, <2>1 DEF propagateOld
<1>7. ASSUME NEW e \in WorkList,
             processCall(e) \/ processNormalFlow(e) \/ processExit(e)
      PROVE  Duty(k, JumpFn[k])'
  <2> DEFINE key == <<e.src, e.tgt, e.dst>>
  <2>1. /\ isNewFunction(e)
        /\ JumpFn' = addFunction(e.src, e.tgt, e.dst, fPrime(e))
        /\ WorkList \ {e} \subseteq WorkList'
        /\ IncomingTab \subseteq IncomingTab'
        /\ UnbalancedRetSites \subseteq UnbalancedRetSites'
    BY <1>7 DEF processCall, processNormalFlow, processExit
  <2>2. \A p \in PathEdge : Propagated(p) => Propagated(p)'
    BY <2>1, PropagatedKept
  <2>3. /\ DOMAIN JumpFn' = DOMAIN JumpFn \cup {key}
        /\ JumpFn'[key] = fPrime(e)
        /\ \A x \in DOMAIN JumpFn : x # key => JumpFn'[x] = JumpFn[x]
    BY <2>1, propagateFacts
  <2>4. CASE k # key
    BY <1>3, <2>1, <2>2, <2>3, <2>4
  <2>5. CASE k = key
    <3>1. k[1] = e.src /\ k[2] = e.tgt /\ k[3] = e.dst /\ JumpFn'[k] = fPrime(e)
      BY <2>3, <2>5
    <3>2. processExit(e)
      BY <1>1, <1>7, <3>1 DEF processCall, processNormalFlow
    <3>3. isUnbalanced(e.src, e.tgt)
      BY <1>1, <1>2, <2>1, <3>1, UnbalancedBefore
    <3>4. /\ UnbalancedPushes(e.tgt, e.dst, fPrime(e)) \subseteq WorkList'
          /\ UnbalancedTargets(e.tgt, e.dst) \subseteq UnbalancedRetSites'
      BY <3>2, <3>3 DEF processExit
    <3> QED
      BY <3>1, <3>4 DEF Propagated
  <2> QED
    BY <2>4, <2>5
<1> QED
  BY <1>4, <1>5, <1>6, <1>7, NextCases

-----------------------------------------------------------------------------
(***************************************************************************)
(* The inductive invariant of Phase I and what follows from it.            *)
(***************************************************************************)
Phase1Inv == /\ TableTypeOK
             /\ NoJumpFnYet
             /\ IncomingExact
             /\ SummaryFresh
             /\ NoLostFlow
             /\ NoLostUnbalanced

\* The invariant holds initially.
LEMMA Phase1InvInit == Init => Phase1Inv
<1> SUFFICES ASSUME Init PROVE Phase1Inv
  OBVIOUS
<1>1. DOMAIN JumpFn = {} /\ DOMAIN EndsummaryTab = {} /\ phase = "init"
  BY DEF Init
<1>2. NoJumpFnYet /\ SummaryFresh /\ NoLostFlow /\ NoLostUnbalanced
  BY <1>1 DEF NoJumpFnYet, SummaryFresh, NoLostFlow, NoLostUnbalanced
<1> QED
  BY <1>2, TableTypeInit, IncomingInit DEF Phase1Inv

\* Every step preserves the invariant.
LEMMA Phase1InvStep == Phase1Inv /\ [Next]_vars => Phase1Inv'
<1> SUFFICES ASSUME Phase1Inv, [Next]_vars PROVE Phase1Inv'
  OBVIOUS
<1>1. TableTypeOK' /\ IncomingExact'
  BY TableTypeStep, IncomingStep DEF Phase1Inv
<1>2. NoJumpFnYet' /\ SummaryFresh' /\ NoLostFlow'
  BY NoJumpFnYetStep, SummaryStep, NoLostFlowStep DEF Phase1Inv
<1>3. NoLostUnbalanced'
  BY <1>1, UnbalancedStep DEF Phase1Inv
<1> QED
  BY <1>1, <1>2, <1>3 DEF Phase1Inv

(***************************************************************************)
(* The tables are consistent in every reachable state, whatever the ICFG,  *)
(* the flow and edge functions, and the order in which the worklist is     *)
(* worked off (doNext, propagate, processCall, processExit).               *)
(***************************************************************************)
THEOREM Phase1Invariant == Spec => []Phase1Inv
<1>1. Init => Phase1Inv
  BY Phase1InvInit
<1>2. Phase1Inv /\ [Next]_vars => Phase1Inv'
  BY Phase1InvStep
<1> QED
  BY <1>1, <1>2, PTL DEF Spec

(***************************************************************************)
(* No call/return pairing and no seed is lost (processCall, processExit).  *)
(***************************************************************************)
THEOREM NoFlowIsLost == Spec => []NoLostFlow
<1>1. Phase1Inv => NoLostFlow
  BY DEF Phase1Inv
<1> QED
  BY <1>1, Phase1Invariant, PTL

(***************************************************************************)
(* When next() returns false, the jump functions are a fixpoint.           *)
(***************************************************************************)
THEOREM FixpointReached == Spec => []Fixpoint
<1>1. Phase1Inv => Fixpoint
  BY DEF Phase1Inv, NoLostFlow, Fixpoint, Propagated
<1> QED
  BY <1>1, Phase1Invariant, PTL

(***************************************************************************)
(* End summaries are never stale (addEndSummary overwrites without a join).*)
(***************************************************************************)
THEOREM SummariesFresh == Spec => []SummaryFresh
<1>1. Phase1Inv => SummaryFresh
  BY DEF Phase1Inv
<1> QED
  BY <1>1, Phase1Invariant, PTL

(***************************************************************************)
(* IncomingTab holds exactly the calls that entered (addIncoming).         *)
(***************************************************************************)
THEOREM IncomingIsExact == Spec => []IncomingExact
<1>1. Phase1Inv => IncomingExact
  BY DEF Phase1Inv
<1> QED
  BY <1>1, Phase1Invariant, PTL

(***************************************************************************)
(* No flow from zero past the seeds is lost (the unbalanced part of        *)
(* processExit).                                                           *)
(***************************************************************************)
THEOREM NoUnbalancedIsLost == Spec => []NoLostUnbalanced
<1>1. Phase1Inv => NoLostUnbalanced
  BY DEF Phase1Inv
<1> QED
  BY <1>1, Phase1Invariant, PTL

-----------------------------------------------------------------------------
(***************************************************************************)
(* The solver with its table takes steps of the solver only: what is       *)
(* proved here of IDESolver's steps holds with the three indexes too.      *)
(***************************************************************************)
THEOREM TablesImplementSolver == TablesSpec => Init /\ [][Next]_vars
<1>1. TablesInit => Init
  BY DEF TablesInit
<1>2. [TablesNext]_tablesVars => [Next]_vars
  BY DEF TablesNext, doNextStored, tablesVars, Next, Phase1, doNext
<1> QED
  BY <1>1, <1>2, PTL DEF TablesSpec

\* A step that is not a propagation leaves the jump functions alone.
LEMMA JumpFnUntouched ==
  ASSUME submitInitialSeeds \/ doFinalize \/ Phase2
  PROVE  JumpFn' = JumpFn
BY DEF submitInitialSeeds, doFinalize, Phase2, submitInitialValue, nextValue,
     propagateValue, startComputation, valueComputationTask, computeValue,
     endComputation, phase1Vars

(***************************************************************************)
(* The reverse index, the forward index and the index by target are, in    *)
(* every state of every run, the one table of IDESolver: addFunction,      *)
(* called by propagate, keeps them equal.                                  *)
(***************************************************************************)
THEOREM LookupsAgree == TablesSpec => []LookupsConsistent
<1>1. TablesInit => LookupsConsistent
  BY DEF TablesInit, Init, Tables!TableInit, Tables!Empty, LookupsConsistent
<1>2. ASSUME LookupsConsistent, [TablesNext]_tablesVars PROVE LookupsConsistent'
  <2>1. ASSUME JumpFn' = JumpFn, UNCHANGED tableVars PROVE LookupsConsistent'
    BY <1>2, <2>1 DEF tableVars, LookupsConsistent
  <2>2. CASE UNCHANGED tablesVars
    BY <2>1, <2>2 DEF tablesVars, vars, phase1Vars
  <2>3. CASE (submitInitialSeeds \/ doFinalize \/ Phase2) /\ UNCHANGED tableVars
    BY <2>1, <2>3, JumpFnUntouched
  <2>4. ASSUME NEW e \in WorkList, propagateOld(e), UNCHANGED tableVars
        PROVE  LookupsConsistent'
    BY <2>1, <2>4 DEF propagateOld
  <2>5. ASSUME NEW e \in WorkList, pathEdgeProcessingTask(e),
               Tables!addFunction(e.src, e.tgt, e.dst, fPrime(e))
        PROVE  LookupsConsistent'
    <3> DEFINE Added == Tables!Store(JumpFn, <<e.src, e.tgt, e.dst>>, fPrime(e))
    <3>1. JumpFn' = addFunction(e.src, e.tgt, e.dst, fPrime(e))
      BY <2>5 DEF pathEdgeProcessingTask, processCall, processNormalFlow, processExit
    <3>2. addFunction(e.src, e.tgt, e.dst, fPrime(e)) = Added
      BY DEF addFunction, Put, Tables!Store
    <3>3. /\ NonEmptyReverseLookup' = Added
          /\ NonEmptyForwardLookup' = Added
          /\ NonEmptyLookupByTargetNode' = Added
      BY <1>2, <2>5 DEF Tables!addFunction, LookupsConsistent
    <3> QED
      BY <3>1, <3>2, <3>3 DEF LookupsConsistent
  <2> QED
    BY <1>2, <2>2, <2>3, <2>4, <2>5 DEF TablesNext, doNextStored
<1> QED
  BY <1>1, <1>2, PTL DEF TablesSpec

-----------------------------------------------------------------------------
(***************************************************************************)
(* Jump functions only grow (propagate joins before it stores).            *)
(***************************************************************************)
THEOREM JumpFunctionsGrow == Spec => JumpFnOnlyGrow
<1> DEFINE Grow == \A k \in DOMAIN JumpFn :
                     /\ k \in DOMAIN JumpFn'
                     /\ combine(JumpFn[k], JumpFn'[k]) = JumpFn'[k]
<1>1. ASSUME Phase1Inv, [Next]_vars PROVE [Grow]_JumpFn
  <2>1. TableTypeOK
    BY <1>1 DEF Phase1Inv
  <2>2. CASE UNCHANGED JumpFn
    BY <2>2
  <2>3. ASSUME NEW e \in WorkList, isNewFunction(e),
               JumpFn' = addFunction(e.src, e.tgt, e.dst, fPrime(e))
        PROVE  Grow
    <3> SUFFICES ASSUME NEW k \in DOMAIN JumpFn
                 PROVE  /\ k \in DOMAIN JumpFn'
                        /\ combine(JumpFn[k], JumpFn'[k]) = JumpFn'[k]
      OBVIOUS
    <3> DEFINE key == <<e.src, e.tgt, e.dst>>
    <3>1. JumpFn[k] \in EF /\ e.ef \in EF /\ k \in DOMAIN JumpFn'
      BY <2>1, <2>3, propagateFacts, JumpFnKey
    <3>2. CASE k = key
      <4>1. JumpFn'[k] = combine(JumpFn[k], e.ef)
        BY <2>1, <2>3, <3>2, propagateFacts DEF fPrime, jumpFunction
      <4>2. combine(JumpFn[k], combine(JumpFn[k], e.ef))
              = combine(combine(JumpFn[k], JumpFn[k]), e.ef)
        BY <3>1, CombineAssumption
      <4>3. combine(JumpFn[k], JumpFn[k]) = JumpFn[k]
        BY <3>1, CombineAssumption
      <4> QED
        BY <3>1, <4>1, <4>2, <4>3
    <3>3. CASE k # key
      <4>1. JumpFn'[k] = JumpFn[k]
        BY <2>1, <2>3, <3>3, propagateFacts
      <4> QED
        BY <3>1, <4>1, CombineAssumption
    <3> QED
      BY <3>2, <3>3
  <2>4. \/ UNCHANGED JumpFn
        \/ \E e \in WorkList :
             /\ isNewFunction(e)
             /\ JumpFn' = addFunction(e.src, e.tgt, e.dst, fPrime(e))
    BY <1>1, NextCases DEF submitInitialSeeds, Frame, phase1Vars, propagateOld,
       processCall, processNormalFlow, processExit
  <2> QED
    BY <2>2, <2>3, <2>4
<1> QED
  BY <1>1, Phase1Invariant, PTL DEF Spec, JumpFnOnlyGrow

-----------------------------------------------------------------------------
(***************************************************************************)
(* Type correctness of Phase II.                                           *)
(***************************************************************************)
\* A value update and its type.
LEMMA valueUpdateType ==
  ASSUME NEW n \in Node, NEW d \in Fact, NEW m \in Node, NEW x \in Fact,
         NEW f \in EF
  PROVE  valueUpdate(n, d, m, x, f) \in ValueUpdate
BY DEF valueUpdate, ValueUpdate

\* The seeds of Phase II, unbalanced return sites included.
LEMMA AllSeedsType ==
  ASSUME TableTypeOK
  PROVE  /\ DOMAIN AllSeeds \subseteq Node \X Fact
         /\ \A k \in DOMAIN AllSeeds : AllSeeds[k] \in Value
<1> DEFINE U == {r \in UnbalancedRetSites : \A k \in DOMAIN Seeds : k[1] # r}
<1>1. AllSeeds = Put(Seeds, U \X {Zero}, Top)
  BY DEF AllSeeds
<1>2. U \X {Zero} \subseteq Node \X Fact
  BY FlowAssumption DEF TableTypeOK
<1> HIDE DEF U
<1> QED
  BY <1>1, <1>2, ValueAssumption DEF Put, TableTypeOK

\* The updates of a value-propagation task are well typed.
LEMMA TaskType ==
  ASSUME TableTypeOK, NEW n \in Node, NEW d \in Fact
  PROVE  valuePropagationTask(n, d) \subseteq ValueUpdate
<1>1. propagateValueAtStart(n, d) \subseteq ValueUpdate
  <2> SUFFICES ASSUME NEW k \in DOMAIN JumpFn
               PROVE  valueUpdate(n, d, k[2], k[3], JumpFn[k]) \in ValueUpdate
    BY DEF propagateValueAtStart
  <2> QED
    BY JumpFnKey, valueUpdateType
<1>2. propagateValueAtCall(n, d) \subseteq ValueUpdate
  <2> SUFFICES ASSUME NEW g \in CalleesOf(n),
                      NEW s \in StartPoints(g) \X CallFlow(n, g, d)
               PROVE  valueUpdate(n, d, s[1], s[2], CallEF(n, d, g, s[2]))
                        \in ValueUpdate
    BY DEF propagateValueAtCall
  <2>1. g \in Fun
    BY ICFGAssumption
  <2>2. s[1] \in Node /\ s[2] \in Fact
    BY <2>1, StartPointsType, FlowTypes
  <2> QED
    BY <2>1, <2>2, EdgeFunctionAssumption, valueUpdateType
<1> QED
  BY <1>1, <1>2 DEF valuePropagationTask

\* So are those that evaluate a node.
LEMMA EvaluationType ==
  ASSUME TableTypeOK, NEW n \in Node
  PROVE  evaluation(n) \subseteq ValueUpdate
<1>1. StartPoints(FunOf(n)) \subseteq Node
  BY ICFGAssumption, StartPointsType
<1>2. ASSUME NEW sp \in StartPoints(FunOf(n)), NEW k \in DOMAIN JumpFn
      PROVE  valueUpdate(sp, k[1], n, k[3], JumpFn[k]) \in ValueUpdate
  BY <1>1, JumpFnKey, valueUpdateType
<1> QED
  BY <1>2 DEF evaluation

\* Setting a value keeps the table well typed.
LEMMA setValType ==
  ASSUME ValueTypeOK, NEW k \in Node \X Fact, NEW v \in Value
  PROVE  /\ DOMAIN setVal(k, v) \subseteq Node \X Fact
         /\ \A x \in DOMAIN setVal(k, v) : setVal(k, v)[x] \in Value
BY DEF setVal, Put, ValueTypeOK

\* A lookup returns a value, Top when none is stored.
LEMMA valType ==
  ASSUME ValueTypeOK, NEW k
  PROVE  val(k) \in Value
BY ValueAssumption DEF val, ValueTypeOK

\* The value that an update writes.
LEMMA UpdateType ==
  ASSUME ValueTypeOK, NEW p \in Pending
  PROVE  /\ p.dst \in Node \X Fact
         /\ join(val(p.dst), applyFunction(p.ef, val(p.src))) \in Value
<1>1. p.dst \in Node \X Fact /\ p.ef \in EF
  BY DEF ValueTypeOK, ValueUpdate
<1>2. val(p.dst) \in Value /\ val(p.src) \in Value
  BY valType
<1> QED
  BY <1>1, <1>2, ValueAssumption

\* Only seeds are submitted, and only once Phase II has begun.
SeedsPending == /\ SeedsTodo \subseteq DOMAIN AllSeeds
                /\ phase \in {"init", "tabulate"} => SeedsTodo = {}

\* The seeds that Phase II has still to submit are seeds.
LEMMA SeedsPendingStep ==
  ASSUME SeedsPending, [Next]_vars
  PROVE  SeedsPending'
<1>1. CASE submitInitialSeeds
  BY <1>1 DEF submitInitialSeeds, phase2Vars, SeedsPending
<1>2. CASE doNext
  BY <1>2 DEF doNext, phase2Vars, SeedsPending
<1>3. ASSUME UNCHANGED <<Seeds, phase1Vars>> PROVE AllSeeds' = AllSeeds
  BY <1>3 DEF AllSeeds, phase1Vars
<1>4. CASE doFinalize
  BY <1>3, <1>4 DEF doFinalize, SeedsPending
<1>5. CASE submitInitialValue
  BY <1>3, <1>5 DEF submitInitialValue, SeedsPending
<1>6. CASE nextValue \/ propagateValue \/ startComputation
           \/ valueComputationTask \/ computeValue \/ endComputation
  <2>1. /\ UNCHANGED <<Seeds, phase1Vars, SeedsTodo>>
        /\ phase \notin {"init", "tabulate"} /\ phase' \notin {"init", "tabulate"}
    BY <1>6 DEF nextValue, propagateValue, startComputation,
       valueComputationTask, computeValue, endComputation, phase2Vars
  <2> QED
    BY <1>3, <2>1 DEF SeedsPending
<1>7. CASE UNCHANGED vars
  BY <1>3, <1>7 DEF vars, phase2Vars, SeedsPending
<1> QED
  BY <1>1, <1>2, <1>4, <1>5, <1>6, <1>7 DEF Next, Phase1, Phase2

\* Every step keeps the tables of Phase II well typed.
LEMMA ValueTypeStep ==
  ASSUME TableTypeOK, ValueTypeOK, SeedsPending, [Next]_vars
  PROVE  ValueTypeOK'
<1>1. ASSUME UNCHANGED phase2Vars PROVE ValueTypeOK'
  BY <1>1 DEF phase2Vars, ValueTypeOK
<1>2. CASE submitInitialSeeds \/ doNext \/ endComputation \/ UNCHANGED vars
  BY <1>1, <1>2 DEF submitInitialSeeds, doNext, endComputation, vars
<1>3. CASE doFinalize
  BY <1>3, AllSeedsType DEF doFinalize, ValueTypeOK
<1>4. CASE submitInitialValue
  <2>1. PICK k \in SeedsTodo :
          /\ SeedsTodo' = SeedsTodo \ {k}
          /\ ValTab' = setVal(k, join(AllSeeds[k], val(k)))
          /\ Pending' = valuePropagationTask(k[1], k[2])
    BY <1>4 DEF submitInitialValue
  <2>2. k \in Node \X Fact
    BY DEF ValueTypeOK
  <2>3. join(AllSeeds[k], val(k)) \in Value
    BY AllSeedsType, valType, ValueAssumption DEF SeedsPending
  <2>4. Pending' \subseteq ValueUpdate
    BY <2>1, <2>2, TaskType
  <2>5. UNCHANGED <<ValuePropWL, NodesTodo>>
    BY <1>4 DEF submitInitialValue
  <2> QED
    BY <2>1, <2>2, <2>3, <2>4, <2>5, setValType DEF ValueTypeOK
<1>5. CASE nextValue
  <2>1. PICK k \in ValuePropWL : /\ ValuePropWL' = ValuePropWL \ {k}
                                 /\ Pending' = valuePropagationTask(k[1], k[2])
    BY <1>5 DEF nextValue
  <2>2. k[1] \in Node /\ k[2] \in Fact
    BY DEF ValueTypeOK
  <2>3. Pending' \subseteq ValueUpdate
    BY <2>1, <2>2, TaskType
  <2> QED
    BY <1>5, <2>1, <2>3 DEF nextValue, ValueTypeOK
<1>6. CASE propagateValue
  <2>1. PICK p \in Pending :
          /\ Pending' = Pending \ {p}
          /\ \/ UNCHANGED <<ValTab, ValuePropWL>>
             \/ /\ ValTab' = setVal(p.dst, join(val(p.dst),
                                               applyFunction(p.ef, val(p.src))))
                /\ ValuePropWL' = ValuePropWL \cup {p.dst}
    BY <1>6 DEF propagateValue
  <2>2. /\ p.dst \in Node \X Fact
        /\ join(val(p.dst), applyFunction(p.ef, val(p.src))) \in Value
    BY UpdateType
  <2>3. UNCHANGED <<SeedsTodo, NodesTodo>>
    BY <1>6 DEF propagateValue
  <2> QED
    BY <2>1, <2>2, <2>3, setValType DEF ValueTypeOK
<1>7. CASE startComputation
  BY <1>7, ICFGAssumption DEF startComputation, ValueTypeOK
<1>8. CASE valueComputationTask
  <2>1. PICK n \in NodesTodo : NodesTodo' = NodesTodo \ {n} /\ Pending' = evaluation(n)
    BY <1>8 DEF valueComputationTask
  <2>2. n \in Node
    BY DEF ValueTypeOK
  <2>3. Pending' \subseteq ValueUpdate
    BY <2>1, <2>2, EvaluationType
  <2> QED
    BY <1>8, <2>1, <2>3 DEF valueComputationTask, ValueTypeOK
<1>9. CASE computeValue
  <2>1. PICK p \in Pending :
          /\ Pending' = Pending \ {p}
          /\ ValTab' = setVal(p.dst, join(val(p.dst),
                                          applyFunction(p.ef, val(p.src))))
    BY <1>9 DEF computeValue
  <2>2. /\ p.dst \in Node \X Fact
        /\ join(val(p.dst), applyFunction(p.ef, val(p.src))) \in Value
    BY UpdateType
  <2>3. UNCHANGED <<ValuePropWL, SeedsTodo, NodesTodo>>
    BY <1>9 DEF computeValue
  <2> QED
    BY <2>1, <2>2, <2>3, setValType DEF ValueTypeOK
<1> QED
  BY <1>2, <1>3, <1>4, <1>5, <1>6, <1>7, <1>8, <1>9 DEF Next, Phase1, Phase2

(***************************************************************************)
(* Every table and worklist of the solver keeps its type; in particular no *)
(* jump function stored is allTop (the precondition of addFunction).       *)
(***************************************************************************)
THEOREM TypeCorrect == Spec => []TypeOK
<1> DEFINE Inv == TableTypeOK /\ ValueTypeOK /\ SeedsPending
<1>1. Init => Inv
  <2> SUFFICES ASSUME Init PROVE ValueTypeOK /\ SeedsPending
    BY TableTypeInit
  <2> QED
    BY DEF Init, ValueTypeOK, SeedsPending
<1>2. Inv /\ [Next]_vars => Inv'
  BY TableTypeStep, ValueTypeStep, SeedsPendingStep
<1>3. Inv => TypeOK
  BY DEF TypeOK
<1> HIDE DEF Inv
<1> QED
  BY <1>1, <1>2, <1>3, PTL DEF Spec
-----------------------------------------------------------------------------
(***************************************************************************)
(* Phase II: no value is lost.                                             *)
(***************************************************************************)
\* What ICFGBase.h says of allNonCallStartNodes.
NoStartEvaluated == \A n \in NonCallStartNodes : ~isStartPoint(n)

HandsOn(k) == k[1] \in CallSite \/ isStartPoint(k[1])
Served(k) == \A u \in valuePropagationTask(k[1], k[2]) : u \in Pending \/ HandedOn(u)
Settled(k) == \A u \in valuePropagationTask(k[1], k[2]) : HandedOn(u)
Evaluated(n) == \A u \in evaluation(n) : u \in Pending \/ HandedOn(u)
Submitted(k) == k \in DOMAIN ValTab /\ join(val(k), AllSeeds[k]) = val(k)

\* Before Phase II nothing has happened to its variables.
ValuesUntouched ==
  phase \in {"init", "tabulate"} =>
    DOMAIN ValTab = {} /\ ValuePropWL = {} /\ Pending = {} /\ NodesTodo = {}

\* While values are propagated, one that was taken off the worklist is handed
\* on or about to be.
ValuesServed ==
  phase = "values" =>
    \A k \in DOMAIN ValTab \ (ValuePropWL \cup SeedsTodo) : HandsOn(k) => Served(k)

\* Afterwards all are, and the evaluation of the other nodes changes none.
ValuesSettled ==
  phase \in {"compute", "done"} =>
    /\ ValuePropWL = {} /\ SeedsTodo = {} /\ NodesTodo \subseteq NonCallStartNodes
    /\ \A k \in DOMAIN ValTab : HandsOn(k) => Settled(k)
    /\ \A u \in Pending : u.dst[1] \in NonCallStartNodes

SeedsSubmitted ==
  (phase \in {"values", "compute", "done"} /\ ComputeValues) =>
    \A k \in DOMAIN AllSeeds \ SeedsTodo : Submitted(k)

NodesEvaluated ==
  (phase \in {"compute", "done"} /\ ComputeValues) =>
    /\ \A n \in NonCallStartNodes \ NodesTodo : Evaluated(n)
    /\ phase = "done" => Pending = {} /\ NodesTodo = {}

ValueInv == ValuesUntouched /\ ValuesServed /\ ValuesSettled /\ SeedsSubmitted
              /\ NodesEvaluated

\* A task starts at its own value.
LEMMA TaskSource ==
  ASSUME NEW n, NEW d, NEW u \in valuePropagationTask(n, d)
  PROVE  u.src = <<n, d>>
<1>1. \A m, e, f : valueUpdate(n, d, m, e, f).src = <<n, d>>
  BY DEF valueUpdate
<1>2. ASSUME u \in propagateValueAtStart(n, d) PROVE u.src = <<n, d>>
  BY <1>1, <1>2 DEF propagateValueAtStart
<1>3. ASSUME u \in propagateValueAtCall(n, d) PROVE u.src = <<n, d>>
  BY <1>1, <1>3 DEF propagateValueAtCall
<1> QED
  BY <1>2, <1>3 DEF valuePropagationTask

\* An evaluation reads start points and writes to its node.
LEMMA EvaluationEnds ==
  ASSUME NEW n \in Node, NEW u \in evaluation(n)
  PROVE  isStartPoint(u.src[1]) /\ u.dst[1] = n
<1>1. PICK sp \in StartPoints(FunOf(n)), k \in DOMAIN JumpFn :
        u = valueUpdate(sp, k[1], n, k[3], JumpFn[k])
  BY DEF evaluation
<1>2. u.src = <<sp, k[1]>> /\ u.dst = <<n, k[3]>>
  BY <1>1 DEF valueUpdate
<1>3. FunOf(sp) = FunOf(n)
  BY ICFGAssumption, StartPointsType
<1> QED
  BY <1>2, <1>3 DEF isStartPoint

\* Setting one value leaves the others.
LEMMA setValFacts ==
  ASSUME NEW k, NEW v, ValTab' = setVal(k, v)
  PROVE  /\ DOMAIN ValTab' = DOMAIN ValTab \cup {k}
         /\ val(k)' = v
         /\ \A x : x # k => val(x)' = val(x)
BY DEF setVal, Put, val

\* A value that contains another still does when more is joined in.
LEMMA JoinKept ==
  ASSUME NEW v \in Value, NEW w \in Value, NEW x \in Value, join(v, w) = v
  PROVE  join(join(v, x), w) = join(v, x)
<1>1. join(join(v, x), w) = join(v, join(x, w))
  BY JoinAssumption
<1>2. join(x, w) = join(w, x)
  BY JoinAssumption
<1>3. join(v, join(w, x)) = join(join(v, w), x)
  BY JoinAssumption
<1> QED
  BY <1>1, <1>2, <1>3

\* An update that has been made stays made as long as its source does not
\* change.
LEMMA HandedOnKept ==
  ASSUME ValueTypeOK, NEW u \in ValueUpdate, HandedOn(u),
         NEW k \in Node \X Fact, NEW x \in Value,
         ValTab' = setVal(k, join(val(k), x)), u.src # k
  PROVE  HandedOn(u)'
<1> DEFINE y == applyFunction(u.ef, val(u.src))
<1>1. y \in Value /\ val(u.dst) \in Value
  BY valType, ValueAssumption DEF ValueUpdate
<1>2. val(u.src)' = val(u.src)
  BY setValFacts
<1>3. join(val(u.dst), y) = val(u.dst)
  BY DEF HandedOn
<1>4. val(u.dst)' = val(u.dst) \/ val(u.dst)' = join(val(u.dst), x)
  BY DEF setVal, Put, val
<1>5. join(val(u.dst)', y) = val(u.dst)'
  <2>1. join(join(val(u.dst), x), y) = join(val(u.dst), x)
    BY <1>1, <1>3, JoinKept
  <2> QED
    BY <1>3, <1>4, <2>1
<1> QED
  BY <1>2, <1>5 DEF HandedOn

\* The update just made has been made, unless it changed its own source.
LEMMA JustHandedOn ==
  ASSUME ValueTypeOK, NEW u \in ValueUpdate, u.src # u.dst,
         ValTab' = setVal(u.dst, join(val(u.dst), applyFunction(u.ef, val(u.src))))
  PROVE  HandedOn(u)'
<1> DEFINE y == applyFunction(u.ef, val(u.src))
<1>1. y \in Value /\ val(u.dst) \in Value
  BY valType, ValueAssumption DEF ValueUpdate
<1>2. val(u.src)' = val(u.src) /\ val(u.dst)' = join(val(u.dst), y)
  BY setValFacts
<1>3. join(join(val(u.dst), y), y) = join(val(u.dst), join(y, y)) /\ join(y, y) = y
  BY <1>1, JoinAssumption
<1> QED
  BY <1>2, <1>3 DEF HandedOn

\* A seed that was submitted stays so.
LEMMA SubmittedKept ==
  ASSUME ValueTypeOK, NEW s, Submitted(s), AllSeeds' = AllSeeds, AllSeeds[s] \in Value,
         NEW k, NEW x \in Value, ValTab' = setVal(k, join(val(k), x))
  PROVE  Submitted(s)'
<1>1. val(s) \in Value /\ join(val(s), AllSeeds[s]) = val(s) /\ s \in DOMAIN ValTab
  BY valType DEF Submitted
<1>2. join(join(val(s), x), AllSeeds[s]) = join(val(s), x)
  BY <1>1, JoinKept
<1>3. s \in DOMAIN ValTab' /\ (val(s)' = val(s) \/ val(s)' = join(val(s), x))
  BY <1>1 DEF setVal, Put, val
<1> QED
  BY <1>1, <1>2, <1>3 DEF Submitted
\* Phase II works with fixed tables: its tasks are always the same.
LEMMA SameTasks ==
  ASSUME UNCHANGED <<Seeds, phase1Vars>>
  PROVE  /\ AllSeeds' = AllSeeds
         /\ \A n, d : valuePropagationTask(n, d)' = valuePropagationTask(n, d)
         /\ \A n : evaluation(n)' = evaluation(n)
<1>1. UNCHANGED <<Seeds, JumpFn, UnbalancedRetSites>>
  BY DEF phase1Vars
<1>2. AllSeeds' = AllSeeds
  BY <1>1 DEF AllSeeds
<1>3. \A n, d : valuePropagationTask(n, d)' = valuePropagationTask(n, d)
  BY <1>1 DEF valuePropagationTask, propagateValueAtStart
<1>4. \A n : evaluation(n)' = evaluation(n)
  BY <1>1 DEF evaluation
<1> QED
  BY <1>2, <1>3, <1>4

\* A key of the value table, and the updates of its task.
LEMMA ValueKey ==
  ASSUME TableTypeOK, ValueTypeOK, NEW k \in Node \X Fact
  PROVE  /\ valuePropagationTask(k[1], k[2]) \subseteq ValueUpdate
         /\ \A u \in valuePropagationTask(k[1], k[2]) : u.src = k
<1>1. k[1] \in Node /\ k[2] \in Fact /\ k = <<k[1], k[2]>>
  OBVIOUS
<1> QED
  BY <1>1, TaskType, TaskSource

\* Submitting a seed.
LEMMA ServedSubmit ==
  ASSUME TableTypeOK, ValueTypeOK, SeedsPending, ValueInv, submitInitialValue
  PROVE  ValueInv'
<1>1. PICK k \in SeedsTodo :
        /\ SeedsTodo' = SeedsTodo \ {k}
        /\ ValTab' = setVal(k, join(AllSeeds[k], val(k)))
        /\ Pending' = valuePropagationTask(k[1], k[2])
  BY DEF submitInitialValue
<1>2. /\ phase = "values" /\ phase' = "values" /\ Pending = {}
      /\ UNCHANGED <<Seeds, phase1Vars, ValuePropWL>>
  BY DEF submitInitialValue
<1>3. /\ AllSeeds' = AllSeeds
      /\ \A n, d : valuePropagationTask(n, d)' = valuePropagationTask(n, d)
  BY <1>2, SameTasks
<1>4. k \in Node \X Fact /\ AllSeeds[k] \in Value /\ val(k) \in Value
  BY AllSeedsType, valType DEF ValueTypeOK, SeedsPending
<1>5. ValTab' = setVal(k, join(val(k), AllSeeds[k]))
  BY <1>1, <1>4, JoinAssumption
<1>6. ValuesServed'
  <2> SUFFICES ASSUME NEW j \in DOMAIN ValTab', j \notin ValuePropWL, j \notin SeedsTodo',
                      HandsOn(j), NEW u \in valuePropagationTask(j[1], j[2])
               PROVE  u \in Pending' \/ HandedOn(u)'
    BY <1>2, <1>3 DEF ValuesServed, Served, HandsOn
  <2>1. CASE j = k
    BY <1>1, <2>1
  <2>2. CASE j # k
    <3>1. j \in DOMAIN ValTab \ (ValuePropWL \cup SeedsTodo)
      <4>1. DOMAIN ValTab' = DOMAIN ValTab \cup {k}
        BY <1>5, setValFacts
      <4> QED BY <1>1, <2>2, <4>1
    <3>2. j \in Node \X Fact /\ HandedOn(u)
      BY <1>2, <3>1 DEF ValueInv, ValuesServed, Served, ValueTypeOK
    <3>3. u \in ValueUpdate /\ u.src # k
      BY <2>2, <3>2, ValueKey
    <3> QED
      BY <1>4, <1>5, <3>2, <3>3, HandedOnKept
  <2> QED
    BY <2>1, <2>2
<1>7. SeedsSubmitted'
  <2> SUFFICES ASSUME NEW s \in DOMAIN AllSeeds, s \notin SeedsTodo', ComputeValues
               PROVE  Submitted(s)'
    BY <1>3 DEF SeedsSubmitted
  <2>1. CASE s = k
    <3>1. k \in DOMAIN ValTab' /\ val(k)' = join(val(k), AllSeeds[k])
      BY <1>5, setValFacts
    <3>2. join(join(val(k), AllSeeds[k]), AllSeeds[k]) = join(val(k), AllSeeds[k])
      <4>1. join(join(val(k), AllSeeds[k]), AllSeeds[k])
              = join(val(k), join(AllSeeds[k], AllSeeds[k]))
        BY <1>4, JoinAssumption
      <4>2. join(AllSeeds[k], AllSeeds[k]) = AllSeeds[k]
        BY <1>4, JoinAssumption
      <4> QED BY <4>1, <4>2
    <3>3. Submitted(k)'
      BY <1>3, <3>1, <3>2 DEF Submitted
    <3> QED
      BY <2>1, <3>3
  <2>2. CASE s # k
    <3>1. Submitted(s)
      BY <1>1, <1>2, <2>2 DEF ValueInv, SeedsSubmitted
    <3>2. AllSeeds[s] \in Value
      BY AllSeedsType
    <3> QED
      BY <1>3, <1>4, <1>5, <3>1, <3>2, SubmittedKept
  <2> QED
    BY <2>1, <2>2
<1> QED
  BY <1>2, <1>6, <1>7 DEF ValueInv, ValuesUntouched, ValuesSettled, NodesEvaluated

\* Taking a value off the worklist.
LEMMA ServedNext ==
  ASSUME TableTypeOK, ValueTypeOK, ValueInv, nextValue
  PROVE  ValueInv'
<1>1. PICK k \in ValuePropWL : /\ ValuePropWL' = ValuePropWL \ {k}
                               /\ Pending' = valuePropagationTask(k[1], k[2])
  BY DEF nextValue
<1>2. /\ phase = "values" /\ phase' = "values" /\ Pending = {}
      /\ UNCHANGED <<Seeds, phase1Vars, ValTab, SeedsTodo>>
  BY DEF nextValue
<1>3. /\ AllSeeds' = AllSeeds
      /\ \A n, d : valuePropagationTask(n, d)' = valuePropagationTask(n, d)
  BY <1>2, SameTasks
<1>4. ASSUME NEW u PROVE HandedOn(u)' = HandedOn(u)
  BY <1>2 DEF HandedOn, val
<1>5. ValuesServed'
  <2> SUFFICES ASSUME NEW j \in DOMAIN ValTab, j \notin ValuePropWL', j \notin SeedsTodo,
                      HandsOn(j), NEW u \in valuePropagationTask(j[1], j[2])
               PROVE  u \in Pending' \/ HandedOn(u)'
    BY <1>2, <1>3 DEF ValuesServed, Served, HandsOn
  <2>1. CASE j = k
    BY <1>1, <2>1
  <2>2. CASE j # k
    BY <1>1, <1>2, <1>4, <2>2 DEF ValueInv, ValuesServed, Served
  <2> QED
    BY <2>1, <2>2
<1>6. SeedsSubmitted'
  BY <1>2, <1>3 DEF ValueInv, SeedsSubmitted, Submitted, val
<1> QED
  BY <1>2, <1>5, <1>6 DEF ValueInv, ValuesUntouched, ValuesSettled, NodesEvaluated

\* Making one update of a task.
LEMMA ServedPropagate ==
  ASSUME TableTypeOK, ValueTypeOK, ValueInv, propagateValue
  PROVE  ValueInv'
<1>1. PICK p \in Pending :
        /\ Pending' = Pending \ {p}
        /\ IF join(val(p.dst), applyFunction(p.ef, val(p.src))) = val(p.dst)
           THEN UNCHANGED <<ValTab, ValuePropWL>>
           ELSE /\ ValTab' = setVal(p.dst, join(val(p.dst), applyFunction(p.ef, val(p.src))))
                /\ ValuePropWL' = ValuePropWL \cup {p.dst}
  BY DEF propagateValue
<1>2. /\ phase = "values" /\ phase' = "values"
      /\ UNCHANGED <<Seeds, phase1Vars, SeedsTodo>>
  BY DEF propagateValue
<1>3. /\ AllSeeds' = AllSeeds
      /\ \A n, d : valuePropagationTask(n, d)' = valuePropagationTask(n, d)
  BY <1>2, SameTasks
<1>4. p \in ValueUpdate /\ p.dst \in Node \X Fact
  BY DEF ValueTypeOK, ValueUpdate
<1> DEFINE x == applyFunction(p.ef, val(p.src))
<1>5. x \in Value
  BY <1>4, valType, ValueAssumption DEF ValueUpdate
<1>6. CASE UNCHANGED <<ValTab, ValuePropWL>> /\ HandedOn(p)
  <2>1. ASSUME NEW u PROVE HandedOn(u)' = HandedOn(u)
    BY <1>6 DEF HandedOn, val
  <2>2. ValuesServed'
    <3> SUFFICES ASSUME NEW j \in DOMAIN ValTab, j \notin ValuePropWL, j \notin SeedsTodo,
                        HandsOn(j), NEW u \in valuePropagationTask(j[1], j[2])
                 PROVE  u \in Pending' \/ HandedOn(u)'
      BY <1>2, <1>3, <1>6 DEF ValuesServed, Served, HandsOn
    <3>1. u \in Pending \/ HandedOn(u)
      BY <1>2 DEF ValueInv, ValuesServed, Served
    <3> QED
      BY <1>1, <1>6, <2>1, <3>1
  <2>3. SeedsSubmitted'
    BY <1>2, <1>3, <1>6 DEF ValueInv, SeedsSubmitted, Submitted, val
  <2> QED
    BY <1>2, <2>2, <2>3 DEF ValueInv, ValuesUntouched, ValuesSettled, NodesEvaluated
<1>7. CASE /\ ValTab' = setVal(p.dst, join(val(p.dst), x))
           /\ ValuePropWL' = ValuePropWL \cup {p.dst}
  <2>1. ValuesServed'
    <3> SUFFICES ASSUME NEW j \in DOMAIN ValTab', j \notin ValuePropWL', j \notin SeedsTodo,
                        HandsOn(j), NEW u \in valuePropagationTask(j[1], j[2])
                 PROVE  u \in Pending' \/ HandedOn(u)'
      BY <1>2, <1>3 DEF ValuesServed, Served, HandsOn
    <3>1. j # p.dst /\ j \in DOMAIN ValTab \ (ValuePropWL \cup SeedsTodo)
      BY <1>7, setValFacts
    <3>2. j \in Node \X Fact
      BY <3>1 DEF ValueTypeOK
    <3>3. u \in ValueUpdate /\ u.src = j
      BY <3>2, ValueKey
    <3>4. u \in Pending \/ HandedOn(u)
      BY <1>2, <3>1 DEF ValueInv, ValuesServed, Served
    <3>5. CASE u = p
      BY <1>7, <3>1, <3>3, <3>5, JustHandedOn
    <3>6. CASE HandedOn(u)
      BY <1>4, <1>5, <1>7, <3>1, <3>3, <3>6, HandedOnKept
    <3> QED
      BY <1>1, <3>4, <3>5, <3>6
  <2>2. SeedsSubmitted'
    <3> SUFFICES ASSUME NEW s \in DOMAIN AllSeeds, s \notin SeedsTodo, ComputeValues
                 PROVE  Submitted(s)'
      BY <1>2, <1>3 DEF SeedsSubmitted
    <3>1. Submitted(s) /\ AllSeeds[s] \in Value
      BY <1>2, AllSeedsType DEF ValueInv, SeedsSubmitted
    <3> QED
      BY <1>3, <1>5, <1>7, <3>1, SubmittedKept
  <2> QED
    BY <1>2, <2>1, <2>2 DEF ValueInv, ValuesUntouched, ValuesSettled, NodesEvaluated
<1> QED
  BY <1>1, <1>6, <1>7 DEF HandedOn
\* The evaluation of the other nodes begins when all values are handed on.
LEMMA SettledStart ==
  ASSUME ValueInv, startComputation
  PROVE  ValueInv'
<1>1. /\ phase = "values" /\ phase' = "compute"
      /\ Pending = {} /\ SeedsTodo = {} /\ ValuePropWL = {}
      /\ NodesTodo' = {n \in NonCallStartNodes : \E k \in DOMAIN JumpFn : k[2] = n}
      /\ UNCHANGED <<Seeds, phase1Vars, ValTab, ValuePropWL, Pending, SeedsTodo>>
  BY DEF startComputation
<1>2. /\ AllSeeds' = AllSeeds
      /\ \A n, d : valuePropagationTask(n, d)' = valuePropagationTask(n, d)
      /\ \A n : evaluation(n)' = evaluation(n)
  BY <1>1, SameTasks
<1>3. ASSUME NEW u PROVE HandedOn(u)' = HandedOn(u)
  BY <1>1 DEF HandedOn, val
<1>4. ValuesSettled'
  <2>1. ASSUME NEW k \in DOMAIN ValTab, HandsOn(k),
               NEW u \in valuePropagationTask(k[1], k[2])
        PROVE  HandedOn(u)
    BY <1>1, <2>1 DEF ValueInv, ValuesServed, Served
  <2> QED
    BY <1>1, <1>2, <1>3, <2>1 DEF ValuesSettled, Settled, HandsOn
<1>5. SeedsSubmitted'
  BY <1>1, <1>2 DEF ValueInv, SeedsSubmitted, Submitted, val
<1>6. NodesEvaluated'
  <2>1. ASSUME NEW n \in NonCallStartNodes, n \notin NodesTodo' PROVE evaluation(n) = {}
    BY <1>1, <2>1 DEF evaluation
  <2> QED
    BY <1>1, <1>2, <2>1 DEF NodesEvaluated, Evaluated
<1> QED
  BY <1>1, <1>4, <1>5, <1>6 DEF ValueInv, ValuesUntouched, ValuesServed

\* Taking up a node to evaluate.
LEMMA SettledTask ==
  ASSUME ValueTypeOK, ValueInv, valueComputationTask
  PROVE  ValueInv'
<1>1. PICK n \in NodesTodo : NodesTodo' = NodesTodo \ {n} /\ Pending' = evaluation(n)
  BY DEF valueComputationTask
<1>2. /\ phase = "compute" /\ phase' = "compute" /\ Pending = {}
      /\ UNCHANGED <<Seeds, phase1Vars, ValTab, ValuePropWL, SeedsTodo>>
  BY DEF valueComputationTask
<1>3. /\ AllSeeds' = AllSeeds
      /\ \A m, d : valuePropagationTask(m, d)' = valuePropagationTask(m, d)
      /\ \A m : evaluation(m)' = evaluation(m)
  BY <1>2, SameTasks
<1>4. ASSUME NEW u PROVE HandedOn(u)' = HandedOn(u)
  BY <1>2 DEF HandedOn, val
<1>5. ValuesSettled'
  <2>1. n \in NonCallStartNodes /\ n \in Node
    BY <1>2 DEF ValueInv, ValuesSettled, ValueTypeOK
  <2>2. \A u \in Pending' : u.dst[1] \in NonCallStartNodes
    BY <1>1, <2>1, EvaluationEnds
  <2> QED
    BY <1>1, <1>2, <1>3, <1>4, <2>2 DEF ValueInv, ValuesSettled, Settled, HandsOn
<1>6. SeedsSubmitted'
  BY <1>2, <1>3 DEF ValueInv, SeedsSubmitted, Submitted, val
<1>7. NodesEvaluated'
  <2> SUFFICES ASSUME NEW m \in NonCallStartNodes, m \notin NodesTodo', ComputeValues,
                      NEW u \in evaluation(m)
               PROVE  u \in Pending' \/ HandedOn(u)
    BY <1>2, <1>3, <1>4 DEF NodesEvaluated, Evaluated
  <2>1. CASE m = n
    BY <1>1, <2>1
  <2>2. CASE m # n
    BY <1>1, <1>2, <2>2 DEF ValueInv, NodesEvaluated, Evaluated
  <2> QED BY <2>1, <2>2
<1> QED
  BY <1>2, <1>5, <1>6, <1>7 DEF ValueInv, ValuesUntouched, ValuesServed

\* Evaluating one fact: the node is neither a call nor a start point, so no
\* value that is handed on or read by another evaluation changes.
LEMMA SettledCompute ==
  ASSUME TableTypeOK, ValueTypeOK, NoStartEvaluated, ValueInv, computeValue
  PROVE  ValueInv'
<1>1. PICK p \in Pending :
        /\ Pending' = Pending \ {p}
        /\ ValTab' = setVal(p.dst, join(val(p.dst), applyFunction(p.ef, val(p.src))))
  BY DEF computeValue
<1>2. /\ phase = "compute" /\ phase' = "compute"
      /\ UNCHANGED <<Seeds, phase1Vars, ValuePropWL, SeedsTodo, NodesTodo>>
  BY DEF computeValue
<1>3. /\ AllSeeds' = AllSeeds
      /\ \A m, d : valuePropagationTask(m, d)' = valuePropagationTask(m, d)
      /\ \A m : evaluation(m)' = evaluation(m)
  BY <1>2, SameTasks
<1>4. p \in ValueUpdate /\ p.dst \in Node \X Fact
  BY DEF ValueTypeOK, ValueUpdate
<1> DEFINE x == applyFunction(p.ef, val(p.src))
<1>5. x \in Value
  BY <1>4, valType, ValueAssumption DEF ValueUpdate
<1>6. p.dst[1] \notin CallSite /\ ~isStartPoint(p.dst[1])
  BY <1>2, ICFGAssumption DEF ValueInv, ValuesSettled, NoStartEvaluated
<1>7. ValTab' = setVal(p.dst, join(val(p.dst), x))
  BY <1>1
<1>8. DOMAIN ValTab' = DOMAIN ValTab \cup {p.dst}
  BY <1>7, setValFacts
<1> HIDE DEF x
<1>9. ValuesSettled'
  <2>1. ASSUME NEW k \in DOMAIN ValTab', HandsOn(k),
               NEW u \in valuePropagationTask(k[1], k[2])
        PROVE  HandedOn(u)'
    <3>1. k \in DOMAIN ValTab /\ k # p.dst
      BY <1>6, <1>8, <2>1 DEF HandsOn
    <3>2. k \in Node \X Fact
      BY <3>1 DEF ValueTypeOK
    <3>3. HandedOn(u)
      BY <1>2, <2>1, <3>1 DEF ValueInv, ValuesSettled, Settled
    <3>4. u \in ValueUpdate /\ u.src # p.dst
      BY <3>1, <3>2, ValueKey
    <3> QED
      BY <1>4, <1>5, <1>7, <3>3, <3>4, HandedOnKept
  <2> QED
    BY <1>1, <1>2, <1>3, <2>1 DEF ValueInv, ValuesSettled, Settled, HandsOn
<1>10. SeedsSubmitted'
  <2> SUFFICES ASSUME NEW s \in DOMAIN AllSeeds, s \notin SeedsTodo, ComputeValues
               PROVE  Submitted(s)'
    BY <1>2, <1>3 DEF SeedsSubmitted
  <2>1. Submitted(s) /\ AllSeeds[s] \in Value
    BY <1>2, AllSeedsType DEF ValueInv, SeedsSubmitted
  <2> QED
    BY <1>3, <1>5, <1>7, <2>1, SubmittedKept
<1>11. NodesEvaluated'
  <2> SUFFICES ASSUME NEW m \in NonCallStartNodes, m \notin NodesTodo, ComputeValues,
                      NEW u \in evaluation(m)
               PROVE  u \in Pending' \/ HandedOn(u)'
    BY <1>2, <1>3 DEF NodesEvaluated, Evaluated
  <2>1. u \in Pending \/ HandedOn(u)
    BY <1>2 DEF ValueInv, NodesEvaluated, Evaluated
  <2>2. m \in Node
    BY ICFGAssumption
  <2>3. u \in ValueUpdate /\ u.src # p.dst
    BY <1>6, <2>2, EvaluationType, EvaluationEnds
  <2>4. CASE u = p
    BY <1>1, <2>3, <2>4, JustHandedOn
  <2>5. CASE HandedOn(u)
    BY <1>4, <1>5, <1>7, <2>3, <2>5, HandedOnKept
  <2> QED
    BY <1>1, <2>1, <2>4, <2>5
<1> QED
  BY <1>2, <1>9, <1>10, <1>11 DEF ValueInv, ValuesUntouched, ValuesServed

\* The steps of Phase I, and the two that only change the phase.
LEMMA ValueInvPhase ==
  ASSUME ValueInv,
         submitInitialSeeds \/ doNext \/ doFinalize \/ endComputation \/ UNCHANGED vars
  PROVE  ValueInv'
<1>1. CASE submitInitialSeeds \/ doNext
  <2>1. /\ phase \in {"init", "tabulate"} /\ phase' = "tabulate"
        /\ UNCHANGED phase2Vars
    BY <1>1 DEF submitInitialSeeds, doNext
  <2> QED
    BY <2>1 DEF ValueInv, ValuesUntouched, ValuesServed, ValuesSettled, SeedsSubmitted,
       NodesEvaluated, phase2Vars
<1>2. CASE doFinalize
  <2>1. /\ phase = "tabulate" /\ phase' = IF ComputeValues THEN "values" ELSE "done"
        /\ SeedsTodo' = IF ComputeValues THEN DOMAIN AllSeeds ELSE {}
        /\ UNCHANGED <<Seeds, phase1Vars, ValTab, ValuePropWL, Pending, NodesTodo>>
    BY <1>2 DEF doFinalize
  <2>2. AllSeeds' = AllSeeds
    BY <2>1, SameTasks
  <2> QED
    BY <2>1, <2>2 DEF ValueInv, ValuesUntouched, ValuesServed, ValuesSettled,
       SeedsSubmitted, NodesEvaluated
<1>3. CASE endComputation \/ UNCHANGED vars
  <2>1. /\ \/ /\ phase = "compute" /\ phase' = "done" /\ Pending = {} /\ NodesTodo = {}
           \/ phase' = phase
        /\ UNCHANGED <<Seeds, phase1Vars, phase2Vars>>
    BY <1>3 DEF endComputation, vars
  <2>2. /\ AllSeeds' = AllSeeds
        /\ \A m, d : valuePropagationTask(m, d)' = valuePropagationTask(m, d)
        /\ \A m : evaluation(m)' = evaluation(m)
    BY <2>1, SameTasks
  <2>3. UNCHANGED <<ValTab, ValuePropWL, Pending, SeedsTodo, NodesTodo>>
    BY <2>1 DEF phase2Vars
  <2>4. ASSUME NEW u PROVE HandedOn(u)' = HandedOn(u)
    BY <2>3 DEF HandedOn, val
  <2>5. ASSUME NEW k PROVE Submitted(k)' = Submitted(k)
    BY <2>2, <2>3 DEF Submitted, val
  <2>6. ValuesServed' /\ ValuesUntouched'
    BY <2>1, <2>2, <2>3, <2>4 DEF ValueInv, ValuesUntouched, ValuesServed, Served, HandsOn
  <2>7. ValuesSettled'
    BY <2>1, <2>2, <2>3, <2>4 DEF ValueInv, ValuesSettled, Settled, HandsOn
  <2>8. SeedsSubmitted'
    BY <2>1, <2>2, <2>3, <2>5 DEF ValueInv, SeedsSubmitted
  <2>9. NodesEvaluated'
    BY <2>1, <2>2, <2>3, <2>4 DEF ValueInv, NodesEvaluated, Evaluated
  <2> QED
    BY <2>6, <2>7, <2>8, <2>9 DEF ValueInv
<1> QED
  BY <1>1, <1>2, <1>3

\* Every step preserves the invariant of Phase II.
LEMMA ValueInvStep ==
  ASSUME NoStartEvaluated, TableTypeOK, ValueTypeOK, SeedsPending, ValueInv, [Next]_vars
  PROVE  ValueInv'
BY ServedSubmit, ServedNext, ServedPropagate, SettledStart, SettledTask,
   SettledCompute, ValueInvPhase DEF Next, Phase1, Phase2

\* Together with the types.
ValuesInvariant == TableTypeOK /\ ValueTypeOK /\ SeedsPending /\ ValueInv

LEMMA ValuesInvariantHolds ==
  ASSUME NoStartEvaluated
  PROVE  Spec => []ValuesInvariant
<1>1. Init => ValuesInvariant
  <2> SUFFICES ASSUME Init PROVE ValueTypeOK /\ SeedsPending /\ ValueInv
    BY TableTypeInit DEF ValuesInvariant
  <2>1. ValueTypeOK /\ SeedsPending
    BY DEF Init, ValueTypeOK, SeedsPending
  <2>2. ValueInv
    BY DEF Init, ValueInv, ValuesUntouched, ValuesServed, ValuesSettled, SeedsSubmitted,
       NodesEvaluated
  <2> QED BY <2>1, <2>2
<1>2. ValuesInvariant /\ [Next]_vars => ValuesInvariant'
  BY TableTypeStep, ValueTypeStep, SeedsPendingStep, ValueInvStep DEF ValuesInvariant
<1> QED
  BY <1>1, <1>2, PTL DEF Spec

(***************************************************************************)
(* No value is lost in Phase II (propagateValueAtStart and AtCall,         *)
(* setVal), whatever the order of the seeds and of ValuePropWL, if the     *)
(* ICFG keeps the contract of allNonCallStartNodes.                        *)
(***************************************************************************)
THEOREM NoValueIsLost ==
  ASSUME NoStartEvaluated
  PROVE  Spec => []NoLostValue
<1>1. ValuesInvariant => NoLostValue
  BY DEF ValuesInvariant, ValueInv, ValuesServed, ValuesSettled, NoLostValue, Served,
     Settled, HandsOn
<1> QED
  BY <1>1, ValuesInvariantHolds, PTL

\* The value table satisfies its equations.
ValuesClosed ==
  /\ \A k \in DOMAIN AllSeeds : Submitted(k)
  /\ \A k \in DOMAIN ValTab : HandsOn(k) =>
       \A u \in valuePropagationTask(k[1], k[2]) : HandedOn(u)
  /\ \A n \in NonCallStartNodes : \A u \in evaluation(n) : HandedOn(u)

(***************************************************************************)
(* When solve() returns, the values contain the seeds and are closed: each *)
(* value at a call or a start point has been handed on along its jump and  *)
(* call functions, and every other node has the values of its jump         *)
(* functions -- no value changed after it had been read for the last time. *)
(***************************************************************************)
THEOREM ValuesAreClosed ==
  ASSUME NoStartEvaluated, ComputeValues
  PROVE  Spec => [](phase = "done" => ValuesClosed)
<1>1. ValuesInvariant => (phase = "done" => ValuesClosed)
  BY DEF ValuesInvariant, ValueInv, ValuesSettled, Settled, SeedsSubmitted,
     NodesEvaluated, Evaluated, ValuesClosed
<1> QED
  BY <1>1, ValuesInvariantHolds, PTL

-----------------------------------------------------------------------------
(***************************************************************************)
(* Phase I: no flow is invented.  The order of the edge functions is that  *)
(* of their join.  What the flow equations ask of a table is stated for a  *)
(* table T on its own, without worklist, incoming calls and end summaries: *)
(* a path through a callee is found in T itself.                           *)
(***************************************************************************)
Leq(f, g) == combine(g, f) = g

\* extend respects the order; not an assumption of the solver's soundness, so
\* it is a hypothesis of the theorems that need it.
ExtendMonotone ==
  \A f, g, h \in EF : Leq(f, g) => /\ Leq(extend(f, h), extend(g, h))
                                   /\ Leq(extend(h, f), extend(h, g))

Table == [Fact \X Node \X Fact -> EF]
Contains(T, p) == Leq(p.ef, T[<<p.src, p.tgt, p.dst>>])

\* The paths of T from a start point that d2 enters at n to an exit.
CalleePaths(T, n, d2) ==
  {y \in Node \X Fact \X (ExitInst \ CallSite) \X Fact :
     /\ <<y[1], y[2]>> \in Entered(n, d2)
     /\ FunOf(y[3]) = FunOf(y[1])
     /\ T[<<y[2], y[3], y[4]>>] # allTop}

ThroughCallees(T, d1, n, d2, f) ==
  UNION {ReturnPushes(d1, n, d2, f, FunOf(y[1]), y[2], y[3], y[4],
                      T[<<y[2], y[3], y[4]>>]) : y \in CalleePaths(T, n, d2)}

FlowsOf(T, d1, n, d2) ==
  LET f == T[<<d1, n, d2>>] IN
  IF n \in CallSite
  THEN SummaryPushes(d1, n, d2, f) \cup EntryPushes(n, d2)
         \cup CallToRetPushes(d1, n, d2, f) \cup ThroughCallees(T, d1, n, d2, f)
  ELSE NormalPushes(d1, n, d2, f)

\* T contains the seeds and every flow out of what it contains, and past the
\* seeds those out of every exit.
SolvesFlows(T) ==
  /\ \A k \in DOMAIN Seeds :
       Contains(T, pathEdge(k[2], k[1], k[2], IdentityEdge))
  /\ \A d1 \in Fact, n \in Node, d2 \in Fact :
       T[<<d1, n, d2>>] # allTop =>
         \A p \in FlowsOf(T, d1, n, d2) : Contains(T, p)

Solves(T) ==
  /\ SolvesFlows(T)
  /\ FollowReturnsPastSeeds =>
       \A d1 \in Fact, n \in ExitInst \ CallSite, d2 \in Fact :
         T[<<d1, n, d2>>] # allTop =>
           \A p \in UnbalancedPushes(n, d2, T[<<d1, n, d2>>]) : Contains(T, p)

\* The order is transitive, has allTop at the bottom and combine as its join.
LEMMA LeqTransitive ==
  ASSUME NEW f \in EF, NEW g \in EF, NEW h \in EF, Leq(f, g), Leq(g, h)
  PROVE  Leq(f, h)
<1>1. combine(combine(h, g), f) = combine(h, combine(g, f))
  BY CombineAssumption
<1> QED
  BY <1>1 DEF Leq

LEMMA LeqJoin ==
  ASSUME NEW f \in EF, NEW g \in EF, NEW h \in EF, Leq(f, h), Leq(g, h)
  PROVE  Leq(combine(f, g), h)
<1>1. combine(combine(h, f), g) = combine(h, combine(f, g))
  BY CombineAssumption
<1> QED
  BY <1>1 DEF Leq

LEMMA LeqTop ==
  ASSUME NEW f \in EF
  PROVE  /\ Leq(allTop, f) /\ Leq(f, f)
         /\ Leq(f, allTop) => f = allTop
BY CombineAssumption, EdgeFunctionAssumption DEF Leq

\* A table that contains a propagation contains every smaller one.
LEMMA ContainsLess ==
  ASSUME NEW T \in Table, NEW p \in PathEdge, NEW q \in PathEdge, Contains(T, q),
         p.src = q.src, p.tgt = q.tgt, p.dst = q.dst, Leq(p.ef, q.ef)
  PROVE  Contains(T, p)
<1>1. p.ef \in EF /\ q.ef \in EF
  BY DEF PathEdge
<1>2. T[<<q.src, q.tgt, q.dst>>] \in EF
  BY DEF PathEdge, Table
<1> QED
  BY <1>1, <1>2, LeqTransitive DEF Contains

\* If T contains the flows of a larger edge function, it contains those of a
\* smaller one: along normal edges,
LEMMA NormalLess ==
  ASSUME ExtendMonotone, NEW T \in Table, NEW d1 \in Fact, NEW n \in Node,
         NEW d2 \in Fact, NEW f \in EF, NEW g \in EF, Leq(f, g),
         \A q \in NormalPushes(d1, n, d2, g) : Contains(T, q),
         NEW p \in NormalPushes(d1, n, d2, f)
  PROVE  Contains(T, p)
<1>0. PICK m \in SuccsOf(n) : \E d3 \in NormalFlow(n, m, d2) :
        p = pathEdge(d1, DestN(n, m, d3), d3, extend(f, NormalEF(n, d2, m, d3)))
  BY DEF NormalPushes
<1>1. PICK d3 \in NormalFlow(n, m, d2) :
        p = pathEdge(d1, DestN(n, m, d3), d3, extend(f, NormalEF(n, d2, m, d3)))
  BY <1>0
<1> DEFINE q == pathEdge(d1, DestN(n, m, d3), d3, extend(g, NormalEF(n, d2, m, d3)))
<1>2. q \in NormalPushes(d1, n, d2, g)
  BY DEF NormalPushes
<1>3. p \in PathEdge /\ q \in PathEdge
  BY <1>2, NormalPushesType
<1>4. m \in Node /\ d3 \in Fact
  BY ICFGAssumption, FlowTypes
<1>5. Leq(extend(f, NormalEF(n, d2, m, d3)), extend(g, NormalEF(n, d2, m, d3)))
  BY <1>4, EdgeFunctionAssumption DEF ExtendMonotone
<1>6. p.src = q.src /\ p.tgt = q.tgt /\ p.dst = q.dst /\ Leq(p.ef, q.ef)
  BY <1>1, <1>5 DEF pathEdge
<1> HIDE DEF q
<1> QED
  BY <1>2, <1>3, <1>6, ContainsLess

\* over a special summary,
LEMMA SummaryLess ==
  ASSUME ExtendMonotone, NEW T \in Table, NEW d1 \in Fact, NEW n \in Node,
         NEW d2 \in Fact, NEW f \in EF, NEW g \in EF, Leq(f, g),
         \A q \in SummaryPushes(d1, n, d2, g) : Contains(T, q),
         NEW p \in SummaryPushes(d1, n, d2, f)
  PROVE  Contains(T, p)
<1>0. PICK h \in {x \in CalleesOf(n) : HasSummaryFF(n, x)},
           r \in ReturnSitesOf(n) : \E d3 \in SummaryFF(n, h, d2) :
        p = pathEdge(d1, DestN(n, r, d3), d3, extend(f, SummaryEF(n, d2, r, d3)))
  BY DEF SummaryPushes
<1>1. PICK d3 \in SummaryFF(n, h, d2) :
        p = pathEdge(d1, DestN(n, r, d3), d3, extend(f, SummaryEF(n, d2, r, d3)))
  BY <1>0
<1> DEFINE q == pathEdge(d1, DestN(n, r, d3), d3, extend(g, SummaryEF(n, d2, r, d3)))
<1>2. q \in SummaryPushes(d1, n, d2, g)
  BY DEF SummaryPushes
<1>3. p \in PathEdge /\ q \in PathEdge
  BY <1>2, SummaryPushesType
<1>4. r \in Node /\ d3 \in Fact
  BY ICFGAssumption, FlowAssumption
<1>5. Leq(extend(f, SummaryEF(n, d2, r, d3)), extend(g, SummaryEF(n, d2, r, d3)))
  BY <1>4, EdgeFunctionAssumption DEF ExtendMonotone
<1>6. p.src = q.src /\ p.tgt = q.tgt /\ p.dst = q.dst /\ Leq(p.ef, q.ef)
  BY <1>1, <1>5 DEF pathEdge
<1> HIDE DEF q
<1> QED
  BY <1>2, <1>3, <1>6, ContainsLess

\* from a call to its return sites,
LEMMA CallToRetLess ==
  ASSUME ExtendMonotone, NEW T \in Table, NEW d1 \in Fact, NEW n \in Node,
         NEW d2 \in Fact, NEW f \in EF, NEW g \in EF, Leq(f, g),
         \A q \in CallToRetPushes(d1, n, d2, g) : Contains(T, q),
         NEW p \in CallToRetPushes(d1, n, d2, f)
  PROVE  Contains(T, p)
<1>0. PICK r \in ReturnSitesOf(n) : \E d3 \in CallToRetFlow(n, r, d2) :
        p = pathEdge(d1, DestN(n, r, d3), d3, extend(f, CallToRetEF(n, d2, r, d3)))
  BY DEF CallToRetPushes
<1>1. PICK d3 \in CallToRetFlow(n, r, d2) :
        p = pathEdge(d1, DestN(n, r, d3), d3, extend(f, CallToRetEF(n, d2, r, d3)))
  BY <1>0
<1> DEFINE q == pathEdge(d1, DestN(n, r, d3), d3, extend(g, CallToRetEF(n, d2, r, d3)))
<1>2. q \in CallToRetPushes(d1, n, d2, g)
  BY DEF CallToRetPushes
<1>3. p \in PathEdge /\ q \in PathEdge
  BY <1>2, CallToRetPushesType
<1>4. r \in Node /\ d3 \in Fact
  BY ICFGAssumption, FlowTypes
<1>5. Leq(extend(f, CallToRetEF(n, d2, r, d3)), extend(g, CallToRetEF(n, d2, r, d3)))
  BY <1>4, EdgeFunctionAssumption DEF ExtendMonotone
<1>6. p.src = q.src /\ p.tgt = q.tgt /\ p.dst = q.dst /\ Leq(p.ef, q.ef)
  BY <1>1, <1>5 DEF pathEdge
<1> HIDE DEF q
<1> QED
  BY <1>2, <1>3, <1>6, ContainsLess

\* through a callee, where the path of the callee may be smaller as well,
LEMMA ReturnLess ==
  ASSUME ExtendMonotone, NEW T \in Table, NEW d1 \in Fact, NEW n \in Node,
         NEW d2 \in Fact, NEW f \in EF, NEW g \in EF, Leq(f, g),
         NEW h \in Fun, NEW d3 \in Fact, NEW x \in Node, NEW d4 \in Fact,
         NEW fs \in EF, NEW gs \in EF, Leq(fs, gs),
         \A q \in ReturnPushes(d1, n, d2, g, h, d3, x, d4, gs) : Contains(T, q),
         NEW p \in ReturnPushes(d1, n, d2, f, h, d3, x, d4, fs)
  PROVE  Contains(T, p)
<1> DEFINE C == CallEF(n, d2, h, d3)
           R(r, d5) == ReturnEF(n, h, x, d4, r, d5)
           F(r, d5) == extend(f, extend(extend(C, fs), R(r, d5)))
           G(r, d5) == extend(g, extend(extend(C, gs), R(r, d5)))
<1>0. PICK r \in ReturnSitesOf(n) : \E d5 \in RetFlow(n, h, x, r, d4) :
        p = pathEdge(d1, DestN(n, r, d5), d5, F(r, d5))
  BY DEF ReturnPushes
<1>1. PICK d5 \in RetFlow(n, h, x, r, d4) :
        p = pathEdge(d1, DestN(n, r, d5), d5, F(r, d5))
  BY <1>0
<1> DEFINE q == pathEdge(d1, DestN(n, r, d5), d5, G(r, d5))
<1>2. q \in ReturnPushes(d1, n, d2, g, h, d3, x, d4, gs)
  BY DEF ReturnPushes
<1>3. p \in PathEdge /\ q \in PathEdge
  BY <1>2, ReturnPushesType
<1>4. r \in Node /\ d5 \in Fact
  BY ICFGAssumption, FlowTypes
<1>5. C \in EF /\ R(r, d5) \in EF
  BY <1>4, EdgeFunctionAssumption
<1>6. Leq(F(r, d5), G(r, d5))
  <2> HIDE DEF C, R
  <2>1. extend(C, fs) \in EF /\ extend(C, gs) \in EF /\ Leq(extend(C, fs), extend(C, gs))
    BY <1>5, EdgeFunctionAssumption DEF ExtendMonotone
  <2> DEFINE a == extend(extend(C, fs), R(r, d5))
             b == extend(extend(C, gs), R(r, d5))
  <2>2. a \in EF /\ b \in EF /\ Leq(a, b)
    BY <1>5, <2>1, EdgeFunctionAssumption DEF ExtendMonotone
  <2> HIDE DEF a, b
  <2>3. /\ extend(f, a) \in EF /\ extend(f, b) \in EF /\ extend(g, b) \in EF
        /\ Leq(extend(f, a), extend(f, b)) /\ Leq(extend(f, b), extend(g, b))
    BY <2>2, EdgeFunctionAssumption DEF ExtendMonotone
  <2>4. Leq(extend(f, a), extend(g, b))
    BY <2>3, LeqTransitive
  <2> QED
    BY <2>4 DEF a, b
<1>7. p.src = q.src /\ p.tgt = q.tgt /\ p.dst = q.dst /\ Leq(p.ef, q.ef)
  <2> HIDE DEF F, G
  <2> QED
    BY <1>1, <1>6 DEF pathEdge
<1> HIDE DEF q
<1> QED
  BY <1>2, <1>3, <1>7, ContainsLess

\* and past the seeds.
LEMMA UnbalancedLess ==
  ASSUME ExtendMonotone, NEW T \in Table, NEW n \in Node, NEW d2 \in Fact,
         NEW f \in EF, NEW g \in EF, Leq(f, g),
         \A q \in UnbalancedPushes(n, d2, g) : Contains(T, q),
         NEW p \in UnbalancedPushes(n, d2, f)
  PROVE  Contains(T, p)
<1> DEFINE R(c, r, d5) == ReturnEF(c, FunOf(n), n, d2, r, d5)
<1>0. PICK c \in CallersOf(FunOf(n)) : \E r \in ReturnSitesOf(c) :
        \E d5 \in RetFlow(c, FunOf(n), n, r, d2) :
          p = pathEdge(Zero, r, d5, extend(f, R(c, r, d5)))
  BY DEF UnbalancedPushes
<1>a. PICK r \in ReturnSitesOf(c) : \E d5 \in RetFlow(c, FunOf(n), n, r, d2) :
        p = pathEdge(Zero, r, d5, extend(f, R(c, r, d5)))
  BY <1>0
<1>1. PICK d5 \in RetFlow(c, FunOf(n), n, r, d2) :
        p = pathEdge(Zero, r, d5, extend(f, R(c, r, d5)))
  BY <1>a
<1> DEFINE q == pathEdge(Zero, r, d5, extend(g, R(c, r, d5)))
<1>2. q \in UnbalancedPushes(n, d2, g)
  BY DEF UnbalancedPushes
<1>3. p \in PathEdge /\ q \in PathEdge
  BY <1>2, UnbalancedPushesType
<1>4. c \in Node /\ FunOf(n) \in Fun
  BY ICFGAssumption DEF CallersOf
<1>5. r \in Node
  BY <1>4, ICFGAssumption
<1>6. d5 \in Fact
  BY <1>4, <1>5, FlowTypes
<1>7. Leq(extend(f, R(c, r, d5)), extend(g, R(c, r, d5)))
  BY <1>4, <1>5, <1>6, EdgeFunctionAssumption DEF ExtendMonotone
<1>8. p.src = q.src /\ p.tgt = q.tgt /\ p.dst = q.dst /\ Leq(p.ef, q.ef)
  <2> HIDE DEF R
  <2> QED
    BY <1>1, <1>7 DEF pathEdge
<1> HIDE DEF q
<1> QED
  BY <1>2, <1>3, <1>8, ContainsLess

\* No end summary is allTop: processExit stores one with the jump function.
SummaryNotTop == \A k \in DOMAIN EndsummaryTab : EndsummaryTab[k] # allTop

LEMMA SummaryNotTopStep ==
  ASSUME TableTypeOK, SummaryNotTop, [Next]_vars
  PROVE  SummaryNotTop'
<1>1. ASSUME EndsummaryTab' = EndsummaryTab PROVE SummaryNotTop'
  BY <1>1 DEF SummaryNotTop
<1>2. ASSUME NEW e \in WorkList, processExit(e) PROVE SummaryNotTop'
  <2>1. fPrime(e) # allTop
    BY <1>2, propagateFacts DEF processExit
  <2> QED
    BY <1>2, <2>1 DEF processExit, addEndSummary, Put, SummaryNotTop
<1> QED
  BY <1>1, <1>2, NextCases DEF submitInitialSeeds, Frame, phase1Vars,
     propagateOld, processCall, processNormalFlow

\* Everything stored and everything pending is below every solution.
Below(T) == /\ \A p \in WorkList : Contains(T, p)
            /\ \A k \in DOMAIN JumpFn : Leq(JumpFn[k], T[k])

NoInventedFlow ==
  phase # "init" => \A T \in Table : Solves(T) => Below(T)

\* What is stored after a pop is below T, and T has a path there.
LEMMA PoppedBelow ==
  ASSUME TableTypeOK, NEW T \in Table, Below(T), NEW e \in WorkList, isNewFunction(e),
         JumpFn' = addFunction(e.src, e.tgt, e.dst, fPrime(e))
  PROVE  /\ Leq(fPrime(e), T[<<e.src, e.tgt, e.dst>>])
         /\ T[<<e.src, e.tgt, e.dst>>] \in EF \ {allTop}
         /\ \A k \in DOMAIN JumpFn' : Leq(JumpFn'[k], T[k])
<1> DEFINE key == <<e.src, e.tgt, e.dst>>
           j == jumpFunction(e.src, e.tgt, e.dst)
<1>1. /\ e.ef \in EF /\ j \in EF /\ fPrime(e) \in EF \ {allTop}
      /\ T[key] \in EF
  BY propagateFacts, jumpFunctionType DEF Table
<1>2. Leq(e.ef, T[key])
  BY DEF Below, Contains
<1>3. Leq(j, T[key])
  BY <1>1, LeqTop DEF jumpFunction, Below
<1>4. Leq(fPrime(e), T[key])
  BY <1>1, <1>2, <1>3, LeqJoin DEF fPrime
<1>5. T[key] # allTop
  BY <1>1, <1>4, LeqTop
<1> HIDE DEF key, j
<1>6. \A k \in DOMAIN JumpFn' : Leq(JumpFn'[k], T[k])
  BY <1>4, propagateFacts DEF key, Below
<1> QED
  BY <1>1, <1>4, <1>5, <1>6 DEF key

\* The flows of T at a key where it has a path.
LEMMA SolvedFlows ==
  ASSUME NEW T \in Table, Solves(T), NEW d1 \in Fact, NEW n \in Node, NEW d2 \in Fact,
         T[<<d1, n, d2>>] # allTop
  PROVE  \A q \in FlowsOf(T, d1, n, d2) : Contains(T, q)
BY DEF Solves, SolvesFlows

\* A path that a table below T has through a callee, T has as well.
LEMMA CalleeLess ==
  ASSUME ExtendMonotone, NEW T \in Table, Solves(T),
         NEW d1 \in Fact, NEW n \in CallSite, NEW d2 \in Fact,
         T[<<d1, n, d2>>] # allTop, NEW f \in EF, Leq(f, T[<<d1, n, d2>>]),
         NEW sp, NEW d3, <<sp, d3>> \in Entered(n, d2),
         NEW x \in ExitInst \ CallSite, NEW d4 \in Fact, FunOf(x) = FunOf(sp),
         NEW fs \in EF \ {allTop}, Leq(fs, T[<<d3, x, d4>>]),
         NEW p \in ReturnPushes(d1, n, d2, f, FunOf(x), d3, x, d4, fs)
  PROVE  Contains(T, p)
<1>1. n \in Node /\ x \in Node /\ FunOf(x) \in Fun
  BY ICFGAssumption
<1>2. sp \in Node /\ d3 \in Fact
  BY <1>1, EnteredType
<1> DEFINE g == T[<<d1, n, d2>>]
           gs == T[<<d3, x, d4>>]
           y == <<sp, d3, x, d4>>
<1>3. g \in EF /\ gs \in EF
  BY <1>1, <1>2 DEF Table
<1>4. gs # allTop
  BY <1>3, LeqTop
<1>5. y[1] = sp /\ y[2] = d3 /\ y[3] = x /\ y[4] = d4
  OBVIOUS
<1>6. y \in CalleePaths(T, n, d2)
  BY <1>2, <1>4 DEF CalleePaths
<1> HIDE DEF y, g, gs
<1>7. ReturnPushes(d1, n, d2, g, FunOf(x), d3, x, d4, gs)
        \subseteq ThroughCallees(T, d1, n, d2, g)
  BY <1>5, <1>6 DEF ThroughCallees, gs
<1>8. ThroughCallees(T, d1, n, d2, g) \subseteq FlowsOf(T, d1, n, d2)
  BY DEF FlowsOf, g
<1>9. \A q \in ReturnPushes(d1, n, d2, g, FunOf(x), d3, x, d4, gs) : Contains(T, q)
  BY <1>1, <1>7, <1>8, SolvedFlows
<1>10. Leq(f, g) /\ Leq(fs, gs)
  BY DEF g, gs
<1> QED
  BY <1>1, <1>2, <1>3, <1>9, <1>10, ReturnLess

\* processNormalFlow and processExit: the flow to the successors.
LEMMA NormalBelow ==
  ASSUME TableTypeOK, ExtendMonotone, NEW T \in Table, Solves(T), Below(T),
         NEW e \in WorkList, isNewFunction(e), e.tgt \notin CallSite,
         JumpFn' = addFunction(e.src, e.tgt, e.dst, fPrime(e)),
         NEW p \in NormalPushes(e.src, e.tgt, e.dst, fPrime(e))
  PROVE  Contains(T, p)
<1> DEFINE g == T[<<e.src, e.tgt, e.dst>>]
<1>1. /\ e.src \in Fact /\ e.tgt \in Node /\ e.dst \in Fact
      /\ fPrime(e) \in EF /\ g \in EF \ {allTop} /\ Leq(fPrime(e), g)
  BY propagateFacts, PoppedBelow
<1>2. FlowsOf(T, e.src, e.tgt, e.dst) = NormalPushes(e.src, e.tgt, e.dst, g)
  BY DEF FlowsOf
<1>3. \A q \in NormalPushes(e.src, e.tgt, e.dst, g) : Contains(T, q)
  BY <1>1, <1>2, SolvedFlows
<1> HIDE DEF g
<1> QED
  BY <1>1, <1>3, NormalLess

\* processCall: special summaries, entries, known summaries, call to return.
LEMMA CallBelow ==
  ASSUME TableTypeOK, SummaryFresh, SummaryNotTop, ExtendMonotone,
         NEW T \in Table, Solves(T), Below(T),
         NEW e \in WorkList, isNewFunction(e), e.tgt \in CallSite,
         JumpFn' = addFunction(e.src, e.tgt, e.dst, fPrime(e)),
         NEW p \in CallPushes(e.src, e.tgt, e.dst, fPrime(e))
  PROVE  Contains(T, p)
<1> DEFINE g == T[<<e.src, e.tgt, e.dst>>]
<1>1. /\ e.src \in Fact /\ e.tgt \in Node /\ e.dst \in Fact
      /\ fPrime(e) \in EF /\ g \in EF \ {allTop} /\ Leq(fPrime(e), g)
  BY propagateFacts, PoppedBelow
<1>2. \A q \in FlowsOf(T, e.src, e.tgt, e.dst) : Contains(T, q)
  BY <1>1, SolvedFlows
<1>3. FlowsOf(T, e.src, e.tgt, e.dst) =
        SummaryPushes(e.src, e.tgt, e.dst, g) \cup EntryPushes(e.tgt, e.dst)
          \cup CallToRetPushes(e.src, e.tgt, e.dst, g)
          \cup ThroughCallees(T, e.src, e.tgt, e.dst, g)
  BY DEF FlowsOf
<1>4. CASE p \in EntryPushes(e.tgt, e.dst)
  BY <1>2, <1>3, <1>4
<1>5. CASE p \in SummaryPushes(e.src, e.tgt, e.dst, fPrime(e))
  <2>1. \A q \in SummaryPushes(e.src, e.tgt, e.dst, g) : Contains(T, q)
    BY <1>2, <1>3
  <2> HIDE DEF g
  <2> QED
    BY <1>1, <1>5, <2>1, SummaryLess
<1>6. CASE p \in CallToRetPushes(e.src, e.tgt, e.dst, fPrime(e))
  <2>1. \A q \in CallToRetPushes(e.src, e.tgt, e.dst, g) : Contains(T, q)
    BY <1>2, <1>3
  <2> HIDE DEF g
  <2> QED
    BY <1>1, <1>6, <2>1, CallToRetLess
<1>7. CASE p \in EndSummaryPushes(e.src, e.tgt, e.dst, fPrime(e))
  <2>1. PICK k \in DOMAIN EndsummaryTab :
          /\ <<k[1], k[2]>> \in Entered(e.tgt, e.dst)
          /\ p \in ReturnPushes(e.src, e.tgt, e.dst, fPrime(e), FunOf(k[1]),
                                k[2], k[3], k[4], EndsummaryTab[k])
    BY <1>7 DEF EndSummaryPushes
  <2>2. /\ k[3] \in ExitInst \ CallSite /\ k[1] \in StartPoints(FunOf(k[3]))
        /\ EndsummaryTab[k] = jumpFunction(k[2], k[3], k[4])
        /\ EndsummaryTab[k] # allTop
    BY DEF SummaryFresh, SummaryNotTop
  <2>3. EndsummaryTab[k] \in EF /\ k[4] \in Fact
    BY DEF TableTypeOK
  <2>4. FunOf(k[3]) = FunOf(k[1])
    BY <2>2, ICFGAssumption, StartPointsType
  <2>5. Leq(EndsummaryTab[k], T[<<k[2], k[3], k[4]>>])
    BY <2>2 DEF jumpFunction, Below
  <2> DEFINE fs == EndsummaryTab[k]
  <2>6. fs \in EF \ {allTop} /\ Leq(fs, T[<<k[2], k[3], k[4]>>])
        /\ p \in ReturnPushes(e.src, e.tgt, e.dst, fPrime(e), FunOf(k[3]),
                              k[2], k[3], k[4], fs)
    BY <2>1, <2>2, <2>3, <2>4, <2>5
  <2> HIDE DEF fs
  <2> QED
    BY <1>1, <2>1, <2>2, <2>3, <2>4, <2>6, CalleeLess
<1> QED
  BY <1>4, <1>5, <1>6, <1>7 DEF CallPushes

\* processExit: the flow back to the registered calls.
LEMMA ExitBelow ==
  ASSUME TableTypeOK, IncomingExact, ExtendMonotone,
         NEW T \in Table, Solves(T), Below(T),
         NEW e \in WorkList, isNewFunction(e), e.tgt \in ExitInst \ CallSite,
         JumpFn' = addFunction(e.src, e.tgt, e.dst, fPrime(e)),
         NEW p \in ExitPushes(e.src, e.tgt, e.dst, fPrime(e))
  PROVE  Contains(T, p)
<1>1. /\ e.src \in Fact /\ e.tgt \in Node /\ e.dst \in Fact
      /\ fPrime(e) \in EF \ {allTop}
      /\ Leq(fPrime(e), T[<<e.src, e.tgt, e.dst>>])
  BY propagateFacts, PoppedBelow
<1>2. PICK c \in CallSite : \E d4 \in Inc(FunOf(e.tgt), e.src, c) :
        \E d3 \in reverseLookup(c, d4) :
          p \in ReturnPushes(d3, c, d4, JumpFn[<<d3, c, d4>>], FunOf(e.tgt),
                             e.src, e.tgt, e.dst, fPrime(e))
  BY ExitPushesMember
<1>3. PICK d4 \in Inc(FunOf(e.tgt), e.src, c) : \E d3 \in reverseLookup(c, d4) :
          p \in ReturnPushes(d3, c, d4, JumpFn[<<d3, c, d4>>], FunOf(e.tgt),
                             e.src, e.tgt, e.dst, fPrime(e))
  BY <1>2
<1>4. PICK d3 \in reverseLookup(c, d4) :
          p \in ReturnPushes(d3, c, d4, JumpFn[<<d3, c, d4>>], FunOf(e.tgt),
                             e.src, e.tgt, e.dst, fPrime(e))
  BY <1>3
<1> DEFINE f == JumpFn[<<d3, c, d4>>]
<1>5. /\ d3 \in Fact /\ d4 \in Fact /\ c \in Node /\ FunOf(e.tgt) \in Fun
      /\ <<d3, c, d4>> \in DOMAIN JumpFn /\ f \in EF \ {allTop}
  BY <1>1, ICFGAssumption DEF reverseLookup, Inc, TableTypeOK
<1>6. Leq(f, T[<<d3, c, d4>>]) /\ T[<<d3, c, d4>>] # allTop
  <2>1. T[<<d3, c, d4>>] \in EF
    BY <1>5 DEF Table
  <2>2. Leq(f, T[<<d3, c, d4>>])
    BY <1>5 DEF Below
  <2> QED
    BY <1>5, <2>1, <2>2, LeqTop
<1>7. PICK sp \in StartPoints(FunOf(e.tgt)) : <<sp, e.src, c, d4>> \in IncomingTab
  BY DEF Inc, StartPoints
<1>8. <<sp, e.src>> \in Entered(c, d4)
  <2>1. PICK k \in DOMAIN JumpFn :
          k[2] \in CallSite /\ <<sp, e.src, c, d4>> \in Registered(k)
    BY <1>7, IncomingMember
  <2>2. PICK s \in Entered(k[2], k[3]) :
          <<sp, e.src, c, d4>> = <<s[1], s[2], k[2], k[3]>>
    BY <2>1 DEF Registered
  <2>3. k[2] = c /\ k[3] = d4 /\ s[1] = sp /\ s[2] = e.src
    BY <2>2
  <2>4. s \in Node \X Fact
    BY <1>5, <2>2, <2>3, EnteredType
  <2> QED
    BY <2>2, <2>3, <2>4
<1>9. FunOf(e.tgt) = FunOf(sp)
  BY <1>5, <1>7, StartPointsType
<1> HIDE DEF f
<1> QED
  BY <1>1, <1>4, <1>5, <1>6, <1>8, <1>9, CalleeLess DEF f

\* processExit: the flow past the seeds.
LEMMA UnbalancedBelow ==
  ASSUME TableTypeOK, ExtendMonotone, NEW T \in Table, Solves(T), Below(T),
         NEW e \in WorkList, isNewFunction(e), e.tgt \in ExitInst \ CallSite,
         JumpFn' = addFunction(e.src, e.tgt, e.dst, fPrime(e)),
         isUnbalanced(e.src, e.tgt),
         NEW p \in UnbalancedPushes(e.tgt, e.dst, fPrime(e))
  PROVE  Contains(T, p)
<1> DEFINE g == T[<<e.src, e.tgt, e.dst>>]
<1>1. /\ e.src \in Fact /\ e.tgt \in Node /\ e.dst \in Fact
      /\ fPrime(e) \in EF /\ g \in EF \ {allTop} /\ Leq(fPrime(e), g)
  BY propagateFacts, PoppedBelow
<1>2. \A q \in UnbalancedPushes(e.tgt, e.dst, g) : Contains(T, q)
  BY <1>1 DEF Solves, isUnbalanced
<1> HIDE DEF g
<1> QED
  BY <1>1, <1>2, UnbalancedLess

\* The seeds are below every solution.
LEMMA SeedsBelow ==
  ASSUME NoJumpFnYet, submitInitialSeeds
  PROVE  NoInventedFlow'
<1> SUFFICES ASSUME NEW T \in Table, Solves(T)' PROVE Below(T)'
  BY DEF NoInventedFlow
<1>1. \A k \in DOMAIN Seeds' : Contains(T, pathEdge(k[2], k[1], k[2], IdentityEdge))
  BY DEF Solves, SolvesFlows
<1>2. WorkList' = {pathEdge(k[2], k[1], k[2], IdentityEdge) : k \in DOMAIN Seeds'}
  BY DEF submitInitialSeeds
<1>3. DOMAIN JumpFn' = {}
  BY DEF submitInitialSeeds, NoJumpFnYet
<1> QED
  BY <1>1, <1>2, <1>3 DEF Below

\* No step leaves the bound of a solution.
LEMMA NoInventedFlowStep ==
  ASSUME ExtendMonotone, Phase1Inv, SummaryNotTop, NoInventedFlow, [Next]_vars
  PROVE  NoInventedFlow'
<1>1. CASE submitInitialSeeds
  BY <1>1, SeedsBelow DEF Phase1Inv
<1>2. CASE Frame
  <2>1. ASSUME NEW T PROVE Solves(T)' = Solves(T) /\ Below(T)' = Below(T)
    BY <1>2 DEF Frame, phase1Vars, Solves, SolvesFlows, Below
  <2> QED
    BY <1>2, <2>1 DEF Frame, NoInventedFlow
<1>3. ASSUME NEW e \in WorkList, phase = "tabulate", UNCHANGED <<Seeds, phase>>,
             propagateOld(e) \/ processCall(e) \/ processNormalFlow(e) \/ processExit(e)
      PROVE  NoInventedFlow'
  <2> SUFFICES ASSUME NEW T \in Table, Solves(T)' PROVE Below(T)'
    BY DEF NoInventedFlow
  <2>1. Solves(T)
    BY <1>3 DEF Solves, SolvesFlows
  <2>2. Below(T) /\ TableTypeOK /\ IncomingExact /\ SummaryFresh
    BY <1>3, <2>1 DEF NoInventedFlow, Phase1Inv
  <2>3. CASE propagateOld(e)
    BY <2>2, <2>3 DEF propagateOld, Below
  <2>4. ASSUME isNewFunction(e),
               JumpFn' = addFunction(e.src, e.tgt, e.dst, fPrime(e)),
               \A p \in WorkList' : p \in WorkList \/ Contains(T, p)
        PROVE  Below(T)'
    <3>1. \A k \in DOMAIN JumpFn' : Leq(JumpFn'[k], T[k])
      BY <2>2, <2>4, PoppedBelow
    <3> QED
      BY <2>2, <2>4, <3>1 DEF Below
  <2>5. CASE processCall(e)
    <3>1. \A p \in CallPushes(e.src, e.tgt, e.dst, fPrime(e)) : Contains(T, p)
      BY <2>1, <2>2, <2>5, CallBelow DEF processCall
    <3> QED
      BY <2>4, <2>5, <3>1 DEF processCall
  <2>6. CASE processNormalFlow(e)
    <3>1. \A p \in NormalPushes(e.src, e.tgt, e.dst, fPrime(e)) : Contains(T, p)
      BY <2>1, <2>2, <2>6, NormalBelow DEF processNormalFlow
    <3> QED
      BY <2>4, <2>6, <3>1 DEF processNormalFlow
  <2>7. CASE processExit(e)
    <3>1. \A p \in NormalPushes(e.src, e.tgt, e.dst, fPrime(e)) : Contains(T, p)
      BY <2>1, <2>2, <2>7, NormalBelow DEF processExit
    <3>2. \A p \in ExitPushes(e.src, e.tgt, e.dst, fPrime(e)) : Contains(T, p)
      BY <2>1, <2>2, <2>7, ExitBelow DEF processExit
    <3>3. isUnbalanced(e.src, e.tgt) =>
            \A p \in UnbalancedPushes(e.tgt, e.dst, fPrime(e)) : Contains(T, p)
      BY <2>1, <2>2, <2>7, UnbalancedBelow DEF processExit
    <3> QED
      BY <2>4, <2>7, <3>1, <3>2, <3>3 DEF processExit
  <2> QED
    BY <1>3, <2>3, <2>5, <2>6, <2>7
<1> QED
  BY <1>1, <1>2, <1>3, NextCases

(***************************************************************************)
(* No flow is invented: at every moment everything that is stored or       *)
(* pending is below every solution of the flow equations, so the solver    *)
(* never reports a flow along a path that no call and its return explain,  *)
(* in whatever order worklist entries, calls and summaries meet            *)
(* (propagate, processCall, processExit; the precision half of Phase I).   *)
(***************************************************************************)
THEOREM NoFlowIsInvented ==
  ASSUME ExtendMonotone
  PROVE  Spec => []NoInventedFlow
<1>1. Init => Phase1Inv /\ SummaryNotTop /\ NoInventedFlow
  BY Phase1InvInit DEF Init, SummaryNotTop, NoInventedFlow
<1>2. Phase1Inv /\ SummaryNotTop /\ NoInventedFlow /\ [Next]_vars
        => (Phase1Inv /\ SummaryNotTop /\ NoInventedFlow)'
  <2> SUFFICES ASSUME Phase1Inv, SummaryNotTop, NoInventedFlow, [Next]_vars
               PROVE  Phase1Inv' /\ SummaryNotTop' /\ NoInventedFlow'
    OBVIOUS
  <2>1. TableTypeOK
    BY DEF Phase1Inv
  <2> QED
    BY <2>1, Phase1InvStep, SummaryNotTopStep, NoInventedFlowStep
<1> QED
  BY <1>1, <1>2, PTL DEF Spec

\* The jump functions as a table of their own, allTop where nothing is stored.
JumpFunctionTable ==
  [k \in Fact \X Node \X Fact |-> jumpFunction(k[1], k[2], k[3])]

\* A propagation is covered when the table contains it.
LEMMA TableContains ==
  ASSUME TableTypeOK
  PROVE  /\ JumpFunctionTable \in Table
         /\ \A d1 \in Fact, n \in Node, d2 \in Fact :
              JumpFunctionTable[<<d1, n, d2>>] = jumpFunction(d1, n, d2)
         /\ \A p \in PathEdge : Covered(p) <=> Contains(JumpFunctionTable, p)
<1>1. JumpFunctionTable \in Table
  BY jumpFunctionType DEF JumpFunctionTable, Table
<1>2. \A d1 \in Fact, n \in Node, d2 \in Fact :
        JumpFunctionTable[<<d1, n, d2>>] = jumpFunction(d1, n, d2)
  BY DEF JumpFunctionTable
<1>3. ASSUME NEW p \in PathEdge
      PROVE  Covered(p) <=> Contains(JumpFunctionTable, p)
  <2>1. p.src \in Fact /\ p.tgt \in Node /\ p.dst \in Fact
    BY DEF PathEdge
  <2>2. JumpFunctionTable[<<p.src, p.tgt, p.dst>>] = jumpFunction(p.src, p.tgt, p.dst)
    BY <1>2, <2>1
  <2> QED
    BY <2>2 DEF Covered, Contains, Leq
<1> QED
  BY <1>1, <1>2, <1>3

\* What the equations ask of the jump functions are the duties of the solver:
\* a path through a callee has its end summary at every start point.
LEMMA FlowsAreDuties ==
  ASSUME TableTypeOK, SummaryFresh, NEW d1 \in Fact, NEW n \in Node, NEW d2 \in Fact
  PROVE  FlowsOf(JumpFunctionTable, d1, n, d2) \subseteq Obliged(d1, n, d2)
<1> DEFINE f == jumpFunction(d1, n, d2)
<1>1. JumpFunctionTable[<<d1, n, d2>>] = f
  BY TableContains
<1>2. CASE n \notin CallSite
  BY <1>1, <1>2 DEF FlowsOf, Obliged
<1>3. CASE n \in CallSite
  <2>1. ThroughCallees(JumpFunctionTable, d1, n, d2, f)
          \subseteq EndSummaryPushes(d1, n, d2, f)
    <3> HIDE DEF f
    <3> SUFFICES ASSUME NEW y \in CalleePaths(JumpFunctionTable, n, d2)
                 PROVE  ReturnPushes(d1, n, d2, f, FunOf(y[1]), y[2], y[3], y[4],
                                     JumpFunctionTable[<<y[2], y[3], y[4]>>])
                          \subseteq EndSummaryPushes(d1, n, d2, f)
      BY DEF ThroughCallees
    <3>1. /\ y \in Node \X Fact \X (ExitInst \ CallSite) \X Fact
          /\ <<y[1], y[2]>> \in Entered(n, d2)
          /\ FunOf(y[3]) = FunOf(y[1])
          /\ JumpFunctionTable[<<y[2], y[3], y[4]>>] # allTop
      BY DEF CalleePaths
    <3>2. /\ y[1] \in Node /\ y[2] \in Fact /\ y[3] \in ExitInst \ CallSite
          /\ y[4] \in Fact /\ y[3] \in Node /\ y = <<y[1], y[2], y[3], y[4]>>
      BY <3>1, ICFGAssumption
    <3>3. JumpFunctionTable[<<y[2], y[3], y[4]>>] = jumpFunction(y[2], y[3], y[4])
      BY <3>2, TableContains
    <3> DEFINE k == <<y[2], y[3], y[4]>>
    <3>4. k \in DOMAIN JumpFn
      BY <3>1, <3>3 DEF jumpFunction
    <3>5. y[1] \in StartPoints(FunOf(y[3]))
      <4>1. PICK g \in CalleesOf(n) : y[1] \in StartPoints(g)
        BY <3>1, EnteredType
      <4> QED
        BY <3>1, <4>1, ICFGAssumption, StartPointsType
    <3>6. k[1] = y[2] /\ k[2] = y[3] /\ k[3] = y[4]
      OBVIOUS
    <3> HIDE DEF k
    <3>7. y \in DOMAIN EndsummaryTab
      <4>1. <<y[1], k[1], k[2], k[3]>> \in DOMAIN EndsummaryTab
        BY <3>2, <3>4, <3>5, <3>6 DEF SummaryFresh
      <4> QED
        BY <3>2, <3>6, <4>1
    <3>8. EndsummaryTab[y] = jumpFunction(y[2], y[3], y[4])
      BY <3>7 DEF SummaryFresh
    <3> QED
      BY <3>1, <3>3, <3>7, <3>8 DEF EndSummaryPushes
  <2>2. FlowsOf(JumpFunctionTable, d1, n, d2) =
          SummaryPushes(d1, n, d2, f) \cup EntryPushes(n, d2)
            \cup CallToRetPushes(d1, n, d2, f)
            \cup ThroughCallees(JumpFunctionTable, d1, n, d2, f)
    BY <1>1, <1>3 DEF FlowsOf
  <2>3. Obliged(d1, n, d2) = CallPushes(d1, n, d2, f)
    BY <1>3 DEF Obliged
  <2> HIDE DEF f
  <2> QED
    BY <2>1, <2>2, <2>3 DEF CallPushes
<1> QED
  BY <1>2, <1>3

\* When Phase I has ended: the jump functions solve the flow equations and are
\* below every solution.  (Without followReturnsPastSeeds Solves and
\* SolvesFlows are the same.)
LeastJumpFunctions ==
  (WorkList = {} /\ phase # "init") =>
    /\ SolvesFlows(JumpFunctionTable)
    /\ \A T \in Table : Solves(T) =>
         \A k \in Fact \X Node \X Fact : Leq(JumpFunctionTable[k], T[k])

\* An empty worklist leaves nothing to ask for.
LEMMA FixpointSolves ==
  ASSUME Phase1Inv, WorkList = {}, phase # "init"
  PROVE  SolvesFlows(JumpFunctionTable)
<1>1. TableTypeOK /\ SummaryFresh /\ NoLostFlow
  BY DEF Phase1Inv
<1>2. \A p : Propagated(p) => Covered(p)
  BY DEF Propagated
<1>3. ASSUME NEW k \in DOMAIN Seeds
      PROVE  Contains(JumpFunctionTable, pathEdge(k[2], k[1], k[2], IdentityEdge))
  <2>1. k[1] \in Node /\ k[2] \in Fact
    BY <1>1 DEF TableTypeOK
  <2>2. pathEdge(k[2], k[1], k[2], IdentityEdge) \in PathEdge
    BY <2>1, EdgeFunctionAssumption, pathEdgeType
  <2>3. Covered(pathEdge(k[2], k[1], k[2], IdentityEdge))
    BY <1>1, <1>2 DEF NoLostFlow
  <2> QED
    BY <1>1, <2>2, <2>3, TableContains
<1>4. ASSUME NEW d1 \in Fact, NEW n \in Node, NEW d2 \in Fact,
             JumpFunctionTable[<<d1, n, d2>>] # allTop,
             NEW p \in FlowsOf(JumpFunctionTable, d1, n, d2)
      PROVE  Contains(JumpFunctionTable, p)
  <2> DEFINE k == <<d1, n, d2>>
  <2>1. k[1] = d1 /\ k[2] = n /\ k[3] = d2
    OBVIOUS
  <2>2. k \in DOMAIN JumpFn
    BY <1>1, <1>4, TableContains DEF jumpFunction
  <2>3. p \in Obliged(d1, n, d2)
    BY <1>1, <1>4, FlowsAreDuties
  <2> HIDE DEF k
  <2>4. p \in PathEdge /\ Covered(p)
    BY <1>1, <1>2, <2>1, <2>2, <2>3, ObligedType DEF NoLostFlow
  <2> QED
    BY <1>1, <2>4, TableContains
<1> QED
  BY <1>3, <1>4 DEF SolvesFlows

(***************************************************************************)
(* The table of Phase I is the least solution of the flow equations:       *)
(* nothing is missing and nothing is invented when next() returns false,   *)
(* so (unless returns past the seeds are followed) the result does not     *)
(* depend on the order of the worklist (doNext, processCall, processExit). *)
(***************************************************************************)
THEOREM JumpFunctionsAreLeast ==
  ASSUME ExtendMonotone
  PROVE  Spec => []LeastJumpFunctions
<1>1. Phase1Inv /\ NoInventedFlow => LeastJumpFunctions
  <2> SUFFICES ASSUME Phase1Inv, NoInventedFlow, WorkList = {}, phase # "init"
               PROVE  /\ SolvesFlows(JumpFunctionTable)
                      /\ \A T \in Table : Solves(T) =>
                           \A k \in Fact \X Node \X Fact :
                             Leq(JumpFunctionTable[k], T[k])
    BY DEF LeastJumpFunctions
  <2>1. ASSUME NEW T \in Table, Solves(T), NEW k \in Fact \X Node \X Fact
        PROVE  Leq(JumpFunctionTable[k], T[k])
    <3>1. Below(T) /\ T[k] \in EF
      BY <2>1 DEF NoInventedFlow, Table
    <3>2. k = <<k[1], k[2], k[3]>>
      BY <2>1
    <3>3. JumpFunctionTable[k] = IF k \in DOMAIN JumpFn THEN JumpFn[k] ELSE allTop
      BY <2>1, <3>2 DEF JumpFunctionTable, jumpFunction
    <3> QED
      BY <3>1, <3>3, LeqTop DEF Below
  <2> QED
    BY <2>1, FixpointSolves
<1> QED
  BY <1>1, Phase1Invariant, NoFlowIsInvented, PTL

-----------------------------------------------------------------------------
(***************************************************************************)
(* Phase II: no value is invented.  A solution V of the value equations is *)
(* an assignment to all facts at all nodes that contains the seeds, along  *)
(* the jump and call functions whatever starts at a fact that is seeded or *)
(* has a value, and the evaluation of the other nodes.                     *)
(***************************************************************************)
ValueLeq(v, w) == join(w, v) = w

\* An update may read its source before the last value has arrived there, and
\* edge functions need not be monotone (a BinOp of the linear constant analysis
\* maps Top to Bottom), so V has to admit what comes of every smaller value.
\* For a monotone edge function that is what comes of V itself.
Assignment == [Node \X Fact -> Value]
Admits(V, u) ==
  \A v \in Value : ValueLeq(v, V[u.src]) => ValueLeq(applyFunction(u.ef, v), V[u.dst])

SolvesValues(V) ==
  /\ \A k \in DOMAIN AllSeeds : ValueLeq(AllSeeds[k], V[k])
  /\ \A k \in Node \X Fact : (k \in DOMAIN AllSeeds \/ V[k] # Top) =>
       \A u \in valuePropagationTask(k[1], k[2]) : Admits(V, u)
  /\ \A n \in NonCallStartNodes : \A u \in evaluation(n) : Admits(V, u)

\* Every value and every pending update is below V.
ValuesBelow(V) ==
  /\ \A k \in DOMAIN ValTab : ValueLeq(ValTab[k], V[k])
  /\ \A k \in ValuePropWL : V[k] # Top
  /\ \A u \in Pending : Admits(V, u)

NoInventedValue == \A V \in Assignment : SolvesValues(V) => ValuesBelow(V)

\* Before Phase II nothing has happened, and only nodes that the ICFG lists
\* are evaluated.
PhaseOrder == /\ ValuesUntouched
              /\ NodesTodo \subseteq NonCallStartNodes
              /\ phase = "values" => NodesTodo = {}

LEMMA PhaseOrderStep ==
  ASSUME PhaseOrder, [Next]_vars
  PROVE  PhaseOrder'
<1>1. CASE submitInitialSeeds \/ doNext \/ UNCHANGED vars
  BY <1>1 DEF submitInitialSeeds, doNext, vars, phase2Vars, PhaseOrder, ValuesUntouched
<1>2. CASE doFinalize
  BY <1>2 DEF doFinalize, PhaseOrder, ValuesUntouched
<1>3. CASE submitInitialValue \/ nextValue \/ propagateValue
  BY <1>3 DEF submitInitialValue, nextValue, propagateValue, PhaseOrder, ValuesUntouched
<1>4. CASE startComputation \/ valueComputationTask \/ computeValue \/ endComputation
  BY <1>4 DEF startComputation, valueComputationTask, computeValue, endComputation,
     phase2Vars, PhaseOrder, ValuesUntouched
<1> QED
  BY <1>1, <1>2, <1>3, <1>4 DEF Next, Phase1, Phase2

\* The order of the values.
LEMMA ValueLeqJoin ==
  ASSUME NEW v \in Value, NEW w \in Value, NEW x \in Value,
         ValueLeq(v, x), ValueLeq(w, x)
  PROVE  ValueLeq(join(v, w), x)
<1>1. join(join(x, v), w) = join(x, join(v, w))
  BY JoinAssumption
<1> QED
  BY <1>1 DEF ValueLeq

LEMMA ValueLeqTop ==
  ASSUME NEW v \in Value
  PROVE  ValueLeq(Top, v) /\ (ValueLeq(v, Top) => v = Top)
BY JoinAssumption, ValueAssumption DEF ValueLeq

\* A lookup is below V.
LEMMA valBelow ==
  ASSUME NEW V \in Assignment, ValuesBelow(V), NEW k \in Node \X Fact
  PROVE  ValueLeq(val(k), V[k]) /\ V[k] \in Value
<1>1. V[k] \in Value
  BY DEF Assignment
<1> QED
  BY <1>1, ValueLeqTop DEF val, ValuesBelow

\* An update writes a value that is below V.
LEMMA UpdateBelow ==
  ASSUME ValueTypeOK, NEW V \in Assignment, ValuesBelow(V),
         NEW u \in Pending
  PROVE  /\ u.dst \in Node \X Fact
         /\ ValueLeq(join(val(u.dst), applyFunction(u.ef, val(u.src))), V[u.dst])
<1>1. u.src \in Node \X Fact /\ u.dst \in Node \X Fact /\ u.ef \in EF
  BY DEF ValueTypeOK, ValueUpdate
<1>2. /\ val(u.src) \in Value /\ V[u.src] \in Value /\ ValueLeq(val(u.src), V[u.src])
      /\ val(u.dst) \in Value /\ V[u.dst] \in Value /\ ValueLeq(val(u.dst), V[u.dst])
  BY <1>1, valBelow, valType
<1> DEFINE a == applyFunction(u.ef, val(u.src))
<1>3. a \in Value
  BY <1>1, <1>2, ValueAssumption
<1>4. ValueLeq(a, V[u.dst])
  BY <1>2 DEF ValuesBelow, Admits
<1> HIDE DEF a
<1>5. ValueLeq(join(val(u.dst), a), V[u.dst])
  BY <1>2, <1>3, <1>4, ValueLeqJoin
<1> QED
  BY <1>1, <1>5 DEF a

\* Writing such a value keeps the table below V.
LEMMA setValBelow ==
  ASSUME NEW V \in Assignment, ValuesBelow(V), NEW k, NEW v, ValueLeq(v, V[k]),
         ValTab' = setVal(k, v)
  PROVE  \A x \in DOMAIN ValTab' : ValueLeq(ValTab'[x], V[x])
BY DEF setVal, Put, ValuesBelow

\* Phase II never leaves the bound of a solution.
LEMMA ValuesBelowStep ==
  ASSUME TableTypeOK, ValueTypeOK, SeedsPending, PhaseOrder,
         NEW V \in Assignment, SolvesValues(V), ValuesBelow(V), Phase2
  PROVE  ValuesBelow(V)'
<1>1. CASE submitInitialValue
  <2>1. PICK k \in SeedsTodo :
          /\ ValTab' = setVal(k, join(AllSeeds[k], val(k)))
          /\ Pending' = valuePropagationTask(k[1], k[2])
    BY <1>1 DEF submitInitialValue
  <2>2. k \in DOMAIN AllSeeds /\ k \in Node \X Fact /\ AllSeeds[k] \in Value
    BY AllSeedsType DEF SeedsPending
  <2>3. val(k) \in Value /\ V[k] \in Value /\ ValueLeq(val(k), V[k])
    BY <2>2, valBelow, valType
  <2>4. ValueLeq(join(AllSeeds[k], val(k)), V[k])
    BY <2>2, <2>3, ValueLeqJoin DEF SolvesValues
  <2>5. \A x \in DOMAIN ValTab' : ValueLeq(ValTab'[x], V[x])
    BY <2>1, <2>4, setValBelow
  <2>6. \A u \in Pending' : Admits(V, u)
    BY <2>1, <2>2 DEF SolvesValues
  <2>7. ValuePropWL' = ValuePropWL
    BY <1>1 DEF submitInitialValue
  <2> QED
    BY <2>5, <2>6, <2>7 DEF ValuesBelow
<1>2. CASE nextValue
  <2>1. PICK k \in ValuePropWL :
          /\ ValuePropWL' = ValuePropWL \ {k}
          /\ Pending' = valuePropagationTask(k[1], k[2])
    BY <1>2 DEF nextValue
  <2>2. k \in Node \X Fact /\ V[k] # Top
    BY DEF ValueTypeOK, ValuesBelow
  <2>3. \A u \in Pending' : Admits(V, u)
    BY <2>1, <2>2 DEF SolvesValues
  <2>4. ValTab' = ValTab
    BY <1>2 DEF nextValue
  <2> QED
    BY <2>1, <2>3, <2>4 DEF ValuesBelow
<1>3. CASE propagateValue
  <2> DEFINE L(u) == join(val(u.dst), applyFunction(u.ef, val(u.src)))
  <2>1. PICK u \in Pending :
          /\ Pending' = Pending \ {u}
          /\ IF L(u) = val(u.dst)
             THEN UNCHANGED <<ValTab, ValuePropWL>>
             ELSE /\ ValTab' = setVal(u.dst, L(u))
                  /\ ValuePropWL' = ValuePropWL \cup {u.dst}
    BY <1>3 DEF propagateValue
  <2>2. u.dst \in Node \X Fact /\ ValueLeq(L(u), V[u.dst]) /\ L(u) \in Value
    BY UpdateBelow, UpdateType
  <2>3. CASE L(u) = val(u.dst)
    BY <2>1, <2>3 DEF ValuesBelow
  <2>4. CASE L(u) # val(u.dst)
    <3>1. ValTab' = setVal(u.dst, L(u)) /\ ValuePropWL' = ValuePropWL \cup {u.dst}
      BY <2>1, <2>4
    <3>2. L(u) # Top
      <4>1. val(u.dst) \in Value /\ applyFunction(u.ef, val(u.src)) \in Value
        BY valType, ValueAssumption DEF ValueTypeOK, ValueUpdate
      <4> DEFINE a == val(u.dst)
                 b == applyFunction(u.ef, val(u.src))
      <4>2. join(a, join(a, b)) = join(a, b) /\ join(a, Top) = a
        <5>1. join(join(a, a), b) = join(a, join(a, b)) /\ join(a, a) = a
          BY <4>1, JoinAssumption
        <5>2. join(a, Top) = join(Top, a) /\ join(Top, a) = a
          BY <4>1, JoinAssumption, ValueAssumption
        <5> QED
          BY <5>1, <5>2
      <4> QED
        BY <2>4, <4>2
    <3>3. V[u.dst] # Top
      BY <2>2, <3>2, ValueLeqTop
    <3> HIDE DEF L
    <3>4. \A x \in DOMAIN ValTab' : ValueLeq(ValTab'[x], V[x])
      BY <2>2, <3>1, setValBelow
    <3>5. (\A k \in ValuePropWL' : V[k] # Top) /\ \A w \in Pending' : Admits(V, w)
      BY <2>1, <3>1, <3>3 DEF ValuesBelow
    <3> QED
      BY <3>4, <3>5 DEF ValuesBelow
  <2> QED
    BY <2>3, <2>4
<1>4. CASE startComputation \/ endComputation
  BY <1>4 DEF startComputation, endComputation, phase2Vars, ValuesBelow
<1>5. CASE valueComputationTask
  <2>1. PICK n \in NodesTodo : Pending' = evaluation(n)
    BY <1>5 DEF valueComputationTask
  <2>2. \A u \in Pending' : Admits(V, u)
    BY <2>1 DEF SolvesValues, PhaseOrder
  <2>3. UNCHANGED <<ValTab, ValuePropWL>>
    BY <1>5 DEF valueComputationTask
  <2> QED
    BY <2>2, <2>3 DEF ValuesBelow
<1>6. CASE computeValue
  <2> DEFINE L(u) == join(val(u.dst), applyFunction(u.ef, val(u.src)))
  <2>1. PICK u \in Pending : Pending' = Pending \ {u} /\ ValTab' = setVal(u.dst, L(u))
    BY <1>6 DEF computeValue
  <2>2. ValueLeq(L(u), V[u.dst])
    BY UpdateBelow
  <2> HIDE DEF L
  <2>3. \A x \in DOMAIN ValTab' : ValueLeq(ValTab'[x], V[x])
    BY <2>1, <2>2, setValBelow
  <2>4. ValuePropWL' = ValuePropWL
    BY <1>6 DEF computeValue
  <2> QED
    BY <2>1, <2>3, <2>4 DEF ValuesBelow
<1> QED
  BY <1>1, <1>2, <1>3, <1>4, <1>5, <1>6 DEF Phase2

\* Every step.
LEMMA NoInventedValueStep ==
  ASSUME TableTypeOK, ValueTypeOK, SeedsPending, PhaseOrder,
         NoInventedValue, [Next]_vars
  PROVE  NoInventedValue'
<1> SUFFICES ASSUME NEW V \in Assignment, SolvesValues(V)' PROVE ValuesBelow(V)'
  BY DEF NoInventedValue
<1>1. CASE Phase1
  <2>1. phase \in {"init", "tabulate"} /\ UNCHANGED <<ValTab, ValuePropWL, Pending>>
    BY <1>1 DEF Phase1, submitInitialSeeds, doNext, doFinalize, phase2Vars
  <2> QED
    BY <2>1 DEF PhaseOrder, ValuesUntouched, ValuesBelow
<1>2. CASE Phase2 \/ UNCHANGED vars
  <2>1. UNCHANGED <<Seeds, phase1Vars>>
    BY <1>2 DEF Phase2, submitInitialValue, nextValue, propagateValue, startComputation,
       valueComputationTask, computeValue, endComputation, vars
  <2>2. SolvesValues(V)
    BY <2>1, SameTasks DEF SolvesValues
  <2>3. ValuesBelow(V)
    BY <2>2 DEF NoInventedValue
  <2> QED
    BY <1>2, <2>2, <2>3, ValuesBelowStep DEF vars, phase2Vars, ValuesBelow
<1> QED
  BY <1>1, <1>2 DEF Next

(***************************************************************************)
(* No value is invented: whatever the order of the seeds, of ValuePropWL   *)
(* and of the evaluated nodes, every value stays below every solution of   *)
(* the value equations (setVal, propagateValueAtStart and AtCall,          *)
(* valueComputationTask).                                                  *)
(***************************************************************************)
THEOREM NoValueIsInvented == Spec => []NoInventedValue
<1> DEFINE Inv == TableTypeOK /\ ValueTypeOK /\ SeedsPending /\ PhaseOrder
                    /\ NoInventedValue
<1>1. Init => Inv
  <2> SUFFICES ASSUME Init PROVE Inv
    OBVIOUS
  <2>1. ValueTypeOK /\ SeedsPending /\ PhaseOrder
    BY DEF Init, ValueTypeOK, SeedsPending, PhaseOrder, ValuesUntouched
  <2>2. NoInventedValue
    BY DEF Init, NoInventedValue, ValuesBelow
  <2> QED
    BY <2>1, <2>2, TableTypeInit
<1>2. Inv /\ [Next]_vars => Inv'
  BY TableTypeStep, ValueTypeStep, SeedsPendingStep, PhaseOrderStep, NoInventedValueStep
<1>3. Inv => NoInventedValue
  OBVIOUS
<1> HIDE DEF Inv
<1> QED
  BY <1>1, <1>2, <1>3, PTL DEF Spec

=============================================================================
