------------------------------ MODULE IDESolver ------------------------------
(***************************************************************************)
(* PhASAR's IDE solver (include/phasar/DataFlow/IfdsIde/Solver/IDESolver.h)*)
(*                                                                         *)
(* Phase I tabulates jump functions with a worklist: `next` pops one       *)
(* pending propagation, joins it into the jump-function table and, when    *)
(* that changed the table, processes the path edge as a call, as an exit   *)
(* and/or as a normal flow.  Phase II pushes seed values along call edges  *)
(* (ValuePropWL) and then evaluates the jump functions at all other nodes. *)
(*                                                                         *)
(* The inter-procedural CFG and the analysis problem are parameters.  The  *)
(* worklists are vectors in the code (popped at the back, filled in the    *)
(* iteration order of hash and tree containers); here they are sets from   *)
(* which any element may be taken, which covers every such order.          *)
(***************************************************************************)
EXTENDS Integers, Sequences

CONSTANTS
  \* The ICFG: n_t, f_t and the queries IDESolver makes of it.
  Node, Fun, FunOf(_), StartPointsOf(_), ExitInst, CallSite, SuccsOf(_),
  ReturnSitesOf(_), CalleesOf(_), NonCallStartNodes, NextUser(_, _), NoNode,
  \* The flow functions of the problem.
  Fact, Zero, NormalFF(_, _, _), CallFF(_, _, _), RetFF(_, _, _, _, _),
  CallToRetFF(_, _, _), HasSummaryFF(_, _), SummaryFF(_, _, _),
  \* The edge functions of the problem and their algebra: allTopFunction(),
  \* EdgeIdentity, the get...EdgeFunction queries, extend, combine and
  \* computeTarget.
  EF, allTop, IdentityEdge, NormalEF(_, _, _, _), CallEF(_, _, _, _),
  ReturnEF(_, _, _, _, _, _), CallToRetEF(_, _, _, _), SummaryEF(_, _, _, _),
  extend(_, _), combine(_, _), applyFunction(_, _),
  \* The value lattice, the maps that initialSeeds() may return and the
  \* solver configuration.
  Value, Top, Bottom, join(_, _), InitialSeeds,
  AutoAddZero, FollowReturnsPastSeeds, ComputeValues

StartPoints(f) == {StartPointsOf(f)[i] : i \in 1 .. Len(StartPointsOf(f))}

(***************************************************************************)
(* What the solver relies on: the ICFG answers with its own nodes and      *)
(* functions, and the edge functions and the values form join semilattices *)
(* whose neutral elements are allTop and Top.                              *)
(***************************************************************************)
ASSUME ICFGAssumption ==
  /\ CallSite \subseteq Node /\ ExitInst \subseteq Node
  /\ NonCallStartNodes \subseteq Node \ CallSite
  /\ NoNode \notin Node
  /\ \A n \in Node : /\ FunOf(n) \in Fun
                     /\ SuccsOf(n) \subseteq Node
                     /\ ReturnSitesOf(n) \subseteq Node
                     /\ CalleesOf(n) \subseteq Fun
                     /\ \A d \in Fact : NextUser(n, d) \in Node \cup {NoNode}
  /\ \A f \in Fun : /\ StartPointsOf(f) \in Seq(Node)
                    /\ \A n \in StartPoints(f) : FunOf(n) = f

ASSUME FlowAssumption ==
  /\ Zero \in Fact
  /\ \A n, m \in Node, d \in Fact : /\ NormalFF(n, m, d) \subseteq Fact
                                    /\ CallToRetFF(n, m, d) \subseteq Fact
  /\ \A n \in Node, f \in Fun, d \in Fact :
       /\ CallFF(n, f, d) \subseteq Fact
       /\ SummaryFF(n, f, d) \subseteq Fact
       /\ HasSummaryFF(n, f) \in BOOLEAN
       /\ \A e, r \in Node : RetFF(n, f, e, r, d) \subseteq Fact

ASSUME EdgeFunctionAssumption ==
  /\ allTop \in EF /\ IdentityEdge \in EF
  /\ \A n, m \in Node, d, e \in Fact :
       /\ NormalEF(n, d, m, e) \in EF
       /\ CallToRetEF(n, d, m, e) \in EF
       /\ SummaryEF(n, d, m, e) \in EF
       /\ \A f \in Fun : /\ CallEF(n, d, f, e) \in EF
                         /\ \A x \in Node : ReturnEF(n, f, x, d, m, e) \in EF
  /\ \A f, g \in EF : extend(f, g) \in EF /\ combine(f, g) \in EF

ASSUME CombineAssumption ==
  /\ \A f \in EF : combine(f, f) = f /\ combine(allTop, f) = f
  /\ \A f, g \in EF : combine(f, g) = combine(g, f)
  /\ \A f, g, h \in EF : combine(combine(f, g), h) = combine(f, combine(g, h))

ASSUME ValueAssumption ==
  /\ Top \in Value /\ Bottom \in Value
  /\ \A f \in EF, v \in Value : applyFunction(f, v) \in Value
  /\ \A v, w \in Value : join(v, w) \in Value
  /\ \A s \in InitialSeeds : /\ DOMAIN s \subseteq Node \X Fact
                              /\ \A k \in DOMAIN s : s[k] \in Value
  /\ AutoAddZero \in BOOLEAN
  /\ FollowReturnsPastSeeds \in BOOLEAN
  /\ ComputeValues \in BOOLEAN

ASSUME JoinAssumption ==
  /\ \A v \in Value : join(v, v) = v /\ join(Top, v) = v
  /\ \A v, w \in Value : join(v, w) = join(w, v)
  /\ \A v, w, x \in Value : join(join(v, w), x) = join(v, join(w, x))

VARIABLES
  Seeds,              \* <<n, d>> -> value: the seeds, later with the zeros
  WorkList,           \* pending propagations
  JumpFn,             \* <<d1, n, d2>> -> edge function; allTop is not stored
  IncomingTab,        \* <<sp, d3, call, d2>>: d2 at call enters sp as d3
  EndsummaryTab,      \* <<sp, d1, exit, d2>> -> edge function
  UnbalancedRetSites, \* return sites entered without an incoming call
  ValTab,             \* <<n, d>> -> value; absent means Top
  ValuePropWL,        \* <<n, d>> whose value changed
  Pending,            \* value updates the running task has still to make
  SeedsTodo,          \* seeds that submitInitialValues has still to submit
  NodesTodo,          \* nodes that valueComputationTask has still to evaluate
  phase

phase1Vars == <<WorkList, JumpFn, IncomingTab, EndsummaryTab,
                UnbalancedRetSites>>
phase2Vars == <<ValTab, ValuePropWL, Pending, SeedsTodo, NodesTodo>>
vars == <<Seeds, phase1Vars, phase2Vars, phase>>

PathEdge == [src : Fact, tgt : Node, dst : Fact, ef : EF]
pathEdge(d1, n, d2, f) == [src |-> d1, tgt |-> n, dst |-> d2, ef |-> f]

-----------------------------------------------------------------------------
(***************************************************************************)
(* ICFG queries and cached flow functions.  With autoAddZero the cache     *)
(* wraps every flow function except the summaries so that it never kills   *)
(* the zero fact.                                                          *)
(***************************************************************************)
isStartPoint(n) == n \in StartPoints(FunOf(n))
CallersOf(f) == {c \in CallSite : f \in CalleesOf(c)}
CallsFromWithin(f) == {c \in CallSite : FunOf(c) = f}

\* Mutants: no test for a missing next user; the search starts at m.
DestN_Unchecked(n, m, d3) == IF d3 = Zero THEN m ELSE NextUser(n, d3)
DestN_FromSucc(n, m, d3) ==
  IF d3 = Zero \/ NextUser(m, d3) = NoNode THEN m ELSE NextUser(m, d3)

\* The next statement at which d3 is relevant (sparse ICFGs), or m.
DestN(n, m, d3) ==
  IF d3 = Zero \/ NextUser(n, d3) = NoNode THEN m ELSE NextUser(n, d3)

ZeroedFlowFunction(S, d) == IF AutoAddZero /\ d = Zero THEN S \cup {Zero} ELSE S

NormalFlow(n, m, d) == ZeroedFlowFunction(NormalFF(n, m, d), d)
CallFlow(n, f, d) == ZeroedFlowFunction(CallFF(n, f, d), d)
RetFlow(n, f, e, r, d) == ZeroedFlowFunction(RetFF(n, f, e, r, d), d)
CallToRetFlow(n, r, d) == ZeroedFlowFunction(CallToRetFF(n, r, d), d)

-----------------------------------------------------------------------------
(***************************************************************************)
(* The tables.                                                             *)
(***************************************************************************)
\* Table T with v entered at every key of S.
Put(T, S, v) == [k \in DOMAIN T \cup S |-> IF k \in S THEN v ELSE T[k]]

jumpFunction(d1, n, d2) ==
  IF <<d1, n, d2>> \in DOMAIN JumpFn THEN JumpFn[<<d1, n, d2>>] ELSE allTop

addFunction(d1, n, d2, f) ==
  IF f = allTop THEN JumpFn ELSE Put(JumpFn, {<<d1, n, d2>>}, f)

reverseLookup(n, d2) == {d1 \in Fact : <<d1, n, d2>> \in DOMAIN JumpFn}

\* Mutant: an existing summary is not overwritten.
addEndSummary_Once(f, d1, n, d2, ef) ==
  Put(EndsummaryTab, {<<sp, d1, n, d2>> : sp \in StartPoints(f)}
                       \ DOMAIN EndsummaryTab, ef)

addEndSummary(f, d1, n, d2, ef) ==
  Put(EndsummaryTab, {<<sp, d1, n, d2>> : sp \in StartPoints(f)}, ef)

\* Mutant: calls that entered with any fact.
Inc_AnyFact(f, d1, c) ==
  {d4 \in Fact : \E sp \in StartPoints(f), d \in Fact :
                    <<sp, d, c, d4>> \in IncomingTab}

\* The facts of the map Inc in processExit: each start point in turn
\* overwrites the entry of a call that it knows.
Inc(f, d1, c) ==
  LET SP == StartPointsOf(f)
      Known == {i \in 1 .. Len(SP) :
                  \E d4 \in Fact : <<SP[i], d1, c, d4>> \in IncomingTab}
  IN {d4 \in Fact : \E i \in Known : /\ \A j \in Known : j <= i
                                     /\ <<SP[i], d1, c, d4>> \in IncomingTab}

-----------------------------------------------------------------------------
(***************************************************************************)
(* Flows: the propagations that processing a path edge <d1> --f--> <n, d2> *)
(* puts on the worklist.                                                   *)
(***************************************************************************)
NormalPushes(d1, n, d2, f) ==
  UNION {{pathEdge(d1, DestN(n, m, d3), d3, extend(f, NormalEF(n, d2, m, d3))) :
            d3 \in NormalFlow(n, m, d2)} : m \in SuccsOf(n)}

\* A callee with a special summary is treated as a normal flow.
SummaryPushes(d1, n, d2, f) ==
  UNION {UNION {{pathEdge(d1, DestN(n, r, d3), d3,
                          extend(f, SummaryEF(n, d2, r, d3))) :
                   d3 \in SummaryFF(n, g, d2)} : r \in ReturnSitesOf(n)} :
           g \in {h \in CalleesOf(n) : HasSummaryFF(n, h)}}

CallToRetPushes(d1, n, d2, f) ==
  UNION {{pathEdge(d1, DestN(n, r, d3), d3, extend(f, CallToRetEF(n, d2, r, d3))) :
            d3 \in CallToRetFlow(n, r, d2)} : r \in ReturnSitesOf(n)}

\* One callee summary (<d3> --fs--> <e, d4> of callee g) applied at one call.
ReturnPushes(d1, n, d2, f, g, d3, e, d4, fs) ==
  UNION {{pathEdge(d1, DestN(n, r, d5), d5,
                   extend(f, extend(extend(CallEF(n, d2, g, d3), fs),
                                    ReturnEF(n, g, e, d4, r, d5)))) :
            d5 \in RetFlow(n, g, e, r, d4)} : r \in ReturnSitesOf(n)}

\* The start points a fact d2 at call n enters, with the entry facts:
\* callees without a special summary only.
Entered(n, d2) ==
  UNION {StartPoints(g) \X CallFlow(n, g, d2) :
           g \in {h \in CalleesOf(n) : ~HasSummaryFF(n, h)}}

EntryPushes(n, d2) ==
  {pathEdge(s[2], s[1], s[2], IdentityEdge) : s \in Entered(n, d2)}

EndSummaryPushes(d1, n, d2, f) ==
  UNION {ReturnPushes(d1, n, d2, f, FunOf(k[1]), k[2], k[3], k[4],
                      EndsummaryTab[k]) :
           k \in {x \in DOMAIN EndsummaryTab :
                    <<x[1], x[2]>> \in Entered(n, d2)}}

CallPushes(d1, n, d2, f) ==
  SummaryPushes(d1, n, d2, f) \cup EntryPushes(n, d2)
    \cup EndSummaryPushes(d1, n, d2, f) \cup CallToRetPushes(d1, n, d2, f)

\* processExit towards the calls registered in IncomingTab ...
ExitPushes(d1, n, d2, f) ==
  LET g == FunOf(n) IN
  UNION {UNION {UNION {ReturnPushes(d3, c, d4, JumpFn[<<d3, c, d4>>],
                                    g, d1, n, d2, f) :
                         d3 \in reverseLookup(c, d4)} :
                  d4 \in Inc(g, d1, c)} : c \in CallSite}

\* ... and past the seeds, when no call is registered for d1.
isUnbalanced(d1, n) ==
  /\ FollowReturnsPastSeeds
  /\ \A c \in CallSite : Inc(FunOf(n), d1, c) = {}

UnbalancedPushes(n, d2, f) ==
  LET g == FunOf(n) IN
  UNION {UNION {{pathEdge(Zero, r, d5, extend(f, ReturnEF(c, g, n, d2, r, d5))) :
                   d5 \in RetFlow(c, g, n, r, d2)} :
                  r \in ReturnSitesOf(c)} : c \in CallersOf(g)}

UnbalancedTargets(n, d2) ==
  LET g == FunOf(n) IN
  {r \in Node : \E c \in CallersOf(g) : /\ r \in ReturnSitesOf(c)
                                        /\ RetFlow(c, g, n, r, d2) # {}}

-----------------------------------------------------------------------------
(***************************************************************************)
(* Phase I.                                                                *)
(***************************************************************************)
Init ==
  /\ Seeds \in InitialSeeds
  /\ WorkList = {} /\ JumpFn = <<>>
  /\ IncomingTab = {} /\ EndsummaryTab = <<>> /\ UnbalancedRetSites = {}
  /\ ValTab = <<>> /\ ValuePropWL = {} /\ Pending = {}
  /\ SeedsTodo = {} /\ NodesTodo = {}
  /\ phase = "init"

\* initialize(): every seeded statement also gets the zero fact.
submitInitialSeeds ==
  /\ phase = "init"
  /\ LET ZeroSeeds == {<<k[1], Zero>> : k \in DOMAIN Seeds}
     IN Seeds' = Put(Seeds, ZeroSeeds \ DOMAIN Seeds, Bottom)
  /\ WorkList' = {pathEdge(k[2], k[1], k[2], IdentityEdge) : k \in DOMAIN Seeds'}
  /\ phase' = "tabulate"
  /\ UNCHANGED <<JumpFn, IncomingTab, EndsummaryTab, UnbalancedRetSites,
                 phase2Vars>>

\* Mutant: the new function replaces the old one.
fPrime_Replace(e) == e.ef

\* What propagate() makes of the popped entry.
fPrime(e) == combine(jumpFunction(e.src, e.tgt, e.dst), e.ef)

\* Mutant: every entry is processed.
isNewFunction_Always(e) == e \in WorkList
isNewFunction(e) == fPrime(e) # jumpFunction(e.src, e.tgt, e.dst)

propagateOld(e) ==
  /\ ~isNewFunction(e)
  /\ WorkList' = WorkList \ {e}
  /\ UNCHANGED <<JumpFn, IncomingTab, EndsummaryTab, UnbalancedRetSites>>

\* Mutants: summaries that exist already are not applied; only the first
\* start point of a callee learns of the call.
processCall_NoSummary(e) ==
  /\ isNewFunction(e)
  /\ e.tgt \in CallSite
  /\ JumpFn' = addFunction(e.src, e.tgt, e.dst, fPrime(e))
  /\ WorkList' = (WorkList \ {e}) \cup EntryPushes(e.tgt, e.dst)
       \cup SummaryPushes(e.src, e.tgt, e.dst, fPrime(e))
       \cup CallToRetPushes(e.src, e.tgt, e.dst, fPrime(e))
  /\ IncomingTab' = IncomingTab \cup
       {<<s[1], s[2], e.tgt, e.dst>> : s \in Entered(e.tgt, e.dst)}
  /\ UNCHANGED <<EndsummaryTab, UnbalancedRetSites>>

processCall_OneStart(e) ==
  /\ isNewFunction(e)
  /\ e.tgt \in CallSite
  /\ JumpFn' = addFunction(e.src, e.tgt, e.dst, fPrime(e))
  /\ WorkList' = (WorkList \ {e}) \cup CallPushes(e.src, e.tgt, e.dst, fPrime(e))
  /\ IncomingTab' = IncomingTab \cup
       {<<StartPointsOf(FunOf(s[1]))[1], s[2], e.tgt, e.dst>> :
          s \in Entered(e.tgt, e.dst)}
  /\ UNCHANGED <<EndsummaryTab, UnbalancedRetSites>>

processCall(e) ==
  /\ isNewFunction(e)
  /\ e.tgt \in CallSite
  /\ JumpFn' = addFunction(e.src, e.tgt, e.dst, fPrime(e))
  /\ WorkList' = (WorkList \ {e}) \cup CallPushes(e.src, e.tgt, e.dst, fPrime(e))
  /\ IncomingTab' = IncomingTab \cup
       {<<s[1], s[2], e.tgt, e.dst>> : s \in Entered(e.tgt, e.dst)}
  /\ UNCHANGED <<EndsummaryTab, UnbalancedRetSites>>

processNormalFlow(e) ==
  /\ isNewFunction(e)
  /\ e.tgt \notin CallSite /\ e.tgt \notin ExitInst
  /\ JumpFn' = addFunction(e.src, e.tgt, e.dst, fPrime(e))
  /\ WorkList' = (WorkList \ {e}) \cup
       NormalPushes(e.src, e.tgt, e.dst, fPrime(e))
  /\ UNCHANGED <<IncomingTab, EndsummaryTab, UnbalancedRetSites>>

\* Mutant: an unbalanced return site is not recorded.
processExit_NoSite(e) ==
  /\ isNewFunction(e)
  /\ e.tgt \notin CallSite /\ e.tgt \in ExitInst
  /\ JumpFn' = addFunction(e.src, e.tgt, e.dst, fPrime(e))
  /\ EndsummaryTab' =
       addEndSummary(FunOf(e.tgt), e.src, e.tgt, e.dst, fPrime(e))
  /\ WorkList' = (WorkList \ {e})
       \cup ExitPushes(e.src, e.tgt, e.dst, fPrime(e))
       \cup (IF isUnbalanced(e.src, e.tgt)
             THEN UnbalancedPushes(e.tgt, e.dst, fPrime(e)) ELSE {})
       \cup NormalPushes(e.src, e.tgt, e.dst, fPrime(e))
  /\ UNCHANGED <<IncomingTab, UnbalancedRetSites>>

\* An exit may also have successors, along which the flow continues.  (For a
\* function without callers, an unbalanced exit also calls a hook of the problem,
\* applyUnbalancedRetFlowFunctionSideEffects, which returns nothing.)
processExit(e) ==
  /\ isNewFunction(e)
  /\ e.tgt \notin CallSite /\ e.tgt \in ExitInst
  /\ JumpFn' = addFunction(e.src, e.tgt, e.dst, fPrime(e))
  /\ EndsummaryTab' =
       addEndSummary(FunOf(e.tgt), e.src, e.tgt, e.dst, fPrime(e))
  /\ WorkList' = (WorkList \ {e})
       \cup ExitPushes(e.src, e.tgt, e.dst, fPrime(e))
       \cup (IF isUnbalanced(e.src, e.tgt)
             THEN UnbalancedPushes(e.tgt, e.dst, fPrime(e)) ELSE {})
       \cup NormalPushes(e.src, e.tgt, e.dst, fPrime(e))
  /\ UnbalancedRetSites' = UnbalancedRetSites \cup
       (IF isUnbalanced(e.src, e.tgt)
        THEN UnbalancedTargets(e.tgt, e.dst) ELSE {})
  /\ UNCHANGED IncomingTab

pathEdgeProcessingTask(e) ==
  processCall(e) \/ processNormalFlow(e) \/ processExit(e)

\* next(): pop one entry and propagate it.
doNext ==
  /\ phase = "tabulate"
  /\ \E e \in WorkList : propagateOld(e) \/ pathEdgeProcessingTask(e)
  /\ UNCHANGED <<Seeds, phase2Vars, phase>>

-----------------------------------------------------------------------------
(***************************************************************************)
(* Phase II.  A task is a loop of value updates: it reads val(src) when    *)
(* the update is made, so a task that changes its own source sees the new  *)
(* value.  The loop bodies are steps (elements of Pending); no other       *)
(* operation starts before the task has made all of them.                  *)
(***************************************************************************)
ValueUpdate == [src : Node \X Fact, dst : Node \X Fact, ef : EF]
valueUpdate(n, d, m, e, f) == [src |-> <<n, d>>, dst |-> <<m, e>>, ef |-> f]

val(k) == IF k \in DOMAIN ValTab THEN ValTab[k] ELSE Top
setVal(k, v) == Put(ValTab, {k}, v)

\* submitInitialValues(): the seeds, and zero at every unbalanced return
\* site that has no seed of its own.
AllSeeds ==
  LET Unseeded == {r \in UnbalancedRetSites :
                     \A k \in DOMAIN Seeds : k[1] # r}
  IN Put(Seeds, Unseeded \X {Zero}, Top)

propagateValueAtStart(n, d) ==
  {valueUpdate(n, d, k[2], k[3], JumpFn[k]) :
     k \in {x \in DOMAIN JumpFn :
              x[1] = d /\ x[2] \in CallsFromWithin(FunOf(n))}}

\* Not restricted to callees without a special summary.
propagateValueAtCall(n, d) ==
  UNION {{valueUpdate(n, d, s[1], s[2], CallEF(n, d, g, s[2])) :
            s \in StartPoints(g) \X CallFlow(n, g, d)} : g \in CalleesOf(n)}

valuePropagationTask(n, d) ==
  (IF \/ isStartPoint(n)
      \/ \E k \in DOMAIN Seeds : k[1] = n
      \/ n \in UnbalancedRetSites
   THEN propagateValueAtStart(n, d) ELSE {})
    \cup (IF n \in CallSite THEN propagateValueAtCall(n, d) ELSE {})

\* finalize(), called after next() has returned false.
doFinalize ==
  /\ phase = "tabulate"
  /\ WorkList = {}
  /\ phase' = IF ComputeValues THEN "values" ELSE "done"
  /\ SeedsTodo' = IF ComputeValues THEN DOMAIN AllSeeds ELSE {}
  /\ UNCHANGED <<Seeds, phase1Vars, ValTab, ValuePropWL, Pending, NodesTodo>>

\* Mutant: the seed's value is set, but nothing is propagated from it.
submitInitialValue_NoTask ==
  /\ phase = "values"
  /\ Pending = {}
  /\ \E k \in SeedsTodo :
       /\ SeedsTodo' = SeedsTodo \ {k}
       /\ ValTab' = setVal(k, join(AllSeeds[k], val(k)))
  /\ UNCHANGED <<Seeds, phase1Vars, ValuePropWL, Pending, NodesTodo, phase>>

submitInitialValue ==
  /\ phase = "values"
  /\ Pending = {}
  /\ \E k \in SeedsTodo :
       /\ SeedsTodo' = SeedsTodo \ {k}
       /\ ValTab' = setVal(k, join(AllSeeds[k], val(k)))
       /\ Pending' = valuePropagationTask(k[1], k[2])
  /\ UNCHANGED <<Seeds, phase1Vars, ValuePropWL, NodesTodo, phase>>

nextValue ==
  /\ phase = "values"
  /\ Pending = {} /\ SeedsTodo = {}
  /\ \E k \in ValuePropWL :
       /\ ValuePropWL' = ValuePropWL \ {k}
       /\ Pending' = valuePropagationTask(k[1], k[2])
  /\ UNCHANGED <<Seeds, phase1Vars, ValTab, SeedsTodo, NodesTodo, phase>>

\* Mutant: a value is handed on only the first time it is set.
propagateValue_Once ==
  /\ phase = "values"
  /\ \E p \in Pending :
       LET LPrime == join(val(p.dst), applyFunction(p.ef, val(p.src))) IN
       /\ Pending' = Pending \ {p}
       /\ ValTab' = setVal(p.dst, LPrime)
       /\ ValuePropWL' = IF p.dst \in DOMAIN ValTab THEN ValuePropWL
                         ELSE ValuePropWL \cup {p.dst}
  /\ UNCHANGED <<Seeds, phase1Vars, SeedsTodo, NodesTodo, phase>>

propagateValue ==
  /\ phase = "values"
  /\ \E p \in Pending :
       LET LPrime == join(val(p.dst), applyFunction(p.ef, val(p.src))) IN
       /\ Pending' = Pending \ {p}
       /\ IF LPrime = val(p.dst)
          THEN UNCHANGED <<ValTab, ValuePropWL>>
          ELSE /\ ValTab' = setVal(p.dst, LPrime)
               /\ ValuePropWL' = ValuePropWL \cup {p.dst}
  /\ UNCHANGED <<Seeds, phase1Vars, SeedsTodo, NodesTodo, phase>>

\* Phase II(ii): the jump functions at all nodes that are neither calls nor
\* start points, in any order.  At a node that no fact reaches there is
\* nothing to evaluate.
startComputation ==
  /\ phase = "values"
  /\ Pending = {} /\ SeedsTodo = {} /\ ValuePropWL = {}
  /\ phase' = "compute"
  /\ NodesTodo' = {n \in NonCallStartNodes : \E k \in DOMAIN JumpFn : k[2] = n}
  /\ UNCHANGED <<Seeds, phase1Vars, ValTab, ValuePropWL, Pending, SeedsTodo>>

\* The values of all facts at n, from those at the start of its function.
evaluation(n) ==
  UNION {{valueUpdate(sp, k[1], n, k[3], JumpFn[k]) :
            k \in {x \in DOMAIN JumpFn : x[2] = n}} : sp \in StartPoints(FunOf(n))}

valueComputationTask ==
  /\ phase = "compute"
  /\ Pending = {}
  /\ \E n \in NodesTodo : NodesTodo' = NodesTodo \ {n} /\ Pending' = evaluation(n)
  /\ UNCHANGED <<Seeds, phase1Vars, ValTab, ValuePropWL, SeedsTodo, phase>>

computeValue ==
  /\ phase = "compute"
  /\ \E p \in Pending :
       /\ Pending' = Pending \ {p}
       /\ ValTab' = setVal(p.dst, join(val(p.dst),
                                      applyFunction(p.ef, val(p.src))))
  /\ UNCHANGED <<Seeds, phase1Vars, ValuePropWL, SeedsTodo, NodesTodo, phase>>

endComputation ==
  /\ phase = "compute"
  /\ Pending = {} /\ NodesTodo = {}
  /\ phase' = "done"
  /\ UNCHANGED <<Seeds, phase1Vars, phase2Vars>>

\* The results are a view of the value table.
resultsAt(n, StripZero) ==
  LET row == {d \in Fact : <<n, d>> \in DOMAIN ValTab}
  IN [d \in IF StripZero THEN row \ {Zero} ELSE row |-> ValTab[<<n, d>>]]

Phase1 == submitInitialSeeds \/ doNext \/ doFinalize
Phase2 == \/ submitInitialValue \/ nextValue \/ propagateValue
          \/ startComputation \/ valueComputationTask \/ computeValue
          \/ endComputation

Next == Phase1 \/ Phase2

\* solve() is a sequential loop without any blocking operation.
Spec == Init /\ [][Next]_vars /\ WF_vars(Next)

-----------------------------------------------------------------------------
(***************************************************************************)
(* Type invariant.                                                         *)
(***************************************************************************)
TableTypeOK ==
  /\ DOMAIN Seeds \subseteq Node \X Fact
  /\ \A k \in DOMAIN Seeds : Seeds[k] \in Value
  /\ WorkList \subseteq PathEdge
  /\ DOMAIN JumpFn \subseteq Fact \X Node \X Fact
  /\ \A k \in DOMAIN JumpFn : JumpFn[k] \in EF \ {allTop}
  /\ IncomingTab \subseteq Node \X Fact \X CallSite \X Fact
  /\ DOMAIN EndsummaryTab \subseteq Node \X Fact \X ExitInst \X Fact
  /\ \A k \in DOMAIN EndsummaryTab : EndsummaryTab[k] \in EF
  /\ UnbalancedRetSites \subseteq Node
  /\ phase \in {"init", "tabulate", "values", "compute", "done"}

ValueTypeOK ==
  /\ DOMAIN ValTab \subseteq Node \X Fact
  /\ \A k \in DOMAIN ValTab : ValTab[k] \in Value
  /\ ValuePropWL \subseteq Node \X Fact
  /\ Pending \subseteq ValueUpdate
  /\ SeedsTodo \subseteq Node \X Fact
  /\ NodesTodo \subseteq Node

TypeOK == TableTypeOK /\ ValueTypeOK

-----------------------------------------------------------------------------
(***************************************************************************)
(* Phase I: no flow is lost.                                               *)
(***************************************************************************)
\* The jump-function table already accounts for the propagation p.
Covered(p) ==
  combine(jumpFunction(p.src, p.tgt, p.dst), p.ef)
    = jumpFunction(p.src, p.tgt, p.dst)

Propagated(p) == p \in WorkList \/ Covered(p)

\* Everything that the tables oblige the solver to propagate from a path
\* edge: its own flow and, at a call, every callee summary known so far.
Obliged(d1, n, d2) ==
  LET f == jumpFunction(d1, n, d2) IN
  IF n \in CallSite THEN CallPushes(d1, n, d2, f)
                    ELSE NormalPushes(d1, n, d2, f)

(***************************************************************************)
(* Callee summaries and callers meet in any order (a summary found before  *)
(* or after a call is registered, a jump function that changes after       *)
(* either): every propagation that the tables imply is pending on the      *)
(* worklist or already absorbed (processCall, processExit, propagate), and *)
(* so is every seed that submitInitialSeeds has submitted.                 *)
(***************************************************************************)
NoLostFlow ==
  /\ \A k \in DOMAIN JumpFn :
       \A p \in Obliged(k[1], k[2], k[3]) : Propagated(p)
  /\ phase # "init" => \A k \in DOMAIN Seeds :
       Propagated(pathEdge(k[2], k[1], k[2], IdentityEdge))

(***************************************************************************)
(* followReturnsPastSeeds: as long as no call is registered for zero in a  *)
(* function, every flow from zero out of its exits has been handed to all  *)
(* callers of the function, with the current jump function, and each       *)
(* return site so reached is recorded for Phase II (processExit tests      *)
(* Inc.empty() only once per path edge, before later calls appear).  Flows *)
(* from other facts, which the comment in processExit excludes and the     *)
(* code hands on as well, are not demanded.                                *)
(***************************************************************************)
NoLostUnbalanced ==
  \A k \in DOMAIN JumpFn :
    (k[1] = Zero /\ k[2] \in ExitInst \ CallSite /\ isUnbalanced(k[1], k[2])) =>
      /\ \A p \in UnbalancedPushes(k[2], k[3], JumpFn[k]) : Propagated(p)
      /\ UnbalancedTargets(k[2], k[3]) \subseteq UnbalancedRetSites

(***************************************************************************)
(* When next() returns false the jump functions are a fixpoint of the flow *)
(* equations and contain every seed.                                       *)
(***************************************************************************)
Fixpoint ==
  (WorkList = {} /\ phase # "init") =>
    /\ \A k \in DOMAIN JumpFn :
         \A p \in Obliged(k[1], k[2], k[3]) : Covered(p)
    /\ \A k \in DOMAIN Seeds : Covered(pathEdge(k[2], k[1], k[2], IdentityEdge))

(***************************************************************************)
(* A stored end summary is never stale: it is the current jump function of *)
(* its exit, at each start point of the function (addEndSummary does not   *)
(* join; see the note there).                                              *)
(***************************************************************************)
SummaryFresh ==
  /\ \A k \in DOMAIN EndsummaryTab :
       /\ k[3] \in ExitInst \ CallSite /\ k[1] \in StartPoints(FunOf(k[3]))
       /\ EndsummaryTab[k] = jumpFunction(k[2], k[3], k[4])
  /\ \A k \in DOMAIN JumpFn : k[2] \in ExitInst \ CallSite =>
       \A sp \in StartPoints(FunOf(k[2])) :
         <<sp, k[1], k[2], k[3]>> \in DOMAIN EndsummaryTab

(***************************************************************************)
(* A caller is registered exactly at the start points its fact enters, the *)
(* same for all start points of the callee.  processExit relies on it: for *)
(* a call known to several start points only the last entry is used.       *)
(***************************************************************************)
IncomingExact ==
  IncomingTab = UNION {{<<s[1], s[2], k[2], k[3]>> : s \in Entered(k[2], k[3])} :
                         k \in {x \in DOMAIN JumpFn : x[2] \in CallSite}}

(***************************************************************************)
(* Jump functions only move up the lattice and are never dropped, and no   *)
(* step of Phase II changes them.                                          *)
(***************************************************************************)
JumpFnOnlyGrow ==
  [][\A k \in DOMAIN JumpFn :
       /\ k \in DOMAIN JumpFn'
       /\ combine(JumpFn[k], JumpFn'[k]) = JumpFn'[k]]_JumpFn

-----------------------------------------------------------------------------
(***************************************************************************)
(* Phase II: a value that reached a start point or a call has been handed  *)
(* on, or is on ValuePropWL, or its task is running (its updates are in    *)
(* Pending) -- also when two callers write to the same start point.        *)
(***************************************************************************)
HandedOn(u) == join(val(u.dst), applyFunction(u.ef, val(u.src))) = val(u.dst)

NoLostValue ==
  phase \in {"values", "compute", "done"} =>
    \A k \in DOMAIN ValTab \ (ValuePropWL \cup SeedsTodo) :
      (k[1] \in CallSite \/ isStartPoint(k[1])) =>
        \A u \in valuePropagationTask(k[1], k[2]) : u \in Pending \/ HandedOn(u)

(***************************************************************************)
(* solve() terminates: both worklists run dry.                             *)
(***************************************************************************)
Termination == <>(phase = "done")
=============================================================================
