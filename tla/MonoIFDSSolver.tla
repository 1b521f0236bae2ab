--------------------------- MODULE MonoIFDSSolver ---------------------------
(***************************************************************************)
(* PhASAR's MonoIFDS solver                                                *)
(* (include/phasar/DataFlow/MonoIfds/MonoIFDSSolver.h): a bottom-up taint  *)
(* solver.  The strongly connected components of the call graph are        *)
(* analysed callees first.  Within one, blocks of straight-line code are   *)
(* run over environments that map each fact to the source facts (facts at  *)
(* the function's entry) it stems from; calls apply the callee's summary   *)
(* and the sinks it reaches (LeakIf).  Inside a component the summaries    *)
(* are not final: new ones reschedule the recursive calls, and sinks found *)
(* late are mapped to the callers by repropagateLeaks.                     *)
(*                                                                         *)
(* Environments are sets of pairs <<fact, source fact>>.  The drivers      *)
(* (queue, priority queue) are a set from which any block may be taken.    *)
(***************************************************************************)
EXTENDS Integers, Sequences, FiniteSets

CONSTANTS
  Node, Fun, FunOf(_), StartPoints(_), ExitInst, CallSite, SuccsOf(_),
  CalleesOf(_),
  NodesInSCC,               \* the call-graph SCCs as a sequence, callees first
  \* The problem.  sinks/generated: requestResultCallback and generateFacts,
  \* at calls requestResultCallbackAtCallSite and generateFactsAtCall.
  Fact, Zero, initialSeeds(_), normalFlow(_, _), invCallFlow(_, _),
  returnFlow(_, _), callToRetFlow(_, _), hasSummaryFlow(_, _),
  summaryFlow(_, _, _), generated(_), sinks(_), shouldBeInSummary(_, _),
  \* The configurations to run the solver with (MonoIfdsConfig).
  EagerModes, VersioningModes

ASSUME CallGraphAssumption ==
  /\ NodesInSCC \in Seq(SUBSET Fun)
  /\ \A f \in Fun : \E i \in 1 .. Len(NodesInSCC) : f \in NodesInSCC[i]
  /\ \A i, j \in 1 .. Len(NodesInSCC) :
       i # j => NodesInSCC[i] \cap NodesInSCC[j] = {}

ASSUME ProgramAssumption ==
  /\ IsFiniteSet(Node) /\ CallSite \subseteq Node /\ ExitInst \subseteq Node \ CallSite
  /\ \A n \in Node : /\ FunOf(n) \in Fun
                     /\ SuccsOf(n) \subseteq {m \in Node : FunOf(m) = FunOf(n)}
                     /\ CalleesOf(n) \subseteq Fun
                     /\ n \in ExitInst => SuccsOf(n) = {}
  /\ \A f \in Fun : /\ StartPoints(f) \subseteq {n \in Node : FunOf(n) = f}
                    /\ Zero \notin initialSeeds(f)

\* No statement is a sink for a fact it generates itself: a recursive call that
\* is scheduled again finds its generated facts in the environment already.
ASSUME SinkAssumption == \A n \in Node : sinks(n) \cap generated(n) = {}

\* The problem maps facts to facts.
ASSUME FlowAssumption ==
  /\ Zero \in Fact /\ \A f \in Fun : initialSeeds(f) \subseteq Fact
  /\ \A n \in Node : /\ generated(n) \subseteq Fact /\ sinks(n) \subseteq Fact
                     /\ \A d \in Fact : /\ normalFlow(n, d) \subseteq Fact
                                        /\ returnFlow(n, d) \subseteq Fact
                                        /\ callToRetFlow(n, d) \subseteq Fact
                                        /\ \A g \in Fun : summaryFlow(n, g, d) \subseteq Fact

VARIABLES
  EagerReturnPropagation, EnableEnvVersioning,  \* the configuration
  CurrSCC,        \* index of the component being analysed
  EndSummary,     \* function -> environment at its exits
  LeakIf,         \* function -> <<sink, fact, source fact>>
  Leaks,          \* <<sink, fact>> reported by onResult
  PathEdges,      \* block start or recursive call -> environment
  Stale,          \* nodes with Version > AnalyzedVersion
  Incoming,       \* <<callee, call>> within the component
  HasNewLeaks, HasNewSummary, InRecursion,
  Driver,         \* nodes to analyse
  Block,          \* the block being analysed: at most one position in it
  pc

config == <<EagerReturnPropagation, EnableEnvVersioning>>
summaries == <<EndSummary, LeakIf, Leaks>>
flags == <<Incoming, HasNewLeaks, HasNewSummary, InRecursion>>
vars == <<config, CurrSCC, summaries, PathEdges, Stale, flags, Driver, Block, pc>>

Env == SUBSET (Fact \X Fact)
Position == [at : Node, env : Env, stale : BOOLEAN]

Put(T, k, v) == [x \in DOMAIN T \cup {k} |-> IF x = k THEN v ELSE T[x]]
sourcesOf(env, D) == {x[2] : x \in {y \in env : y[1] \in D}}
factsOf(env) == {x[1] : x \in env}
SCCOfNode(f) == CHOOSE i \in 1 .. Len(NodesInSCC) : f \in NodesInSCC[i]

-----------------------------------------------------------------------------
(***************************************************************************)
(* Leaks.                                                                  *)
(***************************************************************************)
\* Mapper: the caller's source facts behind source fact s of a callee, when
\* the call c is reached with env.
getSourceFactsFor(c, env, s) == sourcesOf(env, invCallFlow(c, s))

\* The leaks L of a callee, seen from the call c.
mappedLeaks(c, env, L) ==
  UNION {{<<l[1], l[2], s>> : s \in getSourceFactsFor(c, env, l[3])} : l \in L}

notFromZero(L) == {l \in L : l[3] # Zero}

\* reportOrPropagateLeak for the leaks L of function f, found while the
\* recursion flag is r: what stems from zero is reported, the rest is left
\* to the callers.
reportsOf(L) == {<<l[1], l[2]>> : l \in {x \in L : x[3] = Zero}}
isNewLeak(f, L, r) == r /\ ~(notFromZero(L) \subseteq LeakIf[f])

-----------------------------------------------------------------------------
(***************************************************************************)
(* One component.                                                          *)
(***************************************************************************)
Init ==
  /\ EagerReturnPropagation \in EagerModes
  /\ EnableEnvVersioning \in VersioningModes
  /\ CurrSCC = 0
  /\ EndSummary = [f \in Fun |-> {}] /\ LeakIf = [f \in Fun |-> {}] /\ Leaks = {}
  /\ PathEdges = <<>> /\ Stale = {} /\ Incoming = {}
  /\ HasNewLeaks = {} /\ HasNewSummary = {} /\ InRecursion = FALSE
  /\ Driver = {} /\ Block = {}
  /\ pc = "next"

\* Start of computeFixpointForSCC, with submitInitialSeeds.
startSCC ==
  LET funs == NodesInSCC[CurrSCC + 1]
      starts == UNION {StartPoints(f) : f \in funs}
  IN /\ pc = "next" /\ CurrSCC < Len(NodesInSCC)
     /\ CurrSCC' = CurrSCC + 1
     /\ PathEdges' = [n \in starts |->
          {<<Zero, Zero>>} \cup {<<d, d>> : d \in initialSeeds(FunOf(n))}]
     /\ Stale' = starts /\ Driver' = starts
     /\ Incoming' = {} /\ HasNewLeaks' = {} /\ HasNewSummary' = {}
     /\ InRecursion' = (Cardinality(funs) > 1)
     /\ pc' = "run"
     /\ UNCHANGED <<config, summaries, Block>>

\* Mutant: an environment that grew after it was scheduled counts as analysed.
analyzeBlock_MarkEarly ==
  /\ pc = "run" /\ Block = {}
  /\ \E n \in Driver :
       /\ Driver' = Driver \ {n}
       /\ Stale' = Stale \ (Driver \cup {n})
       /\ Block' = IF EnableEnvVersioning /\ n \notin Stale THEN {}
                   ELSE {[at |-> n, env |-> PathEdges[n], stale |-> FALSE]}
  /\ UNCHANGED <<config, CurrSCC, summaries, PathEdges, flags, pc>>

\* With versioning, a node whose environment was analysed already is skipped.
analyzeBlock ==
  /\ pc = "run" /\ Block = {}
  /\ \E n \in Driver :
       /\ Driver' = Driver \ {n}
       /\ Stale' = Stale \ {n}
       /\ Block' = IF EnableEnvVersioning /\ n \notin Stale THEN {}
                   ELSE {[at |-> n, env |-> PathEdges[n], stale |-> FALSE]}
  /\ UNCHANGED <<config, CurrSCC, summaries, PathEdges, flags, pc>>

\* Where the analysis goes on after b.at with environment env: straight on
\* along a single successor, otherwise by merging into the successors'
\* environments and scheduling those that changed.
continue(b, env, stale, P, S, D) ==
  LET succs == SuccsOf(b.at)
      changed == {m \in succs : m \notin DOMAIN P \/ ~(env \subseteq P[m])}
  IN IF Cardinality(succs) = 1
     THEN /\ Block' = {[at |-> m, env |-> env, stale |-> stale] : m \in succs}
          /\ PathEdges' = P /\ Stale' = S /\ Driver' = D
     ELSE /\ Block' = {}
          /\ PathEdges' = [m \in DOMAIN P \cup succs |->
                             IF m \in succs
                             THEN env \cup (IF m \in DOMAIN P THEN P[m] ELSE {})
                             ELSE P[m]]
          /\ Stale' = S \cup changed
          /\ Driver' = D \cup changed

ownLeaks(b) ==
  UNION {{<<b.at, d, s>> : s \in sourcesOf(b.env, {d})} : d \in sinks(b.at)}

withGenerated(b) == b.env \cup (generated(b.at) \X {Zero})

normalStep(b) ==
  LET f == FunOf(b.at)
      env == UNION {normalFlow(b.at, x[1]) \X {x[2]} : x \in withGenerated(b)}
  IN /\ b.at \notin CallSite \cup ExitInst
     /\ LeakIf' = [LeakIf EXCEPT ![f] = @ \cup notFromZero(ownLeaks(b))]
     /\ Leaks' = Leaks \cup reportsOf(ownLeaks(b))
     /\ HasNewLeaks' = IF isNewLeak(f, ownLeaks(b), InRecursion)
                       THEN HasNewLeaks \cup {f} ELSE HasNewLeaks
     /\ continue(b, env, b.stale, PathEdges, Stale, Driver)
     /\ UNCHANGED <<EndSummary, Incoming, HasNewSummary, InRecursion>>

\* The recorded recursive calls of f.
callsOf(f) == {x[2] : x \in {y \in Incoming : y[1] = f}}

\* Mutant: every visit of an exit counts as a change.
summaryChanged_Always(f, out) == InRecursion

summaryChanged(f, out) == InRecursion /\ ~(out \subseteq EndSummary[f])

\* analyzeExitInst; with EagerReturnPropagation the callers are rescheduled
\* at once.
exitStep(b) ==
  LET f == FunOf(b.at)
      out == {x \in withGenerated(b) : shouldBeInSummary(x[1], b.at)}
      new == HasNewSummary \cup
               (IF summaryChanged(f, out) THEN {f} ELSE {})
      resched == IF EagerReturnPropagation /\ f \in new THEN callsOf(f) ELSE {}
  IN /\ b.at \in ExitInst
     /\ LeakIf' = [LeakIf EXCEPT ![f] = @ \cup notFromZero(ownLeaks(b))]
     /\ Leaks' = Leaks \cup reportsOf(ownLeaks(b))
     /\ HasNewLeaks' = IF isNewLeak(f, ownLeaks(b), InRecursion)
                       THEN HasNewLeaks \cup {f} ELSE HasNewLeaks
     /\ EndSummary' = [EndSummary EXCEPT ![f] = @ \cup out]
     /\ HasNewSummary' = IF EagerReturnPropagation THEN new \ {f} ELSE new
     /\ Driver' = Driver \cup resched
     /\ Stale' = Stale \cup resched
     /\ Block' = {}
     /\ UNCHANGED <<PathEdges, Incoming, InRecursion>>

\* applySummary of g at call c, reached with env.
appliedSummary(c, env, g) ==
  UNION {returnFlow(c, x[1]) \X getSourceFactsFor(c, env, x[2]) : x \in EndSummary[g]}

\* analyzeCallInst.  A call into the own component is remembered with the
\* environment that reaches it.  The leaks of the callees are taken over,
\* except the function's own.
callStep(b) ==
  LET c == b.at  f == FunOf(c)
      env == withGenerated(b)
      inner == {g \in CalleesOf(c) : SCCOfNode(g) = CurrSCC}
      known == {g \in CalleesOf(c) : hasSummaryFlow(c, g)}
      applied == CalleesOf(c) \ known
      collected == (UNION {UNION {summaryFlow(c, g, x[1]) \X {x[2]} : x \in env} :
                             g \in known})
                     \cup UNION {appliedSummary(c, env, g) : g \in applied}
      skipCTR == CalleesOf(c) = {} \/ \E g \in applied : StartPoints(g) = {}
      kept == IF skipCTR THEN env
              ELSE UNION {callToRetFlow(c, x[1]) \X {x[2]} : x \in env}
      calleeLeaks == UNION {mappedLeaks(c, env, LeakIf[g]) : g \in applied \ {f}}
      recursive == InRecursion \/ inner # {}
      \* mergeStates swaps the maps, with their versions, to insert into the
      \* larger one
      swapped == Cardinality(factsOf(kept)) < Cardinality(factsOf(collected))
  IN /\ c \in CallSite
     /\ Incoming' = Incoming \cup {<<g, c>> : g \in inner}
     /\ InRecursion' = recursive
     /\ LeakIf' = [LeakIf EXCEPT ![f] = @ \cup notFromZero(ownLeaks(b) \cup calleeLeaks)]
     /\ Leaks' = Leaks \cup reportsOf(ownLeaks(b) \cup calleeLeaks)
     /\ HasNewLeaks' = IF \/ isNewLeak(f, ownLeaks(b), InRecursion)
                          \/ isNewLeak(f, calleeLeaks \ ownLeaks(b), recursive)
                       THEN HasNewLeaks \cup {f} ELSE HasNewLeaks
     /\ continue(b, kept \cup collected, b.stale \/ swapped,
                 IF inner = {} THEN PathEdges ELSE Put(PathEdges, c, env),
                 IF inner = {} \/ b.stale THEN Stale ELSE Stale \ {c}, Driver)
     /\ UNCHANGED <<EndSummary, HasNewSummary>>

analyzeInstruction ==
  /\ pc = "run"
  /\ \E b \in Block : normalStep(b) \/ exitStep(b) \/ callStep(b)
  /\ UNCHANGED <<config, CurrSCC, pc>>

\* The driver has run dry: reschedule the recursive calls of all functions
\* with a new summary (RepropagateInRecursion), unless that is done eagerly.
\* A rescheduled call takes over the leaks of its callee, too.
rescheduleCalls ==
  LET calls == UNION {callsOf(f) : f \in HasNewSummary} IN
  /\ pc = "run" /\ Block = {} /\ Driver = {}
  /\ IF EagerReturnPropagation \/ ~InRecursion \/ calls = {}
     THEN pc' = "leaks" /\ UNCHANGED <<Driver, Stale>>
     ELSE pc' = pc /\ Driver' = calls /\ Stale' = Stale \cup calls
  /\ IF EagerReturnPropagation \/ ~InRecursion
     THEN UNCHANGED <<HasNewLeaks, HasNewSummary>>
     ELSE HasNewLeaks' = HasNewLeaks \ HasNewSummary /\ HasNewSummary' = {}
  /\ UNCHANGED <<config, CurrSCC, summaries, PathEdges, Incoming, InRecursion, Block>>

\* The leaks of f, mapped through the calls of f in the component.
leaksForCallers(f, g) ==
  UNION {mappedLeaks(c, IF c \in DOMAIN PathEdges THEN PathEdges[c] ELSE {}, LeakIf[f]) :
           c \in {x \in CallSite : f \in CalleesOf(x) /\ FunOf(x) = g}}

\* Mutant: a caller that learns of a leak does not hand it on.
handleLeaksForFun_OneLevel(f) ==
  LET callers == {g \in NodesInSCC[CurrSCC] : leaksForCallers(f, g) # {}} IN
  /\ LeakIf' = [g \in Fun |-> IF g \in callers
                              THEN LeakIf[g] \cup notFromZero(leaksForCallers(f, g))
                              ELSE LeakIf[g]]
  /\ Leaks' = Leaks \cup UNION {reportsOf(leaksForCallers(f, g)) : g \in callers}
  /\ HasNewLeaks' = HasNewLeaks \ {f}

handleLeaksForFun(f) ==
  LET callers == {g \in NodesInSCC[CurrSCC] : leaksForCallers(f, g) # {}} IN
  /\ LeakIf' = [g \in Fun |-> IF g \in callers
                              THEN LeakIf[g] \cup notFromZero(leaksForCallers(f, g))
                              ELSE LeakIf[g]]
  /\ Leaks' = Leaks \cup UNION {reportsOf(leaksForCallers(f, g)) : g \in callers}
  /\ HasNewLeaks' = (HasNewLeaks \ {f}) \cup
       {g \in callers : isNewLeak(g, leaksForCallers(f, g), InRecursion)}

repropagateLeaks ==
  /\ pc = "leaks"
  /\ IF HasNewLeaks = {}
     THEN pc' = "next" /\ UNCHANGED <<LeakIf, Leaks, HasNewLeaks>>
     ELSE pc' = pc /\ \E f \in HasNewLeaks : handleLeaksForFun(f)
  /\ UNCHANGED <<config, CurrSCC, EndSummary, PathEdges, Stale, Incoming,
                 HasNewSummary, InRecursion, Driver, Block>>

finish ==
  /\ pc = "next" /\ CurrSCC = Len(NodesInSCC)
  /\ pc' = "done"
  /\ UNCHANGED <<config, CurrSCC, summaries, PathEdges, Stale, flags, Driver, Block>>

Next == \/ startSCC \/ analyzeBlock \/ analyzeInstruction \/ rescheduleCalls
        \/ repropagateLeaks \/ finish

\* solve() is a sequential loop without any blocking operation.
Spec == Init /\ [][Next]_vars /\ WF_vars(Next)

-----------------------------------------------------------------------------
(***************************************************************************)
(* Reference: the equations, without worklist, order, versions, components *)
(* or recursion flags.  N is a set of reached nodes, R of <<node, fact,    *)
(* source>>, L of <<function, sink, fact, source>>; the right-hand sides   *)
(* are what follows from them in one step.                                 *)
(***************************************************************************)
InEnv(R, n) == {<<r[2], r[3]>> : r \in {x \in R : x[1] = n}}
GenEnv(R, n) == InEnv(R, n) \cup (generated(n) \X {Zero})
ExitEnv(N, R, g) ==
  UNION {{x \in GenEnv(R, n) : shouldBeInSummary(x[1], n)} :
           n \in {y \in ExitInst \cap N : FunOf(y) = g}}
\* A call passes the environment on as it is when it has no callee with a body.
CallToRet(R, n) ==
  IF \/ CalleesOf(n) = {}
     \/ \E g \in CalleesOf(n) : ~hasSummaryFlow(n, g) /\ StartPoints(g) = {}
  THEN GenEnv(R, n)
  ELSE UNION {callToRetFlow(n, x[1]) \X {x[2]} : x \in GenEnv(R, n)}
ThroughCallee(N, R, n, g) ==
  IF hasSummaryFlow(n, g)
  THEN UNION {summaryFlow(n, g, x[1]) \X {x[2]} : x \in GenEnv(R, n)}
  ELSE UNION {returnFlow(n, x[1]) \X getSourceFactsFor(n, GenEnv(R, n), x[2]) :
                x \in ExitEnv(N, R, g)}
OutEnv(N, R, n) ==
  IF n \notin CallSite
  THEN UNION {normalFlow(n, x[1]) \X {x[2]} : x \in GenEnv(R, n)}
  ELSE CallToRet(R, n) \cup UNION {ThroughCallee(N, R, n, g) : g \in CalleesOf(n)}

Starts == UNION {StartPoints(f) : f \in Fun}
Reaches(N) == Starts \cup UNION {SuccsOf(n) : n \in N}
seedTriples(n) == {<<n, Zero, Zero>>} \cup {<<n, d, d>> : d \in initialSeeds(FunOf(n))}
flowTriples(N, R, n) == {<<m, x[1], x[2]>> : m \in SuccsOf(n), x \in OutEnv(N, R, n)}
Flows(N, R) ==
  (UNION {seedTriples(n) : n \in Starts}) \cup UNION {flowTriples(N, R, n) : n \in N}

LeaksIn(L, g) == {<<l[2], l[3], l[4]>> : l \in {x \in L : x[1] = g}}
sinkTuples(R, n) ==
  {<<FunOf(n), n, x[1], x[2]>> : x \in {y \in InEnv(R, n) : y[1] \in sinks(n)}}
callTuples(R, L, n, g) ==
  {<<FunOf(n), l[1], l[2], l[3]>> :
     l \in mappedLeaks(n, GenEnv(R, n), notFromZero(LeaksIn(L, g)))}
Sinks(N, R, L) ==
  (UNION {sinkTuples(R, n) : n \in N})
    \cup UNION {UNION {callTuples(R, L, n, g) : g \in CalleesOf(n)} : n \in CallSite \cap N}

-----------------------------------------------------------------------------
TypeOK ==
  /\ CurrSCC \in 0 .. Len(NodesInSCC)
  /\ EndSummary \in [Fun -> Env]
  /\ LeakIf \in [Fun -> SUBSET (Node \X Fact \X Fact)]
  /\ Leaks \subseteq Node \X Fact
  /\ DOMAIN PathEdges \subseteq Node
  /\ \A n \in DOMAIN PathEdges : PathEdges[n] \in Env
  /\ Driver \subseteq DOMAIN PathEdges /\ Stale \subseteq DOMAIN PathEdges
  /\ Incoming \subseteq Fun \X CallSite
  /\ HasNewLeaks \subseteq Fun /\ HasNewSummary \subseteq Fun
  /\ InRecursion \in BOOLEAN
  /\ Block \subseteq Position /\ Cardinality(Block) <= 1
  /\ pc \in {"next", "run", "leaks", "done"}

(***************************************************************************)
(* No leak is lost within a component.  A sink that a callee reaches from  *)
(* a source fact, and that a recorded recursive call passes a fact to, is  *)
(* known to the caller (or reported, if it stems from zero), unless        *)
(* something is left that will tell it: the callee's mark in HasNewLeaks   *)
(* or HasNewSummary, or the scheduled call.  rescheduleCalls erases marks, *)
(* versioning skips calls, and leaks are also found after the calls.  (A   *)
(* function that calls itself directly is exempt: applySummary skips it;   *)
(* and so is a callee with a special summary, which stands for its leaks.) *)
(***************************************************************************)
NoLostLeak ==
  \A x \in Incoming :
    LET g == x[1]  c == x[2]
        mapped == mappedLeaks(c, PathEdges[c], LeakIf[g])
    IN \/ g = FunOf(c) \/ hasSummaryFlow(c, g)
       \/ g \in HasNewLeaks \cup HasNewSummary
       \/ c \in Driver \/ \E b \in Block : b.at = c
       \/ /\ notFromZero(mapped) \subseteq LeakIf[FunOf(c)]
          /\ reportsOf(mapped) \subseteq Leaks

\* solve() terminates.
Termination == <>(pc = "done")
=============================================================================
