------------------------- MODULE IterativeIDESolver -------------------------
(***************************************************************************)
(* PhASAR's iterative IDE solver                                           *)
(* (include/phasar/DataFlow/IfdsIde/Solver/IterativeIDESolver.h).          *)
(*                                                                         *)
(* Phase I runs in rounds.  Within a round, jobs on WorkList propagate     *)
(* facts inside functions; a call only enters its callees and leaves an    *)
(* InterPropagationJob behind.  When the WorkList is empty,                *)
(* processInterJobs returns the summaries of all functions that got new    *)
(* ones to the calls that wait for them, and the garbage collector drops   *)
(* the jump functions of functions that are finished.  Phase II is as in   *)
(* IDESolver, but walks the recorded inter jobs instead of flow functions. *)
(*                                                                         *)
(* One handler (of a job, of processInterJobs, of the seeds) makes several *)
(* calls of storeResultsAndPropagate; they wait in Stores and are made one *)
(* by one, in any order, before the next handler starts.                   *)
(***************************************************************************)
EXTENDS Integers, FiniteSetsExt

CONSTANTS
  \* The ICFG.
  Node, Fun, FunOf(_), StartPoints(_), ExitInst, CallSite, SuccsOf(_),
  CalleesOf(_), advanceToNextUser(_, _),
  \* The problem: flow functions (zero already added by the cache), edge
  \* functions, values and the seed maps initialSeeds() may return.
  Fact, NormalFlow(_, _, _), CallFlow(_, _, _), RetFlow(_, _, _, _, _),
  CallToRetFlow(_, _, _), HasSummaryFF(_, _), SummaryFF(_, _, _),
  EF, allTop, IdentityEdge, NormalEF(_, _, _, _), CallEF(_, _, _, _),
  ReturnEF(_, _, _, _, _, _), CallToRetEF(_, _, _, _), SummaryEF(_, _, _, _),
  extend(_, _), combine(_, _), applyFunction(_, _),
  Value, Top, join(_, _), InitialSeeds, isInteresting(_),
  \* The configurations (StaticIDESolverConfig) to run the solver with.
  GCModes, EndSummaryTabModes

ASSUME ICFGAssumption ==
  /\ CallSite \subseteq Node /\ ExitInst \subseteq Node \ CallSite
  /\ \A n \in Node : /\ FunOf(n) \in Fun
                     /\ SuccsOf(n) \subseteq {m \in Node : FunOf(m) = FunOf(n)}
                     /\ CalleesOf(n) \subseteq Fun
                     /\ isInteresting(n) \in BOOLEAN
                     /\ \A d \in Fact :
                          /\ advanceToNextUser(n, d) \in Node
                          /\ FunOf(advanceToNextUser(n, d)) = FunOf(n)
  /\ \A f \in Fun : StartPoints(f) \subseteq {n \in Node : FunOf(n) = f}

ASSUME FlowAssumption ==
  \A n \in Node, d \in Fact :
    /\ \A m \in Node : /\ NormalFlow(n, m, d) \subseteq Fact
                       /\ CallToRetFlow(n, m, d) \subseteq Fact
    /\ \A f \in Fun : /\ CallFlow(n, f, d) \subseteq Fact
                      /\ SummaryFF(n, f, d) \subseteq Fact
                      /\ \A x, r \in Node : RetFlow(n, f, x, r, d) \subseteq Fact

\* The edge functions of the problem, and what extend and combine make of them.
ASSUME EdgeFunctionAssumption ==
  /\ allTop \in EF /\ IdentityEdge \in EF \ {allTop}
  /\ \A n, m \in Node, d, e \in Fact :
       /\ NormalEF(n, d, m, e) \in EF
       /\ CallToRetEF(n, d, m, e) \in EF
       /\ SummaryEF(n, d, m, e) \in EF
       /\ \A f \in Fun : /\ CallEF(n, d, f, e) \in EF
                         /\ \A x \in Node : ReturnEF(n, f, x, d, m, e) \in EF
  /\ \A f, g \in EF : extend(f, g) \in EF /\ combine(f, g) \in EF

\* The edge functions are a join semilattice with the neutral element allTop.
ASSUME CombineAssumption ==
  /\ \A f \in EF : combine(f, f) = f /\ combine(allTop, f) = f
  /\ \A f, g \in EF : combine(f, g) = combine(g, f)
  /\ \A f, g, h \in EF : combine(combine(f, g), h) = combine(f, combine(g, h))

ASSUME SeedAssumption ==
  \A s \in InitialSeeds : DOMAIN s \subseteq Node \X Fact

ASSUME ConfigAssumption ==
  /\ GCModes \subseteq {"Disabled", "Enabled", "EnabledAggressively"}
  /\ EndSummaryTabModes \subseteq BOOLEAN

VARIABLES
  GCMode, UseEndSummaryTab,     \* the configuration, fixed for a run
  Seeds,                        \* <<n, d>> -> value
  WorkList,                     \* PropagationJobs
  JumpFunctions,                \* <<n, d1, d2>> -> edge function
  EndSummaryTab,                \* <<f, d1, d2>> -> edge function
  AllInterPropagations,         \* InterPropagationJobs
  SourceFactAndFuncToInterJob,  \* those still found by callee and fact
  CallWL,                       \* <<d1, f>> with new summaries
  RefCountPerFunction,
  CandidateFunctionsForGC,
  Stores,                       \* what the running handler still has to store
  Finished,                     \* no job was processed in this round
  ValTab,                       \* <<n, d>> -> value
  WLProp, WLComp,
  Collected,                    \* auxiliary: all keys the GC has removed so far
  pc

config == <<GCMode, UseEndSummaryTab, Seeds>>
tables == <<JumpFunctions, EndSummaryTab, AllInterPropagations,
            SourceFactAndFuncToInterJob, CallWL>>
gcVars == <<RefCountPerFunction, CandidateFunctionsForGC, Collected>>
valueVars == <<WLProp, WLComp>>
vars == <<config, tables, gcVars, valueVars, WorkList, Stores, Finished, ValTab, pc>>

PropagationJob == [at : Node, src : Fact, fact : Fact, ef : EF]
InterPropagationJob == [cs : Node, src : Fact, callee : Fun, fact : Fact, ef : EF]

\* A call of storeResultsAndPropagate: the function is the one whose
\* reference count the new job is charged to.
StoreCall == [at : Node, src : Fact, fact : Fact, fun : Fun, ef : EF]
store(n, d1, d2, f, ef) == [at |-> n, src |-> d1, fact |-> d2, fun |-> f, ef |-> ef]

Put(T, k, v) == [x \in DOMAIN T \cup {k} |-> IF x = k THEN v ELSE T[x]]
Without(T, S) == [x \in DOMAIN T \ S |-> T[x]]

CallersOf(f) == {FunOf(c) : c \in {x \in CallSite : f \in CalleesOf(x)}}
ExitPointsOf(f) == {n \in ExitInst : FunOf(n) = f}
ReturnSitesOf(c) == SuccsOf(c)

-----------------------------------------------------------------------------
(***************************************************************************)
(* What to keep when jump functions and results are thrown away.           *)
(***************************************************************************)
keepAnalysisInformationAt(n) ==
  \/ n \in ExitInst
  \/ n \in StartPoints(FunOf(n))
  \/ \E c \in CallSite : n \in SuccsOf(c)
  \/ isInteresting(n)

get(n, d) == IF <<n, d>> \in DOMAIN ValTab THEN ValTab[<<n, d>>] ELSE Top

set(T, n, d, v) ==
  IF GCMode = "EnabledAggressively" /\ ~keepAnalysisInformationAt(n)
  THEN T ELSE Put(T, <<n, d>>, v)

-----------------------------------------------------------------------------
(***************************************************************************)
(* storeResultsAndPropagate.                                               *)
(***************************************************************************)
\* Mutant: a refined jump function is stored but not propagated.
storeResultsAndPropagate_OnlyNew(x) ==
  LET n == advanceToNextUser(x.at, x.fact)
      k == <<n, x.src, x.fact>>
      new == k \notin DOMAIN JumpFunctions
      f == IF new THEN x.ef ELSE combine(JumpFunctions[k], x.ef)
  IN IF x.ef # allTop /\ (new \/ f # JumpFunctions[k])
     THEN /\ JumpFunctions' = Put(JumpFunctions, k, f)
          /\ WorkList' = IF new THEN WorkList \cup
               {[at |-> n, src |-> x.src, fact |-> x.fact, ef |-> f]} ELSE WorkList
          /\ ValTab' = IF new THEN set(ValTab, n, x.fact, Top) ELSE ValTab
          /\ IF GCMode = "Disabled" \/ ~new
             THEN UNCHANGED <<RefCountPerFunction, CandidateFunctionsForGC>>
             ELSE /\ RefCountPerFunction' =
                       [RefCountPerFunction EXCEPT ![x.fun] = @ + 1]
                  /\ CandidateFunctionsForGC' = CandidateFunctionsForGC \cup {x.fun}
     ELSE UNCHANGED <<JumpFunctions, WorkList, ValTab, RefCountPerFunction,
                      CandidateFunctionsForGC>>

\* A jump function that is new, or that the join has changed, is stored and
\* becomes a job; the default function is not stored at all.
storeResultsAndPropagate(x) ==
  LET n == advanceToNextUser(x.at, x.fact)
      k == <<n, x.src, x.fact>>
      new == k \notin DOMAIN JumpFunctions
      f == IF new THEN x.ef ELSE combine(JumpFunctions[k], x.ef)
  IN IF x.ef # allTop /\ (new \/ f # JumpFunctions[k])
     THEN /\ JumpFunctions' = Put(JumpFunctions, k, f)
          /\ WorkList' = WorkList \cup
               {[at |-> n, src |-> x.src, fact |-> x.fact, ef |-> f]}
          /\ ValTab' = IF new THEN set(ValTab, n, x.fact, Top) ELSE ValTab
          /\ IF GCMode = "Disabled"
             THEN UNCHANGED <<RefCountPerFunction, CandidateFunctionsForGC>>
             ELSE /\ RefCountPerFunction' =
                       [RefCountPerFunction EXCEPT ![x.fun] = @ + 1]
                  /\ CandidateFunctionsForGC' = CandidateFunctionsForGC \cup {x.fun}
     ELSE UNCHANGED <<JumpFunctions, WorkList, ValTab, RefCountPerFunction,
                      CandidateFunctionsForGC>>

doStore ==
  \E x \in Stores :
    /\ Stores' = Stores \ {x}
    /\ storeResultsAndPropagate(x)
    /\ UNCHANGED <<config, EndSummaryTab, AllInterPropagations,
                   SourceFactAndFuncToInterJob, CallWL, Collected, valueVars,
                   Finished, pc>>

-----------------------------------------------------------------------------
(***************************************************************************)
(* Flows: the stores that one job causes.                                  *)
(***************************************************************************)
NormalStores(j) ==
  UNION {{store(m, j.src, d, FunOf(j.at), extend(j.ef, NormalEF(j.at, j.fact, m, d))) :
            d \in NormalFlow(j.at, m, j.fact)} : m \in SuccsOf(j.at)}

CallToReturnStores(j) ==
  UNION {{store(r, j.src, d, FunOf(j.at),
                extend(j.ef, CallToRetEF(j.at, j.fact, r, d))) :
            d \in CallToRetFlow(j.at, r, j.fact)} : r \in ReturnSitesOf(j.at)}

SummaryStores(j) ==
  UNION {UNION {{store(r, j.src, d, FunOf(j.at),
                       extend(j.ef, SummaryEF(j.at, j.fact, r, d))) :
                   d \in SummaryFF(j.at, g, j.fact)} : r \in ReturnSitesOf(j.at)} :
           g \in {h \in CalleesOf(j.at) : HasSummaryFF(j.at, h)}}

\* The InterPropagationJobs of a job at a call, one per callee that has no
\* special summary and fact that enters it.
InterJobsOf(j) ==
  UNION {{[cs |-> j.at, src |-> j.src, callee |-> g, fact |-> d,
           ef |-> extend(j.ef, CallEF(j.at, j.fact, g, d))] :
            d \in CallFlow(j.at, g, j.fact)} :
           g \in {h \in CalleesOf(j.at) :
                    ~HasSummaryFF(j.at, h) /\ StartPoints(h) # {}}}

EntryStores(j) ==
  UNION {{store(sp, i.fact, i.fact, i.callee, IdentityEdge) :
            sp \in StartPoints(i.callee)} : i \in InterJobsOf(j)}

\* The summaries <<d, ef>> of f entered with d1, as seen at exit x: the table
\* does not tell exits apart.
Summaries(f, d1, x) ==
  IF UseEndSummaryTab
  THEN {<<k[3], EndSummaryTab[k]>> :
          k \in {y \in DOMAIN EndSummaryTab : y[1] = f /\ y[2] = d1}}
  ELSE {<<k[3], JumpFunctions[k]>> :
          k \in {y \in DOMAIN JumpFunctions : y[1] = x /\ y[2] = d1}}

\* Mutant: the new jobs are charged to the callee.
ReturnStores_ChargeCallee(i, x, S) ==
  UNION {UNION {{store(r, i.src, d, i.callee,
                       extend(extend(i.ef, s[2]),
                              ReturnEF(i.cs, i.callee, x, s[1], r, d))) :
                   d \in RetFlow(i.cs, i.callee, x, r, s[1])} :
                  r \in ReturnSitesOf(i.cs)} : s \in S}

\* propagateProcedureSummaries: the summaries of i's callee returned to i.
ReturnStores(i, x, S) ==
  UNION {UNION {{store(r, i.src, d, FunOf(i.cs),
                       extend(extend(i.ef, s[2]),
                              ReturnEF(i.cs, i.callee, x, s[1], r, d))) :
                   d \in RetFlow(i.cs, i.callee, x, r, s[1])} :
                  r \in ReturnSitesOf(i.cs)} : s \in S}

SummariesReturned(i) ==
  UNION {ReturnStores(i, x, Summaries(i.callee, i.fact, x)) :
           x \in ExitPointsOf(i.callee)}

-----------------------------------------------------------------------------
(***************************************************************************)
(* Phase I.                                                                *)
(***************************************************************************)
Init ==
  /\ GCMode \in GCModes /\ UseEndSummaryTab \in EndSummaryTabModes
  /\ Seeds \in InitialSeeds
  /\ WorkList = {} /\ JumpFunctions = <<>> /\ EndSummaryTab = <<>>
  /\ AllInterPropagations = {} /\ SourceFactAndFuncToInterJob = {}
  /\ CallWL = {} /\ RefCountPerFunction = [f \in Fun |-> 0]
  /\ CandidateFunctionsForGC = {} /\ Stores = {} /\ Finished = TRUE
  /\ ValTab = <<>> /\ WLProp = {} /\ WLComp = {} /\ Collected = {}
  /\ pc = "init"

submitInitialSeeds ==
  /\ pc = "init"
  /\ Stores' = {store(k[1], k[2], k[2], FunOf(k[1]), IdentityEdge) :
                  k \in DOMAIN Seeds}
  /\ pc' = "intra"
  /\ UNCHANGED <<config, tables, gcVars, valueVars, WorkList, Finished, ValTab>>

\* Taking a job off the WorkList.
pop(j) ==
  /\ pc = "intra" /\ Stores = {}
  /\ WorkList' = WorkList \ {j}
  /\ RefCountPerFunction' =
       IF GCMode = "Disabled" THEN RefCountPerFunction
       ELSE [RefCountPerFunction EXCEPT ![FunOf(j.at)] = @ - 1]
  /\ Finished' = FALSE
  /\ UNCHANGED <<config, CandidateFunctionsForGC, Collected, valueVars, ValTab, pc>>

\* Joins ef into the summary of f for d1 and d2.
storeSummary(f, d1, d2, ef) ==
  LET k == <<f, d1, d2>> IN
  Put(EndSummaryTab, k, IF k \in DOMAIN EndSummaryTab
                        THEN combine(EndSummaryTab[k], ef) ELSE ef)

\* Mutant: a function is scheduled for its callers only with its first
\* summary.
applyNormalFlow_Once(j) ==
  /\ pop(j)
  /\ j.at \notin CallSite
  /\ Stores' = NormalStores(j)
  /\ IF j.at \in ExitInst
     THEN /\ CallWL' = IF \E k \in DOMAIN EndSummaryTab :
                            k[1] = FunOf(j.at) /\ k[2] = j.src
                       THEN CallWL ELSE CallWL \cup {<<j.src, FunOf(j.at)>>}
          /\ EndSummaryTab' =
               IF UseEndSummaryTab
               THEN storeSummary(FunOf(j.at), j.src, j.fact, j.ef)
               ELSE EndSummaryTab
     ELSE UNCHANGED <<CallWL, EndSummaryTab>>
  /\ UNCHANGED <<JumpFunctions, AllInterPropagations, SourceFactAndFuncToInterJob>>

\* A new fact at an exit is a new summary; the calls that wait for it are
\* served by processInterJobs.
applyNormalFlow(j) ==
  /\ pop(j)
  /\ j.at \notin CallSite
  /\ Stores' = NormalStores(j)
  /\ IF j.at \in ExitInst
     THEN /\ CallWL' = CallWL \cup {<<j.src, FunOf(j.at)>>}
          /\ EndSummaryTab' =
               IF UseEndSummaryTab
               THEN storeSummary(FunOf(j.at), j.src, j.fact, j.ef)
               ELSE EndSummaryTab
     ELSE UNCHANGED <<CallWL, EndSummaryTab>>
  /\ UNCHANGED <<JumpFunctions, AllInterPropagations, SourceFactAndFuncToInterJob>>

\* Enter the callees, remember the inter jobs not seen before, and apply to
\* them the summaries that exist already (applyEarlySummariesAtCall).
applyIntraCallFlow(j) ==
  LET new == InterJobsOf(j) \ AllInterPropagations IN
  /\ pop(j)
  /\ j.at \in CallSite
  /\ Stores' = EntryStores(j) \cup SummaryStores(j) \cup CallToReturnStores(j)
                 \cup UNION {SummariesReturned(i) : i \in new}
  /\ AllInterPropagations' = AllInterPropagations \cup new
  /\ SourceFactAndFuncToInterJob' = SourceFactAndFuncToInterJob \cup new
  /\ UNCHANGED <<JumpFunctions, EndSummaryTab, CallWL>>

propagate == \E j \in WorkList : applyNormalFlow(j) \/ applyIntraCallFlow(j)

processInterJobs ==
  /\ pc = "intra" /\ Stores = {} /\ WorkList = {}
  /\ Stores' = UNION {SummariesReturned(i) :
                        i \in {x \in SourceFactAndFuncToInterJob :
                                 <<x.fact, x.callee>> \in CallWL}}
  /\ CallWL' = {}
  /\ pc' = "inter"
  /\ UNCHANGED <<config, JumpFunctions, EndSummaryTab, AllInterPropagations,
                 SourceFactAndFuncToInterJob, gcVars, valueVars, WorkList,
                 Finished, ValTab>>

-----------------------------------------------------------------------------
(***************************************************************************)
(* Garbage collection.                                                     *)
(***************************************************************************)
\* Mutant: only the reference count of the function itself is looked at.
getCollectableFunctions_NoCallers ==
  {f \in CandidateFunctionsForGC : RefCountPerFunction[f] = 0}

\* Candidates without jobs of their own that do not call, directly or through
\* other such candidates, a candidate that has jobs.
getCollectableFunctions ==
  LET live == {f \in CandidateFunctionsForGC : RefCountPerFunction[f] > 0}
      idle == CandidateFunctionsForGC \ live
      Closed(S) == \A g \in live \cup S : CallersOf(g) \cap idle \subseteq S
  IN {f \in idle : \E S \in SUBSET idle : Closed(S) /\ f \notin S}

\* Mutant: a round in which nothing happened does not end the loop.
runGC_NeverFinished ==
  LET fs == IF GCMode = "Disabled" THEN {} ELSE getCollectableFunctions
      dead == {k \in DOMAIN JumpFunctions :
                 FunOf(k[1]) \in fs /\ ~keepAnalysisInformationAt(k[1])}
  IN /\ pc = "inter" /\ Stores = {}
     /\ JumpFunctions' = Without(JumpFunctions, dead)
     /\ Collected' = Collected \cup dead
     /\ SourceFactAndFuncToInterJob' =
          {i \in SourceFactAndFuncToInterJob : i.callee \notin fs}
     /\ CandidateFunctionsForGC' = CandidateFunctionsForGC \ fs
     /\ pc' \in IF Finished THEN {"finalize"}
                ELSE IF WorkList = {} THEN {"intra", "finalize"} ELSE {"intra"}
     /\ Finished' = Finished
     /\ UNCHANGED <<config, EndSummaryTab, AllInterPropagations, CallWL,
                    RefCountPerFunction, valueVars, WorkList, Stores, ValTab>>

\* The end of a round.  solve() makes rounds until one processes no job;
\* next() returns false as soon as there is no job left.
runGC ==
  LET fs == IF GCMode = "Disabled" THEN {} ELSE getCollectableFunctions
      dead == {k \in DOMAIN JumpFunctions :
                 FunOf(k[1]) \in fs /\ ~keepAnalysisInformationAt(k[1])}
  IN /\ pc = "inter" /\ Stores = {}
     /\ JumpFunctions' = Without(JumpFunctions, dead)
     /\ Collected' = Collected \cup dead
     /\ SourceFactAndFuncToInterJob' =
          {i \in SourceFactAndFuncToInterJob : i.callee \notin fs}
     /\ CandidateFunctionsForGC' = CandidateFunctionsForGC \ fs
     /\ pc' \in IF Finished THEN {"finalize"}
                ELSE IF WorkList = {} THEN {"intra", "finalize"} ELSE {"intra"}
     /\ Finished' = TRUE
     /\ UNCHANGED <<config, EndSummaryTab, AllInterPropagations, CallWL,
                    RefCountPerFunction, valueVars, WorkList, Stores, ValTab>>

-----------------------------------------------------------------------------
(***************************************************************************)
(* Phase II.                                                               *)
(***************************************************************************)
submitInitialValues ==
  /\ pc = "finalize"
  /\ SourceFactAndFuncToInterJob' = {} /\ CallWL' = {} /\ WorkList' = {}
  /\ WLProp' = {<<k[1], k[2], Seeds[k]>> : k \in DOMAIN Seeds}
  /\ pc' = "values"
  /\ UNCHANGED <<config, JumpFunctions, EndSummaryTab, AllInterPropagations,
                 gcVars, WLComp, Stores, Finished, ValTab>>

\* A value that changes what is stored is handed to the callees entered from
\* p's function with p's fact: the value as it came in, not the joined one.
propagateValue(p) ==
  LET v == join(get(p[1], p[2]), p[3]) IN
  /\ pc = "values"
  /\ IF v = get(p[1], p[2])
     THEN /\ WLProp' = WLProp \ {p}
          /\ UNCHANGED <<ValTab, WLComp>>
     ELSE /\ ValTab' = set(ValTab, p[1], p[2], v)
          /\ WLComp' = WLComp \cup {p[1]}
          /\ WLProp' = (WLProp \ {p}) \cup
               UNION {StartPoints(i.callee) \X {i.fact} \X {applyFunction(i.ef, p[3])} :
                        i \in {x \in AllInterPropagations :
                                 x.src = p[2] /\ FunOf(x.cs) = FunOf(p[1])}}
  /\ UNCHANGED <<config, tables, gcVars, WorkList, Stores, Finished, pc>>

startComputation ==
  /\ pc = "values" /\ WLProp = {}
  /\ pc' = "compute"
  /\ UNCHANGED <<config, tables, gcVars, valueVars, WorkList, Stores, Finished, ValTab>>

\* The nodes of sp's function whose jump functions are evaluated from sp.
Evaluated(sp) ==
  {k \in DOMAIN JumpFunctions :
     /\ FunOf(k[1]) = FunOf(sp) /\ k[1] # sp
     /\ GCMode = "EnabledAggressively" => isInteresting(k[1])}

computeValues(sp) ==
  LET K == Evaluated(sp)
      targets == {<<k[1], k[3]>> : k \in K}
      new(t) == FoldSet(join, get(t[1], t[2]),
                        {applyFunction(JumpFunctions[k], get(sp, k[2])) :
                           k \in {x \in K : <<x[1], x[3]>> = t}})
  IN /\ pc = "compute"
     /\ WLComp' = WLComp \ {sp}
     /\ ValTab' = [t \in DOMAIN ValTab \cup targets |->
                     IF t \in targets THEN new(t) ELSE ValTab[t]]
     /\ UNCHANGED <<config, tables, gcVars, WLProp, WorkList, Stores, Finished, pc>>

endComputation ==
  /\ pc = "compute" /\ WLComp = {}
  /\ JumpFunctions' = <<>> /\ AllInterPropagations' = {}
  /\ pc' = "done"
  /\ UNCHANGED <<config, EndSummaryTab, SourceFactAndFuncToInterJob, CallWL,
                 gcVars, valueVars, WorkList, Stores, Finished, ValTab>>

Phase1 == \/ submitInitialSeeds \/ doStore \/ propagate \/ processInterJobs
          \/ runGC
Phase2 == \/ submitInitialValues \/ (\E p \in WLProp : propagateValue(p))
          \/ startComputation \/ (\E sp \in WLComp : computeValues(sp))
          \/ endComputation

Next == Phase1 \/ Phase2

\* solve() is a sequential loop without any blocking operation.
Spec == Init /\ [][Next]_vars /\ WF_vars(Next)

-----------------------------------------------------------------------------
TypeOK ==
  /\ GCMode \in GCModes /\ UseEndSummaryTab \in EndSummaryTabModes
  /\ WorkList \subseteq PropagationJob /\ Stores \subseteq StoreCall
  /\ DOMAIN JumpFunctions \subseteq Node \X Fact \X Fact
  /\ \A k \in DOMAIN JumpFunctions : JumpFunctions[k] \in EF \ {allTop}
  /\ DOMAIN EndSummaryTab \subseteq Fun \X Fact \X Fact
  /\ \A k \in DOMAIN EndSummaryTab : EndSummaryTab[k] \in EF \ {allTop}
  /\ SourceFactAndFuncToInterJob \subseteq AllInterPropagations
  /\ AllInterPropagations \subseteq InterPropagationJob
  /\ CallWL \subseteq Fact \X Fun
  /\ RefCountPerFunction \in [Fun -> Nat]
  /\ CandidateFunctionsForGC \subseteq Fun
  /\ Collected \subseteq Node \X Fact \X Fact
  /\ DOMAIN ValTab \subseteq Node \X Fact
  /\ \A k \in DOMAIN ValTab : ValTab[k] \in Value
  /\ WLProp \subseteq Node \X Fact \X Value /\ WLComp \subseteq Node
  /\ Finished \in BOOLEAN
  /\ pc \in {"init", "intra", "inter", "finalize", "values", "compute", "done"}

(***************************************************************************)
(* The reference count of a function is the number of jobs inside it, so   *)
(* that an empty WorkList implies zero counts (the sanity check of         *)
(* performDataflowFactPropagation) and a function with work to do is never *)
(* collected, whoever charged the job: a caller, a returning callee or the *)
(* seeds.                                                                  *)
(***************************************************************************)
RefCountExact ==
  GCMode # "Disabled" =>
    \A f \in Fun :
      /\ RefCountPerFunction[f] = Cardinality({j \in WorkList : FunOf(j.at) = f})
      /\ RefCountPerFunction[f] > 0 => f \in CandidateFunctionsForGC

\* JumpFunctions already accounts for the store x.
Stored(x) ==
  LET k == <<advanceToNextUser(x.at, x.fact), x.src, x.fact>> IN
  \/ x.ef = allTop
  \/ k \in DOMAIN JumpFunctions /\ combine(JumpFunctions[k], x.ef) = JumpFunctions[k]

(***************************************************************************)
(* No return is lost: whenever a callee has a summary for the fact that an *)
(* inter job entered it with, the result has reached the job's return      *)
(* sites, or is being stored, or the callee is scheduled on CallWL (or has *)
(* a job at an exit that will schedule it) and the inter job can still be  *)
(* found by its callee.  This must hold across garbage collections, which  *)
(* erase that lookup, and for jobs registered after the summary.           *)
(***************************************************************************)
NoLostReturn ==
  pc \in {"intra", "inter", "finalize"} =>
    \A i \in AllInterPropagations :
      \/ /\ i \in SourceFactAndFuncToInterJob
         /\ \/ <<i.fact, i.callee>> \in CallWL
            \/ \E j \in WorkList : /\ j.at \in ExitPointsOf(i.callee)
                                   /\ j.src = i.fact
      \/ \A x \in SummariesReturned(i) : x \in Stores \/ Stored(x)

(***************************************************************************)
(* What the collector has removed is never computed again: a function is   *)
(* collected only when it is finished for every fact it was entered with   *)
(* (its start points and return sites are kept "such that already analyzed *)
(* paths are not analyzed again").                                         *)
(***************************************************************************)
NoReanalysis == Collected \cap DOMAIN JumpFunctions = {}

\* solve() terminates.
Termination == <>(pc = "done")
=============================================================================
