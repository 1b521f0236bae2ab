----------------------- MODULE IterativeIDESolverProofs -----------------------
(***************************************************************************)
(* Proofs about IterativeIDESolver, for every ICFG and every problem that  *)
(* satisfy the assumptions of that module, every configuration and every   *)
(* order of the worklist.                                                  *)
(*                                                                         *)
(* SolverInv is inductive and has RefCountExact.  The count is that of a   *)
(* set of jobs, so a propagated store must make a job that is not queued   *)
(* yet: JobsStored says that the jump function of a queued job is part of  *)
(* the stored one, while a propagated function is not.  The collector      *)
(* empties the table under the jobs of no function with a count.  Rounds   *)
(* says that the jobs thrown away before Phase II are none.                *)
(*                                                                         *)
(* GCInv adds that there is a set Q of pairs of a function and a source    *)
(* fact for which nothing is left to do, closed under the calls made from  *)
(* them.  It grows when functions are collected, and everything the        *)
(* collector throws away (keys, and the lookup of waiting calls) belongs   *)
(* to pairs in Q.  A pair leaves the worklist for good only if it cannot   *)
(* be entered again, so GCInv also says that the entries are stored.       *)
(***************************************************************************)
EXTENDS IterativeIDESolver, FiniteSetTheorems, TLAPS

(***************************************************************************)
(* Stores: where the stores of a handler go and whom they are charged to.  *)
(***************************************************************************)
\* A store within function f, for source fact d, charged to f.
Local(x, f, d) ==
  x \in StoreCall /\ x.fun = f /\ FunOf(x.at) = f /\ x.src = d

\* A store and its fields.
LEMMA storeType ==
  ASSUME NEW n \in Node, NEW d1 \in Fact, NEW d2 \in Fact, NEW ef \in EF
  PROVE  /\ Local(store(n, d1, d2, FunOf(n), ef), FunOf(n), d1)
         /\ store(n, d1, d2, FunOf(n), ef).at = n
         /\ store(n, d1, d2, FunOf(n), ef).fact = d2
         /\ store(n, d1, d2, FunOf(n), ef).ef = ef
BY ICFGAssumption DEF store, StoreCall, Local

\* A successor is a node of the same function.
LEMMA SuccsType ==
  ASSUME NEW n \in Node, NEW m \in SuccsOf(n)
  PROVE  m \in Node /\ FunOf(m) = FunOf(n)
BY ICFGAssumption

\* A normal flow stays in the job's function and keeps its source fact,
LEMMA NormalStoresLocal ==
  ASSUME NEW j \in PropagationJob, NEW x \in NormalStores(j)
  PROVE  Local(x, FunOf(j.at), j.src)
<1>1. j.at \in Node /\ j.src \in Fact /\ j.fact \in Fact /\ j.ef \in EF
  BY DEF PropagationJob
<1>2. PICK m \in SuccsOf(j.at) : \E d \in NormalFlow(j.at, m, j.fact) :
             x = store(m, j.src, d, FunOf(j.at),
                       extend(j.ef, NormalEF(j.at, j.fact, m, d)))
  BY DEF NormalStores
<1>3. m \in Node /\ FunOf(m) = FunOf(j.at)
  BY <1>1, SuccsType
<1>2p. PICK d \in NormalFlow(j.at, m, j.fact) :
             x = store(m, j.src, d, FunOf(j.at),
                       extend(j.ef, NormalEF(j.at, j.fact, m, d)))
  BY <1>2
<1>4. d \in Fact
  BY <1>1, <1>3, FlowAssumption
<1>5. extend(j.ef, NormalEF(j.at, j.fact, m, d)) \in EF
  BY <1>1, <1>3, <1>4, EdgeFunctionAssumption
<1> QED
  BY <1>1, <1>2p, <1>3, <1>4, <1>5, storeType

\* and so does a call-to-return flow,
LEMMA CallToReturnStoresLocal ==
  ASSUME NEW j \in PropagationJob, NEW x \in CallToReturnStores(j)
  PROVE  Local(x, FunOf(j.at), j.src)
<1>1. j.at \in Node /\ j.src \in Fact /\ j.fact \in Fact /\ j.ef \in EF
  BY DEF PropagationJob
<1>2. PICK m \in SuccsOf(j.at) : \E d \in CallToRetFlow(j.at, m, j.fact) :
             x = store(m, j.src, d, FunOf(j.at),
                       extend(j.ef, CallToRetEF(j.at, j.fact, m, d)))
  BY DEF CallToReturnStores, ReturnSitesOf
<1>3. m \in Node /\ FunOf(m) = FunOf(j.at)
  BY <1>1, SuccsType
<1>2p. PICK d \in CallToRetFlow(j.at, m, j.fact) :
             x = store(m, j.src, d, FunOf(j.at),
                       extend(j.ef, CallToRetEF(j.at, j.fact, m, d)))
  BY <1>2
<1>4. d \in Fact
  BY <1>1, <1>3, FlowAssumption
<1>5. extend(j.ef, CallToRetEF(j.at, j.fact, m, d)) \in EF
  BY <1>1, <1>3, <1>4, EdgeFunctionAssumption
<1> QED
  BY <1>1, <1>2p, <1>3, <1>4, <1>5, storeType

\* and the special summary of a callee.
LEMMA SummaryStoresLocal ==
  ASSUME NEW j \in PropagationJob, NEW x \in SummaryStores(j)
  PROVE  Local(x, FunOf(j.at), j.src)
<1>1. j.at \in Node /\ j.src \in Fact /\ j.fact \in Fact /\ j.ef \in EF
  BY DEF PropagationJob
<1>2. PICK g \in CalleesOf(j.at), m \in SuccsOf(j.at) :
           \E d \in SummaryFF(j.at, g, j.fact) :
             x = store(m, j.src, d, FunOf(j.at),
                       extend(j.ef, SummaryEF(j.at, j.fact, m, d)))
  BY DEF SummaryStores, ReturnSitesOf
<1>3. m \in Node /\ FunOf(m) = FunOf(j.at) /\ g \in Fun
  BY <1>1, SuccsType, ICFGAssumption
<1>2p. PICK d \in SummaryFF(j.at, g, j.fact) :
             x = store(m, j.src, d, FunOf(j.at),
                       extend(j.ef, SummaryEF(j.at, j.fact, m, d)))
  BY <1>2
<1>4. d \in Fact
  BY <1>1, <1>3, FlowAssumption
<1>5. extend(j.ef, SummaryEF(j.at, j.fact, m, d)) \in EF
  BY <1>1, <1>3, <1>4, EdgeFunctionAssumption
<1> QED
  BY <1>1, <1>2p, <1>3, <1>4, <1>5, storeType

\* The inter jobs of a job at a call name its callees that have a body.
LEMMA InterJobsType ==
  ASSUME NEW j \in PropagationJob, NEW i \in InterJobsOf(j)
  PROVE  /\ i \in InterPropagationJob
         /\ i.cs = j.at /\ i.src = j.src
         /\ i.callee \in CalleesOf(j.at) /\ StartPoints(i.callee) # {}
<1>1. j.at \in Node /\ j.src \in Fact /\ j.fact \in Fact /\ j.ef \in EF
  BY DEF PropagationJob
<1>2. PICK g \in {h \in CalleesOf(j.at) :
                    ~HasSummaryFF(j.at, h) /\ StartPoints(h) # {}} :
           \E d \in CallFlow(j.at, g, j.fact) :
             i = [cs |-> j.at, src |-> j.src, callee |-> g, fact |-> d,
                  ef |-> extend(j.ef, CallEF(j.at, j.fact, g, d))]
  BY DEF InterJobsOf
<1>3. g \in Fun /\ g \in CalleesOf(j.at) /\ StartPoints(g) # {}
  BY <1>1, ICFGAssumption
<1>2p. PICK d \in CallFlow(j.at, g, j.fact) :
             i = [cs |-> j.at, src |-> j.src, callee |-> g, fact |-> d,
                  ef |-> extend(j.ef, CallEF(j.at, j.fact, g, d))]
  BY <1>2
<1>4. d \in Fact
  BY <1>1, <1>3, FlowAssumption
<1>5. extend(j.ef, CallEF(j.at, j.fact, g, d)) \in EF
  BY <1>1, <1>3, <1>4, EdgeFunctionAssumption
<1> QED
  BY <1>1, <1>2p, <1>3, <1>4, <1>5 DEF InterPropagationJob

\* The store that enters a function at a start point with fact d.
entry(sp, d) == store(sp, d, d, FunOf(sp), IdentityEdge)

\* Entering is charged to the callee and starts a path of its own.
LEMMA entryType ==
  ASSUME NEW f \in Fun, NEW sp \in StartPoints(f), NEW d \in Fact
  PROVE  /\ sp \in Node /\ FunOf(sp) = f
         /\ Local(entry(sp, d), f, d)
         /\ entry(sp, d).at = sp /\ entry(sp, d).fact = d
         /\ entry(sp, d).ef = IdentityEdge
<1>1. sp \in Node /\ FunOf(sp) = f
  BY ICFGAssumption
<1> QED
  BY <1>1, EdgeFunctionAssumption, storeType DEF entry

\* A call enters each callee at each of its start points.
LEMMA EntryStoresMember ==
  ASSUME NEW j \in PropagationJob, NEW x
  PROVE  x \in EntryStores(j) <=>
           \E i \in InterJobsOf(j) : \E sp \in StartPoints(i.callee) :
             x = entry(sp, i.fact)
<1>1. x \in EntryStores(j) <=>
        \E i \in InterJobsOf(j) : \E sp \in StartPoints(i.callee) :
          x = store(sp, i.fact, i.fact, i.callee, IdentityEdge)
  BY DEF EntryStores
<1>2. ASSUME NEW i \in InterJobsOf(j), NEW sp \in StartPoints(i.callee)
      PROVE  store(sp, i.fact, i.fact, i.callee, IdentityEdge) = entry(sp, i.fact)
  <2>1. i.callee \in Fun
    BY InterJobsType DEF InterPropagationJob
  <2>2. FunOf(sp) = i.callee
    BY <2>1, ICFGAssumption
  <2> QED
    BY <2>2 DEF entry
<1> QED
  BY <1>1, <1>2

-----------------------------------------------------------------------------
(***************************************************************************)
(* Types of Phase I.                                                       *)
(***************************************************************************)
TableTypeOK ==
  /\ WorkList \subseteq PropagationJob /\ IsFiniteSet(WorkList)
  /\ Stores \subseteq StoreCall
  /\ DOMAIN JumpFunctions \subseteq Node \X Fact \X Fact
  /\ \A k \in DOMAIN JumpFunctions : JumpFunctions[k] \in EF \ {allTop}
  /\ DOMAIN EndSummaryTab \subseteq Fun \X Fact \X Fact
  /\ \A k \in DOMAIN EndSummaryTab : EndSummaryTab[k] \in EF \ {allTop}
  /\ SourceFactAndFuncToInterJob \subseteq AllInterPropagations
  /\ AllInterPropagations \subseteq InterPropagationJob
  /\ CallWL \subseteq Fact \X Fun
  /\ RefCountPerFunction \in [Fun -> Nat]
  /\ CandidateFunctionsForGC \subseteq Fun
  /\ Collected \subseteq Node \X Fact \X Fact
  /\ Seeds \in InitialSeeds
  /\ Finished \in BOOLEAN
  /\ pc \in {"init", "intra", "inter", "finalize", "values", "compute", "done"}

\* A summary is a fact and an edge function.
LEMMA SummariesType ==
  ASSUME TableTypeOK, NEW f, NEW d1, NEW x, NEW s \in Summaries(f, d1, x)
  PROVE  s[1] \in Fact /\ s[2] \in EF
<1>1. CASE UseEndSummaryTab
  <2>1. PICK k \in DOMAIN EndSummaryTab : s = <<k[3], EndSummaryTab[k]>>
    BY <1>1 DEF Summaries
  <2>2. k \in Fun \X Fact \X Fact /\ EndSummaryTab[k] \in EF
    BY DEF TableTypeOK
  <2> QED
    BY <2>1, <2>2
<1>2. CASE ~UseEndSummaryTab
  <2>1. PICK k \in DOMAIN JumpFunctions : s = <<k[3], JumpFunctions[k]>>
    BY <1>2 DEF Summaries
  <2>2. k \in Node \X Fact \X Fact /\ JumpFunctions[k] \in EF
    BY DEF TableTypeOK
  <2> QED
    BY <2>1, <2>2
<1> QED
  BY <1>1, <1>2

\* What returns to an inter job goes to the return sites of its call.
LEMMA ReturnedLocal ==
  ASSUME TableTypeOK, NEW i \in InterPropagationJob,
         NEW y \in SummariesReturned(i)
  PROVE  Local(y, FunOf(i.cs), i.src) /\ y.at \in SuccsOf(i.cs)
<1>1. /\ i.cs \in Node /\ i.src \in Fact /\ i.callee \in Fun /\ i.fact \in Fact
      /\ i.ef \in EF
  BY DEF InterPropagationJob
<1>2. PICK x \in ExitPointsOf(i.callee) :
             y \in ReturnStores(i, x, Summaries(i.callee, i.fact, x))
  BY DEF SummariesReturned
<1> DEFINE S == Summaries(i.callee, i.fact, x)
           F(s, r, d) == extend(extend(i.ef, s[2]),
                                ReturnEF(i.cs, i.callee, x, s[1], r, d))
<1>2p. PICK s \in S, r \in SuccsOf(i.cs) :
             \E d \in RetFlow(i.cs, i.callee, x, r, s[1]) :
               y = store(r, i.src, d, FunOf(i.cs), F(s, r, d))
  <2> HIDE DEF S
  <2> QED BY <1>2 DEF ReturnStores, ReturnSitesOf, S
<1>3. PICK d \in RetFlow(i.cs, i.callee, x, r, s[1]) :
             y = store(r, i.src, d, FunOf(i.cs), F(s, r, d))
  BY <1>2p
<1>4. x \in Node /\ r \in Node /\ FunOf(r) = FunOf(i.cs)
  BY <1>1, SuccsType, ICFGAssumption DEF ExitPointsOf
<1>5. s[1] \in Fact /\ s[2] \in EF
  BY SummariesType
<1>6. d \in Fact
  BY <1>1, <1>4, <1>5, FlowAssumption
<1>7. F(s, r, d) \in EF
  BY <1>1, <1>4, <1>5, <1>6, EdgeFunctionAssumption
<1> QED
  <2> HIDE DEF F
  <2> QED BY <1>1, <1>3, <1>4, <1>6, <1>7, storeType
-----------------------------------------------------------------------------
(***************************************************************************)
(* storeResultsAndPropagate.                                               *)
(***************************************************************************)
\* The key under which JumpFunctions holds what x stores.
Target(x) == <<advanceToNextUser(x.at, x.fact), x.src, x.fact>>

\* x is stored: f, a function that accounts for x, becomes the jump function
\* of x's target and a job of x's function.
Propagated(x, f) ==
  /\ x.ef # allTop
  /\ f \in EF \ {allTop} /\ combine(f, x.ef) = f
  /\ DOMAIN JumpFunctions' = DOMAIN JumpFunctions \cup {Target(x)}
  /\ JumpFunctions'[Target(x)] = f
  /\ \A k \in DOMAIN JumpFunctions :
       k # Target(x) => JumpFunctions'[k] = JumpFunctions[k]
  /\ Target(x) \in DOMAIN JumpFunctions =>
       /\ f = combine(JumpFunctions[Target(x)], x.ef)
       /\ f # JumpFunctions[Target(x)]
  /\ WorkList' = WorkList \cup {[at |-> Target(x)[1], src |-> x.src,
                                 fact |-> x.fact, ef |-> f]}
  /\ IF GCMode = "Disabled"
     THEN UNCHANGED <<RefCountPerFunction, CandidateFunctionsForGC>>
     ELSE /\ RefCountPerFunction' =
               [RefCountPerFunction EXCEPT ![x.fun] = @ + 1]
          /\ CandidateFunctionsForGC' = CandidateFunctionsForGC \cup {x.fun}

\* A join can only be allTop when both sides are.
LEMMA combineNotTop ==
  ASSUME NEW f \in EF \ {allTop}, NEW g \in EF
  PROVE  combine(f, g) \in EF \ {allTop}
<1>1. combine(f, g) \in EF
  BY EdgeFunctionAssumption
<1>2. combine(f, combine(f, g)) = combine(f, g)
  BY CombineAssumption
<1>3. combine(f, allTop) = f
  BY CombineAssumption, EdgeFunctionAssumption
<1> QED
  BY <1>1, <1>2, <1>3

\* A join accounts for what is joined in.
LEMMA combineAbsorbs ==
  ASSUME NEW f \in EF, NEW g \in EF
  PROVE  /\ combine(combine(f, g), g) = combine(f, g)
         /\ combine(f, combine(f, g)) = combine(f, g)
<1>1. combine(combine(f, g), g) = combine(f, combine(g, g))
  BY CombineAssumption
<1>2. combine(f, combine(f, g)) = combine(combine(f, f), g)
  BY CombineAssumption
<1> QED
  BY <1>1, <1>2, CombineAssumption

\* What is accounted for stays so under a further join.
LEMMA combineKeeps ==
  ASSUME NEW f \in EF, NEW g \in EF, NEW h \in EF, combine(f, h) = f
  PROVE  combine(combine(f, g), h) = combine(f, g)
<1>1. combine(combine(f, g), h) = combine(f, combine(g, h))
  BY CombineAssumption
<1>2. combine(g, h) = combine(h, g)
  BY CombineAssumption
<1>3. combine(f, combine(h, g)) = combine(combine(f, h), g)
  BY CombineAssumption
<1> QED
  BY <1>1, <1>2, <1>3

\* The fields of a store and its target.
LEMMA StoreCallType ==
  ASSUME NEW x \in StoreCall
  PROVE  /\ x.at \in Node /\ x.src \in Fact /\ x.fact \in Fact /\ x.fun \in Fun
         /\ x.ef \in EF
         /\ Target(x) \in Node \X Fact \X Fact
         /\ Target(x)[1] \in Node /\ FunOf(Target(x)[1]) = FunOf(x.at)
         /\ Target(x)[2] = x.src /\ Target(x)[3] = x.fact
<1>1. x.at \in Node /\ x.src \in Fact /\ x.fact \in Fact /\ x.fun \in Fun /\ x.ef \in EF
  BY DEF StoreCall
<1>2. /\ advanceToNextUser(x.at, x.fact) \in Node
      /\ FunOf(advanceToNextUser(x.at, x.fact)) = FunOf(x.at)
  BY <1>1, ICFGAssumption
<1> QED
  BY <1>1, <1>2 DEF Target

\* Stored, with the target named.
LEMMA StoredDef ==
  ASSUME NEW x
  PROVE  Stored(x) <=>
           \/ x.ef = allTop
           \/ /\ Target(x) \in DOMAIN JumpFunctions
              /\ combine(JumpFunctions[Target(x)], x.ef) = JumpFunctions[Target(x)]
BY DEF Stored, Target

\* The same of the next state.
LEMMA StoredDefNext ==
  ASSUME NEW x
  PROVE  Stored(x)' <=>
           \/ x.ef = allTop
           \/ /\ Target(x) \in DOMAIN JumpFunctions'
              /\ combine(JumpFunctions'[Target(x)], x.ef) = JumpFunctions'[Target(x)]
BY DEF Stored, Target

\* A store changes nothing when it is accounted for already, and is
\* propagated otherwise.
LEMMA storeCases ==
  ASSUME TableTypeOK, NEW x \in Stores, storeResultsAndPropagate(x)
  PROVE  \/ /\ Stored(x)
            /\ UNCHANGED <<JumpFunctions, WorkList, RefCountPerFunction,
                           CandidateFunctionsForGC>>
         \/ \E f : Propagated(x, f)
<1>1. /\ x \in StoreCall /\ x.ef \in EF
      /\ \A k \in DOMAIN JumpFunctions : JumpFunctions[k] \in EF \ {allTop}
  BY StoreCallType DEF TableTypeOK
<1> DEFINE k == Target(x)
           new == k \notin DOMAIN JumpFunctions
           f == IF new THEN x.ef ELSE combine(JumpFunctions[k], x.ef)
<1>2. CASE x.ef # allTop /\ (new \/ f # JumpFunctions[k])
  <2>1. /\ JumpFunctions' = Put(JumpFunctions, k, f)
        /\ WorkList' = WorkList \cup {[at |-> advanceToNextUser(x.at, x.fact),
                         src |-> x.src, fact |-> x.fact, ef |-> f]}
        /\ IF GCMode = "Disabled"
           THEN UNCHANGED <<RefCountPerFunction, CandidateFunctionsForGC>>
           ELSE /\ RefCountPerFunction' =
                     [RefCountPerFunction EXCEPT ![x.fun] = @ + 1]
                /\ CandidateFunctionsForGC' = CandidateFunctionsForGC \cup {x.fun}
    BY <1>2 DEF storeResultsAndPropagate, Target
  <2>2. f \in EF \ {allTop} /\ combine(f, x.ef) = f
    <3>1. CASE new
      BY <1>1, <1>2, <3>1, CombineAssumption
    <3>2. CASE ~new
      BY <1>1, <3>2, combineNotTop, combineAbsorbs
    <3> QED
      BY <3>1, <3>2
  <2>3. /\ DOMAIN JumpFunctions' = DOMAIN JumpFunctions \cup {k}
        /\ JumpFunctions'[k] = f
        /\ \A y \in DOMAIN JumpFunctions :
             y # k => JumpFunctions'[y] = JumpFunctions[y]
    <3> HIDE DEF k, f
    <3> QED BY <2>1 DEF Put
  <2>4. k \in DOMAIN JumpFunctions =>
          f = combine(JumpFunctions[k], x.ef) /\ f # JumpFunctions[k]
    BY <1>2
  <2>5. WorkList' = WorkList \cup {[at |-> k[1], src |-> x.src,
                                    fact |-> x.fact, ef |-> f]}
    BY <2>1 DEF Target
  <2>6. Propagated(x, f)
    <3> HIDE DEF f
    <3> QED BY <1>2, <2>1, <2>2, <2>3, <2>4, <2>5 DEF Propagated
  <2> QED
    BY <2>6
<1>3. CASE ~(x.ef # allTop /\ (new \/ f # JumpFunctions[k]))
  <2>1. UNCHANGED <<JumpFunctions, WorkList, RefCountPerFunction,
                    CandidateFunctionsForGC>>
    BY <1>3 DEF storeResultsAndPropagate, Target
  <2>2. Stored(x)
    BY <1>3, StoredDef
  <2> QED
    BY <2>1, <2>2
<1> QED
  BY <1>2, <1>3

\* What is accounted for stays so when another store is propagated,
LEMMA StoredKept ==
  ASSUME TableTypeOK, NEW x \in Stores, NEW f, Propagated(x, f),
         NEW y \in StoreCall, Stored(y)
  PROVE  Stored(y)'
<1>1. x.ef \in EF /\ y.ef \in EF
  BY StoreCallType DEF TableTypeOK
<1>2. CASE y.ef = allTop
  BY <1>2, StoredDefNext
<1>3. CASE y.ef # allTop
  <2>1. /\ Target(y) \in DOMAIN JumpFunctions
        /\ combine(JumpFunctions[Target(y)], y.ef) = JumpFunctions[Target(y)]
    BY <1>3, StoredDef
  <2>2. JumpFunctions[Target(y)] \in EF
    BY <2>1 DEF TableTypeOK
  <2>3. CASE Target(y) = Target(x)
    <3>1. JumpFunctions'[Target(y)] = combine(JumpFunctions[Target(y)], x.ef)
      BY <2>1, <2>3 DEF Propagated
    <3> QED
      BY <1>1, <2>1, <2>2, <3>1, combineKeeps, StoredDefNext DEF Propagated
  <2>4. CASE Target(y) # Target(x)
    BY <2>1, <2>4, StoredDefNext DEF Propagated
  <2> QED
    BY <2>3, <2>4
<1> QED
  BY <1>2, <1>3

\* and the store itself is accounted for afterwards.
LEMMA PropagatedStored ==
  ASSUME NEW x, NEW f, Propagated(x, f)
  PROVE  Stored(x)'
BY StoredDefNext DEF Propagated

-----------------------------------------------------------------------------
(***************************************************************************)
(* Reference counts.                                                       *)
(***************************************************************************)
JobKey(j) == <<j.at, j.src, j.fact>>

\* A job was stored when it was made, and nothing has been lost since.
JobsStored ==
  \A j \in WorkList :
    /\ j.ef # allTop /\ JobKey(j) \in DOMAIN JumpFunctions
    /\ combine(JumpFunctions[JobKey(j)], j.ef) = JumpFunctions[JobKey(j)]

\* A store is charged to the function it stores into.
StoresCharged == \A x \in Stores : x.fun = FunOf(x.at)

InterJobsKnown ==
  \A i \in AllInterPropagations :
    /\ i.cs \in CallSite /\ i.callee \in CalleesOf(i.cs)
    /\ StartPoints(i.callee) # {}

\* What is empty when; a round that processed no job returns no summary and
\* makes no job.
Rounds ==
  /\ pc = "init" => /\ DOMAIN JumpFunctions = {} /\ WorkList = {} /\ Stores = {}
                    /\ AllInterPropagations = {} /\ Collected = {}
  /\ (pc \in {"init", "inter"} \/ Finished) => CallWL = {}
  /\ (pc = "inter" /\ Finished) => WorkList = {} /\ Stores = {}
  /\ pc \in {"finalize", "values", "compute", "done"} =>
       WorkList = {} /\ Stores = {} /\ CallWL = {}
  /\ pc \in {"values", "compute", "done"} => SourceFactAndFuncToInterJob = {}

SolverInv ==
  /\ TableTypeOK /\ JobsStored /\ StoresCharged /\ InterJobsKnown /\ Rounds
  /\ RefCountExact

JobsIn(W, f) == {j \in W : FunOf(j.at) = f}

\* One more job is one more in its function and no more elsewhere,
LEMMA CountAdded ==
  ASSUME NEW W, IsFiniteSet(W), NEW j, j \notin W, NEW f
  PROVE  Cardinality(JobsIn(W \cup {j}, f)) =
           IF FunOf(j.at) = f THEN Cardinality(JobsIn(W, f)) + 1
           ELSE Cardinality(JobsIn(W, f))
<1>1. IsFiniteSet(JobsIn(W, f))
  BY FS_Subset DEF JobsIn
<1>2. CASE FunOf(j.at) = f
  <2>1. JobsIn(W \cup {j}, f) = JobsIn(W, f) \cup {j}
    BY <1>2 DEF JobsIn
  <2>2. j \notin JobsIn(W, f)
    BY DEF JobsIn
  <2>3. Cardinality(JobsIn(W, f) \cup {j}) = Cardinality(JobsIn(W, f)) + 1
    <3> HIDE DEF JobsIn
    <3> DEFINE S == JobsIn(W, f)
    <3>1. IsFiniteSet(S) /\ j \notin S
      BY <1>1, <2>2
    <3> HIDE DEF S
    <3>2. Cardinality(S \cup {j}) = Cardinality(S) + 1
      BY <3>1, FS_AddElement
    <3> QED
      BY <3>2 DEF S
  <2> QED
    BY <1>2, <2>1, <2>3
<1>3. CASE FunOf(j.at) # f
  <2>1. JobsIn(W \cup {j}, f) = JobsIn(W, f)
    BY <1>3 DEF JobsIn
  <2> QED
    BY <1>3, <2>1
<1> QED
  BY <1>2, <1>3

\* and one job less is one less there.
LEMMA CountRemoved ==
  ASSUME NEW W, IsFiniteSet(W), NEW j \in W, NEW f
  PROVE  /\ Cardinality(JobsIn(W, f)) \in Nat
         /\ Cardinality(JobsIn(W \ {j}, f)) =
              IF FunOf(j.at) = f THEN Cardinality(JobsIn(W, f)) - 1
              ELSE Cardinality(JobsIn(W, f))
         /\ FunOf(j.at) = f => Cardinality(JobsIn(W, f)) > 0
<1>1. IsFiniteSet(JobsIn(W, f)) /\ Cardinality(JobsIn(W, f)) \in Nat
  BY FS_Subset, FS_CardinalityType DEF JobsIn
<1>2. CASE FunOf(j.at) = f
  <2>1. JobsIn(W \ {j}, f) = JobsIn(W, f) \ {j} /\ j \in JobsIn(W, f)
    BY <1>2 DEF JobsIn
  <2>2. Cardinality(JobsIn(W, f)) # 0
    BY <1>1, <2>1, FS_EmptySet
  <2>3. Cardinality(JobsIn(W, f) \ {j}) = Cardinality(JobsIn(W, f)) - 1
    BY <1>1, <2>1, FS_RemoveElement
  <2> QED
    BY <1>1, <1>2, <2>1, <2>2, <2>3
<1>3. CASE FunOf(j.at) # f
  <2>1. JobsIn(W \ {j}, f) = JobsIn(W, f)
    BY <1>3 DEF JobsIn
  <2> QED
    BY <1>1, <1>3, <2>1
<1> QED
  BY <1>2, <1>3

\* RefCountExact with the jobs of a function named.
LEMMA RefCountDef ==
  RefCountExact <=>
    (GCMode # "Disabled" =>
       \A f \in Fun :
         /\ RefCountPerFunction[f] = Cardinality(JobsIn(WorkList, f))
         /\ RefCountPerFunction[f] > 0 => f \in CandidateFunctionsForGC)
BY DEF RefCountExact, JobsIn

\* The same of the next state.
LEMMA RefCountDefNext ==
  RefCountExact' <=>
    (GCMode' # "Disabled" =>
       \A f \in Fun :
         /\ RefCountPerFunction'[f] = Cardinality(JobsIn(WorkList', f))
         /\ RefCountPerFunction'[f] > 0 => f \in CandidateFunctionsForGC')
BY DEF RefCountExact, JobsIn

\* The job that a store makes.
JobOf(x, f) ==
  [at |-> Target(x)[1], src |-> x.src, fact |-> x.fact, ef |-> f]

\* It is a new one: a queued job with the same jump function would mean that
\* the store changed nothing.
LEMMA JobIsNew ==
  ASSUME TableTypeOK, JobsStored, NEW x \in Stores, NEW f, Propagated(x, f)
  PROVE  /\ JobOf(x, f) \in PropagationJob /\ JobKey(JobOf(x, f)) = Target(x)
         /\ FunOf(JobOf(x, f).at) = FunOf(x.at) /\ JobOf(x, f).ef = f
         /\ JobOf(x, f).src = x.src
         /\ JobOf(x, f) \notin WorkList
<1>1. /\ x \in StoreCall /\ x.src \in Fact /\ x.fact \in Fact /\ x.ef \in EF
      /\ Target(x)[1] \in Node /\ FunOf(Target(x)[1]) = FunOf(x.at)
      /\ Target(x)[2] = x.src /\ Target(x)[3] = x.fact
  BY StoreCallType DEF TableTypeOK
<1>2. f \in EF
  BY DEF Propagated
<1>3. /\ JobOf(x, f) \in PropagationJob
      /\ FunOf(JobOf(x, f).at) = FunOf(x.at) /\ JobOf(x, f).ef = f
      /\ JobOf(x, f).src = x.src
  BY <1>1, <1>2 DEF JobOf, PropagationJob
<1>4. JobKey(JobOf(x, f)) = Target(x)
  BY <1>1 DEF JobOf, JobKey, Target
<1>5. ASSUME JobOf(x, f) \in WorkList PROVE FALSE
  <2>1. /\ Target(x) \in DOMAIN JumpFunctions
        /\ combine(JumpFunctions[Target(x)], f) = JumpFunctions[Target(x)]
    BY <1>3, <1>4, <1>5 DEF JobsStored
  <2>2. /\ JumpFunctions[Target(x)] \in EF
        /\ f = combine(JumpFunctions[Target(x)], x.ef)
        /\ f # JumpFunctions[Target(x)]
    BY <2>1 DEF Propagated, TableTypeOK
  <2>3. combine(JumpFunctions[Target(x)], f) = f
    BY <1>1, <2>2, combineAbsorbs
  <2> QED
    BY <2>1, <2>2, <2>3
<1> QED
  BY <1>3, <1>4, <1>5

\* A new solver has no jobs.
LEMMA SolverInvInit == Init => SolverInv
<1> SUFFICES ASSUME Init PROVE SolverInv
  OBVIOUS
<1>1. /\ WorkList = {} /\ Stores = {} /\ DOMAIN JumpFunctions = {}
      /\ DOMAIN EndSummaryTab = {} /\ AllInterPropagations = {}
      /\ SourceFactAndFuncToInterJob = {} /\ CallWL = {} /\ Collected = {}
      /\ CandidateFunctionsForGC = {} /\ Seeds \in InitialSeeds /\ pc = "init"
      /\ RefCountPerFunction = [f \in Fun |-> 0]
  BY DEF Init
<1>2. Finished \in BOOLEAN
  BY Zenon DEF Init
<1>3. IsFiniteSet(WorkList)
  BY <1>1, FS_EmptySet
<1>4. TableTypeOK
  BY <1>1, <1>2, <1>3 DEF TableTypeOK
<1>5. JobsStored /\ StoresCharged /\ InterJobsKnown /\ Rounds
  BY <1>1 DEF JobsStored, StoresCharged, InterJobsKnown, Rounds
<1>6. RefCountExact
  <2>1. \A f : JobsIn(WorkList, f) = {}
    BY <1>1 DEF JobsIn
  <2>2. \A f \in Fun : RefCountPerFunction[f] = 0
    BY <1>1
  <2> QED
    BY <2>1, <2>2, FS_EmptySet, RefCountDef
<1> QED
  BY <1>4, <1>5, <1>6 DEF SolverInv

\* A step that changes neither the jobs nor their counts.
LEMMA RefCountFrame ==
  ASSUME RefCountExact,
         UNCHANGED <<GCMode, WorkList, RefCountPerFunction, CandidateFunctionsForGC>>
  PROVE  RefCountExact'
BY RefCountDef, RefCountDefNext

\* The seeds become stores.
LEMMA SolverInvSeeds ==
  ASSUME SolverInv, submitInitialSeeds PROVE SolverInv'
<1> USE DEF SolverInv
<1>1. /\ pc = "init" /\ pc' = "intra"
      /\ Stores' = {store(k[1], k[2], k[2], FunOf(k[1]), IdentityEdge) :
                      k \in DOMAIN Seeds}
      /\ UNCHANGED <<config, tables, gcVars, WorkList, Finished>>
  BY DEF submitInitialSeeds
<1>2. \A x \in Stores' : x \in StoreCall /\ x.fun = FunOf(x.at)
  <2> SUFFICES ASSUME NEW k \in DOMAIN Seeds
               PROVE  Local(store(k[1], k[2], k[2], FunOf(k[1]), IdentityEdge),
                            FunOf(k[1]), k[2])
    BY <1>1 DEF Local
  <2>1. k[1] \in Node /\ k[2] \in Fact
    BY SeedAssumption DEF TableTypeOK
  <2> QED
    BY <2>1, storeType, EdgeFunctionAssumption
<1>3. TableTypeOK'
  BY <1>1, <1>2 DEF TableTypeOK, config, tables, gcVars
<1>4. JobsStored' /\ StoresCharged' /\ InterJobsKnown'
  BY <1>1, <1>2 DEF JobsStored, StoresCharged, InterJobsKnown, tables
<1>5. Rounds'
  BY <1>1 DEF Rounds, tables, gcVars
<1>6. RefCountExact'
  BY <1>1, RefCountFrame DEF config, gcVars
<1> QED
  BY <1>3, <1>4, <1>5, <1>6

\* Storing keeps the counts: a propagated store makes exactly one job, in the
\* function it is charged to.
LEMMA SolverInvStore ==
  ASSUME SolverInv, doStore PROVE SolverInv'
<1> USE DEF SolverInv
<1>1. PICK x \in Stores :
        /\ Stores' = Stores \ {x}
        /\ storeResultsAndPropagate(x)
        /\ UNCHANGED <<config, EndSummaryTab, AllInterPropagations,
                       SourceFactAndFuncToInterJob, CallWL, Collected, Finished, pc>>
  BY DEF doStore
<1>2. StoresCharged' /\ InterJobsKnown'
  BY <1>1 DEF StoresCharged, InterJobsKnown
<1>3. Rounds'
  <2>1. pc \in {"intra", "inter"} /\ ~(pc = "inter" /\ Finished)
    BY <1>1 DEF Rounds, TableTypeOK
  <2> QED
    BY <1>1, <2>1 DEF Rounds
<1>4. CASE UNCHANGED <<JumpFunctions, WorkList, RefCountPerFunction,
                       CandidateFunctionsForGC>>
  <2>1. TableTypeOK'
    BY <1>1, <1>4 DEF TableTypeOK, config
  <2>2. JobsStored'
    BY <1>4 DEF JobsStored
  <2>3. RefCountExact'
    BY <1>1, <1>4, RefCountFrame DEF config
  <2> QED
    BY <1>2, <1>3, <2>1, <2>2, <2>3
<1>5. ASSUME NEW f, Propagated(x, f) PROVE SolverInv'
  <2>1. x \in StoreCall /\ x.fun \in Fun /\ x.fun = FunOf(x.at) /\ x.ef \in EF
    BY StoreCallType DEF TableTypeOK, StoresCharged
  <2> DEFINE j == JobOf(x, f)
  <2>2. /\ j \in PropagationJob /\ JobKey(j) = Target(x) /\ j.ef = f
        /\ FunOf(j.at) = x.fun /\ j \notin WorkList
    BY <1>5, <2>1, JobIsNew
  <2>3. WorkList' = WorkList \cup {j}
    BY <1>5 DEF Propagated, JobOf
  <2> HIDE DEF j
  <2>4. TableTypeOK'
    <3>1. IsFiniteSet(WorkList')
      BY <2>3, FS_AddElement DEF TableTypeOK
    <3>2. WorkList' \subseteq PropagationJob /\ Stores' \subseteq StoreCall
      BY <1>1, <2>2, <2>3 DEF TableTypeOK
    <3>3. /\ DOMAIN JumpFunctions' \subseteq Node \X Fact \X Fact
          /\ \A k \in DOMAIN JumpFunctions' : JumpFunctions'[k] \in EF \ {allTop}
      <4>1. Target(x) \in Node \X Fact \X Fact
        BY <2>1, StoreCallType
      <4> QED
        BY <1>5, <4>1 DEF TableTypeOK, Propagated
    <3>4. /\ RefCountPerFunction' \in [Fun -> Nat]
          /\ CandidateFunctionsForGC' \subseteq Fun
      BY <1>5, <2>1 DEF TableTypeOK, Propagated
    <3> QED
      BY <1>1, <3>1, <3>2, <3>3, <3>4 DEF TableTypeOK, config
  <2>5. JobsStored'
    <3> SUFFICES ASSUME NEW i \in WorkList'
                 PROVE  /\ i.ef # allTop /\ JobKey(i) \in DOMAIN JumpFunctions'
                        /\ combine(JumpFunctions'[JobKey(i)], i.ef) =
                             JumpFunctions'[JobKey(i)]
      BY DEF JobsStored
    <3>1. CASE i = j
      BY <1>5, <2>2, <3>1, CombineAssumption DEF Propagated
    <3>2. CASE i \in WorkList
      <4>1. /\ i.ef # allTop /\ JobKey(i) \in DOMAIN JumpFunctions
            /\ combine(JumpFunctions[JobKey(i)], i.ef) = JumpFunctions[JobKey(i)]
        BY <3>2 DEF JobsStored
      <4>2. i.ef \in EF /\ JumpFunctions[JobKey(i)] \in EF
        BY <3>2, <4>1 DEF TableTypeOK, PropagationJob
      <4>3. CASE JobKey(i) = Target(x)
        <5>1. JumpFunctions'[JobKey(i)] = combine(JumpFunctions[JobKey(i)], x.ef)
          BY <1>5, <4>1, <4>3 DEF Propagated
        <5> QED
          BY <1>5, <2>1, <4>1, <4>2, <5>1, combineKeeps DEF Propagated
      <4>4. CASE JobKey(i) # Target(x)
        BY <1>5, <4>1, <4>4 DEF Propagated
      <4> QED
        BY <4>3, <4>4
    <3> QED
      BY <2>3, <3>1, <3>2
  <2>6. RefCountExact'
    <3>1. CASE GCMode = "Disabled"
      BY <1>1, <3>1, RefCountDefNext DEF config
    <3>2. CASE GCMode # "Disabled"
      <4> SUFFICES ASSUME NEW g \in Fun
                   PROVE  /\ RefCountPerFunction'[g] =
                               Cardinality(JobsIn(WorkList', g))
                          /\ RefCountPerFunction'[g] > 0 =>
                               g \in CandidateFunctionsForGC'
        BY RefCountDefNext
      <4>1. /\ RefCountPerFunction[g] = Cardinality(JobsIn(WorkList, g))
            /\ RefCountPerFunction[g] > 0 => g \in CandidateFunctionsForGC
        BY <3>2, RefCountDef
      <4>2. Cardinality(JobsIn(WorkList', g)) =
              IF x.fun = g THEN Cardinality(JobsIn(WorkList, g)) + 1
              ELSE Cardinality(JobsIn(WorkList, g))
        BY <2>2, <2>3, CountAdded DEF TableTypeOK
      <4>3. /\ RefCountPerFunction'[g] = IF x.fun = g THEN RefCountPerFunction[g] + 1
                                         ELSE RefCountPerFunction[g]
            /\ CandidateFunctionsForGC' = CandidateFunctionsForGC \cup {x.fun}
        BY <1>5, <3>2 DEF Propagated, TableTypeOK
      <4> QED
        BY <4>1, <4>2, <4>3
    <3> QED
      BY <3>1, <3>2
  <2> QED
    BY <1>2, <1>3, <2>4, <2>5, <2>6
<1> QED
  BY <1>1, <1>4, <1>5, storeCases

\* Taking a job off the WorkList, whatever is then done with it.
LEMMA popFacts ==
  ASSUME SolverInv, NEW j \in WorkList, pop(j)
  PROVE  /\ pc = "intra" /\ pc' = pc /\ Stores = {} /\ WorkList' = WorkList \ {j}
         /\ Finished' = FALSE
         /\ UNCHANGED <<config, CandidateFunctionsForGC, Collected, valueVars, ValTab>>
         /\ WorkList' \subseteq PropagationJob /\ IsFiniteSet(WorkList')
         /\ RefCountPerFunction' \in [Fun -> Nat]
         /\ RefCountExact'
         /\ j \in PropagationJob
         /\ j.at \in Node /\ j.src \in Fact /\ j.fact \in Fact
         /\ j.ef \in EF \ {allTop} /\ FunOf(j.at) \in Fun
<1> USE DEF SolverInv
<1>1. /\ pc = "intra" /\ pc' = pc /\ Stores = {} /\ WorkList' = WorkList \ {j}
      /\ UNCHANGED <<config, CandidateFunctionsForGC, Collected, valueVars, ValTab>>
      /\ RefCountPerFunction' = IF GCMode = "Disabled" THEN RefCountPerFunction
           ELSE [RefCountPerFunction EXCEPT ![FunOf(j.at)] = @ - 1]
  BY DEF pop
<1>2. Finished' = FALSE
  BY Zenon DEF pop
<1>3. /\ j \in PropagationJob
      /\ j.at \in Node /\ j.src \in Fact /\ j.fact \in Fact
      /\ j.ef \in EF \ {allTop} /\ FunOf(j.at) \in Fun
  <2>1. j \in PropagationJob /\ j.ef # allTop
    BY DEF TableTypeOK, JobsStored
  <2> QED
    BY <2>1, ICFGAssumption DEF PropagationJob
<1>4. WorkList' \subseteq PropagationJob /\ IsFiniteSet(WorkList')
  BY <1>1, FS_RemoveElement DEF TableTypeOK
<1>5. CASE GCMode = "Disabled"
  BY <1>1, <1>2, <1>3, <1>4, <1>5, RefCountDefNext DEF config, TableTypeOK
<1>6. CASE GCMode # "Disabled"
  <2>1. RefCountPerFunction[FunOf(j.at)] > 0
    BY <1>3, <1>6, RefCountDef, CountRemoved DEF TableTypeOK
  <2>2. RefCountPerFunction' \in [Fun -> Nat]
    BY <1>1, <1>3, <1>6, <2>1 DEF TableTypeOK
  <2>3. RefCountExact'
    <3> SUFFICES ASSUME NEW g \in Fun
                 PROVE  /\ RefCountPerFunction'[g] =
                             Cardinality(JobsIn(WorkList', g))
                        /\ RefCountPerFunction'[g] > 0 =>
                             g \in CandidateFunctionsForGC'
      BY RefCountDefNext
    <3>1. /\ RefCountPerFunction[g] = Cardinality(JobsIn(WorkList, g))
          /\ RefCountPerFunction[g] > 0 => g \in CandidateFunctionsForGC
      BY <1>6, RefCountDef
    <3>2. /\ Cardinality(JobsIn(WorkList, g)) \in Nat
          /\ Cardinality(JobsIn(WorkList', g)) =
               IF FunOf(j.at) = g THEN Cardinality(JobsIn(WorkList, g)) - 1
               ELSE Cardinality(JobsIn(WorkList, g))
      BY <1>1, CountRemoved DEF TableTypeOK
    <3>3. RefCountPerFunction'[g] =
            IF FunOf(j.at) = g THEN RefCountPerFunction[g] - 1
            ELSE RefCountPerFunction[g]
      BY <1>1, <1>6 DEF TableTypeOK
    <3> QED
      BY <1>1, <3>1, <3>2, <3>3
  <2> QED
    BY <1>1, <1>2, <1>3, <1>4, <2>2, <2>3
<1> QED
  BY <1>5, <1>6

\* Normal flows and new summaries.
LEMMA SolverInvNormal ==
  ASSUME SolverInv, NEW j \in WorkList, applyNormalFlow(j) PROVE SolverInv'
<1> USE DEF SolverInv
<1>1. /\ pop(j) /\ Stores' = NormalStores(j)
      /\ UNCHANGED <<JumpFunctions, AllInterPropagations, SourceFactAndFuncToInterJob>>
  BY DEF applyNormalFlow
<1>2. /\ pc = "intra" /\ pc' = pc /\ WorkList' = WorkList \ {j}
      /\ UNCHANGED <<config, CandidateFunctionsForGC, Collected>>
      /\ WorkList' \subseteq PropagationJob /\ IsFiniteSet(WorkList')
      /\ RefCountPerFunction' \in [Fun -> Nat] /\ RefCountExact'
      /\ j \in PropagationJob
      /\ j.at \in Node /\ j.src \in Fact /\ j.fact \in Fact
      /\ j.ef \in EF \ {allTop} /\ FunOf(j.at) \in Fun
  BY <1>1, popFacts
<1>3. Finished' = FALSE
  BY <1>1, popFacts, Zenon
<1>4. CallWL' \subseteq Fact \X Fun
  BY <1>2 DEF applyNormalFlow, TableTypeOK
<1>5. /\ DOMAIN EndSummaryTab' \subseteq Fun \X Fact \X Fact
      /\ \A k \in DOMAIN EndSummaryTab' : EndSummaryTab'[k] \in EF \ {allTop}
  <2>1. CASE EndSummaryTab' = EndSummaryTab
    BY <2>1 DEF TableTypeOK
  <2>2. CASE EndSummaryTab' = storeSummary(FunOf(j.at), j.src, j.fact, j.ef)
    <3> DEFINE k == <<FunOf(j.at), j.src, j.fact>>
               v == IF k \in DOMAIN EndSummaryTab
                    THEN combine(EndSummaryTab[k], j.ef) ELSE j.ef
    <3>1. k \in Fun \X Fact \X Fact
      BY <1>2
    <3>2. v \in EF \ {allTop}
      BY <1>2, combineNotTop DEF TableTypeOK
    <3>3. EndSummaryTab' = Put(EndSummaryTab, k, v)
      BY <2>2 DEF storeSummary
    <3> HIDE DEF k, v
    <3> QED
      BY <3>1, <3>2, <3>3 DEF Put, TableTypeOK
  <2> QED
    BY <2>1, <2>2 DEF applyNormalFlow
<1>6. \A x \in Stores' : x \in StoreCall /\ x.fun = FunOf(x.at)
  BY <1>1, <1>2, NormalStoresLocal DEF Local
<1>7. Finished' \in BOOLEAN
  BY <1>3, Zenon
<1>8. TableTypeOK'
  BY <1>1, <1>2, <1>4, <1>5, <1>6, <1>7 DEF TableTypeOK, config
<1>9. JobsStored' /\ StoresCharged' /\ InterJobsKnown'
  BY <1>1, <1>2, <1>6 DEF JobsStored, StoresCharged, InterJobsKnown
<1>10. Rounds'
  BY <1>2, <1>3 DEF Rounds
<1> QED
  BY <1>2, <1>8, <1>9, <1>10

\* Everything a job at a call stores.
LEMMA CallStoresMember ==
  ASSUME SolverInv, NEW j \in WorkList, applyIntraCallFlow(j), NEW x \in Stores'
  PROVE  \/ Local(x, FunOf(j.at), j.src)
         \/ x \in EntryStores(j)
<1>1. j \in PropagationJob
  BY DEF SolverInv, TableTypeOK
<1> DEFINE new == InterJobsOf(j) \ AllInterPropagations
<1>2. Stores' = EntryStores(j) \cup SummaryStores(j) \cup CallToReturnStores(j)
                 \cup UNION {SummariesReturned(i) : i \in new}
  BY DEF applyIntraCallFlow
<1>3. CASE x \in SummaryStores(j) \cup CallToReturnStores(j)
  BY <1>1, <1>3, SummaryStoresLocal, CallToReturnStoresLocal
<1>4. ASSUME NEW i \in new, x \in SummariesReturned(i)
      PROVE  Local(x, FunOf(j.at), j.src)
  <2>1. i \in InterPropagationJob /\ i.cs = j.at /\ i.src = j.src
    BY <1>1, InterJobsType
  <2> QED
    BY <1>4, <2>1, ReturnedLocal DEF SolverInv
<1> QED
  BY <1>2, <1>3, <1>4

\* Calls.
LEMMA SolverInvCall ==
  ASSUME SolverInv, NEW j \in WorkList, applyIntraCallFlow(j) PROVE SolverInv'
<1> USE DEF SolverInv
<1> DEFINE new == InterJobsOf(j) \ AllInterPropagations
<1>1. /\ pop(j) /\ j.at \in CallSite
      /\ AllInterPropagations' = AllInterPropagations \cup new
      /\ SourceFactAndFuncToInterJob' = SourceFactAndFuncToInterJob \cup new
      /\ UNCHANGED <<JumpFunctions, EndSummaryTab, CallWL>>
  BY DEF applyIntraCallFlow
<1>2. /\ pc = "intra" /\ pc' = pc /\ WorkList' = WorkList \ {j}
      /\ UNCHANGED <<config, CandidateFunctionsForGC, Collected>>
      /\ WorkList' \subseteq PropagationJob /\ IsFiniteSet(WorkList')
      /\ RefCountPerFunction' \in [Fun -> Nat] /\ RefCountExact'
      /\ j \in PropagationJob /\ j.at \in Node
  BY <1>1, popFacts
<1>3. Finished' = FALSE
  BY <1>1, popFacts, Zenon
<1>4. Finished' \in BOOLEAN
  BY <1>3, Zenon
<1>5. \A x \in Stores' : x \in StoreCall /\ x.fun = FunOf(x.at)
  <2> SUFFICES ASSUME NEW x \in Stores', x \in EntryStores(j)
               PROVE  x \in StoreCall /\ x.fun = FunOf(x.at)
    BY CallStoresMember DEF Local
  <2>1. PICK i \in InterJobsOf(j) : \E sp \in StartPoints(i.callee) :
               x = entry(sp, i.fact)
    BY <1>2, EntryStoresMember
  <2>2. PICK sp \in StartPoints(i.callee) : x = entry(sp, i.fact)
    BY <2>1
  <2>3. i.callee \in Fun /\ i.fact \in Fact
    BY <1>2, InterJobsType DEF InterPropagationJob
  <2> QED
    BY <2>2, <2>3, entryType DEF Local
<1>6. \A i \in new : /\ i \in InterPropagationJob
                     /\ i.cs \in CallSite /\ i.callee \in CalleesOf(i.cs)
                     /\ StartPoints(i.callee) # {}
  BY <1>1, <1>2, InterJobsType
<1> HIDE DEF new
<1>7. TableTypeOK'
  BY <1>1, <1>2, <1>4, <1>5, <1>6 DEF TableTypeOK, config
<1>8. JobsStored' /\ StoresCharged' /\ InterJobsKnown'
  BY <1>1, <1>2, <1>5, <1>6 DEF JobsStored, StoresCharged, InterJobsKnown
<1>9. Rounds'
  BY <1>2, <1>3 DEF Rounds
<1> QED
  BY <1>2, <1>7, <1>8, <1>9

\* Returning the summaries.  A round without a job has none to return.
LEMMA SolverInvInter ==
  ASSUME SolverInv, processInterJobs PROVE SolverInv'
<1> USE DEF SolverInv
<1>1. /\ pc = "intra" /\ pc' = "inter" /\ Stores = {} /\ WorkList = {}
      /\ CallWL' = {}
      /\ Stores' = UNION {SummariesReturned(i) :
                            i \in {x \in SourceFactAndFuncToInterJob :
                                     <<x.fact, x.callee>> \in CallWL}}
      /\ UNCHANGED <<config, JumpFunctions, EndSummaryTab, AllInterPropagations,
                     SourceFactAndFuncToInterJob, gcVars, WorkList, Finished>>
  BY DEF processInterJobs
<1>2. \A x \in Stores' : x \in StoreCall /\ x.fun = FunOf(x.at)
  <2> SUFFICES ASSUME NEW i \in SourceFactAndFuncToInterJob,
                      NEW x \in SummariesReturned(i)
               PROVE  x \in StoreCall /\ x.fun = FunOf(x.at)
    BY <1>1
  <2>1. i \in InterPropagationJob
    BY DEF TableTypeOK
  <2> QED
    BY <2>1, ReturnedLocal DEF Local
<1>3. TableTypeOK'
  BY <1>1, <1>2 DEF TableTypeOK, config, gcVars
<1>4. JobsStored' /\ StoresCharged' /\ InterJobsKnown'
  BY <1>1, <1>2 DEF JobsStored, StoresCharged, InterJobsKnown
<1>5. Rounds'
  <2>1. Finished => Stores' = {}
    BY <1>1 DEF Rounds
  <2> QED
    BY <1>1, <2>1 DEF Rounds
<1>6. RefCountExact'
  BY <1>1, RefCountFrame DEF config, gcVars
<1> QED
  BY <1>3, <1>4, <1>5, <1>6

-----------------------------------------------------------------------------
(***************************************************************************)
(* Garbage collection.                                                     *)
(***************************************************************************)
\* The functions that runGC collects and the keys that it removes.
Collecting == IF GCMode = "Disabled" THEN {} ELSE getCollectableFunctions
Dead == {k \in DOMAIN JumpFunctions :
           FunOf(k[1]) \in Collecting /\ ~keepAnalysisInformationAt(k[1])}

\* What runGC does, in these terms.
LEMMA runGCFacts ==
  ASSUME runGC
  PROVE  /\ pc = "inter" /\ Stores = {}
         /\ DOMAIN JumpFunctions' = DOMAIN JumpFunctions \ Dead
         /\ \A k \in DOMAIN JumpFunctions' : JumpFunctions'[k] = JumpFunctions[k]
         /\ Collected' = Collected \cup Dead
         /\ SourceFactAndFuncToInterJob' =
              {i \in SourceFactAndFuncToInterJob : i.callee \notin Collecting}
         /\ CandidateFunctionsForGC' = CandidateFunctionsForGC \ Collecting
         /\ pc' \in {"intra", "finalize"}
         /\ pc' = "finalize" => Finished \/ WorkList = {}
         /\ UNCHANGED <<config, EndSummaryTab, AllInterPropagations, CallWL,
                        RefCountPerFunction, valueVars, WorkList, Stores, ValTab>>
<1>1. JumpFunctions' = Without(JumpFunctions, Dead)
  BY DEF runGC, Dead, Collecting
<1>2. /\ DOMAIN JumpFunctions' = DOMAIN JumpFunctions \ Dead
      /\ \A k \in DOMAIN JumpFunctions' : JumpFunctions'[k] = JumpFunctions[k]
  <2> HIDE DEF Dead
  <2> QED BY <1>1 DEF Without
<1>3. /\ Collected' = Collected \cup Dead
      /\ SourceFactAndFuncToInterJob' =
           {i \in SourceFactAndFuncToInterJob : i.callee \notin Collecting}
      /\ CandidateFunctionsForGC' = CandidateFunctionsForGC \ Collecting
  BY DEF runGC, Dead, Collecting
<1>4. /\ pc = "inter" /\ Stores = {}
      /\ UNCHANGED <<config, EndSummaryTab, AllInterPropagations, CallWL,
                     RefCountPerFunction, valueVars, WorkList, Stores, ValTab>>
  BY DEF runGC
<1>5. /\ pc' \in {"intra", "finalize"}
      /\ pc' = "finalize" => Finished \/ WorkList = {}
  <2>1. pc' \in IF Finished THEN {"finalize"}
                ELSE IF WorkList = {} THEN {"intra", "finalize"} ELSE {"intra"}
    BY DEF runGC
  <2> QED
    BY <2>1
<1> QED
  BY <1>2, <1>3, <1>4, <1>5

\* A collected function is a candidate, and no job is in it.
LEMMA CollectingIdle ==
  ASSUME SolverInv, NEW f \in Collecting
  PROVE  /\ GCMode # "Disabled" /\ f \in Fun /\ f \in CandidateFunctionsForGC
         /\ \A j \in WorkList : FunOf(j.at) # f
<1> USE DEF SolverInv
<1>1. /\ GCMode # "Disabled" /\ f \in CandidateFunctionsForGC
      /\ ~(RefCountPerFunction[f] > 0)
  BY DEF Collecting, getCollectableFunctions
<1>2. f \in Fun
  BY <1>1 DEF TableTypeOK
<1>3. Cardinality(JobsIn(WorkList, f)) = 0
  <2>1. RefCountPerFunction[f] = Cardinality(JobsIn(WorkList, f))
    BY <1>1, <1>2, RefCountDef
  <2>2. RefCountPerFunction[f] \in Nat
    BY <1>2 DEF TableTypeOK
  <2> QED
    BY <1>1, <2>1, <2>2
<1>4. IsFiniteSet(JobsIn(WorkList, f))
  BY FS_Subset DEF JobsIn, TableTypeOK
<1>5. JobsIn(WorkList, f) = {}
  BY <1>3, <1>4, FS_EmptySet
<1> QED
  BY <1>1, <1>2, <1>5 DEF JobsIn

\* A collected function calls no candidate but collected ones.
LEMMA CollectingClosed ==
  ASSUME NEW f \in Collecting, NEW h \in CandidateFunctionsForGC, f \in CallersOf(h)
  PROVE  h \in Collecting
<1> DEFINE live == {g \in CandidateFunctionsForGC : RefCountPerFunction[g] > 0}
           idle == CandidateFunctionsForGC \ live
           Closed(S) == \A g \in live \cup S : CallersOf(g) \cap idle \subseteq S
<1>1. Collecting = {g \in idle : \E S \in SUBSET idle : Closed(S) /\ g \notin S}
  BY DEF Collecting, getCollectableFunctions
<1>2. PICK S \in SUBSET idle : Closed(S) /\ f \notin S
  BY <1>1
<1>3. f \in CallersOf(h) \cap idle
  BY <1>1
<1>4. h \notin live /\ h \notin S
  BY <1>2, <1>3
<1>5. h \in idle
  BY <1>4
<1> QED
  <2> HIDE DEF idle, Closed
  <2> QED BY <1>1, <1>2, <1>4, <1>5

\* Collecting disturbs no job and no count.
LEMMA SolverInvGC ==
  ASSUME SolverInv, runGC PROVE SolverInv'
<1> USE DEF SolverInv
<1>1. Finished' \in BOOLEAN
  BY Zenon DEF runGC
<1>2. TableTypeOK'
  <2>1. Dead \subseteq Node \X Fact \X Fact
    BY DEF Dead, TableTypeOK
  <2>2. /\ DOMAIN JumpFunctions' \subseteq Node \X Fact \X Fact
        /\ \A k \in DOMAIN JumpFunctions' : JumpFunctions'[k] \in EF \ {allTop}
    BY runGCFacts DEF TableTypeOK
  <2> QED
    BY <1>1, <2>1, <2>2, runGCFacts DEF TableTypeOK, config
<1>3. JobsStored'
  <2> SUFFICES ASSUME NEW j \in WorkList
               PROVE  /\ j.ef # allTop /\ JobKey(j) \in DOMAIN JumpFunctions'
                      /\ combine(JumpFunctions'[JobKey(j)], j.ef) =
                           JumpFunctions'[JobKey(j)]
    BY runGCFacts DEF JobsStored
  <2>1. JobKey(j) \in DOMAIN JumpFunctions
    BY DEF JobsStored
  <2>2. JobKey(j) \notin Dead
    BY CollectingIdle DEF Dead, JobKey
  <2> QED
    BY <2>1, <2>2, runGCFacts DEF JobsStored
<1>4. StoresCharged' /\ InterJobsKnown'
  BY runGCFacts DEF StoresCharged, InterJobsKnown
<1>5. Rounds'
  BY runGCFacts DEF Rounds
<1>6. RefCountExact'
  <2>1. CASE GCMode = "Disabled"
    BY <2>1, runGCFacts, RefCountDefNext DEF config
  <2>2. CASE GCMode # "Disabled"
    <3> SUFFICES ASSUME NEW g \in Fun
                 PROVE  /\ RefCountPerFunction'[g] =
                             Cardinality(JobsIn(WorkList', g))
                        /\ RefCountPerFunction'[g] > 0 =>
                             g \in CandidateFunctionsForGC'
      BY RefCountDefNext
    <3>1. /\ RefCountPerFunction[g] = Cardinality(JobsIn(WorkList, g))
          /\ RefCountPerFunction[g] > 0 => g \in CandidateFunctionsForGC
      BY <2>2, RefCountDef
    <3>2. g \in Collecting => ~(RefCountPerFunction[g] > 0)
      BY DEF Collecting, getCollectableFunctions
    <3> QED
      BY <3>1, <3>2, runGCFacts
  <2> QED
    BY <2>1, <2>2
<1> QED
  BY <1>2, <1>3, <1>4, <1>5, <1>6

\* Phase II leaves the jobs and their counts alone.
LEMMA SolverInvPhase2 ==
  ASSUME SolverInv, Phase2 PROVE SolverInv'
<1> USE DEF SolverInv
<1>1. CASE submitInitialValues
  <2>1. /\ pc = "finalize" /\ pc' = "values"
        /\ SourceFactAndFuncToInterJob' = {} /\ CallWL' = {} /\ WorkList' = {}
        /\ UNCHANGED <<config, JumpFunctions, EndSummaryTab, AllInterPropagations,
                       gcVars, Stores, Finished>>
    BY <1>1 DEF submitInitialValues
  <2>2. WorkList = {} /\ Stores = {}
    BY <2>1 DEF Rounds
  <2>3. TableTypeOK'
    BY <2>1, <2>2 DEF TableTypeOK, config, gcVars
  <2>4. JobsStored' /\ StoresCharged' /\ InterJobsKnown' /\ Rounds'
    BY <2>1, <2>2 DEF JobsStored, StoresCharged, InterJobsKnown, Rounds
  <2>5. RefCountExact'
    BY <2>1, <2>2, RefCountFrame DEF config, gcVars
  <2> QED
    BY <2>3, <2>4, <2>5
<1>2. CASE /\ pc \in {"values", "compute"} /\ pc' \in {"values", "compute"}
           /\ UNCHANGED <<config, tables, gcVars, WorkList, Stores, Finished>>
  <2>1. TableTypeOK'
    BY <1>2 DEF TableTypeOK, config, tables, gcVars
  <2>2. JobsStored' /\ StoresCharged' /\ InterJobsKnown' /\ Rounds'
    BY <1>2 DEF JobsStored, StoresCharged, InterJobsKnown, Rounds, tables
  <2>3. RefCountExact'
    BY <1>2, RefCountFrame DEF config, gcVars
  <2> QED
    BY <2>1, <2>2, <2>3
<1>3. CASE endComputation
  <2>1. /\ pc = "compute" /\ pc' = "done"
        /\ DOMAIN JumpFunctions' = {} /\ AllInterPropagations' = {}
        /\ UNCHANGED <<config, EndSummaryTab, SourceFactAndFuncToInterJob, CallWL,
                       gcVars, WorkList, Stores, Finished>>
    BY <1>3 DEF endComputation
  <2>2. WorkList = {} /\ Stores = {} /\ CallWL = {} /\ SourceFactAndFuncToInterJob = {}
    BY <2>1 DEF Rounds
  <2>3. TableTypeOK'
    BY <2>1, <2>2 DEF TableTypeOK, config, gcVars
  <2>4. JobsStored' /\ StoresCharged' /\ InterJobsKnown' /\ Rounds'
    BY <2>1, <2>2 DEF JobsStored, StoresCharged, InterJobsKnown, Rounds
  <2>5. RefCountExact'
    BY <2>1, RefCountFrame DEF config, gcVars
  <2> QED
    BY <2>3, <2>4, <2>5
<1>4. ASSUME NEW p \in WLProp, propagateValue(p) PROVE SolverInv'
  BY <1>2, <1>4 DEF propagateValue
<1>5. CASE startComputation
  BY <1>2, <1>5 DEF startComputation
<1>6. ASSUME NEW sp \in WLComp, computeValues(sp) PROVE SolverInv'
  BY <1>2, <1>6 DEF computeValues
<1> QED
  BY <1>1, <1>3, <1>4, <1>5, <1>6 DEF Phase2

\* Every step preserves the invariant.
LEMMA SolverInvStep == SolverInv /\ [Next]_vars => SolverInv'
<1> SUFFICES ASSUME SolverInv, [Next]_vars PROVE SolverInv'
  OBVIOUS
<1>1. CASE UNCHANGED vars
  <2>1. TableTypeOK'
    BY <1>1 DEF SolverInv, TableTypeOK, vars, config, tables, gcVars
  <2>2. JobsStored' /\ StoresCharged' /\ InterJobsKnown' /\ Rounds'
    BY <1>1 DEF SolverInv, JobsStored, StoresCharged, InterJobsKnown, Rounds,
                vars, tables, gcVars, config
  <2>3. RefCountExact'
    BY <1>1, RefCountFrame DEF SolverInv, vars, config, gcVars
  <2> QED
    BY <2>1, <2>2, <2>3 DEF SolverInv
<1> QED
  BY <1>1, SolverInvSeeds, SolverInvStore, SolverInvNormal, SolverInvCall,
     SolverInvInter, SolverInvGC, SolverInvPhase2 DEF Next, Phase1, propagate

\* So it always holds.
LEMMA SolverInvariant == Spec => []SolverInv
BY SolverInvInit, SolverInvStep, PTL DEF Spec

(***************************************************************************)
(* The reference count of a function is the number of its jobs, whoever    *)
(* charged them, and a function with jobs is a candidate for the collector *)
(* (storeResultsAndPropagate, performDataflowFactPropagation and runGC).   *)
(***************************************************************************)
THEOREM RefCountsAreExact == Spec => []RefCountExact
<1>1. SolverInv => RefCountExact
  BY DEF SolverInv
<1> QED
  BY <1>1, SolverInvariant, PTL

-----------------------------------------------------------------------------
(***************************************************************************)
(* Finished functions.                                                     *)
(***************************************************************************)
\* The collector keeps what entering a function and returning to a call store;
\* it does when every fact is propagated to the next statement, because start
\* points and return sites are kept.
KeptTargets ==
  /\ \A f \in Fun : \A sp \in StartPoints(f), d \in Fact :
       keepAnalysisInformationAt(advanceToNextUser(sp, d))
  /\ \A c \in CallSite : \A r \in SuccsOf(c), d \in Fact :
       keepAnalysisInformationAt(advanceToNextUser(r, d))

\* A dense ICFG is one of them.
LEMMA DenseKeepsTargets ==
  ASSUME \A n \in Node, d \in Fact : advanceToNextUser(n, d) = n
  PROVE  KeptTargets
<1>1. ASSUME NEW f \in Fun, NEW sp \in StartPoints(f), NEW d \in Fact
      PROVE  keepAnalysisInformationAt(advanceToNextUser(sp, d))
  <2>1. sp \in Node /\ FunOf(sp) = f
    BY ICFGAssumption
  <2> QED
    BY <2>1 DEF keepAnalysisInformationAt
<1>2. ASSUME NEW c \in CallSite, NEW r \in SuccsOf(c), NEW d \in Fact
      PROVE  keepAnalysisInformationAt(advanceToNextUser(r, d))
  <2>1. r \in Node
    BY ICFGAssumption
  <2> QED
    BY <2>1 DEF keepAnalysisInformationAt
<1> QED
  BY <1>1, <1>2 DEF KeptTargets

\* The seeds are where a call would enter their function.
SeedsAtEntries ==
  \A s \in InitialSeeds : \A k \in DOMAIN s :
    /\ k[1] \in StartPoints(FunOf(k[1]))
    /\ \A sp \in StartPoints(FunOf(k[1])) : <<sp, k[2]>> \in DOMAIN s

Accounted(x) == x \in Stores \/ Stored(x)
EntryStored(f, d) == \A sp \in StartPoints(f) : Stored(entry(sp, d))
EntryMade(f, d) == \A sp \in StartPoints(f) : Accounted(entry(sp, d))

\* Nothing is left to do for the functions and source facts in Q, nor for those
\* that they have called, so nothing will be done for them any more.
Quiet(Q) ==
  /\ Q \subseteq Fun \X Fact
  /\ \A j \in WorkList : <<FunOf(j.at), j.src>> \notin Q
  /\ \A x \in Stores : <<FunOf(x.at), x.src>> \in Q => Stored(x)
  /\ \A w \in CallWL : <<w[2], w[1]>> \notin Q
  /\ \A q \in Q : EntryStored(q[1], q[2])
  /\ \A i \in AllInterPropagations :
       <<FunOf(i.cs), i.src>> \in Q => <<i.callee, i.fact>> \in Q

\* Q has what the collector relies on: entered functions that are no candidates
\* any more, calls that cannot be found by their callee, and collected keys.
Relied(Q) ==
  /\ GCMode # "Disabled" =>
       \A k \in DOMAIN JumpFunctions :
         (/\ FunOf(k[1]) \notin CandidateFunctionsForGC
          /\ EntryStored(FunOf(k[1]), k[2])) => <<FunOf(k[1]), k[2]>> \in Q
  /\ \A i \in AllInterPropagations \ SourceFactAndFuncToInterJob :
       <<i.callee, i.fact>> \in Q
  /\ SeedsAtEntries => \A k \in Collected : <<FunOf(k[1]), k[2]>> \in Q

\* Every function on a path has been entered: the callees of the inter jobs and,
\* unless a seed is in the middle of a function, the functions of all keys.
Entered ==
  /\ \A i \in AllInterPropagations : EntryMade(i.callee, i.fact)
  /\ SeedsAtEntries =>
       /\ \A i \in AllInterPropagations : EntryMade(FunOf(i.cs), i.src)
       /\ \A k \in DOMAIN JumpFunctions : EntryMade(FunOf(k[1]), k[2])
       /\ \A x \in Stores : EntryMade(FunOf(x.at), x.src)

InPhase1 == pc \in {"init", "intra", "inter", "finalize"}

GCInv ==
  /\ SolverInv
  /\ SeedsAtEntries => NoReanalysis
  /\ InPhase1 => Entered /\ (\E Q : Quiet(Q) /\ Relied(Q)) /\ NoLostReturn

\* What the result of inter job i still waits for.
Awaited(i) ==
  /\ i \in SourceFactAndFuncToInterJob
  /\ \/ <<i.fact, i.callee>> \in CallWL
     \/ \E j \in WorkList : j.at \in ExitPointsOf(i.callee) /\ j.src = i.fact

\* NoLostReturn in these terms.
LEMMA NoLostReturnDef ==
  NoLostReturn <=>
    (pc \in {"intra", "inter", "finalize"} =>
       \A i \in AllInterPropagations :
         Awaited(i) \/ \A x \in SummariesReturned(i) : Accounted(x))
BY DEF NoLostReturn, Awaited, Accounted

\* The same of the next state.
LEMMA NoLostReturnDefNext ==
  NoLostReturn' <=>
    (pc' \in {"intra", "inter", "finalize"} =>
       \A i \in AllInterPropagations' :
         Awaited(i)' \/ \A x \in SummariesReturned(i)' : Accounted(x)')
BY DEF NoLostReturn, Awaited, Accounted

\* Stored, and what is made of it, depends on JumpFunctions only.
LEMMA StoredFrame ==
  ASSUME UNCHANGED JumpFunctions
  PROVE  /\ \A x : Stored(x)' <=> Stored(x)
         /\ \A f, d : EntryStored(f, d)' <=> EntryStored(f, d)
<1>1. \A x : Stored(x)' <=> Stored(x)
  BY DEF Stored
<1> QED
  BY <1>1 DEF EntryStored

\* Between two handlers nothing waits to be stored.
LEMMA Settled ==
  ASSUME Stores = {}
  PROVE  /\ \A x : Accounted(x) <=> Stored(x)
         /\ \A f, d : EntryMade(f, d) <=> EntryStored(f, d)
BY DEF Accounted, EntryMade, EntryStored

\* What is stored is accounted for.
LEMMA StoredAccounted ==
  /\ \A x : Stored(x)' => Accounted(x)'
  /\ \A f, d : EntryStored(f, d)' => EntryMade(f, d)'
BY DEF Accounted, EntryMade, EntryStored

\* The summaries of a callee depend on the tables only.
LEMMA ReturnedFrame ==
  ASSUME UNCHANGED <<UseEndSummaryTab, JumpFunctions, EndSummaryTab>>, NEW i
  PROVE  SummariesReturned(i)' = SummariesReturned(i)
BY DEF SummariesReturned, ReturnStores, Summaries

\* They are the same if they are at every exit.
LEMMA ReturnedSame ==
  ASSUME NEW i,
         \A x \in ExitPointsOf(i.callee) :
           Summaries(i.callee, i.fact, x)' = Summaries(i.callee, i.fact, x)
  PROVE  SummariesReturned(i)' = SummariesReturned(i)
<1>1. \A x, S : ReturnStores(i, x, S)' = ReturnStores(i, x, S)
  BY DEF ReturnStores
<1> QED
  BY <1>1 DEF SummariesReturned

\* A new solver.
LEMMA GCInvInit == Init => GCInv
<1> SUFFICES ASSUME Init PROVE GCInv
  OBVIOUS
<1>1. /\ WorkList = {} /\ Stores = {} /\ DOMAIN JumpFunctions = {}
      /\ AllInterPropagations = {} /\ CallWL = {} /\ Collected = {}
  BY DEF Init
<1>2. Quiet({}) /\ Relied({})
  BY <1>1 DEF Quiet, Relied
<1>3. NoReanalysis
  BY <1>1 DEF NoReanalysis
<1>4. Entered
  BY <1>1 DEF Entered
<1>5. NoLostReturn
  BY <1>1, NoLostReturnDef
<1> QED
  BY <1>2, <1>3, <1>4, <1>5, SolverInvInit DEF GCInv

\* The seeds.
LEMMA GCInvSeeds ==
  ASSUME GCInv, submitInitialSeeds PROVE GCInv'
<1>1. SolverInv /\ SolverInv'
  BY SolverInvSeeds DEF GCInv
<1>2. /\ pc = "init" /\ pc' = "intra"
      /\ Stores' = {store(k[1], k[2], k[2], FunOf(k[1]), IdentityEdge) :
                      k \in DOMAIN Seeds}
      /\ UNCHANGED <<config, tables, gcVars, WorkList>>
  BY DEF submitInitialSeeds
<1>3. /\ WorkList' = {} /\ DOMAIN JumpFunctions' = {}
      /\ AllInterPropagations' = {} /\ CallWL' = {} /\ Collected' = {}
  BY <1>1, <1>2 DEF SolverInv, Rounds, tables, gcVars
<1>4. Quiet({})' /\ Relied({})'
  BY <1>3 DEF Quiet, Relied
<1>5. NoReanalysis'
  BY <1>3 DEF NoReanalysis
<1>6. Entered'
  <2> SUFFICES ASSUME SeedsAtEntries, NEW x \in Stores',
                      NEW sp \in StartPoints(FunOf(x.at))
               PROVE  entry(sp, x.src) \in Stores'
    BY <1>3 DEF Entered, EntryMade, Accounted
  <2>1. PICK k \in DOMAIN Seeds :
               x = store(k[1], k[2], k[2], FunOf(k[1]), IdentityEdge)
    BY <1>2
  <2>2. Seeds \in InitialSeeds /\ k[1] \in Node /\ k[2] \in Fact
    BY <1>1, SeedAssumption DEF SolverInv, TableTypeOK
  <2>3. FunOf(x.at) = FunOf(k[1]) /\ x.src = k[2]
    BY <2>1, <2>2, storeType, EdgeFunctionAssumption DEF Local
  <2>4. <<sp, k[2]>> \in DOMAIN Seeds
    BY <2>2, <2>3 DEF SeedsAtEntries
  <2>5. store(sp, k[2], k[2], FunOf(sp), IdentityEdge) \in Stores'
    <3> DEFINE k2 == <<sp, k[2]>>
    <3>1. store(k2[1], k2[2], k2[2], FunOf(k2[1]), IdentityEdge) \in Stores'
      BY <1>2, <2>4
    <3> QED
      BY <3>1
  <2> QED
    BY <2>3, <2>5 DEF entry
<1>7. NoLostReturn'
  BY <1>3, NoLostReturnDefNext
<1> QED
  BY <1>1, <1>4, <1>5, <1>6, <1>7 DEF GCInv

\* A store that is propagated was not accounted for.
LEMMA PropagatedNew ==
  ASSUME NEW x, NEW f, Propagated(x, f)
  PROVE  ~Stored(x)
BY StoredDef DEF Propagated

\* It changes nothing in other functions.
LEMMA PropagatedElsewhere ==
  ASSUME NEW x \in StoreCall, NEW f, Propagated(x, f), NEW y \in StoreCall,
         FunOf(y.at) # FunOf(x.at), Stored(y)'
  PROVE  Stored(y)
<1>1. Target(y) # Target(x)
  BY StoreCallType
<1> QED
  BY <1>1, StoredDef, StoredDefNext DEF Propagated

\* The entries of a function are stores of it.
LEMMA entryStoreCall ==
  ASSUME NEW f \in Fun, NEW d \in Fact
  PROVE  \A sp \in StartPoints(f) : entry(sp, d) \in StoreCall /\ FunOf(entry(sp, d).at) = f
BY entryType DEF Local

\* The summaries seen at exit e for d, after a store elsewhere.
LEMMA SummariesSame ==
  ASSUME NEW x, NEW f, Propagated(x, f), UNCHANGED <<UseEndSummaryTab, EndSummaryTab>>,
         NEW g, NEW d, NEW e, ~(Target(x)[1] = e /\ Target(x)[2] = d)
  PROVE  Summaries(g, d, e)' = Summaries(g, d, e)
<1>1. CASE UseEndSummaryTab
  BY <1>1 DEF Summaries
<1>2. CASE ~UseEndSummaryTab
  <2> DEFINE K == {y \in DOMAIN JumpFunctions : y[1] = e /\ y[2] = d}
             K2 == {y \in DOMAIN JumpFunctions' : y[1] = e /\ y[2] = d}
  <2>1. K2 = K
    BY DEF Propagated
  <2>2. \A y \in K : JumpFunctions'[y] = JumpFunctions[y]
    BY DEF Propagated
  <2>3. /\ Summaries(g, d, e) = {<<y[3], JumpFunctions[y]>> : y \in K}
        /\ Summaries(g, d, e)' = {<<y[3], JumpFunctions'[y]>> : y \in K2}
    BY <1>2 DEF Summaries
  <2> HIDE DEF K, K2
  <2> QED
    BY <2>1, <2>2, <2>3
<1> QED
  BY <1>1, <1>2

\* Storing: what was accounted for stays so.
LEMMA AccountedKept ==
  ASSUME TableTypeOK, NEW x \in Stores, Stores' = Stores \ {x},
         storeResultsAndPropagate(x), NEW y \in StoreCall, Accounted(y)
  PROVE  Accounted(y)'
<1>1. x \in StoreCall
  BY DEF TableTypeOK
<1>2. CASE Stored(x) /\ UNCHANGED JumpFunctions
  BY <1>2, StoredFrame DEF Accounted
<1>3. ASSUME NEW f, Propagated(x, f) PROVE Accounted(y)'
  <2>1. CASE y = x
    BY <1>3, <2>1, PropagatedStored DEF Accounted
  <2>2. CASE y # x /\ y \in Stores
    BY <2>2 DEF Accounted
  <2>3. CASE Stored(y)
    BY <1>3, <2>3, StoredKept DEF Accounted
  <2> QED
    BY <2>1, <2>2, <2>3 DEF Accounted
<1> QED
  BY <1>2, <1>3, storeCases

\* A store for a quiet function changes nothing, so that it stays quiet.
LEMMA QuietStore ==
  ASSUME SolverInv, NEW x \in Stores, Stores' = Stores \ {x},
         UNCHANGED <<config, EndSummaryTab, AllInterPropagations,
                     SourceFactAndFuncToInterJob, CallWL, Collected>>,
         NEW f, Propagated(x, f), NEW Q, Quiet(Q), Relied(Q)
  PROVE  Quiet(Q)' /\ Relied(Q)' /\ <<FunOf(x.at), x.src>> \notin Q
<1> USE DEF SolverInv
<1>1. /\ x \in StoreCall /\ x.fun = FunOf(x.at) /\ FunOf(Target(x)[1]) = x.fun
  BY StoreCallType DEF TableTypeOK, StoresCharged
<1>2. <<FunOf(x.at), x.src>> \notin Q
  BY PropagatedNew DEF Quiet
<1>3. \A q \in Q : EntryStored(q[1], q[2])'
  <2> SUFFICES ASSUME NEW q \in Q, NEW sp \in StartPoints(q[1])
               PROVE  Stored(entry(sp, q[2]))'
    BY DEF EntryStored
  <2>1. q[1] \in Fun /\ q[2] \in Fact /\ Stored(entry(sp, q[2]))
    BY DEF Quiet, EntryStored
  <2> QED
    BY <2>1, entryStoreCall, StoredKept
<1>4. \A j \in WorkList' : <<FunOf(j.at), j.src>> \notin Q
  <2>1. WorkList' = WorkList \cup {JobOf(x, f)}
    BY DEF Propagated, JobOf
  <2>2. FunOf(JobOf(x, f).at) = FunOf(x.at) /\ JobOf(x, f).src = x.src
    BY JobIsNew
  <2> QED
    BY <1>2, <2>1, <2>2 DEF Quiet
<1>5. \A y \in Stores' : <<FunOf(y.at), y.src>> \in Q => Stored(y)'
  <2> SUFFICES ASSUME NEW y \in Stores', <<FunOf(y.at), y.src>> \in Q
               PROVE  Stored(y)'
    OBVIOUS
  <2>1. y \in StoreCall /\ Stored(y)
    BY DEF TableTypeOK, Quiet
  <2> QED
    BY <2>1, StoredKept
<1>6. Quiet(Q)'
  BY <1>3, <1>4, <1>5 DEF Quiet
<1>7. ASSUME GCMode # "Disabled", NEW k \in DOMAIN JumpFunctions',
             FunOf(k[1]) \notin CandidateFunctionsForGC',
             EntryStored(FunOf(k[1]), k[2])'
      PROVE  <<FunOf(k[1]), k[2]>> \in Q
  <2>1. CandidateFunctionsForGC' = CandidateFunctionsForGC \cup {FunOf(x.at)}
    BY <1>1, <1>7 DEF Propagated
  <2>2. FunOf(k[1]) # FunOf(x.at) /\ k \in DOMAIN JumpFunctions
    BY <1>1, <1>7, <2>1 DEF Propagated
  <2>3. FunOf(k[1]) \in Fun /\ k[2] \in Fact
    BY <2>2, ICFGAssumption DEF TableTypeOK
  <2>4. EntryStored(FunOf(k[1]), k[2])
    <3> SUFFICES ASSUME NEW sp \in StartPoints(FunOf(k[1]))
                 PROVE  Stored(entry(sp, k[2]))
      BY DEF EntryStored
    <3>1. Stored(entry(sp, k[2]))'
      BY <1>7 DEF EntryStored
    <3>2. /\ entry(sp, k[2]) \in StoreCall
          /\ FunOf(entry(sp, k[2]).at) # FunOf(x.at)
      BY <2>2, <2>3, entryStoreCall
    <3> QED
      BY <1>1, <3>1, <3>2, PropagatedElsewhere
  <2> QED
    BY <1>7, <2>1, <2>2, <2>4 DEF Relied
<1>8. Relied(Q)'
  <2>1. GCMode' = GCMode
    BY DEF config
  <2> QED
    BY <1>7, <2>1 DEF Relied
<1> QED
  BY <1>2, <1>6, <1>8

\* An exit reached in a store is one that the waiting calls will be told of.
LEMMA NoLostReturnStore ==
  ASSUME SolverInv, NoLostReturn, NEW x \in Stores, Stores' = Stores \ {x},
         storeResultsAndPropagate(x),
         UNCHANGED <<config, EndSummaryTab, AllInterPropagations,
                     SourceFactAndFuncToInterJob, CallWL, Collected, pc>>,
         NEW f, Propagated(x, f), NEW Q, Quiet(Q), Relied(Q)
  PROVE  NoLostReturn'
<1> USE DEF SolverInv
<1> SUFFICES ASSUME pc \in {"intra", "inter", "finalize"},
                    NEW i \in AllInterPropagations
             PROVE  Awaited(i)' \/ \A y \in SummariesReturned(i)' : Accounted(y)'
  BY NoLostReturnDefNext
<1>1. i \in InterPropagationJob /\ i.callee \in Fun
  BY DEF TableTypeOK, InterPropagationJob
<1>2. WorkList' = WorkList \cup {JobOf(x, f)} /\ JobOf(x, f) \in WorkList'
  BY DEF Propagated, JobOf
<1>3. CASE Awaited(i)
  BY <1>2, <1>3 DEF Awaited
<1>4. CASE ~Awaited(i) /\ Target(x)[1] \in ExitPointsOf(i.callee) /\ x.src = i.fact
  <2>1. FunOf(x.at) = i.callee
    BY <1>4, StoreCallType DEF TableTypeOK, ExitPointsOf
  <2>2. i \in SourceFactAndFuncToInterJob
    BY <1>4, <2>1, QuietStore DEF Relied
  <2>3. JobOf(x, f).at = Target(x)[1] /\ JobOf(x, f).src = x.src
    BY DEF JobOf
  <2> QED
    BY <1>2, <1>4, <2>2, <2>3 DEF Awaited
<1>5. CASE ~Awaited(i) /\ ~(Target(x)[1] \in ExitPointsOf(i.callee) /\ x.src = i.fact)
  <2>1. Target(x)[2] = x.src
    BY StoreCallType DEF TableTypeOK
  <2>2. UNCHANGED UseEndSummaryTab
    BY DEF config
  <2>3. SummariesReturned(i)' = SummariesReturned(i)
    <3> SUFFICES ASSUME NEW e \in ExitPointsOf(i.callee)
                 PROVE  Summaries(i.callee, i.fact, e)' = Summaries(i.callee, i.fact, e)
      BY ReturnedSame
    <3>1. ~(Target(x)[1] = e /\ Target(x)[2] = i.fact)
      BY <1>5, <2>1
    <3> QED
      BY <2>2, <3>1, SummariesSame
  <2>4. \A y \in SummariesReturned(i) : Accounted(y)
    BY <1>5, NoLostReturnDef
  <2>5. \A y \in SummariesReturned(i) : y \in StoreCall
    BY <1>1, ReturnedLocal DEF Local
  <2> QED
    BY <2>3, <2>4, <2>5, AccountedKept
<1> QED
  BY <1>3, <1>4, <1>5

\* Storing.
LEMMA GCInvStore ==
  ASSUME GCInv, doStore PROVE GCInv'
<1>1. SolverInv /\ SolverInv' /\ TableTypeOK
  BY SolverInvStore DEF GCInv, SolverInv
<1>2. PICK x \in Stores :
        /\ Stores' = Stores \ {x}
        /\ storeResultsAndPropagate(x)
        /\ UNCHANGED <<config, EndSummaryTab, AllInterPropagations,
                       SourceFactAndFuncToInterJob, CallWL, Collected, Finished, pc>>
  BY DEF doStore
<1>3. x \in StoreCall /\ FunOf(Target(x)[1]) = FunOf(x.at) /\ Target(x)[2] = x.src
  BY <1>1, StoreCallType DEF TableTypeOK
<1>4. InPhase1 /\ pc \in {"intra", "inter", "finalize"}
  BY <1>1, <1>2 DEF SolverInv, Rounds, TableTypeOK, InPhase1
<1>5. Entered /\ NoLostReturn
  BY <1>4 DEF GCInv
<1>6. PICK Q : Quiet(Q) /\ Relied(Q)
  BY <1>4 DEF GCInv
<1>7. ASSUME NEW g \in Fun, NEW d \in Fact, EntryMade(g, d)
      PROVE  EntryMade(g, d)'
  BY <1>1, <1>2, <1>7, entryStoreCall, AccountedKept DEF EntryMade
<1>8. \A k \in DOMAIN JumpFunctions' : k \in DOMAIN JumpFunctions \/ k = Target(x)
  BY <1>1, <1>2, storeCases DEF Propagated
<1>9. Entered'
  <2>1. \A i \in AllInterPropagations : i.callee \in Fun /\ i.fact \in Fact
                                        /\ FunOf(i.cs) \in Fun /\ i.src \in Fact
    BY <1>1, ICFGAssumption DEF TableTypeOK, InterPropagationJob
  <2>2. \A k \in DOMAIN JumpFunctions : FunOf(k[1]) \in Fun /\ k[2] \in Fact
    BY <1>1, ICFGAssumption DEF TableTypeOK
  <2>3. \A y \in Stores : FunOf(y.at) \in Fun /\ y.src \in Fact
    BY <1>1, ICFGAssumption DEF TableTypeOK, StoreCall
  <2>4. \A i \in AllInterPropagations' : EntryMade(i.callee, i.fact)'
    BY <1>2, <1>5, <1>7, <2>1 DEF Entered
  <2>5. ASSUME SeedsAtEntries, NEW i \in AllInterPropagations'
        PROVE  EntryMade(FunOf(i.cs), i.src)'
    BY <1>2, <1>5, <1>7, <2>1, <2>5 DEF Entered
  <2>6. ASSUME SeedsAtEntries, NEW y \in Stores
        PROVE  EntryMade(FunOf(y.at), y.src)'
    BY <1>5, <1>7, <2>3, <2>6 DEF Entered
  <2>7. ASSUME SeedsAtEntries, NEW k \in DOMAIN JumpFunctions'
        PROVE  EntryMade(FunOf(k[1]), k[2])'
    <3>1. CASE k = Target(x)
      BY <1>3, <2>6, <2>7, <3>1
    <3>2. CASE k \in DOMAIN JumpFunctions
      BY <1>5, <1>7, <2>2, <2>7, <3>2 DEF Entered
    <3> QED
      BY <1>8, <3>1, <3>2
  <2> QED
    BY <1>2, <2>4, <2>5, <2>6, <2>7 DEF Entered
<1>10. CASE Stored(x) /\ UNCHANGED <<JumpFunctions, WorkList, RefCountPerFunction,
                                     CandidateFunctionsForGC>>
  <2>1. Quiet(Q)' /\ Relied(Q)'
    BY <1>2, <1>6, <1>10, StoredFrame DEF Quiet, Relied, config
  <2>2. NoReanalysis' <=> NoReanalysis
    BY <1>2, <1>10 DEF NoReanalysis
  <2>3. NoLostReturn'
    <3> SUFFICES ASSUME NEW i \in AllInterPropagations
                 PROVE  Awaited(i)' \/ \A y \in SummariesReturned(i)' : Accounted(y)'
      BY <1>2, NoLostReturnDefNext
    <3>1. Awaited(i)' <=> Awaited(i)
      BY <1>2, <1>10 DEF Awaited
    <3>2. SummariesReturned(i)' = SummariesReturned(i)
      BY <1>2, <1>10, ReturnedFrame DEF config
    <3>3. \A y \in SummariesReturned(i) : y \in StoreCall
      BY <1>1, ReturnedLocal DEF Local, TableTypeOK
    <3>4. Awaited(i) \/ \A y \in SummariesReturned(i) : Accounted(y)
      BY <1>4, <1>5, NoLostReturnDef
    <3> QED
      BY <1>1, <1>2, <3>1, <3>2, <3>3, <3>4, AccountedKept
  <2> QED
    BY <1>1, <1>9, <2>1, <2>2, <2>3 DEF GCInv
<1>11. ASSUME NEW f, Propagated(x, f) PROVE GCInv'
  <2>1. Quiet(Q)' /\ Relied(Q)' /\ <<FunOf(x.at), x.src>> \notin Q
    BY <1>1, <1>2, <1>6, <1>11, QuietStore
  <2>2. ASSUME SeedsAtEntries PROVE NoReanalysis'
    <3>1. NoReanalysis
      BY <2>2 DEF GCInv
    <3>2. Target(x) \notin Collected
      BY <1>3, <1>6, <2>1, <2>2 DEF Relied
    <3> QED
      BY <1>2, <1>8, <3>1, <3>2 DEF NoReanalysis
  <2>3. NoLostReturn'
    BY <1>1, <1>2, <1>5, <1>6, <1>11, NoLostReturnStore
  <2> QED
    BY <1>1, <1>9, <2>1, <2>2, <2>3 DEF GCInv
<1> QED
  BY <1>1, <1>2, <1>10, <1>11, storeCases

\* A handler that starts changes no jump function: the entries made before it
\* are stored.
LEMMA EnteredFrame ==
  ASSUME Entered, Stores = {}, UNCHANGED JumpFunctions
  PROVE  /\ \A i \in AllInterPropagations : EntryMade(i.callee, i.fact)'
         /\ SeedsAtEntries =>
              /\ \A i \in AllInterPropagations : EntryMade(FunOf(i.cs), i.src)'
              /\ \A k \in DOMAIN JumpFunctions : EntryMade(FunOf(k[1]), k[2])'
BY Settled, StoredFrame, StoredAccounted DEF Entered

\* A job is in a function that has been entered.
LEMMA JobEntered ==
  ASSUME SolverInv, Entered, Stores = {}, UNCHANGED JumpFunctions, SeedsAtEntries,
         NEW j \in WorkList
  PROVE  EntryMade(FunOf(j.at), j.src)'
<1>1. JobKey(j) \in DOMAIN JumpFunctions
  BY DEF SolverInv, JobsStored
<1>2. JobKey(j)[1] = j.at /\ JobKey(j)[2] = j.src
  BY DEF JobKey
<1> QED
  BY <1>1, <1>2, EnteredFrame

\* Normal flows.
LEMMA GCInvNormal ==
  ASSUME GCInv, NEW j \in WorkList, applyNormalFlow(j) PROVE GCInv'
<1>1. SolverInv /\ SolverInv' /\ TableTypeOK
  BY SolverInvNormal DEF GCInv, SolverInv
<1>2. /\ pop(j) /\ Stores' = NormalStores(j)
      /\ UNCHANGED <<JumpFunctions, AllInterPropagations, SourceFactAndFuncToInterJob>>
  BY DEF applyNormalFlow
<1>3. /\ pc = "intra" /\ pc' = pc /\ Stores = {} /\ WorkList' = WorkList \ {j}
      /\ UNCHANGED <<config, CandidateFunctionsForGC, Collected>>
      /\ j \in PropagationJob /\ j.at \in Node
  BY <1>1, <1>2, popFacts
<1>4. Entered /\ NoLostReturn
  BY <1>3 DEF GCInv, InPhase1
<1>5. PICK Q : Quiet(Q) /\ Relied(Q)
  BY <1>3 DEF GCInv, InPhase1
<1>6. /\ CallWL \subseteq CallWL'
      /\ CallWL' \subseteq CallWL \cup {<<j.src, FunOf(j.at)>>}
      /\ j.at \in ExitInst => <<j.src, FunOf(j.at)>> \in CallWL'
  BY DEF applyNormalFlow
<1>7. \A x \in Stores' : FunOf(x.at) = FunOf(j.at) /\ x.src = j.src
  BY <1>2, <1>3, NormalStoresLocal DEF Local
<1>8. <<FunOf(j.at), j.src>> \notin Q
  BY <1>5 DEF Quiet
<1>9. Quiet(Q)'
  <2>1. \A w \in CallWL' : <<w[2], w[1]>> \notin Q
    <3> DEFINE v == <<j.src, FunOf(j.at)>>
    <3>1. <<v[2], v[1]>> \notin Q
      BY <1>8
    <3>2. \A w \in CallWL : <<w[2], w[1]>> \notin Q
      BY <1>5 DEF Quiet
    <3> HIDE DEF v
    <3> QED
      BY <1>6, <3>1, <3>2 DEF v
  <2> QED
    BY <1>2, <1>3, <1>5, <1>7, <1>8, <2>1, StoredFrame DEF Quiet
<1>10. Relied(Q)'
  BY <1>2, <1>3, <1>5, StoredFrame DEF Relied, config
<1>11. NoReanalysis' <=> NoReanalysis
  BY <1>2, <1>3 DEF NoReanalysis
<1>12. Entered'
  <2>1. SeedsAtEntries => \A x \in Stores' : EntryMade(FunOf(x.at), x.src)'
    BY <1>1, <1>2, <1>3, <1>4, <1>7, JobEntered
  <2> QED
    BY <1>2, <1>3, <1>4, <2>1, EnteredFrame DEF Entered
<1>13. NoLostReturn'
  <2> SUFFICES ASSUME NEW i \in AllInterPropagations
               PROVE  Awaited(i)' \/ \A y \in SummariesReturned(i)' : Accounted(y)'
    BY <1>2, NoLostReturnDefNext
  <2>1. Awaited(i) \/ \A y \in SummariesReturned(i) : Accounted(y)
    BY <1>3, <1>4, NoLostReturnDef
  <2>2. CASE j.at \in ExitInst /\ FunOf(j.at) = i.callee /\ j.src = i.fact
    <3>1. i \in SourceFactAndFuncToInterJob
      BY <1>5, <1>8, <2>2 DEF Relied
    <3> QED
      BY <1>2, <1>6, <2>2, <3>1 DEF Awaited
  <2>3. CASE ~(j.at \in ExitInst /\ FunOf(j.at) = i.callee /\ j.src = i.fact)
    <3>1. CASE Awaited(i)
      <4>1. \A h \in WorkList : (h.at \in ExitPointsOf(i.callee) /\ h.src = i.fact)
                                  => h \in WorkList'
        BY <1>3, <2>3 DEF ExitPointsOf
      <4> QED
        BY <1>2, <1>6, <3>1, <4>1 DEF Awaited
    <3>2. CASE \A y \in SummariesReturned(i) : Accounted(y)
      <4>1. SummariesReturned(i)' = SummariesReturned(i)
        <5> SUFFICES ASSUME NEW e \in ExitPointsOf(i.callee)
                     PROVE  Summaries(i.callee, i.fact, e)' =
                              Summaries(i.callee, i.fact, e)
          BY ReturnedSame
        <5>1. UNCHANGED <<UseEndSummaryTab, JumpFunctions>>
          BY <1>2, <1>3 DEF config
        <5>2. CASE ~UseEndSummaryTab \/ EndSummaryTab' = EndSummaryTab
          BY <5>1, <5>2 DEF Summaries
        <5>3. CASE UseEndSummaryTab /\ EndSummaryTab' # EndSummaryTab
          <6> DEFINE k == <<FunOf(j.at), j.src, j.fact>>
                     v == IF k \in DOMAIN EndSummaryTab
                          THEN combine(EndSummaryTab[k], j.ef) ELSE j.ef
                     K == {y \in DOMAIN EndSummaryTab :
                             y[1] = i.callee /\ y[2] = i.fact}
                     K2 == {y \in DOMAIN EndSummaryTab' :
                              y[1] = i.callee /\ y[2] = i.fact}
          <6>1. j.at \in ExitInst /\ EndSummaryTab' = Put(EndSummaryTab, k, v)
            BY <5>3 DEF applyNormalFlow, storeSummary
          <6>2. ~(k[1] = i.callee /\ k[2] = i.fact)
            BY <2>3, <6>1
          <6> HIDE DEF k, v
          <6>3. K2 = K /\ \A y \in K : EndSummaryTab'[y] = EndSummaryTab[y]
            BY <6>1, <6>2 DEF Put
          <6>4. /\ Summaries(i.callee, i.fact, e) =
                     {<<y[3], EndSummaryTab[y]>> : y \in K}
                /\ Summaries(i.callee, i.fact, e)' =
                     {<<y[3], EndSummaryTab'[y]>> : y \in K2}
            BY <5>1, <5>3 DEF Summaries
          <6> HIDE DEF K, K2
          <6> QED
            BY <6>3, <6>4
        <5> QED
          BY <5>2, <5>3
      <4> QED
        BY <1>2, <1>3, <3>2, <4>1, Settled, StoredFrame, StoredAccounted
    <3> QED
      BY <2>1, <3>1, <3>2
  <2> QED
    BY <2>2, <2>3
<1> QED
  BY <1>1, <1>9, <1>10, <1>11, <1>12, <1>13 DEF GCInv

\* Calls.
LEMMA GCInvCall ==
  ASSUME GCInv, NEW j \in WorkList, applyIntraCallFlow(j) PROVE GCInv'
<1>1. SolverInv /\ SolverInv' /\ TableTypeOK
  BY SolverInvCall DEF GCInv, SolverInv
<1> DEFINE new == InterJobsOf(j) \ AllInterPropagations
<1>2. /\ pop(j) /\ j.at \in CallSite
      /\ Stores' = EntryStores(j) \cup SummaryStores(j) \cup CallToReturnStores(j)
                     \cup UNION {SummariesReturned(i) : i \in new}
      /\ AllInterPropagations' = AllInterPropagations \cup new
      /\ SourceFactAndFuncToInterJob' = SourceFactAndFuncToInterJob \cup new
      /\ UNCHANGED <<JumpFunctions, EndSummaryTab, CallWL>>
  BY DEF applyIntraCallFlow
<1>3. /\ pc = "intra" /\ pc' = pc /\ Stores = {} /\ WorkList' = WorkList \ {j}
      /\ UNCHANGED <<config, CandidateFunctionsForGC, Collected>>
      /\ j \in PropagationJob
  BY <1>1, <1>2, popFacts
<1>4. Entered /\ NoLostReturn
  BY <1>3 DEF GCInv, InPhase1
<1>5. PICK Q : Quiet(Q) /\ Relied(Q)
  BY <1>3 DEF GCInv, InPhase1
<1>6. <<FunOf(j.at), j.src>> \notin Q
  BY <1>5 DEF Quiet
<1>7. \A i \in InterJobsOf(j) : /\ i.cs = j.at /\ i.src = j.src
                                /\ i.callee \in Fun /\ i.fact \in Fact
  BY <1>3, InterJobsType DEF InterPropagationJob
<1>8. \A i \in new : i \in InterJobsOf(j) /\ SummariesReturned(i) \subseteq Stores'
  BY <1>2
<1>9. EntryStores(j) \subseteq Stores'
  BY <1>2
<1> HIDE DEF new
<1>10. \A i \in InterJobsOf(j) : EntryMade(i.callee, i.fact)'
  BY <1>3, <1>9, EntryStoresMember DEF EntryMade, Accounted
<1>11. ASSUME NEW x \in EntryStores(j)
       PROVE  \E i \in InterJobsOf(j) :
                /\ FunOf(x.at) = i.callee /\ x.src = i.fact
                /\ EntryStored(i.callee, i.fact) => Stored(x)
  <2>1. PICK i \in InterJobsOf(j) : \E sp \in StartPoints(i.callee) :
               x = entry(sp, i.fact)
    BY <1>3, EntryStoresMember
  <2>2. PICK sp \in StartPoints(i.callee) : x = entry(sp, i.fact)
    BY <2>1
  <2>3. FunOf(x.at) = i.callee /\ x.src = i.fact
    BY <1>7, <2>2, entryType DEF Local
  <2> QED
    BY <2>2, <2>3 DEF EntryStored
<1>12. \A x \in Stores' : Local(x, FunOf(j.at), j.src) \/ x \in EntryStores(j)
  BY <1>1, CallStoresMember
<1>13. Quiet(Q)'
  <2>1. ASSUME NEW x \in Stores', <<FunOf(x.at), x.src>> \in Q PROVE Stored(x)
    <3>1. x \in EntryStores(j)
      BY <1>6, <1>12, <2>1 DEF Local
    <3>2. PICK i \in InterJobsOf(j) :
                 /\ FunOf(x.at) = i.callee /\ x.src = i.fact
                 /\ EntryStored(i.callee, i.fact) => Stored(x)
      BY <1>11, <3>1
    <3> DEFINE q == <<i.callee, i.fact>>
    <3>3. q \in Q /\ q[1] = i.callee /\ q[2] = i.fact
      BY <2>1, <3>2
    <3>4. EntryStored(i.callee, i.fact)
      BY <1>5, <3>3 DEF Quiet
    <3> QED
      BY <3>2, <3>4
  <2>2. ASSUME NEW i \in AllInterPropagations', <<FunOf(i.cs), i.src>> \in Q
        PROVE  <<i.callee, i.fact>> \in Q
    <3>1. i \notin new
      BY <1>6, <1>7, <1>8, <2>2
    <3> QED
      BY <1>2, <1>5, <2>2, <3>1 DEF Quiet
  <2>3. \A x \in Stores' : <<FunOf(x.at), x.src>> \in Q => Stored(x)'
    BY <1>2, <2>1, StoredFrame
  <2>4. \A q \in Q : EntryStored(q[1], q[2])'
    BY <1>2, <1>5, StoredFrame DEF Quiet
  <2> QED
    BY <1>2, <1>3, <1>5, <2>2, <2>3, <2>4 DEF Quiet
<1>14. Relied(Q)'
  BY <1>2, <1>3, <1>5, StoredFrame DEF Relied, config
<1>15. NoReanalysis' <=> NoReanalysis
  BY <1>2, <1>3 DEF NoReanalysis
<1>16. Entered'
  <2>1. ASSUME SeedsAtEntries PROVE EntryMade(FunOf(j.at), j.src)'
    BY <1>1, <1>2, <1>3, <1>4, <2>1, JobEntered
  <2>2. \A i \in AllInterPropagations' : EntryMade(i.callee, i.fact)'
    BY <1>2, <1>3, <1>4, <1>8, <1>10, EnteredFrame
  <2>3. SeedsAtEntries =>
          \A i \in AllInterPropagations' : EntryMade(FunOf(i.cs), i.src)'
    <3>1. ASSUME SeedsAtEntries, NEW i \in new PROVE EntryMade(FunOf(i.cs), i.src)'
      BY <1>7, <1>8, <2>1, <3>1
    <3>2. ASSUME SeedsAtEntries, NEW i \in AllInterPropagations
          PROVE  EntryMade(FunOf(i.cs), i.src)'
      BY <1>2, <1>3, <1>4, <3>2, EnteredFrame
    <3> QED
      BY <1>2, <3>1, <3>2
  <2>4. SeedsAtEntries =>
          \A k \in DOMAIN JumpFunctions' : EntryMade(FunOf(k[1]), k[2])'
    BY <1>2, <1>3, <1>4, EnteredFrame
  <2>5. SeedsAtEntries => \A x \in Stores' : EntryMade(FunOf(x.at), x.src)'
    <3> SUFFICES ASSUME SeedsAtEntries, NEW x \in Stores'
                 PROVE  EntryMade(FunOf(x.at), x.src)'
      OBVIOUS
    <3>1. CASE Local(x, FunOf(j.at), j.src)
      BY <2>1, <3>1 DEF Local
    <3>2. CASE x \in EntryStores(j)
      BY <1>10, <1>11, <3>2
    <3> QED
      BY <1>12, <3>1, <3>2
  <2> QED
    BY <2>2, <2>3, <2>4, <2>5 DEF Entered
<1>17. NoLostReturn'
  <2> SUFFICES ASSUME NEW i \in AllInterPropagations'
               PROVE  Awaited(i)' \/ \A y \in SummariesReturned(i)' : Accounted(y)'
    BY NoLostReturnDefNext
  <2>1. SummariesReturned(i)' = SummariesReturned(i)
    BY <1>2, <1>3, ReturnedFrame DEF config
  <2>2. CASE i \in new
    BY <1>8, <2>1, <2>2 DEF Accounted
  <2>3. CASE i \in AllInterPropagations /\ Awaited(i)
    <3>1. \A h \in WorkList : h.at \in ExitPointsOf(i.callee) => h \in WorkList'
      BY <1>2, <1>3, ICFGAssumption DEF ExitPointsOf
    <3> QED
      BY <1>2, <2>3, <3>1 DEF Awaited
  <2>4. CASE i \in AllInterPropagations /\ ~Awaited(i)
    <3>1. \A y \in SummariesReturned(i) : Accounted(y)
      BY <1>3, <1>4, <2>4, NoLostReturnDef
    <3> QED
      BY <1>2, <1>3, <2>1, <3>1, Settled, StoredFrame, StoredAccounted
  <2> QED
    BY <1>2, <2>2, <2>3, <2>4
<1> QED
  BY <1>1, <1>13, <1>14, <1>15, <1>16, <1>17 DEF GCInv

\* Returning the summaries: only to functions that are not quiet, since a quiet
\* one has called only quiet ones.
LEMMA GCInvInter ==
  ASSUME GCInv, processInterJobs PROVE GCInv'
<1>1. SolverInv /\ SolverInv' /\ TableTypeOK
  BY SolverInvInter DEF GCInv, SolverInv
<1> DEFINE served == {x \in SourceFactAndFuncToInterJob :
                        <<x.fact, x.callee>> \in CallWL}
<1>2. /\ pc = "intra" /\ pc' = "inter" /\ Stores = {} /\ WorkList = {}
      /\ CallWL' = {}
      /\ Stores' = UNION {SummariesReturned(i) : i \in served}
      /\ UNCHANGED <<config, JumpFunctions, EndSummaryTab, AllInterPropagations,
                     SourceFactAndFuncToInterJob, gcVars, WorkList, Finished>>
  BY DEF processInterJobs
<1>3. Entered /\ NoLostReturn
  BY <1>2 DEF GCInv, InPhase1
<1>4. PICK Q : Quiet(Q) /\ Relied(Q)
  BY <1>2 DEF GCInv, InPhase1
<1>5. \A x \in Stores' : \E i \in served :
        /\ i \in AllInterPropagations
        /\ FunOf(x.at) = FunOf(i.cs) /\ x.src = i.src
  <2> SUFFICES ASSUME NEW i \in served, NEW x \in SummariesReturned(i)
               PROVE  /\ i \in AllInterPropagations
                      /\ FunOf(x.at) = FunOf(i.cs) /\ x.src = i.src
    BY <1>2
  <2>1. i \in AllInterPropagations /\ i \in InterPropagationJob
    BY <1>1 DEF TableTypeOK
  <2> QED
    BY <1>1, <2>1, ReturnedLocal DEF Local
<1>6. \A i \in served : i \in AllInterPropagations => <<FunOf(i.cs), i.src>> \notin Q
  <2> SUFFICES ASSUME NEW i \in served, i \in AllInterPropagations
               PROVE  <<i.callee, i.fact>> \notin Q
    BY <1>4 DEF Quiet
  <2> DEFINE w == <<i.fact, i.callee>>
  <2>1. w \in CallWL /\ w[2] = i.callee /\ w[1] = i.fact
    OBVIOUS
  <2> QED
    BY <1>4, <2>1 DEF Quiet
<1>7. Quiet(Q)'
  <2>1. \A x \in Stores' : <<FunOf(x.at), x.src>> \notin Q
    <3> HIDE DEF served
    <3> QED BY <1>5, <1>6
  <2> QED
    BY <1>2, <1>4, <2>1, StoredFrame DEF Quiet
<1>8. Relied(Q)'
  BY <1>2, <1>4, StoredFrame DEF Relied, config, gcVars
<1>9. NoReanalysis' <=> NoReanalysis
  BY <1>2 DEF NoReanalysis, gcVars
<1>10. Entered'
  <2>1. SeedsAtEntries => \A x \in Stores' : EntryMade(FunOf(x.at), x.src)'
    <3> HIDE DEF served
    <3> QED BY <1>2, <1>3, <1>5, EnteredFrame
  <2> QED
    BY <1>2, <1>3, <2>1, EnteredFrame DEF Entered
<1>11. NoLostReturn'
  <2> SUFFICES ASSUME NEW i \in AllInterPropagations
               PROVE  \A y \in SummariesReturned(i)' : Accounted(y)'
    BY <1>2, NoLostReturnDefNext
  <2>1. SummariesReturned(i)' = SummariesReturned(i)
    BY <1>2, ReturnedFrame DEF config
  <2>2. CASE i \in served
    BY <1>2, <2>1, <2>2 DEF Accounted
  <2>3. CASE i \notin served
    <3>1. ~Awaited(i)
      BY <1>2, <2>3 DEF Awaited
    <3>2. \A y \in SummariesReturned(i) : Accounted(y)
      BY <1>2, <1>3, <3>1, NoLostReturnDef
    <3> QED
      BY <1>2, <2>1, <3>2, Settled, StoredFrame, StoredAccounted
  <2> QED
    BY <2>2, <2>3
<1> QED
  BY <1>1, <1>7, <1>8, <1>9, <1>10, <1>11 DEF GCInv

\* What is stored at a node that is kept stays stored,
LEMMA StoredAcrossGC ==
  ASSUME runGC, NEW y, Stored(y),
         keepAnalysisInformationAt(advanceToNextUser(y.at, y.fact))
  PROVE  Stored(y)'
<1>1. Target(y) \notin Dead
  BY DEF Dead, Target
<1> QED
  BY <1>1, runGCFacts, StoredDef, StoredDefNext

\* in particular the entries of functions,
LEMMA EntryAcrossGC ==
  ASSUME KeptTargets, runGC, NEW f \in Fun, NEW d \in Fact, EntryStored(f, d)
  PROVE  EntryStored(f, d)'
<1> SUFFICES ASSUME NEW sp \in StartPoints(f) PROVE Stored(entry(sp, d))'
  BY DEF EntryStored
<1>1. entry(sp, d).at = sp /\ entry(sp, d).fact = d
  BY entryType
<1>2. keepAnalysisInformationAt(advanceToNextUser(sp, d))
  BY DEF KeptTargets
<1> QED
  BY <1>1, <1>2, StoredAcrossGC DEF EntryStored

\* and nothing new is.
LEMMA NotStoredByGC ==
  ASSUME runGC
  PROVE  /\ \A y : Stored(y)' => Stored(y)
         /\ \A f, d : EntryStored(f, d)' => EntryStored(f, d)
<1>1. \A y : Stored(y)' => Stored(y)
  BY runGCFacts, StoredDef, StoredDefNext
<1> QED
  BY <1>1 DEF EntryStored

\* Exits are kept, and so are the summaries.
LEMMA SummariesAcrossGC ==
  ASSUME runGC, NEW i
  PROVE  SummariesReturned(i)' = SummariesReturned(i)
<1> SUFFICES ASSUME NEW e \in ExitPointsOf(i.callee)
             PROVE  Summaries(i.callee, i.fact, e)' = Summaries(i.callee, i.fact, e)
  BY ReturnedSame
<1>1. UNCHANGED <<UseEndSummaryTab, EndSummaryTab>>
  BY runGCFacts DEF config
<1>2. CASE UseEndSummaryTab
  BY <1>1, <1>2 DEF Summaries
<1>3. CASE ~UseEndSummaryTab
  <2> DEFINE K == {y \in DOMAIN JumpFunctions : y[1] = e /\ y[2] = i.fact}
             K2 == {y \in DOMAIN JumpFunctions' : y[1] = e /\ y[2] = i.fact}
  <2>1. \A y \in K : y \notin Dead
    BY DEF Dead, keepAnalysisInformationAt, ExitPointsOf
  <2>2. K2 = K /\ \A y \in K : JumpFunctions'[y] = JumpFunctions[y]
    BY <2>1, runGCFacts
  <2>3. /\ Summaries(i.callee, i.fact, e) = {<<y[3], JumpFunctions[y]>> : y \in K}
        /\ Summaries(i.callee, i.fact, e)' = {<<y[3], JumpFunctions'[y]>> : y \in K2}
    BY <1>1, <1>3 DEF Summaries
  <2> HIDE DEF K, K2
  <2> QED
    BY <2>2, <2>3
<1> QED
  BY <1>2, <1>3

\* The collected functions become quiet together.
LEMMA QuietGC ==
  ASSUME KeptTargets, SolverInv, Entered, runGC, NEW Q, Quiet(Q), Relied(Q)
  PROVE  \E R : Quiet(R)' /\ Relied(R)'
<1> DEFINE C == {q \in Collecting \X Fact : EntryStored(q[1], q[2])}
<1>0. PICK R : R = Q \cup C
  OBVIOUS
<1>1. TableTypeOK /\ InterJobsKnown /\ Rounds
  BY DEF SolverInv
<1>2. pc = "inter" /\ Stores = {} /\ Stores' = {} /\ CallWL' = {}
  BY <1>1, runGCFacts DEF Rounds
<1>3. \A f \in Collecting : f \in Fun /\ GCMode # "Disabled"
  BY CollectingIdle
<1>4. R \subseteq Fun \X Fact /\ \A q \in R : EntryStored(q[1], q[2])
  BY <1>0, <1>3 DEF Quiet
<1>5. ASSUME NEW f, NEW d, EntryStored(f, d), f \in Collecting, d \in Fact
      PROVE  <<f, d>> \in R
  <2> DEFINE q == <<f, d>>
  <2>1. q \in Collecting \X Fact /\ q[1] = f /\ q[2] = d
    BY <1>5
  <2> HIDE DEF q
  <2>2. q \in C
    BY <1>5, <2>1
  <2> QED
    BY <1>0, <2>2 DEF q
<1>6. \A i \in AllInterPropagations :
        /\ i.callee \in Fun /\ i.fact \in Fact /\ i.cs \in CallSite
        /\ i.callee \in CalleesOf(i.cs) /\ StartPoints(i.callee) # {}
        /\ EntryStored(i.callee, i.fact)
  BY <1>1, <1>2, Settled DEF TableTypeOK, InterJobsKnown, InterPropagationJob, Entered
<1>7. ASSUME NEW i \in AllInterPropagations, <<FunOf(i.cs), i.src>> \in R
      PROVE  <<i.callee, i.fact>> \in R
  <2>1. CASE <<FunOf(i.cs), i.src>> \in Q
    BY <1>0, <2>1 DEF Quiet
  <2>2. CASE <<FunOf(i.cs), i.src>> \in C
    <3>1. FunOf(i.cs) \in Collecting
      BY <2>2
    <3>2. FunOf(i.cs) \in CallersOf(i.callee)
      BY <1>6 DEF CallersOf
    <3>3. CASE i.callee \in CandidateFunctionsForGC
      BY <1>5, <1>6, <3>1, <3>2, <3>3, CollectingClosed
    <3>4. CASE i.callee \notin CandidateFunctionsForGC
      <4>1. PICK sp \in StartPoints(i.callee) : Stored(entry(sp, i.fact))
        BY <1>6 DEF EntryStored
      <4> DEFINE k == Target(entry(sp, i.fact))
      <4>2. k \in DOMAIN JumpFunctions
        BY <1>6, <4>1, entryType, StoredDef, EdgeFunctionAssumption
      <4>3. FunOf(k[1]) = i.callee /\ k[2] = i.fact
        <5>1. /\ entry(sp, i.fact) \in StoreCall
              /\ FunOf(entry(sp, i.fact).at) = i.callee
              /\ entry(sp, i.fact).src = i.fact
          BY <1>6, entryType DEF Local
        <5> QED
          BY <5>1, StoreCallType
      <4> QED
        BY <1>0, <1>3, <1>6, <3>1, <3>4, <4>2, <4>3 DEF Relied
    <3> QED
      BY <3>3, <3>4
  <2> QED
    BY <1>0, <1>7, <2>1, <2>2
<1>8. \A j \in WorkList : <<FunOf(j.at), j.src>> \notin R
  <2> SUFFICES ASSUME NEW j \in WorkList PROVE <<FunOf(j.at), j.src>> \notin R
    OBVIOUS
  <2>1. <<FunOf(j.at), j.src>> \notin Q
    BY DEF Quiet
  <2>2. <<FunOf(j.at), j.src>> \notin C
    BY CollectingIdle
  <2> QED
    BY <1>0, <2>1, <2>2
<1>9. Quiet(R)'
  <2>1. \A q \in R : EntryStored(q[1], q[2])'
    <3> SUFFICES ASSUME NEW q \in R PROVE EntryStored(q[1], q[2])'
      OBVIOUS
    <3>1. q[1] \in Fun /\ q[2] \in Fact /\ EntryStored(q[1], q[2])
      BY <1>4
    <3> QED
      BY <3>1, EntryAcrossGC
  <2>2. UNCHANGED <<WorkList, AllInterPropagations>>
    BY runGCFacts
  <2> QED
    BY <1>2, <1>4, <1>7, <1>8, <2>1, <2>2 DEF Quiet
<1>10. Relied(R)'
  <2>1. ASSUME GCMode' # "Disabled", NEW k \in DOMAIN JumpFunctions',
               FunOf(k[1]) \notin CandidateFunctionsForGC',
               EntryStored(FunOf(k[1]), k[2])'
        PROVE  <<FunOf(k[1]), k[2]>> \in R
    <3>1. k \in DOMAIN JumpFunctions /\ EntryStored(FunOf(k[1]), k[2])
      BY <2>1, runGCFacts, NotStoredByGC
    <3>2. k[2] \in Fact
      BY <1>1, <3>1 DEF TableTypeOK
    <3>3. CASE FunOf(k[1]) \in Collecting
      BY <1>5, <3>1, <3>2, <3>3
    <3>4. CASE FunOf(k[1]) \notin Collecting
      <4>1. FunOf(k[1]) \notin CandidateFunctionsForGC /\ GCMode # "Disabled"
        BY <2>1, <3>4, runGCFacts DEF config
      <4> QED
        BY <1>0, <3>1, <4>1 DEF Relied
    <3> QED
      BY <3>3, <3>4
  <2>2. ASSUME NEW i \in AllInterPropagations' \ SourceFactAndFuncToInterJob'
        PROVE  <<i.callee, i.fact>> \in R
    <3>1. i \in AllInterPropagations
      BY runGCFacts
    <3>2. CASE i \notin SourceFactAndFuncToInterJob
      BY <1>0, <3>1, <3>2 DEF Relied
    <3>3. CASE i.callee \in Collecting
      BY <1>5, <1>6, <3>1, <3>3
    <3> QED
      BY <3>2, <3>3, runGCFacts
  <2>3. ASSUME SeedsAtEntries, NEW k \in Collected'
        PROVE  <<FunOf(k[1]), k[2]>> \in R
    <3>1. CASE k \in Collected
      BY <1>0, <2>3, <3>1 DEF Relied
    <3>2. CASE k \in Dead
      <4>1. k \in DOMAIN JumpFunctions /\ FunOf(k[1]) \in Collecting
        BY <3>2 DEF Dead
      <4>2. k[2] \in Fact /\ EntryStored(FunOf(k[1]), k[2])
        BY <1>1, <1>2, <2>3, <4>1, Settled DEF TableTypeOK, Entered
      <4> QED
        BY <1>5, <4>1, <4>2
    <3> QED
      BY <3>1, <3>2, runGCFacts
  <2> QED
    BY <2>1, <2>2, <2>3 DEF Relied
<1> QED
  BY <1>9, <1>10

\* Collecting loses no return: the calls that are forgotten wait for nothing.
LEMMA NoLostReturnGC ==
  ASSUME KeptTargets, SolverInv, NoLostReturn, runGC
  PROVE  NoLostReturn'
<1>1. TableTypeOK /\ InterJobsKnown /\ Rounds
  BY DEF SolverInv
<1>2. /\ pc = "inter" /\ Stores = {} /\ CallWL = {}
      /\ UNCHANGED <<WorkList, AllInterPropagations>>
  BY <1>1, runGCFacts DEF Rounds
<1> SUFFICES ASSUME NEW i \in AllInterPropagations
             PROVE  Awaited(i)' \/ \A y \in SummariesReturned(i)' : Accounted(y)'
  BY <1>2, NoLostReturnDefNext
<1>3. CASE Awaited(i)
  <2>1. i.callee \notin Collecting
    BY <1>2, <1>3, CollectingIdle DEF Awaited, ExitPointsOf
  <2> QED
    BY <1>2, <1>3, <2>1, runGCFacts DEF Awaited
<1>4. CASE ~Awaited(i)
  <2> SUFFICES ASSUME NEW y \in SummariesReturned(i) PROVE Stored(y)'
    BY SummariesAcrossGC, StoredAccounted
  <2>1. Stored(y)
    BY <1>2, <1>4, NoLostReturnDef, Settled
  <2>2. i \in InterPropagationJob /\ i.cs \in CallSite
    BY <1>1 DEF TableTypeOK, InterJobsKnown
  <2>3. y.at \in SuccsOf(i.cs) /\ y.fact \in Fact
    BY <1>1, <2>2, ReturnedLocal DEF Local, StoreCall
  <2>4. keepAnalysisInformationAt(advanceToNextUser(y.at, y.fact))
    BY <2>2, <2>3 DEF KeptTargets
  <2> QED
    BY <2>1, <2>4, StoredAcrossGC
<1> QED
  BY <1>3, <1>4

\* Garbage collection.
LEMMA GCInvGC ==
  ASSUME KeptTargets, GCInv, runGC PROVE GCInv'
<1>1. SolverInv /\ SolverInv' /\ TableTypeOK
  BY SolverInvGC DEF GCInv, SolverInv
<1>2. pc = "inter" /\ Stores = {} /\ Stores' = {}
  BY runGCFacts
<1>3. Entered /\ NoLostReturn /\ \E Q : Quiet(Q) /\ Relied(Q)
  BY <1>2 DEF GCInv, InPhase1
<1>4. \E Q : Quiet(Q)' /\ Relied(Q)'
  BY <1>1, <1>3, QuietGC
<1>5. NoLostReturn'
  BY <1>1, <1>3, NoLostReturnGC
<1>6. ASSUME SeedsAtEntries PROVE NoReanalysis'
  <2>1. NoReanalysis
    BY <1>6 DEF GCInv
  <2> QED
    BY <2>1, runGCFacts DEF NoReanalysis
<1>7. ASSUME NEW f \in Fun, NEW d \in Fact, EntryMade(f, d)
      PROVE  EntryMade(f, d)'
  BY <1>2, <1>7, Settled, EntryAcrossGC, StoredAccounted
<1>8. Entered'
  <2>1. \A i \in AllInterPropagations' : EntryMade(i.callee, i.fact)'
    <3>1. \A i \in AllInterPropagations : i.callee \in Fun /\ i.fact \in Fact
      BY <1>1 DEF TableTypeOK, InterPropagationJob
    <3> QED
      BY <1>3, <1>7, <3>1, runGCFacts DEF Entered
  <2>2. ASSUME SeedsAtEntries, NEW i \in AllInterPropagations'
        PROVE  EntryMade(FunOf(i.cs), i.src)'
    <3>1. i \in AllInterPropagations /\ FunOf(i.cs) \in Fun /\ i.src \in Fact
      BY <1>1, runGCFacts, ICFGAssumption DEF TableTypeOK, InterPropagationJob
    <3> QED
      BY <1>3, <1>7, <2>2, <3>1 DEF Entered
  <2>3. ASSUME SeedsAtEntries, NEW k \in DOMAIN JumpFunctions'
        PROVE  EntryMade(FunOf(k[1]), k[2])'
    <3>1. k \in DOMAIN JumpFunctions
      BY runGCFacts
    <3>2. FunOf(k[1]) \in Fun /\ k[2] \in Fact
      BY <1>1, <3>1, ICFGAssumption DEF TableTypeOK
    <3> QED
      BY <1>3, <1>7, <2>3, <3>1, <3>2 DEF Entered
  <2> QED
    BY <1>2, <2>1, <2>2, <2>3 DEF Entered
<1> QED
  BY <1>1, <1>4, <1>5, <1>6, <1>8 DEF GCInv

\* Phase II stores no jump function.
LEMMA GCInvPhase2 ==
  ASSUME GCInv, Phase2 PROVE GCInv'
<1>1. SolverInv'
  BY SolverInvPhase2 DEF GCInv
<1>2. /\ pc' \in {"values", "compute", "done"}
      /\ UNCHANGED Collected
      /\ DOMAIN JumpFunctions' \subseteq DOMAIN JumpFunctions
  <2>1. CASE submitInitialValues
    BY <2>1 DEF submitInitialValues, gcVars
  <2>2. ASSUME NEW p \in WLProp, propagateValue(p)
        PROVE  pc' = "values" /\ UNCHANGED <<Collected, JumpFunctions>>
    BY <2>2 DEF propagateValue, gcVars, tables
  <2>3. CASE startComputation
    BY <2>3 DEF startComputation, gcVars, tables
  <2>4. ASSUME NEW sp \in WLComp, computeValues(sp)
        PROVE  pc' = "compute" /\ UNCHANGED <<Collected, JumpFunctions>>
    BY <2>4 DEF computeValues, gcVars, tables
  <2>5. CASE endComputation
    BY <2>5 DEF endComputation, gcVars
  <2> QED
    BY <2>1, <2>2, <2>3, <2>4, <2>5 DEF Phase2
<1>3. ~InPhase1'
  BY <1>2 DEF InPhase1
<1>4. NoReanalysis => NoReanalysis'
  BY <1>2 DEF NoReanalysis
<1> QED
  BY <1>1, <1>3, <1>4 DEF GCInv

\* A step of something else.
LEMMA GCInvStutter ==
  ASSUME GCInv, UNCHANGED vars PROVE GCInv'
<1>1. UNCHANGED <<config, tables, gcVars, WorkList, Stores, Finished, pc>>
  BY DEF vars
<1>2. SolverInv'
  BY SolverInvStep DEF GCInv
<1>3. NoReanalysis' <=> NoReanalysis
  BY <1>1 DEF NoReanalysis, gcVars, tables
<1>4. \A f, d : EntryMade(f, d)' <=> EntryMade(f, d)
  BY <1>1, StoredFrame DEF EntryMade, Accounted, tables
<1>5. Entered' <=> Entered
  BY <1>1, <1>4 DEF Entered, tables
<1>6. \A Q : (Quiet(Q)' <=> Quiet(Q)) /\ (Relied(Q)' <=> Relied(Q))
  BY <1>1, StoredFrame DEF Quiet, Relied, tables, gcVars, config
<1>7. NoLostReturn' <=> NoLostReturn
  <2>1. \A i : Awaited(i)' <=> Awaited(i)
    BY <1>1 DEF Awaited, tables
  <2>2. \A x : Accounted(x)' <=> Accounted(x)
    BY <1>1, StoredFrame DEF Accounted, tables
  <2>3. \A i : SummariesReturned(i)' = SummariesReturned(i)
    BY <1>1, ReturnedFrame DEF tables, config
  <2> QED
    BY <1>1, <2>1, <2>2, <2>3, NoLostReturnDef, NoLostReturnDefNext DEF tables
<1>8. InPhase1' <=> InPhase1
  BY <1>1 DEF InPhase1
<1> QED
  BY <1>2, <1>3, <1>5, <1>6, <1>7, <1>8 DEF GCInv

\* Every step preserves the invariant.
LEMMA GCInvStep ==
  ASSUME KeptTargets
  PROVE  GCInv /\ [Next]_vars => GCInv'
BY GCInvSeeds, GCInvStore, GCInvNormal, GCInvCall, GCInvInter, GCInvGC,
   GCInvPhase2, GCInvStutter DEF Next, Phase1, propagate

\* So it always holds.
LEMMA GCInvariant ==
  ASSUME KeptTargets
  PROVE  Spec => []GCInv
BY GCInvInit, GCInvStep, PTL DEF Spec

(***************************************************************************)
(* No summary of a callee is lost to a call that waits for it, however the *)
(* rounds and the collections interleave with registering calls            *)
(* (applyEarlySummariesAtCall, processInterJobs, runGC), provided that the *)
(* collector keeps what entries and returns store.                         *)
(***************************************************************************)
THEOREM NoReturnIsLost ==
  ASSUME KeptTargets
  PROVE  Spec => []NoLostReturn
<1>1. GCInv => NoLostReturn
  BY DEF GCInv, InPhase1, NoLostReturn
<1> QED
  BY <1>1, GCInvariant, PTL

(***************************************************************************)
(* What the collector has removed is never computed again, if moreover the *)
(* seeds are where a call would enter their function.  (A seed in the      *)
(* middle of a function does not stop a later call from analysing that     *)
(* function from its start.)                                               *)
(***************************************************************************)
THEOREM NothingIsReanalyzed ==
  ASSUME KeptTargets, SeedsAtEntries
  PROVE  Spec => []NoReanalysis
<1>1. GCInv => NoReanalysis
  BY DEF GCInv
<1> QED
  BY <1>1, GCInvariant, PTL

=============================================================================
