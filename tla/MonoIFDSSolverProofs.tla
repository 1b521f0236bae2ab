------------------------ MODULE MonoIFDSSolverProofs ------------------------
(***************************************************************************)
(* Proofs about MonoIFDSSolver, for every program, every problem and every *)
(* configuration.                                                          *)
(*                                                                         *)
(* That no leak is lost needs to know, for a scheduled call, that it will  *)
(* really be analysed (versioning skips it unless it is stale), and that   *)
(* InRecursion is set as soon as a recursive call is recorded, because     *)
(* marks are only set then.  That none is invented follows from comparing  *)
(* the tables with any solution of the equations.                          *)
(***************************************************************************)
EXTENDS MonoIFDSSolver, FiniteSetTheorems, TLAPS

-----------------------------------------------------------------------------
(***************************************************************************)
(* Types and control.                                                      *)
(***************************************************************************)
AtMostOneBlock == \A b, c \in Block : b = c

\* What is analysed belongs to the component.
InComponent ==
  /\ \A n \in DOMAIN PathEdges : FunOf(n) \in NodesInSCC[CurrSCC]
  /\ \A b \in Block : FunOf(b.at) \in NodesInSCC[CurrSCC]

\* A recorded call is a call into the component, with its environment.
CallsRecorded ==
  \A x \in Incoming : /\ x[2] \in DOMAIN PathEdges /\ x[1] \in CalleesOf(x[2])
                      /\ SCCOfNode(x[1]) = CurrSCC

\* The flags, and what is over in which phase.
FlagsOK ==
  /\ Incoming # {} => InRecursion
  /\ EagerReturnPropagation \/ ~InRecursion => HasNewSummary = {}
  /\ pc # "run" => Driver = {} /\ Block = {} /\ HasNewSummary = {}
  /\ pc \in {"next", "done"} => HasNewLeaks = {}

MonoTypes ==
  /\ CurrSCC \in 0 .. Len(NodesInSCC)
  /\ EndSummary \in [Fun -> Env]
  /\ LeakIf \in [Fun -> SUBSET (Node \X Fact \X Fact)]
  /\ Leaks \subseteq Node \X Fact
  /\ DOMAIN PathEdges \subseteq Node
  /\ \A n \in DOMAIN PathEdges : PathEdges[n] \in Env
  /\ Driver \subseteq DOMAIN PathEdges /\ Stale \subseteq DOMAIN PathEdges
  /\ Incoming \subseteq Fun \X CallSite
  /\ HasNewLeaks \subseteq Fun /\ HasNewSummary \subseteq Fun
  /\ InRecursion \in BOOLEAN
  /\ Block \subseteq Position
  /\ pc \in {"next", "run", "leaks", "done"}

ControlInv == MonoTypes /\ AtMostOneBlock /\ InComponent /\ CallsRecorded /\ FlagsOK

-----------------------------------------------------------------------------
(***************************************************************************)
(* The operators.                                                          *)
(***************************************************************************)
\* The source facts of some facts.
LEMMA SourcesType ==
  ASSUME NEW env \in Env, NEW D
  PROVE  sourcesOf(env, D) \subseteq Fact
BY DEF Env, sourcesOf

\* The leaks that are found at a node, and those of a callee.
LEMMA OwnLeaksType ==
  ASSUME NEW b \in Position
  PROVE  ownLeaks(b) \subseteq Node \X Fact \X Fact
<1>1. b.at \in Node /\ b.env \in Env
  BY DEF Position
<1>2. sinks(b.at) \subseteq Fact
  BY <1>1, FlowAssumption
<1>3. \A d \in sinks(b.at) : sourcesOf(b.env, {d}) \subseteq Fact
  BY <1>1, SourcesType
<1>4. ASSUME NEW x \in ownLeaks(b) PROVE x \in Node \X Fact \X Fact
  <2>1. PICK d \in sinks(b.at) : x \in {<<b.at, d, s>> : s \in sourcesOf(b.env, {d})}
    BY DEF ownLeaks
  <2>2. PICK s \in sourcesOf(b.env, {d}) : x = <<b.at, d, s>>
    BY <2>1
  <2> QED
    BY <1>1, <1>2, <1>3, <2>2
<1> QED
  BY <1>4

LEMMA MappedType ==
  ASSUME NEW c, NEW env \in Env, NEW L \in SUBSET (Node \X Fact \X Fact)
  PROVE  mappedLeaks(c, env, L) \subseteq Node \X Fact \X Fact
<1>1. \A l \in L : getSourceFactsFor(c, env, l[3]) \subseteq Fact
  BY SourcesType DEF getSourceFactsFor
<1>2. \A l \in L : l[1] \in Node /\ l[2] \in Fact
  OBVIOUS
<1> QED
  BY <1>1, <1>2 DEF mappedLeaks

LEMMA GeneratedType ==
  ASSUME NEW b \in Position
  PROVE  withGenerated(b) \in Env
<1>1. b.at \in Node /\ b.env \in Env /\ generated(b.at) \subseteq Fact /\ Zero \in Fact
  BY FlowAssumption DEF Position
<1> QED
  BY <1>1 DEF Env, withGenerated

LEMMA ReportsType ==
  ASSUME NEW L \in SUBSET (Node \X Fact \X Fact)
  PROVE  /\ reportsOf(L) \subseteq Node \X Fact
         /\ notFromZero(L) \subseteq Node \X Fact \X Fact
BY DEF reportsOf, notFromZero

\* The components cover the functions.
LEMMA ComponentOf ==
  ASSUME NEW g \in Fun
  PROVE  SCCOfNode(g) \in 1 .. Len(NodesInSCC) /\ g \in NodesInSCC[SCCOfNode(g)]
<1>1. \E i \in 1 .. Len(NodesInSCC) : g \in NodesInSCC[i]
  BY CallGraphAssumption
<1> QED
  BY <1>1 DEF SCCOfNode

\* Where the analysis goes on: along a single successor, or into the
\* environments of the successors, which are then scheduled if they changed.
LEMMA ContinueFacts ==
  ASSUME NEW b \in Position, NEW env, NEW stale, NEW P, NEW S, NEW D,
         continue(b, env, stale, P, S, D)
  PROVE  /\ \A x, y \in Block' : x = y
         /\ \A x \in Block' : \E m \in SuccsOf(b.at) :
              x = [at |-> m, env |-> env, stale |-> stale]
         /\ DOMAIN P \subseteq DOMAIN PathEdges'
         /\ DOMAIN PathEdges' \subseteq DOMAIN P \cup SuccsOf(b.at)
         /\ \A n \in DOMAIN PathEdges' :
              \/ n \in DOMAIN P /\ PathEdges'[n] = P[n]
              \/ /\ n \in SuccsOf(b.at)
                 /\ PathEdges'[n] = env \cup (IF n \in DOMAIN P THEN P[n] ELSE {})
         /\ \A n \in DOMAIN P : PathEdges'[n] = P[n] \/ n \in Driver' \cap Stale'
         /\ D \subseteq Driver' /\ Driver' \subseteq D \cup (SuccsOf(b.at) \cap DOMAIN PathEdges')
         /\ S \subseteq Stale' /\ Stale' \subseteq S \cup (SuccsOf(b.at) \cap DOMAIN PathEdges')
<1> DEFINE succs == SuccsOf(b.at)
           changed == {m \in succs : m \notin DOMAIN P \/ ~(env \subseteq P[m])}
<1>1. IsFiniteSet(succs)
  <2>1. b.at \in Node
    BY DEF Position
  <2>2. succs \in SUBSET Node /\ IsFiniteSet(Node)
    BY <2>1, ProgramAssumption
  <2> QED
    BY <2>2, FS_Subset
<1>2. CASE Cardinality(succs) = 1
  <2>1. /\ Block' = {[at |-> m, env |-> env, stale |-> stale] : m \in succs}
        /\ PathEdges' = P /\ Stale' = S /\ Driver' = D
    BY <1>2 DEF continue
  <2>2. PICK m : succs = {m}
    BY <1>1, <1>2, FS_Singleton
  <2>3. Block' = {[at |-> m, env |-> env, stale |-> stale]}
    BY <2>1, <2>2
  <2> HIDE DEF succs
  <2>4. /\ \A x, y \in Block' : x = y
        /\ \A x \in Block' : \E k \in succs : x = [at |-> k, env |-> env, stale |-> stale]
    BY <2>2, <2>3
  <2> QED
    BY <2>1, <2>4 DEF succs
<1>3. CASE Cardinality(succs) # 1
  <2>1. /\ Block' = {}
        /\ PathEdges' = [m \in DOMAIN P \cup succs |->
                           IF m \in succs
                           THEN env \cup (IF m \in DOMAIN P THEN P[m] ELSE {})
                           ELSE P[m]]
        /\ Stale' = S \cup changed
        /\ Driver' = D \cup changed
    BY <1>3 DEF continue
  <2>2. DOMAIN PathEdges' = DOMAIN P \cup succs
    BY <2>1
  <2>3. \A n \in DOMAIN P \cup succs :
          PathEdges'[n] = IF n \in succs
                          THEN env \cup (IF n \in DOMAIN P THEN P[n] ELSE {})
                          ELSE P[n]
    BY <2>1
  <2>4. ASSUME NEW n \in DOMAIN P PROVE PathEdges'[n] = P[n] \/ n \in Driver' \cap Stale'
    <3>1. CASE n \in changed
      BY <2>1, <3>1
    <3>2. CASE n \notin changed
      <4>1. n \in succs => env \subseteq P[n]
        BY <3>2
      <4> QED
        BY <2>3, <4>1
    <3> QED
      BY <3>1, <3>2
  <2> HIDE DEF succs
  <2> QED
    BY <2>1, <2>2, <2>3, <2>4 DEF succs
<1> QED
  BY <1>2, <1>3

-----------------------------------------------------------------------------
(***************************************************************************)
(* The parts of a step of the analysis, named.                             *)
(***************************************************************************)
normalEnv(b) == UNION {normalFlow(b.at, x[1]) \X {x[2]} : x \in withGenerated(b)}
exitOut(b) == {x \in withGenerated(b) : shouldBeInSummary(x[1], b.at)}

innerCallees(c) == {g \in CalleesOf(c) : SCCOfNode(g) = CurrSCC}
appliedCallees(c) == {g \in CalleesOf(c) : ~hasSummaryFlow(c, g)}
throughSummary(c, env, g) == UNION {summaryFlow(c, g, x[1]) \X {x[2]} : x \in env}
collectedEnv(c, env) ==
  (UNION {throughSummary(c, env, g) : g \in {h \in CalleesOf(c) : hasSummaryFlow(c, h)}})
    \cup UNION {appliedSummary(c, env, g) : g \in appliedCallees(c)}
keptEnv(c, env) ==
  IF CalleesOf(c) = {} \/ \E g \in appliedCallees(c) : StartPoints(g) = {}
  THEN env ELSE UNION {callToRetFlow(c, x[1]) \X {x[2]} : x \in env}
calleeLeaksAt(c, env) ==
  UNION {mappedLeaks(c, env, LeakIf[g]) : g \in appliedCallees(c) \ {FunOf(c)}}
recordedEdges(c, env) == IF innerCallees(c) = {} THEN PathEdges ELSE Put(PathEdges, c, env)

\* The leaks X are found in f; r is the recursion flag for each of them.
FoundLeaks(f, X) ==
  /\ LeakIf' = [LeakIf EXCEPT ![f] = @ \cup notFromZero(X)]
  /\ Leaks' = Leaks \cup reportsOf(X)
  /\ HasNewLeaks' \in {HasNewLeaks, HasNewLeaks \cup {f}}
  /\ InRecursion /\ ~(notFromZero(X) \subseteq LeakIf[f]) => f \in HasNewLeaks'

LEMMA NormalFacts ==
  ASSUME NEW b, normalStep(b)
  PROVE  /\ b.at \notin CallSite /\ FoundLeaks(FunOf(b.at), ownLeaks(b))
         /\ continue(b, normalEnv(b), b.stale, PathEdges, Stale, Driver)
         /\ UNCHANGED <<EndSummary, Incoming, HasNewSummary, InRecursion>>
BY DEF normalStep, normalEnv, FoundLeaks, isNewLeak

LEMMA ExitFacts ==
  ASSUME NEW b, exitStep(b)
  PROVE  /\ b.at \in ExitInst /\ FoundLeaks(FunOf(b.at), ownLeaks(b))
         /\ EndSummary' = [EndSummary EXCEPT ![FunOf(b.at)] = @ \cup exitOut(b)]
         /\ IF EagerReturnPropagation THEN HasNewSummary' \subseteq HasNewSummary \ {FunOf(b.at)}
            ELSE HasNewSummary' \in {HasNewSummary, HasNewSummary \cup {FunOf(b.at)}}
         /\ ~InRecursion => HasNewSummary' \subseteq HasNewSummary
         /\ \E C \in {{}, callsOf(FunOf(b.at))} :
              Driver' = Driver \cup C /\ Stale' = Stale \cup C
         /\ Block' = {}
         /\ UNCHANGED <<PathEdges, Incoming, InRecursion>>
<1>1. b.at \in ExitInst /\ FoundLeaks(FunOf(b.at), ownLeaks(b))
  BY DEF exitStep, FoundLeaks, isNewLeak
<1> QED
  BY <1>1 DEF exitStep, exitOut, summaryChanged

LEMMA CallFacts ==
  ASSUME NEW b, callStep(b), InRecursion \in BOOLEAN
  PROVE  LET c == b.at  env == withGenerated(b) IN
         /\ c \in CallSite
         /\ FoundLeaks(FunOf(c), ownLeaks(b) \cup calleeLeaksAt(c, env))
         /\ Incoming' = Incoming \cup {<<g, c>> : g \in innerCallees(c)}
         /\ InRecursion' = (InRecursion \/ innerCallees(c) # {})
         /\ \E st, S : /\ S \in {Stale, Stale \ {c}}
                       /\ innerCallees(c) = {} => S = Stale
                       /\ continue(b, keptEnv(c, env) \cup collectedEnv(c, env), st,
                                   recordedEdges(c, env), S, Driver)
                       /\ b.stale \in BOOLEAN => st \in BOOLEAN
         /\ UNCHANGED <<EndSummary, HasNewSummary>>
<1> DEFINE c == b.at
           env == withGenerated(b)
           X == calleeLeaksAt(c, env)
           kept == keptEnv(c, env)
           coll == collectedEnv(c, env)
<1>0. /\ appliedCallees(c) = CalleesOf(c) \ {g \in CalleesOf(c) : hasSummaryFlow(c, g)}
      /\ innerCallees(c) = {g \in CalleesOf(c) : SCCOfNode(g) = CurrSCC}
  BY DEF appliedCallees, innerCallees
<1>1. /\ c \in CallSite
      /\ Incoming' = Incoming \cup {<<g, c>> : g \in innerCallees(c)}
      /\ InRecursion' = (InRecursion \/ innerCallees(c) # {})
      /\ UNCHANGED <<EndSummary, HasNewSummary>>
  BY <1>0 DEF callStep
<1>2. /\ LeakIf' = [LeakIf EXCEPT ![FunOf(c)] = @ \cup notFromZero(ownLeaks(b) \cup X)]
      /\ Leaks' = Leaks \cup reportsOf(ownLeaks(b) \cup X)
      /\ HasNewLeaks' = IF \/ isNewLeak(FunOf(c), ownLeaks(b), InRecursion)
                           \/ isNewLeak(FunOf(c), X \ ownLeaks(b), InRecursion \/ innerCallees(c) # {})
                        THEN HasNewLeaks \cup {FunOf(c)} ELSE HasNewLeaks
  BY <1>0 DEF callStep, calleeLeaksAt
<1>3. FoundLeaks(FunOf(c), ownLeaks(b) \cup X)
  <2> HIDE DEF X, c
  <2>1. ASSUME InRecursion, notFromZero(ownLeaks(b)) \subseteq LeakIf[FunOf(c)],
               notFromZero(X \ ownLeaks(b)) \subseteq LeakIf[FunOf(c)]
        PROVE  notFromZero(ownLeaks(b) \cup X) \subseteq LeakIf[FunOf(c)]
    BY <2>1 DEF notFromZero
  <2> QED
    BY <1>2, <2>1 DEF FoundLeaks, isNewLeak
<1>4. PICK st, S : /\ S \in {Stale, Stale \ {c}}
                   /\ innerCallees(c) = {} => S = Stale
                   /\ continue(b, kept \cup coll, st, recordedEdges(c, env), S, Driver)
                   /\ b.stale \in BOOLEAN => st \in BOOLEAN
  <2> DEFINE st == b.stale \/ Cardinality(factsOf(kept)) < Cardinality(factsOf(coll))
             S == IF innerCallees(c) = {} \/ b.stale THEN Stale ELSE Stale \ {c}
  <2>1. continue(b, kept \cup coll, st, recordedEdges(c, env), S, Driver)
    BY <1>0 DEF callStep, keptEnv, collectedEnv, throughSummary, recordedEdges
  <2>2. st \in BOOLEAN /\ S \in {Stale, Stale \ {c}} /\ (innerCallees(c) = {} => S = Stale)
    OBVIOUS
  <2> HIDE DEF st, S, kept, coll, env
  <2> QED
    BY <2>1, <2>2
<1> HIDE DEF X, kept, coll
<1> QED
  BY <1>1, <1>3, <1>4 DEF X, kept, coll

\* The environments that are passed on are environments.
LEMMA EnvTypes ==
  ASSUME MonoTypes, NEW b \in Position
  PROVE  /\ normalEnv(b) \in Env /\ exitOut(b) \in Env
         /\ LET e == withGenerated(b) IN
              /\ e \in Env
              /\ keptEnv(b.at, e) \in Env /\ collectedEnv(b.at, e) \in Env
              /\ calleeLeaksAt(b.at, e) \subseteq Node \X Fact \X Fact
<1> DEFINE e == withGenerated(b)
           c == b.at
<1>1. e \in Env /\ c \in Node
  BY GeneratedType DEF Position
<1>2. \A x \in e : x[1] \in Fact /\ x[2] \in Fact
  BY <1>1 DEF Env
<1> HIDE DEF e, c
<1>3. UNION {normalFlow(c, x[1]) \X {x[2]} : x \in e} \in Env
  BY <1>1, <1>2, FlowAssumption DEF Env
<1>4. {x \in e : shouldBeInSummary(x[1], c)} \in Env
  BY <1>1 DEF Env
<1>5. keptEnv(c, e) \in Env
  <2>1. UNION {callToRetFlow(c, x[1]) \X {x[2]} : x \in e} \in Env
    BY <1>1, <1>2, FlowAssumption DEF Env
  <2> QED
    BY <1>1, <2>1 DEF keptEnv
<1>6. collectedEnv(c, e) \in Env
  <2>1. \A g \in CalleesOf(c) : throughSummary(c, e, g) \in Env
    <3> SUFFICES ASSUME NEW g \in CalleesOf(c) PROVE throughSummary(c, e, g) \in Env
      OBVIOUS
    <3>1. g \in Fun
      BY <1>1, ProgramAssumption
    <3>2. \A x \in e : summaryFlow(c, g, x[1]) \subseteq Fact
      BY <1>1, <1>2, <3>1, FlowAssumption
    <3> QED
      BY <1>2, <3>2 DEF Env, throughSummary
  <2>2. \A g \in CalleesOf(c) : appliedSummary(c, e, g) \in Env
    <3> SUFFICES ASSUME NEW g \in CalleesOf(c) PROVE appliedSummary(c, e, g) \in Env
      OBVIOUS
    <3>1. g \in Fun
      BY <1>1, ProgramAssumption
    <3>2. EndSummary[g] \in Env
      BY <3>1 DEF MonoTypes
    <3>3. \A x \in EndSummary[g] : x[1] \in Fact
      BY <3>2 DEF Env
    <3>4. \A x \in EndSummary[g] : returnFlow(c, x[1]) \subseteq Fact
      BY <1>1, <3>3, FlowAssumption
    <3>5. \A s : getSourceFactsFor(c, e, s) \subseteq Fact
      BY <1>1, SourcesType DEF getSourceFactsFor
    <3> QED
      BY <3>4, <3>5 DEF Env, appliedSummary
  <2> QED
    BY <2>1, <2>2 DEF Env, collectedEnv, appliedCallees
<1>7. calleeLeaksAt(c, e) \subseteq Node \X Fact \X Fact
  <2>1. ASSUME NEW g \in CalleesOf(c)
        PROVE  mappedLeaks(c, e, LeakIf[g]) \subseteq Node \X Fact \X Fact
    <3>1. LeakIf[g] \in SUBSET (Node \X Fact \X Fact)
      BY <1>1, ProgramAssumption DEF MonoTypes
    <3> QED
      BY <1>1, <3>1, MappedType
  <2> QED
    BY <2>1 DEF calleeLeaksAt, appliedCallees
<1> QED
  BY <1>1, <1>3, <1>4, <1>5, <1>6, <1>7 DEF e, c, normalEnv, exitOut

-----------------------------------------------------------------------------
(***************************************************************************)
(* Every action keeps types and control.                                   *)
(***************************************************************************)
\* The leaks that are found.
LEMMA FoundTypes ==
  ASSUME MonoTypes, NEW f \in Fun, NEW X \in SUBSET (Node \X Fact \X Fact), FoundLeaks(f, X)
  PROVE  /\ LeakIf' \in [Fun -> SUBSET (Node \X Fact \X Fact)]
         /\ LeakIf'[f] = LeakIf[f] \cup notFromZero(X)
         /\ \A g \in Fun : g # f => LeakIf'[g] = LeakIf[g]
         /\ Leaks' \subseteq Node \X Fact
         /\ HasNewLeaks' \subseteq Fun /\ HasNewLeaks \subseteq HasNewLeaks'
<1>1. reportsOf(X) \subseteq Node \X Fact /\ notFromZero(X) \subseteq Node \X Fact \X Fact
  BY ReportsType
<1>2. LeakIf \in [Fun -> SUBSET (Node \X Fact \X Fact)] /\ Leaks \subseteq Node \X Fact
      /\ HasNewLeaks \subseteq Fun
  BY DEF MonoTypes
<1>3. /\ LeakIf' = [LeakIf EXCEPT ![f] = @ \cup notFromZero(X)]
      /\ Leaks' = Leaks \cup reportsOf(X)
      /\ HasNewLeaks' \in {HasNewLeaks, HasNewLeaks \cup {f}}
  BY DEF FoundLeaks
<1> QED
  BY <1>1, <1>2, <1>3

\* Going on after a node of the component.
LEMMA ContinueTypes ==
  ASSUME MonoTypes, InComponent, NEW b \in Block, NEW env \in Env, NEW stale \in BOOLEAN,
         NEW P, DOMAIN P \subseteq Node,
         \A n \in DOMAIN P : P[n] \in Env /\ FunOf(n) \in NodesInSCC[CurrSCC],
         NEW S \in SUBSET DOMAIN P, NEW D \in SUBSET DOMAIN P,
         continue(b, env, stale, P, S, D)
  PROVE  /\ Block' \subseteq Position /\ \A x, y \in Block' : x = y
         /\ DOMAIN PathEdges' \subseteq Node
         /\ \A n \in DOMAIN PathEdges' :
              PathEdges'[n] \in Env /\ FunOf(n) \in NodesInSCC[CurrSCC]
         /\ \A x \in Block' : FunOf(x.at) \in NodesInSCC[CurrSCC]
         /\ Driver' \subseteq DOMAIN PathEdges' /\ Stale' \subseteq DOMAIN PathEdges'
<1>1. b \in Position /\ b.at \in Node /\ FunOf(b.at) \in NodesInSCC[CurrSCC]
  BY DEF MonoTypes, InComponent, Position
<1>2. \A m \in SuccsOf(b.at) : m \in Node /\ FunOf(m) \in NodesInSCC[CurrSCC]
  BY <1>1, ProgramAssumption
<1>3. /\ \A x, y \in Block' : x = y
      /\ \A x \in Block' : \E m \in SuccsOf(b.at) :
              x = [at |-> m, env |-> env, stale |-> stale]
  BY <1>1, ContinueFacts
<1>4. /\ DOMAIN P \subseteq DOMAIN PathEdges'
      /\ DOMAIN PathEdges' \subseteq DOMAIN P \cup SuccsOf(b.at)
      /\ \A n \in DOMAIN PathEdges' :
              \/ n \in DOMAIN P /\ PathEdges'[n] = P[n]
              \/ /\ n \in SuccsOf(b.at)
                 /\ PathEdges'[n] = env \cup (IF n \in DOMAIN P THEN P[n] ELSE {})
      /\ Driver' \subseteq D \cup (SuccsOf(b.at) \cap DOMAIN PathEdges')
      /\ Stale' \subseteq S \cup (SuccsOf(b.at) \cap DOMAIN PathEdges')
  BY <1>1, ContinueFacts
<1>5. \A x \in Block' : x \in Position /\ FunOf(x.at) \in NodesInSCC[CurrSCC]
  <2> SUFFICES ASSUME NEW x \in Block'
               PROVE  x \in Position /\ FunOf(x.at) \in NodesInSCC[CurrSCC]
    OBVIOUS
  <2>1. PICK m \in SuccsOf(b.at) : x = [at |-> m, env |-> env, stale |-> stale]
    BY <1>3
  <2> QED
    BY <1>2, <2>1 DEF Position
<1>6. ASSUME NEW n \in DOMAIN PathEdges'
      PROVE  PathEdges'[n] \in Env /\ FunOf(n) \in NodesInSCC[CurrSCC]
  <2>1. CASE n \in DOMAIN P /\ PathEdges'[n] = P[n]
    BY <2>1
  <2>2. CASE /\ n \in SuccsOf(b.at)
             /\ PathEdges'[n] = env \cup (IF n \in DOMAIN P THEN P[n] ELSE {})
    BY <1>2, <2>2 DEF Env
  <2> QED
    BY <1>4, <2>1, <2>2
<1> QED
  BY <1>2, <1>3, <1>4, <1>5, <1>6

LEMMA InitControl ==
  ASSUME Init
  PROVE  ControlInv
<1>1. NodesInSCC \in Seq(SUBSET Fun) /\ Len(NodesInSCC) \in Nat
  BY CallGraphAssumption
<1>2. MonoTypes
  <2>1. EndSummary \in [Fun -> Env] /\ LeakIf \in [Fun -> SUBSET (Node \X Fact \X Fact)]
    BY DEF Init, Env
  <2>2. /\ CurrSCC \in 0 .. Len(NodesInSCC) /\ DOMAIN PathEdges = {} /\ Leaks = {}
        /\ Driver = {} /\ Stale = {} /\ Incoming = {} /\ HasNewLeaks = {} /\ HasNewSummary = {}
        /\ InRecursion = FALSE /\ Block = {} /\ pc = "next"
    BY <1>1 DEF Init
  <2> QED
    BY <2>1, <2>2 DEF MonoTypes
<1>3. AtMostOneBlock /\ InComponent /\ CallsRecorded /\ FlagsOK
  BY DEF Init, AtMostOneBlock, InComponent, CallsRecorded, FlagsOK
<1> QED
  BY <1>2, <1>3 DEF ControlInv

LEMMA StartControl ==
  ASSUME ControlInv, startSCC
  PROVE  ControlInv'
<1> DEFINE funs == NodesInSCC[CurrSCC + 1]
           starts == UNION {StartPoints(f) : f \in funs}
<1>1. /\ MonoTypes /\ FlagsOK /\ Block = {}
  BY DEF ControlInv, FlagsOK, startSCC
<1>2. CurrSCC' = CurrSCC + 1 /\ CurrSCC' \in 0 .. Len(NodesInSCC) /\ funs \in SUBSET Fun
  BY <1>1, CallGraphAssumption DEF MonoTypes, startSCC
<1>3. /\ PathEdges' = [n \in starts |->
            {<<Zero, Zero>>} \cup {<<d, d>> : d \in initialSeeds(FunOf(n))}]
      /\ Stale' = starts /\ Driver' = starts
      /\ Incoming' = {} /\ HasNewLeaks' = {} /\ HasNewSummary' = {}
      /\ InRecursion' = (Cardinality(funs) > 1)
      /\ pc' = "run"
      /\ UNCHANGED <<config, summaries, Block>>
  BY DEF startSCC
<1>4. \A n \in starts : n \in Node /\ FunOf(n) \in funs
  BY <1>2, ProgramAssumption
<1> HIDE DEF starts, funs
<1>5. DOMAIN PathEdges' = starts /\ \A n \in starts : PathEdges'[n] \in Env
  <2>1. \A n \in starts : initialSeeds(FunOf(n)) \subseteq Fact /\ Zero \in Fact
    BY <1>2, <1>4, FlowAssumption
  <2> QED
    BY <1>3, <2>1 DEF Env
<1>6. EndSummary' = EndSummary /\ LeakIf' = LeakIf /\ Leaks' = Leaks /\ Block' = {}
  BY <1>1, <1>3 DEF summaries
<1>7. MonoTypes'
  BY <1>1, <1>2, <1>3, <1>4, <1>5, <1>6 DEF MonoTypes
<1>8. InComponent'
  BY <1>2, <1>4, <1>5, <1>6 DEF InComponent, funs
<1>9. AtMostOneBlock' /\ CallsRecorded' /\ FlagsOK'
  BY <1>3, <1>6 DEF AtMostOneBlock, CallsRecorded, FlagsOK
<1> QED
  BY <1>7, <1>8, <1>9 DEF ControlInv

LEMMA BlockControl ==
  ASSUME ControlInv, analyzeBlock
  PROVE  ControlInv'
<1>1. PICK n \in Driver :
        /\ Driver' = Driver \ {n}
        /\ Stale' = Stale \ {n}
        /\ Block' = IF EnableEnvVersioning /\ n \notin Stale THEN {}
                    ELSE {[at |-> n, env |-> PathEdges[n], stale |-> FALSE]}
  BY DEF analyzeBlock
<1>2. /\ pc = "run" /\ UNCHANGED <<config, CurrSCC, summaries, PathEdges, flags, pc>>
  BY DEF analyzeBlock
<1>3. MonoTypes /\ InComponent /\ n \in DOMAIN PathEdges /\ n \in Node /\ PathEdges[n] \in Env
  BY DEF ControlInv, MonoTypes
<1>4. Block' \subseteq {[at |-> n, env |-> PathEdges[n], stale |-> FALSE]}
  BY <1>1
<1>5. [at |-> n, env |-> PathEdges[n], stale |-> FALSE] \in Position
  BY <1>3 DEF Position
<1>6. MonoTypes'
  BY <1>1, <1>2, <1>3, <1>4, <1>5 DEF MonoTypes, summaries, flags
<1>7. AtMostOneBlock' /\ InComponent'
  <2> DEFINE r == [at |-> n, env |-> PathEdges[n], stale |-> FALSE]
  <2>1. r.at = n /\ Block' \subseteq {r}
    BY <1>4
  <2> HIDE DEF r
  <2>2. \A x \in Block' : x = r /\ x.at = n
    BY <2>1
  <2> QED
    BY <1>2, <1>3, <2>2 DEF AtMostOneBlock, InComponent
<1>8. CallsRecorded' /\ FlagsOK'
  BY <1>2 DEF ControlInv, CallsRecorded, FlagsOK, flags, config
<1> QED
  BY <1>6, <1>7, <1>8 DEF ControlInv

LEMMA NormalControl ==
  ASSUME ControlInv, pc = "run", NEW b \in Block, normalStep(b), UNCHANGED <<config, CurrSCC, pc>>
  PROVE  ControlInv'
<1>1. MonoTypes /\ InComponent /\ CallsRecorded /\ FlagsOK /\ b \in Position /\ b.at \in Node
      /\ b.stale \in BOOLEAN /\ FunOf(b.at) \in Fun
  BY ProgramAssumption DEF ControlInv, MonoTypes, Position
<1>2. /\ FoundLeaks(FunOf(b.at), ownLeaks(b))
      /\ continue(b, normalEnv(b), b.stale, PathEdges, Stale, Driver)
      /\ UNCHANGED <<EndSummary, Incoming, HasNewSummary, InRecursion>>
  BY NormalFacts
<1>3. normalEnv(b) \in Env /\ ownLeaks(b) \in SUBSET (Node \X Fact \X Fact)
  BY <1>1, EnvTypes, OwnLeaksType
<1>4. /\ Block' \subseteq Position /\ \A x, y \in Block' : x = y
      /\ DOMAIN PathEdges' \subseteq Node
      /\ \A n \in DOMAIN PathEdges' :
           PathEdges'[n] \in Env /\ FunOf(n) \in NodesInSCC[CurrSCC]
      /\ \A x \in Block' : FunOf(x.at) \in NodesInSCC[CurrSCC]
      /\ Driver' \subseteq DOMAIN PathEdges' /\ Stale' \subseteq DOMAIN PathEdges'
  <2>1. /\ DOMAIN PathEdges \subseteq Node
        /\ \A n \in DOMAIN PathEdges : PathEdges[n] \in Env /\ FunOf(n) \in NodesInSCC[CurrSCC]
        /\ Stale \in SUBSET DOMAIN PathEdges /\ Driver \in SUBSET DOMAIN PathEdges
    BY <1>1 DEF MonoTypes, InComponent
  <2> QED
    BY <1>1, <1>2, <1>3, <2>1, ContinueTypes
<1>5. /\ LeakIf' \in [Fun -> SUBSET (Node \X Fact \X Fact)]
      /\ Leaks' \subseteq Node \X Fact /\ HasNewLeaks' \subseteq Fun
  BY <1>1, <1>2, <1>3, FoundTypes
<1>6. DOMAIN PathEdges \subseteq DOMAIN PathEdges'
  BY <1>1, <1>2, ContinueFacts
<1>7. MonoTypes'
  BY <1>1, <1>2, <1>4, <1>5 DEF MonoTypes
<1>8. AtMostOneBlock' /\ InComponent'
  BY <1>4 DEF AtMostOneBlock, InComponent
<1>9. CallsRecorded' /\ FlagsOK'
  BY <1>1, <1>2, <1>6 DEF CallsRecorded, FlagsOK, config
<1> QED
  BY <1>7, <1>8, <1>9 DEF ControlInv

LEMMA ExitControl ==
  ASSUME ControlInv, pc = "run", NEW b \in Block, exitStep(b), UNCHANGED <<config, CurrSCC, pc>>
  PROVE  ControlInv'
<1> DEFINE f == FunOf(b.at)
<1>1. MonoTypes /\ InComponent /\ CallsRecorded /\ FlagsOK /\ b \in Position /\ b.at \in Node
      /\ f \in Fun
  BY ProgramAssumption DEF ControlInv, MonoTypes, Position
<1>2. /\ FoundLeaks(f, ownLeaks(b))
      /\ EndSummary' = [EndSummary EXCEPT ![f] = @ \cup exitOut(b)]
      /\ IF EagerReturnPropagation THEN HasNewSummary' \subseteq HasNewSummary \ {f}
         ELSE HasNewSummary' \in {HasNewSummary, HasNewSummary \cup {f}}
      /\ ~InRecursion => HasNewSummary' \subseteq HasNewSummary
      /\ Block' = {}
      /\ UNCHANGED <<PathEdges, Incoming, InRecursion>>
  BY ExitFacts
<1>3. PICK C \in {{}, callsOf(f)} : Driver' = Driver \cup C /\ Stale' = Stale \cup C
  BY ExitFacts
<1> HIDE DEF f
<1>4. C \subseteq DOMAIN PathEdges
  BY <1>1 DEF CallsRecorded, callsOf
<1>5. exitOut(b) \in Env /\ ownLeaks(b) \in SUBSET (Node \X Fact \X Fact)
  BY <1>1, EnvTypes, OwnLeaksType
<1>6. /\ LeakIf' \in [Fun -> SUBSET (Node \X Fact \X Fact)]
      /\ Leaks' \subseteq Node \X Fact /\ HasNewLeaks' \subseteq Fun
  BY <1>1, <1>2, <1>5, FoundTypes
<1>7. EndSummary' \in [Fun -> Env]
  <2>1. EndSummary \in [Fun -> Env] /\ EndSummary[f] \cup exitOut(b) \in Env
    BY <1>1, <1>5 DEF MonoTypes, Env
  <2> QED
    BY <1>2, <2>1
<1>8. HasNewSummary' \subseteq Fun
  BY <1>1, <1>2 DEF MonoTypes
<1>9. MonoTypes'
  BY <1>1, <1>2, <1>3, <1>4, <1>6, <1>7, <1>8 DEF MonoTypes
<1>10. AtMostOneBlock' /\ InComponent' /\ CallsRecorded'
  BY <1>1, <1>2 DEF AtMostOneBlock, InComponent, CallsRecorded
<1>11. FlagsOK'
  <2>1. EagerReturnPropagation' = EagerReturnPropagation /\ pc' = "run"
    BY DEF config
  <2>2. EagerReturnPropagation \/ ~InRecursion => HasNewSummary' = {}
    BY <1>1, <1>2 DEF FlagsOK
  <2> QED
    BY <1>1, <1>2, <2>1, <2>2 DEF FlagsOK
<1> QED
  BY <1>9, <1>10, <1>11 DEF ControlInv

\* A call into the component is recorded with its environment.
LEMMA RecordedFacts ==
  ASSUME NEW c, NEW env
  PROVE  LET P == recordedEdges(c, env) IN
         /\ DOMAIN PathEdges \subseteq DOMAIN P /\ DOMAIN P \subseteq DOMAIN PathEdges \cup {c}
         /\ innerCallees(c) # {} => c \in DOMAIN P /\ P[c] = env
         /\ \A n \in DOMAIN P : \/ n = c /\ P[n] = env
                                \/ n \in DOMAIN PathEdges /\ P[n] = PathEdges[n]
         /\ \A n \in DOMAIN PathEdges : n # c => P[n] = PathEdges[n]
BY DEF recordedEdges, Put

LEMMA CallControl ==
  ASSUME ControlInv, pc = "run", NEW b \in Block, callStep(b), UNCHANGED <<config, CurrSCC, pc>>
  PROVE  ControlInv'
<1> DEFINE c == b.at
           env == withGenerated(b)
           P == recordedEdges(c, env)
           X == ownLeaks(b) \cup calleeLeaksAt(c, env)
           out == keptEnv(c, env) \cup collectedEnv(c, env)
<1>1. MonoTypes /\ InComponent /\ CallsRecorded /\ FlagsOK /\ b \in Position /\ c \in Node
      /\ b.stale \in BOOLEAN /\ FunOf(c) \in Fun /\ InRecursion \in BOOLEAN
      /\ FunOf(c) \in NodesInSCC[CurrSCC]
  BY ProgramAssumption DEF ControlInv, MonoTypes, Position, InComponent
<1>2. /\ c \in CallSite
      /\ FoundLeaks(FunOf(c), X)
      /\ Incoming' = Incoming \cup {<<g, c>> : g \in innerCallees(c)}
      /\ InRecursion' = (InRecursion \/ innerCallees(c) # {})
      /\ UNCHANGED <<EndSummary, HasNewSummary>>
  BY <1>1, CallFacts
<1>3. PICK st, S : /\ S \in {Stale, Stale \ {c}}
                   /\ continue(b, out, st, P, S, Driver)
                   /\ st \in BOOLEAN
  BY <1>1, CallFacts
<1>4. env \in Env /\ out \in Env /\ X \in SUBSET (Node \X Fact \X Fact)
  <2>1. keptEnv(c, env) \in Env /\ collectedEnv(c, env) \in Env /\ env \in Env
        /\ calleeLeaksAt(c, env) \subseteq Node \X Fact \X Fact
    BY <1>1, EnvTypes
  <2>2. ownLeaks(b) \subseteq Node \X Fact \X Fact
    BY <1>1, OwnLeaksType
  <2> HIDE DEF env, c
  <2> QED
    BY <2>1, <2>2 DEF Env
<1>5. /\ DOMAIN PathEdges \subseteq DOMAIN P
      /\ innerCallees(c) # {} => c \in DOMAIN P
      /\ DOMAIN P \subseteq Node
      /\ \A n \in DOMAIN P : P[n] \in Env /\ FunOf(n) \in NodesInSCC[CurrSCC]
      /\ S \in SUBSET DOMAIN P /\ Driver \in SUBSET DOMAIN P
  <2>1. /\ DOMAIN PathEdges \subseteq DOMAIN P /\ DOMAIN P \subseteq DOMAIN PathEdges \cup {c}
        /\ innerCallees(c) # {} => c \in DOMAIN P /\ P[c] = env
        /\ \A n \in DOMAIN P : \/ n = c /\ P[n] = env
                               \/ n \in DOMAIN PathEdges /\ P[n] = PathEdges[n]
    BY RecordedFacts
  <2> HIDE DEF P, env, c
  <2> QED
    BY <1>1, <1>3, <1>4, <2>1 DEF MonoTypes, InComponent
<1> HIDE DEF P, env, out, X
<1>6. /\ Block' \subseteq Position /\ \A x, y \in Block' : x = y
      /\ DOMAIN PathEdges' \subseteq Node
      /\ \A n \in DOMAIN PathEdges' :
           PathEdges'[n] \in Env /\ FunOf(n) \in NodesInSCC[CurrSCC]
      /\ \A x \in Block' : FunOf(x.at) \in NodesInSCC[CurrSCC]
      /\ Driver' \subseteq DOMAIN PathEdges' /\ Stale' \subseteq DOMAIN PathEdges'
  <2>1. /\ MonoTypes /\ InComponent /\ out \in Env /\ st \in BOOLEAN
        /\ DOMAIN P \subseteq Node
        /\ \A n \in DOMAIN P : P[n] \in Env /\ FunOf(n) \in NodesInSCC[CurrSCC]
        /\ S \in SUBSET DOMAIN P /\ Driver \in SUBSET DOMAIN P
        /\ continue(b, out, st, P, S, Driver)
    BY <1>1, <1>3, <1>4, <1>5
  <2> QED
    BY ONLY <2>1, b \in Block, ContinueTypes
<1>7. DOMAIN P \subseteq DOMAIN PathEdges'
  BY <1>1, <1>3, ContinueFacts
<1>8. /\ LeakIf' \in [Fun -> SUBSET (Node \X Fact \X Fact)]
      /\ Leaks' \subseteq Node \X Fact /\ HasNewLeaks' \subseteq Fun
  BY <1>1, <1>2, <1>4, FoundTypes
<1>9. \A g \in innerCallees(c) : g \in Fun /\ g \in CalleesOf(c) /\ SCCOfNode(g) = CurrSCC
  BY <1>1, ProgramAssumption DEF innerCallees
<1>10. MonoTypes'
  BY <1>1, <1>2, <1>6, <1>8, <1>9 DEF MonoTypes
<1>11. AtMostOneBlock' /\ InComponent'
  BY <1>6 DEF AtMostOneBlock, InComponent
<1>12. CallsRecorded'
  <2> SUFFICES ASSUME NEW x \in Incoming'
               PROVE  /\ x[2] \in DOMAIN PathEdges' /\ x[1] \in CalleesOf(x[2])
                      /\ SCCOfNode(x[1]) = CurrSCC
    BY DEF CallsRecorded
  <2>1. CASE x \in Incoming
    BY <1>1, <1>5, <1>7, <2>1 DEF CallsRecorded
  <2>2. CASE x \notin Incoming
    <3>1. PICK g \in innerCallees(c) : x = <<g, c>>
      BY <1>2, <2>2
    <3>2. x[1] = g /\ x[2] = c
      BY <3>1
    <3> QED
      BY <1>5, <1>7, <1>9, <3>1, <3>2
  <2> QED
    BY <2>1, <2>2
<1>13. FlagsOK'
  <2>1. EagerReturnPropagation' = EagerReturnPropagation /\ pc' = "run"
    BY DEF config
  <2>2. Incoming' # {} => InRecursion'
    BY <1>1, <1>2 DEF FlagsOK
  <2> QED
    BY <1>1, <1>2, <2>1, <2>2 DEF FlagsOK
<1> QED
  BY <1>10, <1>11, <1>12, <1>13 DEF ControlInv

LEMMA RescheduleControl ==
  ASSUME ControlInv, rescheduleCalls
  PROVE  ControlInv'
<1> DEFINE calls == UNION {callsOf(f) : f \in HasNewSummary}
<1>1. MonoTypes /\ AtMostOneBlock /\ InComponent /\ CallsRecorded /\ FlagsOK
  BY DEF ControlInv
<1>2. /\ pc = "run" /\ Block = {} /\ Driver = {}
      /\ IF EagerReturnPropagation \/ ~InRecursion \/ calls = {}
         THEN pc' = "leaks" /\ UNCHANGED <<Driver, Stale>>
         ELSE pc' = pc /\ Driver' = calls /\ Stale' = Stale \cup calls
      /\ IF EagerReturnPropagation \/ ~InRecursion
         THEN UNCHANGED <<HasNewLeaks, HasNewSummary>>
         ELSE HasNewLeaks' = HasNewLeaks \ HasNewSummary /\ HasNewSummary' = {}
      /\ UNCHANGED <<config, CurrSCC, summaries, PathEdges, Incoming, InRecursion, Block>>
  BY DEF rescheduleCalls
<1>3. calls \subseteq DOMAIN PathEdges
  BY <1>1 DEF CallsRecorded, callsOf
<1> HIDE DEF calls
<1>4. MonoTypes'
  <2>1. Driver' \subseteq DOMAIN PathEdges /\ Stale' \subseteq DOMAIN PathEdges
        /\ pc' \in {"run", "leaks"}
    BY <1>1, <1>2, <1>3 DEF MonoTypes
  <2>2. HasNewLeaks' \subseteq Fun /\ HasNewSummary' \subseteq Fun
    BY <1>1, <1>2 DEF MonoTypes
  <2> QED
    BY <1>1, <1>2, <2>1, <2>2 DEF MonoTypes, summaries
<1>5. AtMostOneBlock' /\ InComponent' /\ CallsRecorded'
  BY <1>1, <1>2 DEF AtMostOneBlock, InComponent, CallsRecorded
<1>6. FlagsOK'
  <2>1. EagerReturnPropagation' = EagerReturnPropagation /\ InRecursion' = InRecursion
        /\ Incoming' = Incoming /\ Block' = {}
    BY <1>2 DEF config
  <2>2. HasNewSummary' = {}
    BY <1>1, <1>2 DEF FlagsOK
  <2>3. pc' # "run" => Driver' = {}
    BY <1>2
  <2>4. pc' \notin {"next", "done"}
    BY <1>2
  <2> QED
    BY <1>1, <2>1, <2>2, <2>3, <2>4 DEF FlagsOK
<1> QED
  BY <1>4, <1>5, <1>6 DEF ControlInv

\* The leaks that are handed to the callers.
LEMMA CallerLeaksType ==
  ASSUME MonoTypes, NEW f \in Fun, NEW g
  PROVE  leaksForCallers(f, g) \in SUBSET (Node \X Fact \X Fact)
<1>1. LeakIf[f] \in SUBSET (Node \X Fact \X Fact)
  BY DEF MonoTypes
<1>2. \A c : (IF c \in DOMAIN PathEdges THEN PathEdges[c] ELSE {}) \in Env
  BY DEF MonoTypes, Env
<1>3. \A c : mappedLeaks(c, IF c \in DOMAIN PathEdges THEN PathEdges[c] ELSE {}, LeakIf[f])
               \subseteq Node \X Fact \X Fact
  BY <1>1, <1>2, MappedType
<1> QED
  BY <1>3 DEF leaksForCallers

\* One function's leaks, handed to its callers.
LEMMA HandleFacts ==
  ASSUME MonoTypes, NEW f \in Fun, handleLeaksForFun(f)
  PROVE  /\ LeakIf' \in [Fun -> SUBSET (Node \X Fact \X Fact)]
         /\ \A g \in Fun : LeakIf[g] \subseteq LeakIf'[g]
         /\ \A g \in Fun : InRecursion /\ LeakIf'[g] # LeakIf[g] => g \in HasNewLeaks'
         /\ Leaks \subseteq Leaks' /\ Leaks' \subseteq Node \X Fact
         /\ HasNewLeaks \ {f} \subseteq HasNewLeaks' /\ HasNewLeaks' \subseteq Fun
         /\ \A g \in NodesInSCC[CurrSCC] \cap Fun :
              /\ notFromZero(leaksForCallers(f, g)) \subseteq LeakIf'[g]
              /\ reportsOf(leaksForCallers(f, g)) \subseteq Leaks'
<1> DEFINE callers == {g \in NodesInSCC[CurrSCC] : leaksForCallers(f, g) # {}}
<1>1. /\ LeakIf' = [g \in Fun |-> IF g \in callers
                                  THEN LeakIf[g] \cup notFromZero(leaksForCallers(f, g))
                                  ELSE LeakIf[g]]
      /\ Leaks' = Leaks \cup UNION {reportsOf(leaksForCallers(f, g)) : g \in callers}
      /\ HasNewLeaks' = (HasNewLeaks \ {f}) \cup
           {g \in callers : isNewLeak(g, leaksForCallers(f, g), InRecursion)}
  BY DEF handleLeaksForFun
<1>2. \A g : /\ reportsOf(leaksForCallers(f, g)) \subseteq Node \X Fact
             /\ notFromZero(leaksForCallers(f, g)) \subseteq Node \X Fact \X Fact
  BY CallerLeaksType, ReportsType
<1>3. callers \subseteq Fun
  <2>1. CASE NodesInSCC[CurrSCC] \subseteq Fun
    BY <2>1
  <2>2. CASE CurrSCC = 0
    <3>1. \A g \in callers : g \in Fun
      <4> SUFFICES ASSUME NEW g \in callers PROVE g \in Fun
        OBVIOUS
      <4>1. PICK c \in CallSite : FunOf(c) = g
        BY DEF leaksForCallers
      <4> QED
        BY <4>1, ProgramAssumption
    <3> QED
      BY <3>1
  <2> QED
    BY <2>1, <2>2, CallGraphAssumption DEF MonoTypes
<1>4. \A g : g \notin callers /\ g \in NodesInSCC[CurrSCC] =>
         notFromZero(leaksForCallers(f, g)) = {} /\ reportsOf(leaksForCallers(f, g)) = {}
  BY DEF notFromZero, reportsOf
<1> HIDE DEF callers
<1>5. LeakIf \in [Fun -> SUBSET (Node \X Fact \X Fact)] /\ Leaks \subseteq Node \X Fact
      /\ HasNewLeaks \subseteq Fun
  BY DEF MonoTypes
<1>6. LeakIf' \in [Fun -> SUBSET (Node \X Fact \X Fact)]
  BY <1>1, <1>2, <1>5
<1>7. \A g \in Fun : LeakIf'[g] = IF g \in callers
                                  THEN LeakIf[g] \cup notFromZero(leaksForCallers(f, g))
                                  ELSE LeakIf[g]
  BY <1>1
<1>8. \A g \in Fun : InRecursion /\ LeakIf'[g] # LeakIf[g] => g \in HasNewLeaks'
  BY <1>1, <1>7 DEF isNewLeak
<1>9. Leaks \subseteq Leaks' /\ Leaks' \subseteq Node \X Fact
  BY <1>1, <1>2, <1>5
<1>10. HasNewLeaks \ {f} \subseteq HasNewLeaks' /\ HasNewLeaks' \subseteq Fun
  BY <1>1, <1>3, <1>5
<1>11. \A g \in NodesInSCC[CurrSCC] \cap Fun :
         /\ notFromZero(leaksForCallers(f, g)) \subseteq LeakIf'[g]
         /\ reportsOf(leaksForCallers(f, g)) \subseteq Leaks'
  BY <1>1, <1>4, <1>7
<1> QED
  BY <1>6, <1>7, <1>8, <1>9, <1>10, <1>11

LEMMA RepropagateControl ==
  ASSUME ControlInv, repropagateLeaks
  PROVE  ControlInv'
<1>1. MonoTypes /\ AtMostOneBlock /\ InComponent /\ CallsRecorded /\ FlagsOK /\ pc = "leaks"
      /\ Driver = {} /\ Block = {} /\ HasNewSummary = {}
  BY DEF ControlInv, FlagsOK, repropagateLeaks
<1>2. UNCHANGED <<config, CurrSCC, EndSummary, PathEdges, Stale, Incoming,
                  HasNewSummary, InRecursion, Driver, Block>>
  BY DEF repropagateLeaks
<1>3. CASE HasNewLeaks = {}
  <2>1. pc' = "next" /\ UNCHANGED <<LeakIf, Leaks, HasNewLeaks>>
    BY <1>3 DEF repropagateLeaks
  <2>2. MonoTypes'
    BY <1>1, <1>2, <2>1 DEF MonoTypes
  <2>3. AtMostOneBlock' /\ InComponent' /\ CallsRecorded' /\ FlagsOK'
    BY <1>1, <1>2, <1>3, <2>1 DEF AtMostOneBlock, InComponent, CallsRecorded, FlagsOK, config
  <2> QED
    BY <2>2, <2>3 DEF ControlInv
<1>4. CASE HasNewLeaks # {}
  <2>1. PICK f \in HasNewLeaks : handleLeaksForFun(f)
    BY <1>4 DEF repropagateLeaks
  <2>2. pc' = pc /\ f \in Fun
    BY <1>1, <1>4 DEF repropagateLeaks, MonoTypes
  <2>3. /\ LeakIf' \in [Fun -> SUBSET (Node \X Fact \X Fact)]
        /\ Leaks' \subseteq Node \X Fact /\ HasNewLeaks' \subseteq Fun
    BY <1>1, <2>1, <2>2, HandleFacts
  <2>4. MonoTypes'
    BY <1>1, <1>2, <2>2, <2>3 DEF MonoTypes
  <2>5. AtMostOneBlock' /\ InComponent' /\ CallsRecorded' /\ FlagsOK'
    BY <1>1, <1>2, <2>2 DEF AtMostOneBlock, InComponent, CallsRecorded, FlagsOK, config
  <2> QED
    BY <2>4, <2>5 DEF ControlInv
<1> QED
  BY <1>3, <1>4

\* All actions.
LEMMA ControlStep ==
  ASSUME ControlInv, [Next]_vars
  PROVE  ControlInv'
<1>1. CASE analyzeInstruction
  <2>1. PICK b \in Block : normalStep(b) \/ exitStep(b) \/ callStep(b)
    BY <1>1 DEF analyzeInstruction
  <2>2. pc = "run" /\ UNCHANGED <<config, CurrSCC, pc>>
    BY <1>1 DEF analyzeInstruction
  <2> QED
    BY <2>1, <2>2, NormalControl, ExitControl, CallControl
<1>2. CASE finish \/ UNCHANGED vars
  <2>1. /\ UNCHANGED <<CurrSCC, EndSummary, LeakIf, Leaks, PathEdges, Stale, Incoming,
                       HasNewLeaks, HasNewSummary, InRecursion, Driver, Block,
                       EagerReturnPropagation>>
        /\ pc' = pc \/ (pc = "next" /\ pc' = "done")
    BY <1>2 DEF finish, vars, config, summaries, flags
  <2>2. MonoTypes'
    BY <2>1 DEF ControlInv, MonoTypes
  <2>3. AtMostOneBlock' /\ InComponent' /\ CallsRecorded' /\ FlagsOK'
    BY <2>1 DEF ControlInv, AtMostOneBlock, InComponent, CallsRecorded, FlagsOK
  <2> QED
    BY <2>2, <2>3 DEF ControlInv
<1> QED
  BY <1>1, <1>2, StartControl, BlockControl, RescheduleControl, RepropagateControl DEF Next

LEMMA ControlInvariant == Spec => []ControlInv
<1>1. ControlInv /\ [Next]_vars => ControlInv'
  BY ControlStep
<1> QED
  BY <1>1, InitControl, PTL DEF Spec

\* The types: environments relate facts to source facts, only nodes with an
\* environment are scheduled, and one block is analysed at a time.
THEOREM MonoTypeCorrect == Spec => []TypeOK
<1>1. ASSUME ControlInv PROVE TypeOK
  <2>1. Cardinality(Block) <= 1
    <3>1. CASE Block = {}
      BY <3>1, FS_EmptySet
    <3>2. CASE Block # {}
      <4>1. PICK b \in Block : Block = {b}
        BY <1>1, <3>2 DEF ControlInv, AtMostOneBlock
      <4> QED
        BY <4>1, FS_Singleton
    <3> QED
      BY <3>1, <3>2
  <2> QED
    BY <1>1, <2>1 DEF ControlInv, MonoTypes, TypeOK
<1> QED
  BY <1>1, ControlInvariant, PTL

-----------------------------------------------------------------------------
(***************************************************************************)
(* No leak is lost.                                                        *)
(***************************************************************************)
\* The caller of g at c knows the leaks of g.
TakenOver(c, g) ==
  LET mapped == mappedLeaks(c, PathEdges[c], LeakIf[g])
  IN /\ notFromZero(mapped) \subseteq LeakIf[FunOf(c)]
     /\ reportsOf(mapped) \subseteq Leaks

Exempt(c, g) == g = FunOf(c) \/ hasSummaryFlow(c, g)

\* The call is scheduled, and versioning will not skip it.
WillBeAnalyzed(c) == c \in Driver /\ (EnableEnvVersioning => c \in Stale)

Told(c, g) == \/ Exempt(c, g)
              \/ g \in HasNewLeaks \cup HasNewSummary
              \/ WillBeAnalyzed(c)
              \/ \E b \in Block : b.at = c
              \/ TakenOver(c, g)

LeakInv == \A x \in Incoming : Told(x[2], x[1])

\* What a caller has taken over stays so while the callee and the call do.
LEMMA StaysTakenOver ==
  ASSUME NEW c, NEW g, TakenOver(c, g), LeakIf'[g] = LeakIf[g], PathEdges'[c] = PathEdges[c],
         LeakIf[FunOf(c)] \subseteq LeakIf'[FunOf(c)], Leaks \subseteq Leaks'
  PROVE  TakenOver(c, g)'
BY DEF TakenOver

\* A leak that is found in f is noticed by every other caller of f.
LEMMA FoundTold ==
  ASSUME MonoTypes, InRecursion, NEW f \in Fun, NEW X \in SUBSET (Node \X Fact \X Fact),
         FoundLeaks(f, X), NEW c \in CallSite, NEW g \in Fun, TakenOver(c, g),
         PathEdges'[c] = PathEdges[c]
  PROVE  g \in HasNewLeaks' \/ TakenOver(c, g)'
<1>1. /\ LeakIf'[f] = LeakIf[f] \cup notFromZero(X)
      /\ \A h \in Fun : h # f => LeakIf'[h] = LeakIf[h]
  BY FoundTypes
<1>2. Leaks \subseteq Leaks'
  BY DEF FoundLeaks
<1>3. FunOf(c) \in Fun
  BY ProgramAssumption
<1>4. LeakIf[FunOf(c)] \subseteq LeakIf'[FunOf(c)]
  BY <1>1, <1>3
<1>5. CASE LeakIf'[g] = LeakIf[g]
  BY <1>2, <1>4, <1>5, StaysTakenOver
<1>6. CASE LeakIf'[g] # LeakIf[g]
  <2>1. g = f /\ ~(notFromZero(X) \subseteq LeakIf[f])
    BY <1>1, <1>6
  <2> QED
    BY <2>1 DEF FoundLeaks
<1> QED
  BY <1>5, <1>6

\* A recorded call.
LEMMA IncomingFacts ==
  ASSUME ControlInv, NEW x \in Incoming
  PROVE  /\ x[1] \in Fun /\ x[2] \in CallSite /\ x[2] \in DOMAIN PathEdges /\ x[2] \in Node
         /\ x[1] \in CalleesOf(x[2]) /\ SCCOfNode(x[1]) = CurrSCC
         /\ FunOf(x[2]) \in Fun /\ FunOf(x[2]) \in NodesInSCC[CurrSCC]
         /\ InRecursion /\ x = <<x[1], x[2]>>
<1>1. x[1] \in Fun /\ x[2] \in CallSite /\ x = <<x[1], x[2]>>
  BY DEF ControlInv, MonoTypes
<1>2. x[2] \in Node /\ FunOf(x[2]) \in Fun
  BY <1>1, ProgramAssumption
<1> QED
  BY <1>1, <1>2 DEF ControlInv, CallsRecorded, InComponent, FlagsOK

LEMMA NormalLeaks ==
  ASSUME ControlInv, LeakInv, NEW b \in Block, normalStep(b), UNCHANGED <<config, CurrSCC, pc>>
  PROVE  LeakInv'
<1>1. MonoTypes /\ b \in Position /\ b.at \in Node /\ FunOf(b.at) \in Fun
  BY ProgramAssumption DEF ControlInv, MonoTypes, Position
<1>2. /\ b.at \notin CallSite
      /\ FoundLeaks(FunOf(b.at), ownLeaks(b))
      /\ continue(b, normalEnv(b), b.stale, PathEdges, Stale, Driver)
      /\ UNCHANGED <<EndSummary, Incoming, HasNewSummary, InRecursion>>
  BY NormalFacts
<1>3. ownLeaks(b) \in SUBSET (Node \X Fact \X Fact)
  BY <1>1, OwnLeaksType
<1>4. /\ \A n \in DOMAIN PathEdges : PathEdges'[n] = PathEdges[n] \/ n \in Driver' \cap Stale'
      /\ Driver \subseteq Driver' /\ Stale \subseteq Stale'
  BY <1>1, <1>2, ContinueFacts
<1>5. HasNewLeaks \subseteq HasNewLeaks' /\ EnableEnvVersioning' = EnableEnvVersioning
  BY <1>1, <1>2, <1>3, FoundTypes DEF config
<1> SUFFICES ASSUME NEW x \in Incoming PROVE Told(x[2], x[1])'
  BY <1>2 DEF LeakInv
<1> DEFINE g == x[1]
           c == x[2]
<1>6. Told(c, g)
  BY DEF LeakInv
<1>7. g \in Fun /\ c \in CallSite /\ c \in DOMAIN PathEdges /\ InRecursion
  BY IncomingFacts
<1> HIDE DEF g, c
<1>8. CASE Exempt(c, g)
  BY <1>8 DEF Told, Exempt, g, c
<1>9. CASE g \in HasNewLeaks \cup HasNewSummary \/ WillBeAnalyzed(c)
  BY <1>2, <1>4, <1>5, <1>9 DEF Told, WillBeAnalyzed, g, c
<1>10. CASE \E a \in Block : a.at = c
  <2>1. b.at = c
    BY <1>10 DEF ControlInv, AtMostOneBlock
  <2> QED
    BY <1>2, <1>7, <2>1
<1>11. CASE TakenOver(c, g)
  <2>1. CASE PathEdges'[c] = PathEdges[c]
    <3>1. g \in HasNewLeaks' \/ TakenOver(c, g)'
      BY <1>1, <1>2, <1>3, <1>7, <1>11, <2>1, FoundTold
    <3> QED
      BY <3>1 DEF Told, g, c
  <2>2. CASE c \in Driver' \cap Stale'
    BY <2>2 DEF Told, WillBeAnalyzed, g, c
  <2> QED
    BY <1>4, <1>7, <2>1, <2>2
<1> QED
  BY <1>6, <1>8, <1>9, <1>10, <1>11 DEF Told

LEMMA ExitLeaks ==
  ASSUME ControlInv, LeakInv, NEW b \in Block, exitStep(b), UNCHANGED <<config, CurrSCC, pc>>
  PROVE  LeakInv'
<1>1. MonoTypes /\ b \in Position /\ b.at \in Node /\ FunOf(b.at) \in Fun
  BY ProgramAssumption DEF ControlInv, MonoTypes, Position
<1>2. /\ b.at \in ExitInst /\ FoundLeaks(FunOf(b.at), ownLeaks(b))
      /\ IF EagerReturnPropagation THEN HasNewSummary' \subseteq HasNewSummary \ {FunOf(b.at)}
         ELSE HasNewSummary' \in {HasNewSummary, HasNewSummary \cup {FunOf(b.at)}}
      /\ \E C \in {{}, callsOf(FunOf(b.at))} : Driver' = Driver \cup C /\ Stale' = Stale \cup C
      /\ UNCHANGED <<PathEdges, Incoming, InRecursion>>
  BY ExitFacts
<1>3. ownLeaks(b) \in SUBSET (Node \X Fact \X Fact)
  BY <1>1, OwnLeaksType
<1>4. Driver \subseteq Driver' /\ Stale \subseteq Stale'
  BY <1>2
<1>5. /\ HasNewLeaks \subseteq HasNewLeaks' /\ EnableEnvVersioning' = EnableEnvVersioning
      /\ HasNewSummary \subseteq HasNewSummary'
  BY <1>1, <1>2, <1>3, FoundTypes DEF config, ControlInv, FlagsOK
<1> SUFFICES ASSUME NEW x \in Incoming PROVE Told(x[2], x[1])'
  BY <1>2 DEF LeakInv
<1> DEFINE g == x[1]
           c == x[2]
<1>6. Told(c, g)
  BY DEF LeakInv
<1>7. g \in Fun /\ c \in CallSite /\ c \in DOMAIN PathEdges /\ InRecursion
  BY IncomingFacts
<1> HIDE DEF g, c
<1>8. CASE Exempt(c, g)
  BY <1>8 DEF Told, Exempt, g, c
<1>9. CASE g \in HasNewLeaks \cup HasNewSummary \/ WillBeAnalyzed(c)
  BY <1>4, <1>5, <1>9 DEF Told, WillBeAnalyzed, g, c
<1>10. CASE \E a \in Block : a.at = c
  <2>1. b.at = c
    BY <1>10 DEF ControlInv, AtMostOneBlock
  <2> QED
    BY <1>2, <1>7, <2>1, ProgramAssumption
<1>11. CASE TakenOver(c, g)
  <2>1. PathEdges'[c] = PathEdges[c]
    BY <1>2
  <2>2. g \in HasNewLeaks' \/ TakenOver(c, g)'
    BY <1>1, <1>2, <1>3, <1>7, <1>11, <2>1, FoundTold
  <2> QED
    BY <2>2 DEF Told, g, c
<1> QED
  BY <1>6, <1>8, <1>9, <1>10, <1>11 DEF Told

\* The leaks of a union are the union of the leaks.
LEMMA LeaksOfPart ==
  ASSUME NEW X, NEW Y, X \subseteq Y
  PROVE  notFromZero(X) \subseteq notFromZero(Y) /\ reportsOf(X) \subseteq reportsOf(Y)
BY DEF notFromZero, reportsOf

LEMMA CallLeaks ==
  ASSUME ControlInv, LeakInv, NEW b \in Block, callStep(b), UNCHANGED <<config, CurrSCC, pc>>
  PROVE  LeakInv'
<1> DEFINE c0 == b.at
           env == withGenerated(b)
           P == recordedEdges(c0, env)
           X == ownLeaks(b) \cup calleeLeaksAt(c0, env)
           out == keptEnv(c0, env) \cup collectedEnv(c0, env)
<1>1. MonoTypes /\ b \in Position /\ c0 \in Node /\ FunOf(c0) \in Fun /\ InRecursion \in BOOLEAN
  BY ProgramAssumption DEF ControlInv, MonoTypes, Position
<1>2. /\ c0 \in CallSite
      /\ FoundLeaks(FunOf(c0), X)
      /\ Incoming' = Incoming \cup {<<g, c0>> : g \in innerCallees(c0)}
      /\ UNCHANGED <<EndSummary, HasNewSummary>>
  BY <1>1, CallFacts
<1>3. PICK st, S : /\ S \in {Stale, Stale \ {c0}}
                   /\ continue(b, out, st, P, S, Driver)
  BY <1>1, CallFacts
<1>4. X \in SUBSET (Node \X Fact \X Fact)
  BY <1>1, EnvTypes, OwnLeaksType
<1>5. /\ \A g \in appliedCallees(c0) \ {FunOf(c0)} : mappedLeaks(c0, env, LeakIf[g]) \subseteq X
  BY DEF calleeLeaksAt
<1>6. /\ DOMAIN PathEdges \subseteq DOMAIN P
      /\ innerCallees(c0) # {} => c0 \in DOMAIN P /\ P[c0] = env
      /\ \A n \in DOMAIN PathEdges : n # c0 => P[n] = PathEdges[n]
  BY RecordedFacts
<1> HIDE DEF P, env, out, X, c0
<1>7. /\ \A n \in DOMAIN P : PathEdges'[n] = P[n] \/ n \in Driver' \cap Stale'
      /\ Driver \subseteq Driver' /\ Stale \ {c0} \subseteq Stale'
  <2>1. continue(b, out, st, P, S, Driver) /\ b \in Position
    BY <1>1, <1>3
  <2>2. /\ \A n \in DOMAIN P : PathEdges'[n] = P[n] \/ n \in Driver' \cap Stale'
        /\ Driver \subseteq Driver' /\ S \subseteq Stale'
    BY ONLY <2>1, ContinueFacts
  <2> QED
    BY <1>3, <2>2
<1>8. /\ HasNewLeaks \subseteq HasNewLeaks' /\ EnableEnvVersioning' = EnableEnvVersioning
      /\ LeakIf'[FunOf(c0)] = LeakIf[FunOf(c0)] \cup notFromZero(X)
      /\ \A h \in Fun : h # FunOf(c0) => LeakIf'[h] = LeakIf[h]
  BY <1>1, <1>2, <1>4, FoundTypes DEF config
<1>9. Leaks' = Leaks \cup reportsOf(X)
  BY <1>2 DEF FoundLeaks
<1>10. ASSUME NEW g \in innerCallees(c0)
       PROVE  Told(c0, g)'
  <2>1. g \in Fun /\ g \in CalleesOf(c0)
    BY <1>1, ProgramAssumption DEF innerCallees
  <2>2. CASE Exempt(c0, g)
    BY <2>2 DEF Told, Exempt
  <2>3. CASE ~Exempt(c0, g) /\ c0 \in Driver' \cap Stale'
    BY <2>3 DEF Told, WillBeAnalyzed
  <2>4. CASE ~Exempt(c0, g) /\ PathEdges'[c0] = P[c0]
    <3>1. g \in appliedCallees(c0) \ {FunOf(c0)}
      BY <2>1, <2>4 DEF Exempt, appliedCallees
    <3>2. PathEdges'[c0] = env /\ LeakIf'[g] = LeakIf[g]
      BY <1>6, <1>8, <2>1, <2>4 DEF Exempt
    <3>3. mappedLeaks(c0, PathEdges'[c0], LeakIf'[g]) \subseteq X
      BY <1>5, <3>1, <3>2
    <3>4. TakenOver(c0, g)'
      BY <1>8, <1>9, <3>3, LeaksOfPart DEF TakenOver
    <3> QED
      BY <3>4 DEF Told
  <2> QED
    BY <1>6, <1>7, <2>2, <2>3, <2>4
<1> SUFFICES ASSUME NEW x \in Incoming' PROVE Told(x[2], x[1])'
  BY DEF LeakInv
<1>11. CASE x \notin Incoming
  <2>1. PICK g \in innerCallees(c0) : x = <<g, c0>>
    BY <1>2, <1>11
  <2>2. x[1] = g /\ x[2] = c0
    BY <2>1
  <2> QED
    BY <1>10, <2>2
<1>12. CASE x \in Incoming /\ x[2] = c0
  <2>1. x[1] \in innerCallees(c0)
    BY <1>12, IncomingFacts DEF innerCallees
  <2> QED
    BY <1>10, <1>12, <2>1
<1>13. CASE x \in Incoming /\ x[2] # c0
  <2> DEFINE g == x[1]
             c == x[2]
  <2>1. Told(c, g)
    BY <1>13 DEF LeakInv
  <2>2. g \in Fun /\ c \in CallSite /\ c \in DOMAIN PathEdges /\ InRecursion /\ c # c0
    BY <1>13, IncomingFacts
  <2> HIDE DEF g, c
  <2>3. CASE Exempt(c, g)
    BY <2>3 DEF Told, Exempt, g, c
  <2>4. CASE g \in HasNewLeaks \cup HasNewSummary \/ WillBeAnalyzed(c)
    BY <1>2, <1>7, <1>8, <2>2, <2>4 DEF Told, WillBeAnalyzed, g, c
  <2>5. CASE \E a \in Block : a.at = c
    <3>1. b.at = c
      BY <2>5 DEF ControlInv, AtMostOneBlock
    <3> QED
      BY <2>2, <3>1 DEF c0
  <2>6. CASE TakenOver(c, g)
    <3>1. CASE PathEdges'[c] = PathEdges[c]
      <4>1. g \in HasNewLeaks' \/ TakenOver(c, g)'
        BY <1>1, <1>2, <1>4, <2>2, <2>6, <3>1, FoundTold
      <4> QED
        BY <4>1 DEF Told, g, c
    <3>2. CASE c \in Driver' \cap Stale'
      BY <3>2 DEF Told, WillBeAnalyzed, g, c
    <3> QED
      BY <1>6, <1>7, <2>2, <3>1, <3>2
  <2> QED
    BY <2>1, <2>3, <2>4, <2>5, <2>6 DEF Told
<1> QED
  BY <1>11, <1>12, <1>13

LEMMA BlockLeaks ==
  ASSUME ControlInv, LeakInv, analyzeBlock
  PROVE  LeakInv'
<1>1. PICK n \in Driver :
        /\ Driver' = Driver \ {n}
        /\ Stale' = Stale \ {n}
        /\ Block' = IF EnableEnvVersioning /\ n \notin Stale THEN {}
                    ELSE {[at |-> n, env |-> PathEdges[n], stale |-> FALSE]}
  BY DEF analyzeBlock
<1>2. /\ Block = {} /\ UNCHANGED <<LeakIf, Leaks, PathEdges, Incoming, HasNewLeaks, HasNewSummary,
                                   EnableEnvVersioning>>
  BY DEF analyzeBlock, summaries, flags, config
<1> SUFFICES ASSUME NEW x \in Incoming PROVE Told(x[2], x[1])'
  BY <1>2 DEF LeakInv
<1>3. Told(x[2], x[1])
  BY DEF LeakInv
<1>4. CASE WillBeAnalyzed(x[2]) /\ x[2] = n
  <2>1. Block' = {[at |-> n, env |-> PathEdges[n], stale |-> FALSE]}
    BY <1>1, <1>4 DEF WillBeAnalyzed
  <2>2. \E a \in Block' : a.at = x[2]
    BY <1>4, <2>1
  <2> QED
    BY <2>2 DEF Told
<1>5. CASE WillBeAnalyzed(x[2]) /\ x[2] # n
  BY <1>1, <1>2, <1>5 DEF WillBeAnalyzed, Told
<1>6. CASE ~WillBeAnalyzed(x[2])
  BY <1>2, <1>3, <1>6 DEF Told, TakenOver, Exempt
<1> QED
  BY <1>4, <1>5, <1>6

LEMMA RescheduleLeaks ==
  ASSUME ControlInv, LeakInv, rescheduleCalls
  PROVE  LeakInv'
<1> DEFINE calls == UNION {callsOf(f) : f \in HasNewSummary}
<1>1. /\ Block = {} /\ Driver = {}
      /\ IF EagerReturnPropagation \/ ~InRecursion \/ calls = {}
         THEN pc' = "leaks" /\ UNCHANGED <<Driver, Stale>>
         ELSE pc' = pc /\ Driver' = calls /\ Stale' = Stale \cup calls
      /\ IF EagerReturnPropagation \/ ~InRecursion
         THEN UNCHANGED <<HasNewLeaks, HasNewSummary>>
         ELSE HasNewLeaks' = HasNewLeaks \ HasNewSummary /\ HasNewSummary' = {}
      /\ UNCHANGED <<config, summaries, PathEdges, Incoming>>
  BY DEF rescheduleCalls
<1>2. UNCHANGED <<LeakIf, Leaks, PathEdges, Incoming>>
  BY <1>1 DEF summaries
<1> SUFFICES ASSUME NEW x \in Incoming PROVE Told(x[2], x[1])'
  BY <1>2 DEF LeakInv
<1>3. Told(x[2], x[1]) /\ ~WillBeAnalyzed(x[2]) /\ ~\E b \in Block : b.at = x[2]
  BY <1>1 DEF LeakInv, WillBeAnalyzed
<1>4. CASE x[1] \in HasNewSummary
  <2>1. InRecursion /\ ~EagerReturnPropagation
    BY <1>4, IncomingFacts DEF ControlInv, FlagsOK
  <2>2. x[2] \in calls
    BY <1>4 DEF callsOf
  <2>3. x[2] \in Driver' \cap Stale'
    BY <1>1, <2>1, <2>2
  <2> QED
    BY <2>3 DEF Told, WillBeAnalyzed
<1>5. CASE x[1] \in HasNewLeaks \ HasNewSummary
  <2>1. x[1] \in HasNewLeaks'
    BY <1>1, <1>5
  <2> QED
    BY <2>1 DEF Told
<1>6. CASE Exempt(x[2], x[1]) \/ TakenOver(x[2], x[1])
  BY <1>2, <1>6 DEF Told, TakenOver, Exempt
<1> QED
  BY <1>3, <1>4, <1>5, <1>6 DEF Told

LEMMA RepropagateTold ==
  ASSUME ControlInv, LeakInv, repropagateLeaks
  PROVE  LeakInv'
<1>1. /\ MonoTypes /\ Driver = {} /\ Block = {} /\ HasNewSummary = {}
  BY DEF ControlInv, FlagsOK, repropagateLeaks
<1>2. UNCHANGED <<PathEdges, Stale, Incoming, Driver, Block, HasNewSummary>>
  BY DEF repropagateLeaks
<1> SUFFICES ASSUME NEW x \in Incoming PROVE Told(x[2], x[1])'
  BY <1>2 DEF LeakInv
<1> DEFINE g == x[1]
           c == x[2]
<1>3. \/ Exempt(c, g) \/ g \in HasNewLeaks \/ TakenOver(c, g)
  BY <1>1 DEF LeakInv, Told, WillBeAnalyzed
<1>4. /\ g \in Fun /\ c \in CallSite /\ c \in DOMAIN PathEdges /\ g \in CalleesOf(c)
      /\ FunOf(c) \in Fun \cap NodesInSCC[CurrSCC] /\ InRecursion
  BY IncomingFacts
<1> HIDE DEF g, c
<1>5. CASE Exempt(c, g)
  BY <1>5 DEF Told, Exempt, g, c
<1>6. CASE HasNewLeaks = {} /\ ~Exempt(c, g)
  <2>1. UNCHANGED <<LeakIf, Leaks>> /\ TakenOver(c, g)
    BY <1>3, <1>6 DEF repropagateLeaks
  <2> QED
    BY <1>2, <2>1 DEF Told, TakenOver, g, c
<1>7. CASE HasNewLeaks # {} /\ ~Exempt(c, g)
  <2>1. PICK f \in HasNewLeaks : handleLeaksForFun(f)
    BY <1>7 DEF repropagateLeaks
  <2>2. f \in Fun
    BY <1>1 DEF MonoTypes
  <2>3. /\ \A h \in Fun : LeakIf[h] \subseteq LeakIf'[h]
        /\ \A h \in Fun : InRecursion /\ LeakIf'[h] # LeakIf[h] => h \in HasNewLeaks'
        /\ Leaks \subseteq Leaks'
        /\ HasNewLeaks \ {f} \subseteq HasNewLeaks'
        /\ \A h \in NodesInSCC[CurrSCC] \cap Fun :
              /\ notFromZero(leaksForCallers(f, h)) \subseteq LeakIf'[h]
              /\ reportsOf(leaksForCallers(f, h)) \subseteq Leaks'
    BY <1>1, <2>1, <2>2, HandleFacts
  <2>4. CASE g \in HasNewLeaks'
    BY <2>4 DEF Told, g, c
  <2>5. CASE g \notin HasNewLeaks' /\ g = f
    <3>1. LeakIf'[g] = LeakIf[g]
      BY <1>4, <2>3, <2>5
    <3>2. mappedLeaks(c, PathEdges[c], LeakIf[g]) \subseteq leaksForCallers(f, FunOf(c))
      <4> DEFINE M(a) == mappedLeaks(a, IF a \in DOMAIN PathEdges THEN PathEdges[a] ELSE {},
                                     LeakIf[f])
                 A == {a \in CallSite : f \in CalleesOf(a) /\ FunOf(a) = FunOf(c)}
      <4>1. leaksForCallers(f, FunOf(c)) = UNION {M(a) : a \in A}
        BY DEF leaksForCallers
      <4>2. c \in A /\ M(c) = mappedLeaks(c, PathEdges[c], LeakIf[g])
        BY <1>4, <2>5
      <4> HIDE DEF M, A
      <4> QED
        BY <4>1, <4>2
    <3>3. TakenOver(c, g)'
      <4> DEFINE mapped == mappedLeaks(c, PathEdges[c], LeakIf[g])
      <4>1. mapped = mappedLeaks(c, PathEdges'[c], LeakIf'[g])
        BY <1>2, <3>1
      <4>2. mapped \subseteq leaksForCallers(f, FunOf(c))
        BY <3>2
      <4> HIDE DEF mapped
      <4>3. /\ notFromZero(mapped) \subseteq LeakIf'[FunOf(c)]
            /\ reportsOf(mapped) \subseteq Leaks'
        BY <1>4, <2>3, <4>2, LeaksOfPart
      <4> QED
        BY <4>1, <4>3 DEF TakenOver
    <3> QED
      BY <3>3 DEF Told, g, c
  <2>6. CASE g \notin HasNewLeaks' /\ g # f
    <3>1. TakenOver(c, g) /\ LeakIf'[g] = LeakIf[g]
      BY <1>3, <1>4, <1>7, <2>3, <2>6
    <3>2. TakenOver(c, g)'
      BY <1>2, <1>4, <2>3, <3>1, StaysTakenOver
    <3> QED
      BY <3>2 DEF Told, g, c
  <2> QED
    BY <2>4, <2>5, <2>6
<1> QED
  BY <1>5, <1>6, <1>7

LEMMA LeakStep ==
  ASSUME ControlInv, LeakInv, [Next]_vars
  PROVE  LeakInv'
<1>1. CASE startSCC
  <2>1. Incoming' = {}
    BY <1>1 DEF startSCC
  <2> QED
    BY <2>1 DEF LeakInv
<1>2. CASE analyzeInstruction
  <2>1. PICK b \in Block : normalStep(b) \/ exitStep(b) \/ callStep(b)
    BY <1>2 DEF analyzeInstruction
  <2>2. UNCHANGED <<config, CurrSCC, pc>>
    BY <1>2 DEF analyzeInstruction
  <2> QED
    BY <2>1, <2>2, NormalLeaks, ExitLeaks, CallLeaks
<1>3. CASE finish \/ UNCHANGED vars
  <2>1. UNCHANGED <<LeakIf, Leaks, PathEdges, Stale, Incoming, HasNewLeaks, HasNewSummary,
                    Driver, Block, EnableEnvVersioning>>
    BY <1>3 DEF finish, vars, config, summaries, flags
  <2> QED
    BY <2>1 DEF LeakInv, Told, Exempt, TakenOver, WillBeAnalyzed
<1> QED
  BY <1>1, <1>2, <1>3, BlockLeaks, RescheduleLeaks, RepropagateTold DEF Next

LEMMA LeakInvariant == Spec => [](ControlInv /\ LeakInv)
<1>1. Init => ControlInv /\ LeakInv
  BY InitControl DEF Init, LeakInv
<1>2. ControlInv /\ LeakInv /\ [Next]_vars => (ControlInv /\ LeakInv)'
  BY ControlStep, LeakStep
<1> QED
  BY <1>1, <1>2, PTL DEF Spec

\* In every state, a sink that a callee reaches is known to each recorded
\* recursive call of it, or something is left that will tell the caller
\* (applySummary, rescheduleCalls, repropagateLeaks, versioning).
THEOREM NoLeakIsLost == Spec => []NoLostLeak
<1>1. ControlInv /\ LeakInv => NoLostLeak
  BY DEF LeakInv, Told, Exempt, WillBeAnalyzed, TakenOver, NoLostLeak
<1> QED
  BY <1>1, LeakInvariant, PTL

\* When a component is finished, nothing is left to tell: the leaks of every
\* recursive callee, mapped through the call, are leaks of the caller.
LeaksHandedOn ==
  pc \in {"next", "done"} =>
    \A x \in Incoming : Exempt(x[2], x[1]) \/ TakenOver(x[2], x[1])

\* repropagateLeaks ends only when every caller in the component has taken
\* over the leaks that its recursive callees reach.
THEOREM FinishedLeaksAreHandedOn == Spec => []LeaksHandedOn
<1>1. ASSUME ControlInv, LeakInv, pc \in {"next", "done"}, NEW x \in Incoming
      PROVE  Exempt(x[2], x[1]) \/ TakenOver(x[2], x[1])
  <2>1. Told(x[2], x[1])
    BY <1>1 DEF LeakInv
  <2>2. Driver = {} /\ Block = {} /\ HasNewSummary = {} /\ HasNewLeaks = {}
    BY <1>1 DEF ControlInv, FlagsOK
  <2> QED
    BY <2>1, <2>2 DEF Told, WillBeAnalyzed
<1>2. ControlInv /\ LeakInv => LeaksHandedOn
  BY <1>1 DEF LeaksHandedOn
<1> QED
  BY <1>2, LeakInvariant, PTL

-----------------------------------------------------------------------------
(***************************************************************************)
(* No leak is invented: the tables stay below every solution of the        *)
(* equations.                                                              *)
(***************************************************************************)
Solution(N, R, L) ==
  /\ Reaches(N) \subseteq N /\ Flows(N, R) \subseteq R /\ Sinks(N, R, L) \subseteq L

Reported(L) == UNION {reportsOf(LeaksIn(L, f)) : f \in Fun}

\* The results, and the environments they are computed from.
ResultsBelow(N, R, L) ==
  /\ \A f \in Fun : EndSummary[f] \subseteq ExitEnv(N, R, f)
  /\ \A f \in Fun : LeakIf[f] \subseteq notFromZero(LeaksIn(L, f))
  /\ Leaks \subseteq Reported(L)

EnvsBelow(N, R) ==
  /\ \A n \in DOMAIN PathEdges : n \in N /\ PathEdges[n] \subseteq GenEnv(R, n)
  /\ \A b \in Block : b.at \in N /\ b.env \subseteq GenEnv(R, b.at)

\* The equations, part by part.
LEMMA EquationParts ==
  ASSUME NEW N, NEW R, NEW L, Solution(N, R, L)
  PROVE  /\ \A n \in Starts : seedTriples(n) \subseteq R
         /\ \A n \in N : flowTriples(N, R, n) \subseteq R
         /\ \A n \in N : sinkTuples(R, n) \subseteq L
         /\ \A n \in CallSite \cap N : \A g \in CalleesOf(n) : callTuples(R, L, n, g) \subseteq L
<1> DEFINE A == UNION {seedTriples(n) : n \in Starts}
           B == UNION {flowTriples(N, R, n) : n \in N}
           C == UNION {sinkTuples(R, n) : n \in N}
           D(n) == UNION {callTuples(R, L, n, g) : g \in CalleesOf(n)}
           E == UNION {D(n) : n \in CallSite \cap N}
<1>1. Flows(N, R) = A \cup B
  BY DEF Flows
<1>2. Sinks(N, R, L) = C \cup E
  BY DEF Sinks
<1>3. (\A n \in Starts : seedTriples(n) \subseteq A) /\ (\A n \in N : flowTriples(N, R, n) \subseteq B)
  OBVIOUS
<1>4. \A n \in N : sinkTuples(R, n) \subseteq C
  OBVIOUS
<1>5. \A n \in CallSite \cap N : \A g \in CalleesOf(n) : callTuples(R, L, n, g) \subseteq E
  <2>1. \A n : \A g \in CalleesOf(n) : callTuples(R, L, n, g) \subseteq D(n)
    OBVIOUS
  <2> HIDE DEF D
  <2>2. \A n \in CallSite \cap N : D(n) \subseteq E
    OBVIOUS
  <2> QED
    BY <2>1, <2>2
<1> HIDE DEF A, B, C, E
<1>6. A \subseteq R /\ B \subseteq R /\ C \subseteq L /\ E \subseteq L
  BY <1>1, <1>2 DEF Solution
<1> QED
  BY <1>3, <1>4, <1>5, <1>6

\* What a solution contains.
LEMMA SolutionStarts ==
  ASSUME NEW N, NEW R, NEW L, Solution(N, R, L), NEW f \in Fun, NEW n \in StartPoints(f)
  PROVE  /\ n \in N /\ <<Zero, Zero>> \in InEnv(R, n)
         /\ \A d \in initialSeeds(FunOf(n)) : <<d, d>> \in InEnv(R, n)
<1>1. n \in Starts
  BY DEF Starts
<1>2. n \in N
  BY <1>1 DEF Solution, Reaches
<1>3. <<n, Zero, Zero>> \in R /\ \A d \in initialSeeds(FunOf(n)) : <<n, d, d>> \in R
  BY <1>1, EquationParts DEF seedTriples
<1>4. \A d, s : <<n, d, s>> \in R => <<d, s>> \in InEnv(R, n)
  <2> SUFFICES ASSUME NEW d, NEW s, <<n, d, s>> \in R PROVE <<d, s>> \in InEnv(R, n)
    OBVIOUS
  <2> DEFINE r == <<n, d, s>>
  <2>1. r[1] = n /\ r[2] = d /\ r[3] = s /\ r \in R
    OBVIOUS
  <2> HIDE DEF r
  <2>2. <<r[2], r[3]>> \in InEnv(R, n)
    BY <2>1 DEF InEnv
  <2> QED
    BY <2>1, <2>2
<1> QED
  BY <1>2, <1>3, <1>4

LEMMA SolutionFlows ==
  ASSUME NEW N, NEW R, NEW L, Solution(N, R, L), NEW n \in N, NEW m \in SuccsOf(n),
         NEW E \in Env, E \subseteq OutEnv(N, R, n)
  PROVE  m \in N /\ E \subseteq InEnv(R, m)
<1>1. m \in N
  BY DEF Solution, Reaches
<1>2. ASSUME NEW x \in E PROVE x \in InEnv(R, m)
  <2> DEFINE r == <<m, x[1], x[2]>>
  <2>1. r \in flowTriples(N, R, n)
    BY DEF flowTriples
  <2>3. r[1] = m /\ r[2] = x[1] /\ r[3] = x[2]
    OBVIOUS
  <2> HIDE DEF r
  <2>4. r \in R
    BY <2>1, EquationParts
  <2>5. <<r[2], r[3]>> \in InEnv(R, m)
    BY <2>3, <2>4 DEF InEnv
  <2>6. x = <<x[1], x[2]>>
    BY DEF Env
  <2> QED
    BY <2>3, <2>5, <2>6
<1> QED
  BY <1>1, <1>2

\* Tuples of L, as leaks of a function.
LEMMA LeakOf ==
  ASSUME NEW L, NEW f, NEW a, NEW d, NEW s, <<f, a, d, s>> \in L
  PROVE  <<a, d, s>> \in LeaksIn(L, f)
<1> DEFINE l == <<f, a, d, s>>
<1>1. l[1] = f /\ l[2] = a /\ l[3] = d /\ l[4] = s /\ l \in L
  OBVIOUS
<1> HIDE DEF l
<1>2. <<l[2], l[3], l[4]>> \in LeaksIn(L, f)
  BY <1>1 DEF LeaksIn
<1> QED
  BY <1>1, <1>2

LEMMA SolutionSinks ==
  ASSUME NEW N, NEW R, NEW L, Solution(N, R, L), NEW n \in N, NEW x \in InEnv(R, n),
         x[1] \in sinks(n)
  PROVE  <<n, x[1], x[2]>> \in LeaksIn(L, FunOf(n))
<1>1. <<FunOf(n), n, x[1], x[2]>> \in sinkTuples(R, n)
  BY DEF sinkTuples
<1>2. <<FunOf(n), n, x[1], x[2]>> \in L
  BY <1>1, EquationParts
<1> QED
  BY <1>2, LeakOf

LEMMA SolutionCalls ==
  ASSUME NEW N, NEW R, NEW L, Solution(N, R, L), NEW n \in CallSite \cap N, NEW g \in CalleesOf(n)
  PROVE  mappedLeaks(n, GenEnv(R, n), notFromZero(LeaksIn(L, g))) \subseteq LeaksIn(L, FunOf(n))
<1> DEFINE M == mappedLeaks(n, GenEnv(R, n), notFromZero(LeaksIn(L, g)))
<1>1. ASSUME NEW l \in M PROVE l \in LeaksIn(L, FunOf(n))
  <2>1. l = <<l[1], l[2], l[3]>>
    BY DEF mappedLeaks
  <2>2. <<FunOf(n), l[1], l[2], l[3]>> \in callTuples(R, L, n, g)
    BY DEF callTuples
  <2>3. <<FunOf(n), l[1], l[2], l[3]>> \in L
    BY <2>2, EquationParts
  <2> QED
    BY <2>1, <2>3, LeakOf
<1> QED
  BY <1>1

\* Larger environments and more leaks give more.
LEMMA SourcesMonotone ==
  ASSUME NEW c, NEW e1, NEW e2, e1 \subseteq e2, NEW s
  PROVE  getSourceFactsFor(c, e1, s) \subseteq getSourceFactsFor(c, e2, s)
BY DEF getSourceFactsFor, sourcesOf

LEMMA MappedMonotone ==
  ASSUME NEW c, NEW e1, NEW e2, e1 \subseteq e2, NEW L1, NEW L2, L1 \subseteq L2
  PROVE  mappedLeaks(c, e1, L1) \subseteq mappedLeaks(c, e2, L2)
<1> SUFFICES ASSUME NEW x \in mappedLeaks(c, e1, L1) PROVE x \in mappedLeaks(c, e2, L2)
  OBVIOUS
<1>1. PICK l \in L1 : x \in {<<l[1], l[2], s>> : s \in getSourceFactsFor(c, e1, l[3])}
  BY DEF mappedLeaks
<1>2. x \in {<<l[1], l[2], s>> : s \in getSourceFactsFor(c, e2, l[3])}
  BY <1>1, SourcesMonotone
<1> QED
  BY <1>2 DEF mappedLeaks

\* What a node passes on or leaks stays below.
LEMMA GeneratedBelow ==
  ASSUME NEW R, NEW b, b.env \subseteq GenEnv(R, b.at)
  PROVE  withGenerated(b) \subseteq GenEnv(R, b.at)
BY DEF withGenerated, GenEnv

LEMMA OwnLeaksBelow ==
  ASSUME NEW N, NEW R, NEW L, Solution(N, R, L), NEW b \in Position, b.at \in N,
         b.env \subseteq GenEnv(R, b.at)
  PROVE  ownLeaks(b) \subseteq LeaksIn(L, FunOf(b.at))
<1> SUFFICES ASSUME NEW l \in ownLeaks(b) PROVE l \in LeaksIn(L, FunOf(b.at))
  OBVIOUS
<1>1. PICK d \in sinks(b.at) : l \in {<<b.at, d, s>> : s \in sourcesOf(b.env, {d})}
  BY DEF ownLeaks
<1>2. PICK s \in sourcesOf(b.env, {d}) : l = <<b.at, d, s>>
  BY <1>1
<1>3. PICK x \in b.env : x[1] = d /\ x[2] = s
  BY DEF sourcesOf
<1>4. b.at \in Node
  BY DEF Position
<1>5. x[1] \notin generated(b.at)
  BY <1>3, <1>4, SinkAssumption
<1>6. x \in InEnv(R, b.at)
  BY <1>5 DEF GenEnv
<1> QED
  BY <1>2, <1>3, <1>6, SolutionSinks

LEMMA NormalBelow ==
  ASSUME NEW N, NEW R, NEW b, b.at \notin CallSite, b.env \subseteq GenEnv(R, b.at)
  PROVE  normalEnv(b) \subseteq OutEnv(N, R, b.at)
<1> DEFINE F(x) == normalFlow(b.at, x[1]) \X {x[2]}
<1>1. withGenerated(b) \subseteq GenEnv(R, b.at)
  BY GeneratedBelow
<1>2. normalEnv(b) = UNION {F(x) : x \in withGenerated(b)}
  BY DEF normalEnv
<1>3. OutEnv(N, R, b.at) = UNION {F(x) : x \in GenEnv(R, b.at)}
  BY DEF OutEnv
<1> HIDE DEF F
<1> QED
  BY <1>1, <1>2, <1>3

LEMMA ExitBelow ==
  ASSUME NEW N, NEW R, NEW b, b.at \in ExitInst \cap N, b.env \subseteq GenEnv(R, b.at)
  PROVE  exitOut(b) \subseteq ExitEnv(N, R, FunOf(b.at))
<1> DEFINE F(n) == {x \in GenEnv(R, n) : shouldBeInSummary(x[1], n)}
           A == {y \in ExitInst \cap N : FunOf(y) = FunOf(b.at)}
<1>1. exitOut(b) \subseteq F(b.at)
  BY GeneratedBelow DEF exitOut
<1>2. ExitEnv(N, R, FunOf(b.at)) = UNION {F(n) : n \in A}
  BY DEF ExitEnv
<1>3. b.at \in A
  OBVIOUS
<1> HIDE DEF F, A
<1> QED
  BY <1>1, <1>2, <1>3

\* A summary that is below, applied at a call.
LEMMA AppliedBelow ==
  ASSUME NEW N, NEW R, NEW c, NEW env, env \subseteq GenEnv(R, c), NEW g,
         EndSummary[g] \subseteq ExitEnv(N, R, g), ~hasSummaryFlow(c, g)
  PROVE  appliedSummary(c, env, g) \subseteq ThroughCallee(N, R, c, g)
<1> DEFINE F(x) == returnFlow(c, x[1]) \X getSourceFactsFor(c, env, x[2])
           G(x) == returnFlow(c, x[1]) \X getSourceFactsFor(c, GenEnv(R, c), x[2])
<1>1. \A x : F(x) \subseteq G(x)
  <2>1. \A x : getSourceFactsFor(c, env, x[2]) \subseteq getSourceFactsFor(c, GenEnv(R, c), x[2])
    BY SourcesMonotone
  <2> QED
    BY <2>1
<1>2. appliedSummary(c, env, g) = UNION {F(x) : x \in EndSummary[g]}
  BY DEF appliedSummary
<1>3. ThroughCallee(N, R, c, g) = UNION {G(x) : x \in ExitEnv(N, R, g)}
  BY DEF ThroughCallee
<1> HIDE DEF F, G
<1> QED
  BY <1>1, <1>2, <1>3

LEMMA CallBelow ==
  ASSUME NEW N, NEW R, NEW c \in CallSite, NEW env, env \subseteq GenEnv(R, c),
         \A g \in CalleesOf(c) : EndSummary[g] \subseteq ExitEnv(N, R, g)
  PROVE  keptEnv(c, env) \cup collectedEnv(c, env) \subseteq OutEnv(N, R, c)
<1>1. keptEnv(c, env) \subseteq CallToRet(R, c)
  <2> DEFINE F(x) == callToRetFlow(c, x[1]) \X {x[2]}
             skip == CalleesOf(c) = {} \/ \E g \in appliedCallees(c) : StartPoints(g) = {}
  <2>1. keptEnv(c, env) = IF skip THEN env ELSE UNION {F(x) : x \in env}
    BY DEF keptEnv
  <2>2. skip <=> \/ CalleesOf(c) = {}
                 \/ \E g \in CalleesOf(c) : ~hasSummaryFlow(c, g) /\ StartPoints(g) = {}
    BY DEF appliedCallees
  <2>3. CallToRet(R, c) = IF \/ CalleesOf(c) = {}
                             \/ \E g \in CalleesOf(c) : ~hasSummaryFlow(c, g) /\ StartPoints(g) = {}
                          THEN GenEnv(R, c) ELSE UNION {F(x) : x \in GenEnv(R, c)}
    BY DEF CallToRet
  <2>4. CallToRet(R, c) = IF skip THEN GenEnv(R, c) ELSE UNION {F(x) : x \in GenEnv(R, c)}
    BY <2>2, <2>3
  <2> HIDE DEF F, skip
  <2> QED
    BY <2>1, <2>4
<1>2. ASSUME NEW g \in CalleesOf(c), hasSummaryFlow(c, g)
      PROVE  throughSummary(c, env, g) \subseteq ThroughCallee(N, R, c, g)
  <2> DEFINE F(x) == summaryFlow(c, g, x[1]) \X {x[2]}
  <2>1. throughSummary(c, env, g) = UNION {F(x) : x \in env}
    BY DEF throughSummary
  <2>2. ThroughCallee(N, R, c, g) = UNION {F(x) : x \in GenEnv(R, c)}
    BY <1>2 DEF ThroughCallee
  <2> HIDE DEF F
  <2> QED
    BY <2>1, <2>2
<1>3. ASSUME NEW g \in appliedCallees(c)
      PROVE  g \in CalleesOf(c) /\ appliedSummary(c, env, g) \subseteq ThroughCallee(N, R, c, g)
  BY AppliedBelow DEF appliedCallees
<1>4. collectedEnv(c, env) \subseteq UNION {ThroughCallee(N, R, c, g) : g \in CalleesOf(c)}
  <2> SUFFICES ASSUME NEW x \in collectedEnv(c, env)
               PROVE  \E g \in CalleesOf(c) : x \in ThroughCallee(N, R, c, g)
    OBVIOUS
  <2>1. \/ \E g \in CalleesOf(c) : hasSummaryFlow(c, g) /\ x \in throughSummary(c, env, g)
        \/ \E g \in appliedCallees(c) : x \in appliedSummary(c, env, g)
    BY DEF collectedEnv
  <2> QED
    BY <1>2, <1>3, <2>1
<1>5. OutEnv(N, R, c) = CallToRet(R, c) \cup UNION {ThroughCallee(N, R, c, g) : g \in CalleesOf(c)}
  BY DEF OutEnv
<1> QED
  BY <1>1, <1>4, <1>5

\* Leaks of callees that are below, seen from a call.
LEMMA CalleeLeaksBelow ==
  ASSUME NEW N, NEW R, NEW L, Solution(N, R, L), NEW c \in CallSite \cap N, NEW env,
         env \subseteq GenEnv(R, c), NEW g \in CalleesOf(c),
         LeakIf[g] \subseteq notFromZero(LeaksIn(L, g))
  PROVE  mappedLeaks(c, env, LeakIf[g]) \subseteq LeaksIn(L, FunOf(c))
<1>1. mappedLeaks(c, env, LeakIf[g])
        \subseteq mappedLeaks(c, GenEnv(R, c), notFromZero(LeaksIn(L, g)))
  BY MappedMonotone
<1>2. mappedLeaks(c, GenEnv(R, c), notFromZero(LeaksIn(L, g))) \subseteq LeaksIn(L, FunOf(c))
  BY SolutionCalls
<1> QED
  BY <1>1, <1>2

\* Found leaks that are below.
LEMMA FoundBelow ==
  ASSUME MonoTypes, NEW L, NEW f \in Fun, NEW X \in SUBSET (Node \X Fact \X Fact),
         FoundLeaks(f, X), X \subseteq LeaksIn(L, f),
         \A g \in Fun : LeakIf[g] \subseteq notFromZero(LeaksIn(L, g)), Leaks \subseteq Reported(L)
  PROVE  /\ \A g \in Fun : LeakIf'[g] \subseteq notFromZero(LeaksIn(L, g))
         /\ Leaks' \subseteq Reported(L)
<1>1. /\ LeakIf'[f] = LeakIf[f] \cup notFromZero(X)
      /\ \A h \in Fun : h # f => LeakIf'[h] = LeakIf[h]
  BY FoundTypes
<1>2. Leaks' = Leaks \cup reportsOf(X)
  BY DEF FoundLeaks
<1>3. notFromZero(X) \subseteq notFromZero(LeaksIn(L, f)) /\ reportsOf(X) \subseteq reportsOf(LeaksIn(L, f))
  BY LeaksOfPart
<1>4. reportsOf(LeaksIn(L, f)) \subseteq Reported(L)
  BY DEF Reported
<1> QED
  BY <1>1, <1>2, <1>3, <1>4

\* Environments that are below are passed on.
LEMMA ContinueBelow ==
  ASSUME NEW N, NEW R, NEW L, Solution(N, R, L), NEW b \in Position, b.at \in N,
         NEW env \in Env, env \subseteq OutEnv(N, R, b.at), NEW st, NEW P, NEW S, NEW D,
         \A n \in DOMAIN P : n \in N /\ P[n] \subseteq GenEnv(R, n),
         continue(b, env, st, P, S, D)
  PROVE  EnvsBelow(N, R)'
<1>1. \A m \in SuccsOf(b.at) : m \in N /\ env \subseteq GenEnv(R, m)
  <2>1. \A m \in SuccsOf(b.at) : m \in N /\ env \subseteq InEnv(R, m)
    BY SolutionFlows
  <2> QED
    BY <2>1 DEF GenEnv
<1>2. /\ \A x \in Block' : \E m \in SuccsOf(b.at) : x = [at |-> m, env |-> env, stale |-> st]
      /\ \A n \in DOMAIN PathEdges' :
           \/ n \in DOMAIN P /\ PathEdges'[n] = P[n]
           \/ /\ n \in SuccsOf(b.at)
              /\ PathEdges'[n] = env \cup (IF n \in DOMAIN P THEN P[n] ELSE {})
  BY ContinueFacts
<1>3. ASSUME NEW n \in DOMAIN PathEdges' PROVE n \in N /\ PathEdges'[n] \subseteq GenEnv(R, n)
  BY <1>1, <1>2
<1>4. ASSUME NEW x \in Block' PROVE x.at \in N /\ x.env \subseteq GenEnv(R, x.at)
  <2>1. PICK m \in SuccsOf(b.at) : x = [at |-> m, env |-> env, stale |-> st]
    BY <1>2
  <2>2. x.at = m /\ x.env = env
    BY <2>1
  <2> QED
    BY <1>1, <2>2
<1> QED
  BY <1>3, <1>4 DEF EnvsBelow

Below(N, R, L) == ResultsBelow(N, R, L) /\ EnvsBelow(N, R)

LEMMA StartBelow ==
  ASSUME ControlInv, NEW N, NEW R, NEW L, Solution(N, R, L), Below(N, R, L), startSCC
  PROVE  Below(N, R, L)'
<1> DEFINE funs == NodesInSCC[CurrSCC + 1]
           starts == UNION {StartPoints(f) : f \in funs}
<1>1. /\ PathEdges' = [n \in starts |->
            {<<Zero, Zero>>} \cup {<<d, d>> : d \in initialSeeds(FunOf(n))}]
      /\ UNCHANGED <<EndSummary, LeakIf, Leaks>> /\ Block' = {}
  BY DEF startSCC, summaries, ControlInv, FlagsOK
<1>2. funs \in SUBSET Fun
  BY CallGraphAssumption DEF startSCC, ControlInv, MonoTypes
<1>3. ASSUME NEW n \in starts PROVE n \in N /\ PathEdges'[n] \subseteq GenEnv(R, n)
  <2>1. PICK f \in Fun : n \in StartPoints(f)
    BY <1>2
  <2>2. /\ n \in N /\ <<Zero, Zero>> \in InEnv(R, n)
        /\ \A d \in initialSeeds(FunOf(n)) : <<d, d>> \in InEnv(R, n)
    BY <2>1, SolutionStarts
  <2> HIDE DEF starts
  <2>3. PathEdges'[n] = {<<Zero, Zero>>} \cup {<<d, d>> : d \in initialSeeds(FunOf(n))}
    BY <1>1
  <2> QED
    BY <2>2, <2>3 DEF GenEnv
<1> HIDE DEF starts
<1>4. EnvsBelow(N, R)'
  BY <1>1, <1>3 DEF EnvsBelow
<1> QED
  BY <1>1, <1>4 DEF Below, ResultsBelow

LEMMA BlockBelow ==
  ASSUME ControlInv, NEW N, NEW R, NEW L, Below(N, R, L), analyzeBlock
  PROVE  Below(N, R, L)'
<1>1. PICK n \in Driver :
        Block' = IF EnableEnvVersioning /\ n \notin Stale THEN {}
                 ELSE {[at |-> n, env |-> PathEdges[n], stale |-> FALSE]}
  BY DEF analyzeBlock
<1>2. UNCHANGED <<EndSummary, LeakIf, Leaks, PathEdges>>
  BY DEF analyzeBlock, summaries
<1>3. n \in DOMAIN PathEdges
  BY DEF ControlInv, MonoTypes
<1>4. ASSUME NEW x \in Block' PROVE x.at \in N /\ x.env \subseteq GenEnv(R, x.at)
  <2>1. x = [at |-> n, env |-> PathEdges[n], stale |-> FALSE]
    BY <1>1
  <2>2. x.at = n /\ x.env = PathEdges[n]
    BY <2>1
  <2> QED
    BY <1>3, <2>2 DEF Below, EnvsBelow
<1>5. EnvsBelow(N, R)'
  BY <1>2, <1>4 DEF Below, EnvsBelow
<1> QED
  BY <1>2, <1>5 DEF Below, ResultsBelow

LEMMA NormalStepBelow ==
  ASSUME ControlInv, NEW N, NEW R, NEW L, Solution(N, R, L), Below(N, R, L),
         NEW b \in Block, normalStep(b)
  PROVE  Below(N, R, L)'
<1>1. MonoTypes /\ b \in Position /\ b.at \in Node /\ FunOf(b.at) \in Fun
  BY ProgramAssumption DEF ControlInv, MonoTypes, Position
<1>2. b.at \in N /\ b.env \subseteq GenEnv(R, b.at)
  BY DEF Below, EnvsBelow
<1>3. /\ b.at \notin CallSite
      /\ FoundLeaks(FunOf(b.at), ownLeaks(b))
      /\ continue(b, normalEnv(b), b.stale, PathEdges, Stale, Driver)
      /\ EndSummary' = EndSummary
  BY NormalFacts
<1>4. normalEnv(b) \in Env /\ ownLeaks(b) \in SUBSET (Node \X Fact \X Fact)
  BY <1>1, EnvTypes, OwnLeaksType
<1>5. ownLeaks(b) \subseteq LeaksIn(L, FunOf(b.at)) /\ normalEnv(b) \subseteq OutEnv(N, R, b.at)
  BY <1>1, <1>2, <1>3, OwnLeaksBelow, NormalBelow
<1>6. /\ \A g \in Fun : LeakIf'[g] \subseteq notFromZero(LeaksIn(L, g))
      /\ Leaks' \subseteq Reported(L)
  BY <1>1, <1>3, <1>4, <1>5, FoundBelow DEF Below, ResultsBelow
<1>7. EnvsBelow(N, R)'
  <2>1. \A n \in DOMAIN PathEdges : n \in N /\ PathEdges[n] \subseteq GenEnv(R, n)
    BY DEF Below, EnvsBelow
  <2> QED
    BY <1>1, <1>2, <1>3, <1>4, <1>5, <2>1, ContinueBelow
<1> QED
  BY <1>3, <1>6, <1>7 DEF Below, ResultsBelow

LEMMA ExitStepBelow ==
  ASSUME ControlInv, NEW N, NEW R, NEW L, Solution(N, R, L), Below(N, R, L),
         NEW b \in Block, exitStep(b)
  PROVE  Below(N, R, L)'
<1> DEFINE f == FunOf(b.at)
<1>1. MonoTypes /\ b \in Position /\ b.at \in Node /\ f \in Fun
  BY ProgramAssumption DEF ControlInv, MonoTypes, Position
<1>2. b.at \in N /\ b.env \subseteq GenEnv(R, b.at)
  BY DEF Below, EnvsBelow
<1>3. /\ b.at \in ExitInst
      /\ FoundLeaks(f, ownLeaks(b))
      /\ EndSummary' = [EndSummary EXCEPT ![f] = @ \cup exitOut(b)]
      /\ Block' = {} /\ PathEdges' = PathEdges
  BY ExitFacts
<1>4. ownLeaks(b) \in SUBSET (Node \X Fact \X Fact)
  BY <1>1, OwnLeaksType
<1>5. ownLeaks(b) \subseteq LeaksIn(L, f) /\ exitOut(b) \subseteq ExitEnv(N, R, f)
  BY <1>1, <1>2, <1>3, OwnLeaksBelow, ExitBelow
<1> HIDE DEF f
<1>6. /\ \A g \in Fun : LeakIf'[g] \subseteq notFromZero(LeaksIn(L, g))
      /\ Leaks' \subseteq Reported(L)
  BY <1>1, <1>3, <1>4, <1>5, FoundBelow DEF Below, ResultsBelow
<1>7. \A g \in Fun : EndSummary'[g] \subseteq ExitEnv(N, R, g)
  <2>1. \A g \in Fun : EndSummary'[g] = IF g = f THEN EndSummary[f] \cup exitOut(b) ELSE EndSummary[g]
    BY <1>1, <1>3 DEF MonoTypes
  <2>2. \A g \in Fun : EndSummary[g] \subseteq ExitEnv(N, R, g)
    BY DEF Below, ResultsBelow
  <2> QED
    BY <1>1, <1>5, <2>1, <2>2
<1>8. EnvsBelow(N, R)'
  BY <1>3 DEF Below, EnvsBelow
<1> QED
  BY <1>6, <1>7, <1>8 DEF Below, ResultsBelow

LEMMA CallStepBelow ==
  ASSUME ControlInv, NEW N, NEW R, NEW L, Solution(N, R, L), Below(N, R, L),
         NEW b \in Block, callStep(b)
  PROVE  Below(N, R, L)'
<1> DEFINE c == b.at
           env == withGenerated(b)
           P == recordedEdges(c, env)
           X == ownLeaks(b) \cup calleeLeaksAt(c, env)
           out == keptEnv(c, env) \cup collectedEnv(c, env)
<1>1. MonoTypes /\ b \in Position /\ c \in Node /\ FunOf(c) \in Fun /\ InRecursion \in BOOLEAN
  BY ProgramAssumption DEF ControlInv, MonoTypes, Position
<1>2. c \in N /\ b.env \subseteq GenEnv(R, c) /\ env \subseteq GenEnv(R, c)
  BY GeneratedBelow DEF Below, EnvsBelow
<1>3. c \in CallSite /\ FoundLeaks(FunOf(c), X) /\ EndSummary' = EndSummary
  BY <1>1, CallFacts
<1>4. PICK st, S : continue(b, out, st, P, S, Driver)
  BY <1>1, CallFacts
<1>5. out \in Env /\ X \in SUBSET (Node \X Fact \X Fact)
  <2>1. keptEnv(c, env) \in Env /\ collectedEnv(c, env) \in Env
        /\ calleeLeaksAt(c, env) \subseteq Node \X Fact \X Fact
    BY <1>1, EnvTypes
  <2>2. ownLeaks(b) \subseteq Node \X Fact \X Fact
    BY <1>1, OwnLeaksType
  <2> HIDE DEF env, c
  <2> QED
    BY <2>1, <2>2 DEF Env
<1>6. \A g \in CalleesOf(c) : /\ g \in Fun
                              /\ EndSummary[g] \subseteq ExitEnv(N, R, g)
                              /\ LeakIf[g] \subseteq notFromZero(LeaksIn(L, g))
  BY <1>1, ProgramAssumption DEF Below, ResultsBelow
<1>7. out \subseteq OutEnv(N, R, c)
  BY <1>2, <1>3, <1>6, CallBelow
<1>8. X \subseteq LeaksIn(L, FunOf(c))
  <2>1. ownLeaks(b) \subseteq LeaksIn(L, FunOf(c))
    BY <1>1, <1>2, OwnLeaksBelow
  <2>2. ASSUME NEW g \in CalleesOf(c)
        PROVE  mappedLeaks(c, env, LeakIf[g]) \subseteq LeaksIn(L, FunOf(c))
    BY <1>2, <1>3, <1>6, CalleeLeaksBelow
  <2> HIDE DEF env
  <2>3. calleeLeaksAt(c, env) \subseteq LeaksIn(L, FunOf(c))
    BY <2>2 DEF calleeLeaksAt, appliedCallees
  <2> QED
    BY <2>1, <2>3
<1>9. \A n \in DOMAIN P : n \in N /\ P[n] \subseteq GenEnv(R, n)
  <2>1. \A n \in DOMAIN P : \/ n = c /\ P[n] = env
                            \/ n \in DOMAIN PathEdges /\ P[n] = PathEdges[n]
    BY RecordedFacts
  <2> HIDE DEF P, env
  <2> QED
    BY <1>2, <2>1 DEF Below, EnvsBelow
<1> HIDE DEF X, P, out, env
<1>10. /\ \A g \in Fun : LeakIf'[g] \subseteq notFromZero(LeaksIn(L, g))
       /\ Leaks' \subseteq Reported(L)
  BY <1>1, <1>3, <1>5, <1>8, FoundBelow DEF Below, ResultsBelow
<1>11. EnvsBelow(N, R)'
  BY <1>1, <1>2, <1>4, <1>5, <1>7, <1>9, ContinueBelow
<1> QED
  BY <1>3, <1>10, <1>11 DEF Below, ResultsBelow

LEMMA RepropagateBelow ==
  ASSUME ControlInv, NEW N, NEW R, NEW L, Solution(N, R, L), Below(N, R, L), repropagateLeaks
  PROVE  Below(N, R, L)'
<1>1. UNCHANGED <<EndSummary, PathEdges, Block>>
  BY DEF repropagateLeaks
<1>2. EnvsBelow(N, R)'
  BY <1>1 DEF Below, EnvsBelow
<1>3. CASE HasNewLeaks = {}
  BY <1>1, <1>2, <1>3 DEF Below, ResultsBelow, repropagateLeaks
<1>4. CASE HasNewLeaks # {}
  <2>1. PICK f \in HasNewLeaks : handleLeaksForFun(f)
    BY <1>4 DEF repropagateLeaks
  <2>2. f \in Fun /\ LeakIf[f] \subseteq notFromZero(LeaksIn(L, f))
    BY DEF ControlInv, MonoTypes, Below, ResultsBelow
  <2>3. ASSUME NEW g PROVE leaksForCallers(f, g) \subseteq LeaksIn(L, g)
    <3> DEFINE E(c) == IF c \in DOMAIN PathEdges THEN PathEdges[c] ELSE {}
    <3> SUFFICES ASSUME NEW l \in leaksForCallers(f, g) PROVE l \in LeaksIn(L, g)
      OBVIOUS
    <3>1. PICK c \in CallSite : f \in CalleesOf(c) /\ FunOf(c) = g /\ l \in mappedLeaks(c, E(c), LeakIf[f])
      BY DEF leaksForCallers
    <3>2. CASE c \in DOMAIN PathEdges
      <4>1. c \in N /\ E(c) \subseteq GenEnv(R, c)
        BY <3>2 DEF Below, EnvsBelow
      <4> HIDE DEF E
      <4>2. mappedLeaks(c, E(c), LeakIf[f]) \subseteq LeaksIn(L, FunOf(c))
        BY <2>2, <3>1, <4>1, CalleeLeaksBelow
      <4> QED
        BY <3>1, <4>2
    <3>3. CASE c \notin DOMAIN PathEdges
      <4>1. E(c) = {}
        BY <3>3
      <4>2. \A s : getSourceFactsFor(c, {}, s) = {}
        BY DEF getSourceFactsFor, sourcesOf
      <4>3. mappedLeaks(c, {}, LeakIf[f]) = {}
        BY <4>2 DEF mappedLeaks
      <4> QED
        BY <3>1, <4>1, <4>3
    <3> QED
      BY <3>2, <3>3
  <2> DEFINE callers == {g \in NodesInSCC[CurrSCC] : leaksForCallers(f, g) # {}}
  <2>4. /\ LeakIf' = [g \in Fun |-> IF g \in callers
                                    THEN LeakIf[g] \cup notFromZero(leaksForCallers(f, g))
                                    ELSE LeakIf[g]]
        /\ Leaks' = Leaks \cup UNION {reportsOf(leaksForCallers(f, g)) : g \in callers}
    BY <2>1 DEF handleLeaksForFun
  <2>5. \A g : /\ notFromZero(leaksForCallers(f, g)) \subseteq notFromZero(LeaksIn(L, g))
               /\ reportsOf(leaksForCallers(f, g)) \subseteq reportsOf(LeaksIn(L, g))
    BY <2>3, LeaksOfPart
  <2>6. callers \subseteq Fun
    <3> SUFFICES ASSUME NEW g \in callers PROVE g \in Fun
      OBVIOUS
    <3>1. PICK c \in CallSite : FunOf(c) = g
      BY DEF leaksForCallers
    <3> QED
      BY <3>1, ProgramAssumption
  <2> HIDE DEF callers
  <2>7. \A g \in Fun : LeakIf'[g] \subseteq notFromZero(LeaksIn(L, g))
    BY <2>4, <2>5 DEF Below, ResultsBelow
  <2>8. Leaks' \subseteq Reported(L)
    <3>1. \A g \in callers : reportsOf(leaksForCallers(f, g)) \subseteq Reported(L)
      BY <2>5, <2>6 DEF Reported
    <3> QED
      BY <2>4, <3>1 DEF Below, ResultsBelow
  <2> QED
    BY <1>1, <1>2, <2>7, <2>8 DEF Below, ResultsBelow
<1> QED
  BY <1>3, <1>4

LEMMA BelowStep ==
  ASSUME ControlInv, NEW N, NEW R, NEW L, Solution(N, R, L), Below(N, R, L), [Next]_vars
  PROVE  Below(N, R, L)'
<1>1. CASE analyzeInstruction
  <2>1. PICK b \in Block : normalStep(b) \/ exitStep(b) \/ callStep(b)
    BY <1>1 DEF analyzeInstruction
  <2> QED
    BY <2>1, NormalStepBelow, ExitStepBelow, CallStepBelow
<1>2. CASE rescheduleCalls \/ finish \/ UNCHANGED vars
  <2>1. UNCHANGED <<EndSummary, LeakIf, Leaks, PathEdges, Block>>
    BY <1>2 DEF rescheduleCalls, finish, vars, summaries
  <2> QED
    BY <2>1 DEF Below, ResultsBelow, EnvsBelow
<1> QED
  BY <1>1, <1>2, StartBelow, BlockBelow, RepropagateBelow DEF Next

\* Whatever solves the equations bounds the summaries, the sinks that each
\* function reaches from its source facts, and the leaks reported.
NoInventedLeak ==
  \A N \in SUBSET Node, R \in SUBSET (Node \X Fact \X Fact),
     L \in SUBSET (Fun \X Node \X Fact \X Fact) :
    Solution(N, R, L) => ResultsBelow(N, R, L)

\* At every step the solver knows only what follows from the equations: each
\* leak it reports, and each summary and conditional leak it keeps, is in
\* their least solution, whatever the order of blocks and however often
\* calls are rescheduled (analyzeBlockImpl, applySummary, repropagateLeaks).
THEOREM NoLeakIsInvented == Spec => []NoInventedLeak
<1> DEFINE BelowAll == \A N \in SUBSET Node, R \in SUBSET (Node \X Fact \X Fact),
                          L \in SUBSET (Fun \X Node \X Fact \X Fact) :
                         Solution(N, R, L) => Below(N, R, L)
<1>1. Init => BelowAll
  BY DEF Init, Below, ResultsBelow, EnvsBelow
<1>2. ControlInv /\ BelowAll /\ [Next]_vars => BelowAll'
  <2> SUFFICES ASSUME ControlInv, BelowAll, [Next]_vars,
                      NEW N \in SUBSET Node, NEW R \in SUBSET (Node \X Fact \X Fact),
                      NEW L \in SUBSET (Fun \X Node \X Fact \X Fact), Solution(N, R, L)
               PROVE  Below(N, R, L)'
    OBVIOUS
  <2>1. Below(N, R, L)
    OBVIOUS
  <2> QED
    BY <2>1, BelowStep
<1>3. BelowAll => NoInventedLeak
  BY DEF Below, NoInventedLeak
<1> HIDE DEF BelowAll
<1> QED
  BY <1>1, <1>2, <1>3, ControlInvariant, PTL DEF Spec

=============================================================================
