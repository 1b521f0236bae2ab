-------------------------- MODULE SolverDriverProofs --------------------------
(***************************************************************************)
(* Proofs about the parts around the solver loop: SolverDriver, for every  *)
(* amount of work, every number of API calls and every schedule of the     *)
(* thread that sets the flag, and the indexes of JumpFunctions.            *)
(*                                                                         *)
(* Neither property of the driver is inductive.  finalize is entered from  *)
(* the last check and from next, so the worklist has to be dry at the last *)
(* check already.  For the cancellation, Fresh says which states start a   *)
(* new count: while the flag is clear nothing is late, and an asynchronous *)
(* run that is about to pop has just seen it clear, or has just been       *)
(* called.                                                                 *)
(***************************************************************************)
EXTENDS SolverDriver, JumpFunctions, TLAPS

\* The worklist is dry once the loop has been left for good.
DryAfterLoop == pc \in {"last", "finalize", "finished"} => work = 0

\* No pop has been late yet.
Fresh ==
  (~IsCancelled \/ pc \in {"new", "first"} \/ (pc = "next" /\ mode = "async"))
     => late = 0

DriverInv ==
  /\ TypeOK /\ DryAfterLoop /\ Fresh /\ PromptCancellation
  /\ pc = "nextN" => I <= NumIterations

\* A division of naturals is a natural.
LEMMA DivNat ==
  ASSUME NEW a \in Nat, NEW b \in Nat, b # 0
  PROVE  a \div b \in Nat
OBVIOUS

\* A third of the sum that adjust makes is no larger than its parts.
LEMMA ThirdBounded ==
  ASSUME NEW m \in Nat, NEW a \in 0 .. m, NEW b \in 0 .. m
  PROVE  (a + 2 * b) \div 3 \in 0 .. m
OBVIOUS

\* A product of naturals is a natural.
LEMMA ProductNat ==
  ASSUME NEW a \in Nat, NEW b \in Nat
  PROVE  a * b \in Nat
OBVIOUS

\* The measured rate, capped, is within the bound on NumIterations.
LEMMA NewNumIterationsBounded ==
  ASSUME NEW dt \in Nat, NumIterations \in Nat
  PROVE  NewNumIterations(dt) \subseteq 0 .. MaxIterations
<1>1. MaxIterations \in Nat /\ Interval \in Nat
  BY DriverAssumption
<1>2. CASE dt = 0
  BY <1>2 DEF NewNumIterations
<1>3. CASE dt # 0
  <2>1. (NumIterations * Interval) \div dt \in Nat
    BY <1>1, <1>3, ProductNat, DivNat
  <2> DEFINE q == (NumIterations * Interval) \div dt
  <2>2. (IF q > MaxIterations THEN MaxIterations ELSE q) \in 0 .. MaxIterations
    <3> HIDE DEF q
    <3> QED BY <1>1, <2>1 DEF q
  <2> QED
    BY <1>3, <2>2, Zenon DEF NewNumIterations
<1> QED
  BY <1>2, <1>3

\* The invariant holds of a new solver.
LEMMA DriverInvInit == Init => DriverInv
<1>1. MaxWork \in Nat /\ MaxCalls \in Nat /\ MaxIterations \in Nat
  BY DriverAssumption
<1>2. ASSUME Init PROVE TypeOK
  <2>1. IsCancelled \in BOOLEAN
    BY <1>2, Zenon DEF Init
  <2>2. /\ calls \in 0 .. MaxCalls /\ late \in Nat
        /\ NumIterations \in 0 .. MaxIterations /\ I \in 0 .. MaxIterations
    BY <1>1, <1>2 DEF Init
  <2> QED
    BY <1>2, <2>1, <2>2, Zenon DEF Init, TypeOK, Mode
<1>3. ASSUME Init PROVE DryAfterLoop /\ Fresh /\ PromptCancellation /\ pc # "nextN"
  BY <1>3 DEF Init, DryAfterLoop, Fresh, PromptCancellation
<1> QED
  BY <1>2, <1>3 DEF DriverInv

\* Every step of the solver's thread and of the other one preserves it.
LEMMA DriverInvStep == DriverInv /\ [Next]_vars => DriverInv'
<1> SUFFICES ASSUME DriverInv, [Next]_vars PROVE DriverInv'
  OBVIOUS
<1> USE DEF DriverInv, TypeOK, DryAfterLoop, Fresh, PromptCancellation, Mode
<1>0. /\ MaxWork \in Nat /\ MaxCalls \in Nat /\ MaxIterations \in Nat
      /\ Interval * InitialRate \in 0 .. MaxIterations
  BY DriverAssumption, ProductNat
<1> DEFINE rate == Interval * InitialRate
<1>r. rate \in 0 .. MaxIterations
  BY <1>0
<1>1. ASSUME NEW m \in Mode, solve(m) PROVE DriverInv'
  BY <1>0, <1>1 DEF solve
<1>2. ASSUME NEW m \in Mode, continueSolving(m) PROVE DriverInv'
  <2> HIDE DEF rate
  <2>1. CASE m = "until"
    BY <1>0, <1>r, <1>2, <2>1 DEF continueSolving, rate
  <2>2. CASE m # "until"
    BY <1>0, <1>2, <2>2 DEF continueSolving
  <2> QED
    BY <2>1, <2>2
<1>3. CASE firstCheck
  <2> HIDE DEF rate
  <2>1. PICK c \in cancelled :
             IF c THEN interrupt /\ UNCHANGED <<NumIterations, I>>
             ELSE /\ UNCHANGED result
                  /\ IF mode = "until"
                     THEN NumIterations' = rate /\ I' = 0 /\ pc' = "nextN"
                     ELSE UNCHANGED <<NumIterations, I>> /\ pc' = "next"
    BY <1>3 DEF firstCheck, rate
  <2>2. /\ pc = "first"
        /\ UNCHANGED <<work, mode, IsCancelled, calls, late>>
    BY <1>3 DEF firstCheck
  <2>3. CASE c
    BY <2>1, <2>2, <2>3 DEF interrupt
  <2>4. CASE ~c /\ mode = "until"
    BY <1>0, <1>r, <2>1, <2>2, <2>4
  <2>5. CASE ~c /\ mode # "until"
    BY <2>1, <2>2, <2>5
  <2> QED
    BY <2>3, <2>4, <2>5
<1>4. CASE next
  <2>1. CASE work = 0
    BY <1>0, <1>4, <2>1 DEF next
  <2>2. CASE work > 0 /\ mode = "async"
    BY <1>0, <1>4, <2>2 DEF next
  <2>3. CASE work > 0 /\ mode # "async"
    BY <1>0, <1>4, <2>3 DEF next
  <2> QED
    BY <2>1, <2>2, <2>3
<1>5. CASE check
  BY <1>0, <1>5 DEF check, interrupt
<1>6. CASE nextN
  BY <1>0, <1>6 DEF nextN
<1>7. CASE adjust
  <2>1. /\ pc = "adjust"
        /\ UNCHANGED <<work, mode, IsCancelled, calls, late>>
    BY <1>7 DEF adjust
  <2>2. CASE interrupt /\ UNCHANGED <<NumIterations, I>>
    BY <2>1, <2>2 DEF interrupt
  <2>3. CASE /\ \E dt \in DeltaTimes : \E new \in NewNumIterations(dt) :
                  NumIterations' = (NumIterations + 2 * new) \div 3
             /\ I' = 0 /\ pc' = "nextN" /\ UNCHANGED result
    <3>1. PICK dt \in DeltaTimes : \E new \in NewNumIterations(dt) :
                  NumIterations' = (NumIterations + 2 * new) \div 3
      BY <2>3
    <3>2. PICK new \in NewNumIterations(dt) :
                  NumIterations' = (NumIterations + 2 * new) \div 3
      BY <3>1
    <3>3. dt \in Nat /\ NumIterations \in Nat
      BY <1>0, DriverAssumption
    <3>4. new \in 0 .. MaxIterations
      BY <3>3, NewNumIterationsBounded
    <3>5. NumIterations' \in 0 .. MaxIterations
      BY <1>0, <3>2, <3>4, ThirdBounded
    <3> QED
      BY <1>0, <2>1, <2>3, <3>5
  <2> QED
    BY <1>7, <2>2, <2>3 DEF adjust
<1>8. CASE lastCheck
  BY <1>8 DEF lastCheck, interrupt
<1>9. CASE finalize
  BY <1>9 DEF finalize
<1>10. ASSUME NEW b \in BOOLEAN, setCancelled(b) PROVE DriverInv'
  BY <1>10 DEF setCancelled
<1>11. CASE UNCHANGED vars
  BY <1>11 DEF vars
<1> QED
  BY <1>1, <1>2, <1>3, <1>4, <1>5, <1>6, <1>7, <1>8, <1>9, <1>10, <1>11
     DEF Next, Solver

\* The invariant holds in every run of the driver.
LEMMA DriverInvariant == Spec => []DriverInv
BY DriverInvInit, DriverInvStep, PTL DEF Spec

(***************************************************************************)
(* However often a run is interrupted and resumed, and with whichever      *)
(* variants, finalize is reached only with a dry worklist                  *)
(* (solveUntilImpl, continueUntilImpl, continueWithAsyncCancellationImpl). *)
(***************************************************************************)
THEOREM ResultsFromFixpoint == Spec => []FinalizeAtFixpoint
<1>1. DriverInv => FinalizeAtFixpoint
  BY DEF DriverInv, DryAfterLoop, FinalizeAtFixpoint
<1> QED
  BY <1>1, DriverInvariant, PTL

(***************************************************************************)
(* A run with asynchronous cancellation makes at most one pop after the    *)
(* flag was set, whenever the other thread sets it.                        *)
(***************************************************************************)
THEOREM CancellationIsPrompt == Spec => []PromptCancellation
<1>1. DriverInv => PromptCancellation
  BY DEF DriverInv
<1> QED
  BY <1>1, DriverInvariant, PTL

-----------------------------------------------------------------------------
(***************************************************************************)
(* Whatever the order of addFunction, removeFunction and clear, what a     *)
(* reader finds forward it finds in reverse, with the same function; and   *)
(* lookupByTarget stays exact at each target for as long as removeFunction *)
(* is not called for that target.                                          *)
(***************************************************************************)
THEOREM IndexesDivergeOnlyByRemoval ==
  TableSpec =>
    /\ [](NonEmptyReverseLookup = NonEmptyForwardLookup)
    /\ [][\A n \in Node : ByTargetExact(n) =>
            ByTargetExact(n)' \/ \E d1, d2 \in Fact : removeFunction(d1, n, d2)]_tableVars
<1> DEFINE Same == NonEmptyReverseLookup = NonEmptyForwardLookup
           Kept(n) == ByTargetExact(n) =>
             ByTargetExact(n)' \/ \E d1, d2 \in Fact : removeFunction(d1, n, d2)
<1>1. TableInit => Same
  BY DEF TableInit
<1>2. Same /\ [TableNext]_tableVars => Same'
  <2> SUFFICES ASSUME Same, [TableNext]_tableVars PROVE Same'
    OBVIOUS
  <2>1. ASSUME NEW d1 \in Fact, NEW n \in Node, NEW d2 \in Fact, NEW f \in EF,
               addFunction(d1, n, d2, f)
        PROVE  Same'
    BY <2>1 DEF addFunction
  <2>2. ASSUME NEW d1 \in Fact, NEW n \in Node, NEW d2 \in Fact,
               removeFunction(d1, n, d2)
        PROVE  Same'
    BY <2>2 DEF removeFunction
  <2>3. CASE clear \/ UNCHANGED tableVars
    BY <2>3 DEF clear, tableVars
  <2> QED
    BY <2>1, <2>2, <2>3 DEF TableNext
<1>3. [TableNext]_tableVars => [\A n \in Node : Kept(n)]_tableVars
  <2> SUFFICES ASSUME TableNext, NEW n \in Node, ByTargetExact(n) PROVE Kept(n)
    OBVIOUS
  <2>1. ASSUME NEW d1 \in Fact, NEW m \in Node, NEW d2 \in Fact, NEW f \in EF,
               addFunction(d1, m, d2, f)
        PROVE  ByTargetExact(n)'
    BY <2>1 DEF addFunction, Store, ByTargetExact
  <2>2. ASSUME NEW d1 \in Fact, NEW m \in Node, NEW d2 \in Fact,
               removeFunction(d1, m, d2), m # n
        PROVE  ByTargetExact(n)'
    BY <2>2 DEF removeFunction, Without, ByTargetExact
  <2>3. CASE clear
    BY <2>3 DEF clear, Empty, ByTargetExact
  <2> QED
    BY <2>1, <2>2, <2>3 DEF TableNext
<1> QED
  BY <1>1, <1>2, <1>3, PTL DEF TableSpec

(***************************************************************************)
(* removeFunction is right only for the last record of its target: where   *)
(* the forward index has another one, lookupByTarget no longer returns     *)
(* "all jump function records with this target".                           *)
(***************************************************************************)
THEOREM RemovalTakesAllRecords ==
  ASSUME NEW d1 \in Fact, NEW n \in Node, NEW d2 \in Fact,
         ByTargetExact(n), removeFunction(d1, n, d2)
  PROVE  ByTargetExact(n)' <=>
           \A k \in DOMAIN NonEmptyForwardLookup : k[2] = n => k = <<d1, n, d2>>
<1> DEFINE F == NonEmptyForwardLookup
           B == NonEmptyLookupByTargetNode
<1>1. DOMAIN F' = DOMAIN F \ {<<d1, n, d2>>}
  BY DEF removeFunction, Without
<1>2. \A k \in DOMAIN B' : k[2] # n
  BY DEF removeFunction, Without
<1> QED
  BY <1>1, <1>2 DEF ByTargetExact
=============================================================================
