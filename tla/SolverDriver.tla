---------------------------- MODULE SolverDriver ----------------------------
(***************************************************************************)
(* The interactive solver API                                              *)
(* (include/phasar/DataFlow/IfdsIde/Solver/IDESolverAPIMixin.h): solve,    *)
(* solveUntil and solveWithAsyncCancellation, and the continue...          *)
(* functions that resume an interrupted run, above initialize, next, nextN *)
(* and finalize of a solver.  Another thread may set and clear the atomic  *)
(* flag of the asynchronous variants at any time; the predicate of the     *)
(* solveUntil variants (a timeout is one) answers as it likes.             *)
(*                                                                         *)
(* The solver itself is reduced to the number of worklist entries it will  *)
(* still pop: next() returns false exactly when none is left.              *)
(***************************************************************************)
EXTENDS Integers

CONSTANTS MaxWork,        \* bound on the pops of one analysis
          MaxCalls,       \* bound on the API calls of one solver
          Interval,       \* milliseconds between two checks
          InitialRate,    \* iterations per millisecond assumed at first (500)
          MaxIterations,  \* bound on NumIterations
          DeltaTimes      \* measured times for one nextN, in milliseconds

ASSUME DriverAssumption ==
  /\ MaxWork \in Nat /\ MaxCalls \in Nat /\ Interval \in Nat
  /\ InitialRate \in Nat /\ MaxIterations \in Nat /\ DeltaTimes \subseteq Nat
  /\ Interval * InitialRate <= MaxIterations

VARIABLES
  work,           \* pops left until the worklist runs dry
  pc,             \* where the API call is
  mode,           \* which API call: "solve", "until" or "async"
  NumIterations, I,
  IsCancelled,    \* the atomic flag
  calls,          \* API calls so far
  late,           \* pops since the flag was last seen, or set, while it is set
  result          \* "none", "nullopt" or "results": what the last call returned

vars == <<work, pc, mode, NumIterations, I, IsCancelled, calls, late, result>>

Init ==
  /\ work \in 0 .. MaxWork
  /\ pc = "new" /\ mode = "solve" /\ result = "none"
  /\ NumIterations = 0 /\ I = 0
  /\ IsCancelled = FALSE /\ calls = 0 /\ late = 0

-----------------------------------------------------------------------------
\* solve..., on a new solver: initialize(), then the first check.
solve(m) ==
  /\ pc = "new" /\ calls < MaxCalls
  /\ mode' = m /\ calls' = calls + 1 /\ result' = "none"
  /\ pc' = IF m = "solve" THEN "next" ELSE "first"
  /\ UNCHANGED <<work, NumIterations, I, IsCancelled, late>>

\* continue..., on an interrupted one.
continueSolving(m) ==
  /\ pc = "interrupted" /\ calls < MaxCalls
  /\ mode' = m /\ calls' = calls + 1 /\ result' = "none"
  /\ late' = 0
  /\ IF m = "until"
     THEN NumIterations' = Interval * InitialRate /\ I' = 0 /\ pc' = "nextN"
     ELSE UNCHANGED <<NumIterations, I>> /\ pc' = "next"
  /\ UNCHANGED <<work, IsCancelled>>

\* One evaluation of the cancellation request.
cancelled == IF mode = "async" THEN {IsCancelled} ELSE BOOLEAN

interrupt == pc' = "interrupted" /\ result' = "nullopt"

firstCheck ==
  /\ pc = "first"
  /\ \E c \in cancelled :
       IF c THEN interrupt /\ UNCHANGED <<NumIterations, I>>
       ELSE /\ UNCHANGED result
            /\ IF mode = "until"
               THEN NumIterations' = Interval * InitialRate /\ I' = 0 /\ pc' = "nextN"
               ELSE UNCHANGED <<NumIterations, I>> /\ pc' = "next"
  /\ UNCHANGED <<work, mode, IsCancelled, calls, late>>

\* Mutants: the flag is read after every other pop; the loop does not end when
\* next() returns false.
next_EveryOther ==
  /\ pc = "next"
  /\ work' = IF work = 0 THEN 0 ELSE work - 1
  /\ late' = IF IsCancelled /\ work > 0 THEN late + 1 ELSE late
  /\ pc' = CASE work > 0 /\ mode = "async" ->
                  IF work % 2 = 0 THEN "check" ELSE "next"
             [] work > 0 /\ mode # "async" -> "next"
             [] work = 0 /\ mode = "solve" -> "finalize"
             [] OTHER -> "last"
  /\ UNCHANGED <<mode, NumIterations, I, IsCancelled, calls, result>>

next_Endless ==
  /\ pc = "next"
  /\ work' = IF work = 0 THEN 0 ELSE work - 1
  /\ late' = IF IsCancelled /\ work > 0 THEN late + 1 ELSE late
  /\ pc' = IF mode = "async" THEN "check"
           ELSE IF work = 0 THEN "finalize" ELSE "next"
  /\ UNCHANGED <<mode, NumIterations, I, IsCancelled, calls, result>>

\* continueImpl and continueWithAsyncCancellationImpl: while (next()) ...
next ==
  /\ pc = "next"
  /\ work' = IF work = 0 THEN 0 ELSE work - 1
  /\ late' = IF IsCancelled /\ work > 0 THEN late + 1 ELSE late
  /\ pc' = CASE work > 0 /\ mode = "async" -> "check"
             [] work > 0 /\ mode # "async" -> "next"
             [] work = 0 /\ mode = "solve" -> "finalize"
             [] OTHER -> "last"
  /\ UNCHANGED <<mode, NumIterations, I, IsCancelled, calls, result>>

\* Mutant: the loop is left, and the flag is read again behind it.
check_Reread ==
  /\ pc = "check"
  /\ pc' = IF IsCancelled THEN "last" ELSE "next"
  /\ UNCHANGED <<work, mode, NumIterations, I, IsCancelled, calls, late, result>>

check ==
  /\ pc = "check"
  /\ IF IsCancelled THEN interrupt ELSE pc' = "next" /\ UNCHANGED result
  /\ UNCHANGED <<work, mode, NumIterations, I, IsCancelled, calls, late>>

\* continueUntilImpl: NumIterations times next(), then the request.
nextN ==
  /\ pc = "nextN"
  /\ IF I = NumIterations THEN pc' = "adjust" /\ UNCHANGED <<work, I>>
     ELSE IF work = 0 THEN pc' = "last" /\ UNCHANGED <<work, I>>
          ELSE work' = work - 1 /\ I' = I + 1 /\ UNCHANGED pc
  /\ UNCHANGED <<mode, NumIterations, IsCancelled, calls, late, result>>

\* size_t(double): out of range, also 0.0 / 0.0, it is any value.
NewNumIterations(dt) ==
  IF dt = 0 THEN 0 .. MaxIterations
  ELSE {IF (NumIterations * Interval) \div dt > MaxIterations THEN MaxIterations
        ELSE (NumIterations * Interval) \div dt}

adjust ==
  /\ pc = "adjust"
  /\ \E c \in cancelled :
       IF c THEN interrupt /\ UNCHANGED <<NumIterations, I>>
       ELSE /\ \E dt \in DeltaTimes : \E new \in NewNumIterations(dt) :
                 NumIterations' = (NumIterations + 2 * new) \div 3
            /\ I' = 0 /\ pc' = "nextN"
            /\ UNCHANGED result
  /\ UNCHANGED <<work, mode, IsCancelled, calls, late>>

\* The last check, after the worklist has run dry.
lastCheck ==
  /\ pc = "last"
  /\ \E c \in cancelled :
       IF c THEN interrupt ELSE pc' = "finalize" /\ UNCHANGED result
  /\ UNCHANGED <<work, mode, NumIterations, I, IsCancelled, calls, late>>

finalize ==
  /\ pc = "finalize"
  /\ pc' = "finished" /\ result' = "results"
  /\ UNCHANGED <<work, mode, NumIterations, I, IsCancelled, calls, late>>

\* The other thread.
setCancelled(b) ==
  /\ IsCancelled # b
  /\ IsCancelled' = b
  /\ late' = 0
  /\ UNCHANGED <<work, pc, mode, NumIterations, I, calls, result>>

Mode == {"solve", "until", "async"}

Solver == firstCheck \/ next \/ check \/ nextN \/ adjust \/ lastCheck \/ finalize

Next == \/ \E m \in Mode : solve(m) \/ continueSolving(m)
        \/ Solver
        \/ \E b \in BOOLEAN : setCancelled(b)

\* The thread that called the solver is scheduled; nobody has to call it, to
\* cancel it or to ask it to stop.
Spec == Init /\ [][Next]_vars /\ WF_vars(Solver)

-----------------------------------------------------------------------------
TypeOK ==
  /\ work \in 0 .. MaxWork /\ calls \in 0 .. MaxCalls
  /\ pc \in {"new", "first", "next", "check", "nextN", "adjust", "last",
             "finalize", "interrupted", "finished"}
  /\ mode \in Mode /\ result \in {"none", "nullopt", "results"}
  /\ NumIterations \in 0 .. MaxIterations /\ I \in 0 .. MaxIterations
  /\ IsCancelled \in BOOLEAN /\ late \in Nat

(***************************************************************************)
(* Results are computed only from a fixpoint: however often a run was      *)
(* interrupted and resumed with another variant, finalize is reached only  *)
(* when no worklist entry is left (solveUntilImpl, continueUntilImpl,      *)
(* continueWithAsyncCancellationImpl).                                     *)
(***************************************************************************)
FinalizeAtFixpoint == pc \in {"finalize", "finished"} => work = 0

(***************************************************************************)
(* An asynchronous cancellation takes effect after at most one more pop:   *)
(* the flag is read after every next().                                    *)
(***************************************************************************)
PromptCancellation == mode = "async" => late <= 1

(***************************************************************************)
(* An API call that polls the flag returns: with results, or with nullopt. *)
(***************************************************************************)
Running == pc \notin {"new", "interrupted", "finished"}
AsyncReturns == (Running /\ mode # "until") ~> ~Running
=============================================================================
