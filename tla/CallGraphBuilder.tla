-------------------------- MODULE CallGraphBuilder --------------------------
(***************************************************************************)
(* Construction of the call graph                                          *)
(* (lib/PhasarLLVM/ControlFlow/LLVMBasedCallGraphBuilder.cpp) with the     *)
(* on-the-fly resolver (OTFResolver.cpp).  Indirect calls are resolved     *)
(* with the alias sets, and each call edge in turn merges the alias sets   *)
(* of arguments and parameters: both are computed together, until neither  *)
(* changes.  The builder waits while the alias sets work (Todo # <<>>).    *)
(***************************************************************************)
EXTENDS LLVMPointers

CONSTANTS
  EntryPoints,           \* sequence of functions
  ReturnValues(_),       \* the returned pointers of a function, in order
  VarArgs(_),            \* the va_list of a vararg function, or NoValue
  targetsAt(_, _),       \* the functions a value in the alias set yields at a call
  FixpointModes          \* S # Unsound and the resolver mutates its helper

VARIABLES
  RequiresIndirectCallsFixpoint,
  FunctionWL, VisitedFunctions,
  IndirectCalls,         \* call -> number of targets
  CalleesAt,             \* call -> set of targets
  FixpointReached,
  Calls,                 \* calls of the current function left to process
  Redo,                  \* indirect calls left in the current round
  pc

builderVars == <<RequiresIndirectCallsFixpoint, FunctionWL, VisitedFunctions,
                 IndirectCalls, CalleesAt, FixpointReached, Calls, Redo, pc>>
vars == <<aliasVars, builderVars>>

\* A call is identified by its function and position.
inst(c) == Instructions(c[1])[c[2]]
callSites(f) == {<<f, i>> : i \in {j \in 1 .. Len(Instructions(f)) :
                                    Instructions(f)[j].kind = "call"}}
callsIn(f) == keep([i \in 1 .. Len(Instructions(f)) |-> <<f, i>>], callSites(f))
isIndirect(c) == inst(c).callee \notin Func

\* The functions of one module, and the resolver answers with these.
ASSUME ModuleAssumption ==
  /\ IsFiniteSet(Func) /\ EntryPoints \in Seq(Func)
  /\ \A f \in Func : ReturnValues(f) \in Seq(Value) /\ VarArgs(f) \in Value \cup {NoValue}
  /\ \A f \in Func : \A c \in callSites(f), v \in Value : targetsAt(v, c) \subseteq Func

Init ==
  /\ AliasInit
  /\ RequiresIndirectCallsFixpoint \in FixpointModes
  /\ FunctionWL = EntryPoints /\ VisitedFunctions = {}
  /\ IndirectCalls = <<>> /\ CalleesAt = <<>>
  /\ FixpointReached = TRUE /\ Calls = <<>> /\ Redo = {}
  /\ pc = "pop"

-----------------------------------------------------------------------------
(***************************************************************************)
(* OTFResolver.                                                            *)
(***************************************************************************)
\* resolveFunctionPointer, once the alias set has been computed.
resolveIndirectCall(c) == UNION {targetsAt(v, c) : v \in aliasSet(inst(c).callee)}

\* What the i-th argument of a call of g is bound to.
formal(g, i) == IF i <= Len(Args(g)) THEN Args(g)[i] ELSE VarArgs(g)

\* Mutant: arguments that are no pointers are not skipped.
flowsTo_AnyType(c, g) ==
  [i \in 1 .. Len(inst(c).ops) |-> <<inst(c).ops[i], formal(g, i)>>]
    \o (IF inst(c).val = NoValue THEN <<>>
        ELSE mapSeq(LAMBDA r : <<inst(c).val, r>>, ReturnValues(g)))

\* What the call c of g makes aliases: arguments, the surplus ones with the
\* va_list, and the returned values.
flowsTo(c, g) ==
  keep([i \in 1 .. Len(inst(c).ops) |-> <<inst(c).ops[i], formal(g, i)>>], Value \X Value)
    \o (IF inst(c).val = NoValue THEN <<>>
        ELSE mapSeq(LAMBDA r : <<inst(c).val, r>>, ReturnValues(g)))

handlePossibleTargets(c, targets) ==
  concat(LAMBDA g : IF isDeclaration(g) THEN <<>>
                    ELSE concat(LAMBDA p : introduceAlias(p[1], p[2]), flowsTo(c, g)),
         targets)

-----------------------------------------------------------------------------
(***************************************************************************)
(* Builder.                                                                *)
(***************************************************************************)
\* The new targets of c: their aliases, their edges, their functions.
connect(c, targets) ==
  \E q \in SetToSeqs(targets) :
    /\ Request(handlePossibleTargets(c, q))
    /\ CalleesAt' = Put(CalleesAt, c,
                        targets \cup (IF c \in DOMAIN CalleesAt THEN CalleesAt[c] ELSE {}))
    /\ FunctionWL' = FunctionWL \o q

\* processFunction up to its first call.
processFunction ==
  /\ pc = "pop" /\ Todo = <<>> /\ FunctionWL # <<>>
  /\ FunctionWL' = Front(FunctionWL)
  /\ LET F == Last(FunctionWL) IN
     IF isDeclaration(F) \/ F \in VisitedFunctions
     THEN UNCHANGED <<VisitedFunctions, Calls, pc>>
     ELSE VisitedFunctions' = VisitedFunctions \cup {F}
          /\ Calls' = callsIn(F) /\ pc' = "calls"
  /\ UNCHANGED <<aliasVars, RequiresIndirectCallsFixpoint, IndirectCalls, CalleesAt,
                 FixpointReached, Redo>>

processDirectCall ==
  /\ pc = "calls" /\ Calls # <<>> /\ ~isIndirect(Head(Calls))
  /\ connect(Head(Calls), {inst(Head(Calls)).callee})
  /\ Calls' = Tail(Calls)
  /\ UNCHANGED <<RequiresIndirectCallsFixpoint, VisitedFunctions, IndirectCalls,
                 FixpointReached, Redo, pc>>

\* resolveIndirectCall asks for the alias set ...
askAliasSet ==
  /\ pc = "calls" /\ Calls # <<>> /\ isIndirect(Head(Calls))
  /\ Request(getAliasSet(inst(Head(Calls)).callee))
  /\ pc' = "resolve"
  /\ UNCHANGED <<RequiresIndirectCallsFixpoint, FunctionWL, VisitedFunctions,
                 IndirectCalls, CalleesAt, FixpointReached, Calls, Redo>>

\* ... and fillPossibleTargets takes what it yields.
fillPossibleTargets ==
  /\ pc = "resolve"
  /\ LET c == Head(Calls)  targets == resolveIndirectCall(c) IN
     /\ connect(c, targets)
     /\ IndirectCalls' = Put(IndirectCalls, c, Cardinality(targets))
  /\ FixpointReached' = FALSE
  /\ Calls' = Tail(Calls) /\ pc' = "calls"
  /\ UNCHANGED <<RequiresIndirectCallsFixpoint, VisitedFunctions, Redo>>

\* The function, or the worklist, is at its end.
endFunction ==
  /\ Todo = <<>>
  /\ \/ pc = "calls" /\ Calls = <<>> /\ pc' = "pop" /\ UNCHANGED Redo
     \/ pc = "pop" /\ FunctionWL = <<>> /\ pc' = "redo"
        /\ Redo' = IF RequiresIndirectCallsFixpoint THEN DOMAIN IndirectCalls ELSE {}
  /\ UNCHANGED <<aliasVars, RequiresIndirectCallsFixpoint, FunctionWL, VisitedFunctions,
                 IndirectCalls, CalleesAt, FixpointReached, Calls>>

\* constructDynamicCall, in any order over IndirectCalls.
askAgain ==
  /\ pc = "redo" /\ Calls = <<>>
  /\ \E c \in Redo : /\ Request(getAliasSet(inst(c).callee))
                     /\ Redo' = Redo \ {c} /\ Calls' = <<c>>
  /\ UNCHANGED <<RequiresIndirectCallsFixpoint, FunctionWL, VisitedFunctions,
                 IndirectCalls, CalleesAt, FixpointReached, pc>>

\* Mutant: the new targets are not counted as progress.
constructDynamicCall_Quiet ==
  /\ pc = "redo" /\ Todo = <<>> /\ Calls # <<>>
  /\ LET c == Head(Calls)  targets == resolveIndirectCall(c) IN
     IF IndirectCalls[c] >= Cardinality(targets)
     THEN UNCHANGED <<aliasVars, FunctionWL, IndirectCalls, CalleesAt, FixpointReached>>
     ELSE /\ IndirectCalls' = [IndirectCalls EXCEPT ![c] = Cardinality(targets)]
          /\ connect(c, targets \ CalleesAt[c])
          /\ UNCHANGED FixpointReached
  /\ Calls' = <<>>
  /\ UNCHANGED <<RequiresIndirectCallsFixpoint, VisitedFunctions, Redo, pc>>

\* Mutant: the number of targets is not updated.
constructDynamicCall_StaleCount ==
  /\ pc = "redo" /\ Todo = <<>> /\ Calls # <<>>
  /\ LET c == Head(Calls)  targets == resolveIndirectCall(c) IN
     IF IndirectCalls[c] >= Cardinality(targets)
     THEN UNCHANGED <<aliasVars, FunctionWL, IndirectCalls, CalleesAt, FixpointReached>>
     ELSE /\ connect(c, targets \ CalleesAt[c])
          /\ FixpointReached' = FALSE
          /\ UNCHANGED IndirectCalls
  /\ Calls' = <<>>
  /\ UNCHANGED <<RequiresIndirectCallsFixpoint, VisitedFunctions, Redo, pc>>

constructDynamicCall ==
  /\ pc = "redo" /\ Todo = <<>> /\ Calls # <<>>
  /\ LET c == Head(Calls)  targets == resolveIndirectCall(c) IN
     IF IndirectCalls[c] >= Cardinality(targets)
     THEN UNCHANGED <<aliasVars, FunctionWL, IndirectCalls, CalleesAt, FixpointReached>>
     ELSE /\ IndirectCalls' = [IndirectCalls EXCEPT ![c] = Cardinality(targets)]
          /\ connect(c, targets \ CalleesAt[c])
          /\ FixpointReached' = FALSE
  /\ Calls' = <<>>
  /\ UNCHANGED <<RequiresIndirectCallsFixpoint, VisitedFunctions, Redo, pc>>

\* do ... while (!FixpointReached)
buildCallGraph ==
  /\ pc = "redo" /\ Todo = <<>> /\ Calls = <<>> /\ Redo = {}
  /\ pc' = IF FixpointReached THEN "done" ELSE "pop"
  /\ FixpointReached' = TRUE
  /\ UNCHANGED <<aliasVars, RequiresIndirectCallsFixpoint, FunctionWL, VisitedFunctions,
                 IndirectCalls, CalleesAt, Calls, Redo>>

Next ==
  \/ AliasStep /\ UNCHANGED builderVars
  \/ processFunction \/ processDirectCall \/ askAliasSet \/ fillPossibleTargets
  \/ endFunction \/ askAgain \/ constructDynamicCall \/ buildCallGraph

\* One sequential loop that never blocks.
Spec == Init /\ [][Next]_vars /\ WF_vars(Next)

-----------------------------------------------------------------------------
TypeOK ==
  /\ AliasTypeOK
  /\ FunctionWL \in Seq(Func) /\ VisitedFunctions \subseteq Func
  /\ DOMAIN IndirectCalls \subseteq DOMAIN CalleesAt
  /\ \A c \in DOMAIN CalleesAt : CalleesAt[c] \subseteq Func
  /\ \A c \in DOMAIN IndirectCalls : IndirectCalls[c] \in Nat
  /\ FixpointReached \in BOOLEAN
  /\ pc \in {"pop", "calls", "resolve", "redo", "done"}

(***************************************************************************)
(* The number that constructDynamicCall compares with stands for the       *)
(* targets the call graph has: no target was replaced by another.          *)
(***************************************************************************)
CountExact ==
  \A c \in DOMAIN IndirectCalls : IndirectCalls[c] = Cardinality(CalleesAt[c])

\* The construction ends.
Termination == <>(pc = "done")
=============================================================================
