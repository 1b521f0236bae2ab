---------------------------- MODULE LLVMPointers ----------------------------
(***************************************************************************)
(* Which steps the alias sets take for a function or a global, read off    *)
(* its instructions (computeFunctionsAliasSet, computeValuesAliasSet and   *)
(* the constructor of lib/PhasarLLVM/Pointer/LLVMAliasSet.cpp).            *)
(*                                                                         *)
(* An instruction is a record: val is its own pointer, or NoValue, kind is *)
(* "store" (operands: value, pointer), "call" (operands: arguments) or     *)
(* "other", callee the called operand.  Constant expressions and           *)
(* aggregates are not represented, and a call of inline assembly, which    *)
(* has no target, is an "other" instruction.                               *)
(***************************************************************************)
EXTENDS LLVMAliasSet, SequencesExt

CONSTANTS
  NoValue, Functions,          \* the functions of the module, in order
  Instructions(_), Args(_),    \* of a function, in order
  InitializerGlobals(_),       \* what the initializer of a global variable refers to
  LazyModes                    \* values of UseLazyEvaluation

Instruction == [val : Value \cup {NoValue}, kind : {"store", "call", "other"},
                callee : Value \cup {NoValue}, ops : Seq(Value \cup {NoValue})]

ASSUME InstructionAssumption ==
  /\ NoValue \notin Value
  /\ \A f \in Func : /\ Args(f) \in Seq(Value \cup {NoValue})
                     /\ Instructions(f) \in Seq(Instruction)
                     /\ \A i \in 1 .. Len(Instructions(f)) :
                          Instructions(f)[i].kind = "call" => Instructions(f)[i].callee \in Value

mapSeq(F(_), s) == [i \in 1 .. Len(s) |-> F(s[i])]
concat(F(_), s) == FlattenSeq(mapSeq(F, s))

Operands(I) == SelectSeq(I.ops, LAMBDA v : v # NoValue)
isInstruction(v) == v \notin GlobalObject /\ FunctionOf(v) # NoFunction
                      /\ v \notin ToSet(Args(FunctionOf(v)))

\* The globals among the operands of f and in the initializers of these, which
\* computeFunctionsAliasSet collects in UsedGlobals.  (addIfGlobal walks from
\* initializer to initializer; InitializerGlobals is the end of the walk.)
usedGlobals(f) ==
  LET direct == GlobalObject \cap
        UNION {ToSet(Operands(Instructions(f)[i])) : i \in 1 .. Len(Instructions(f))}
  IN direct \cup UNION {InitializerGlobals(g) : g \in direct}

instructionOps(f, I) ==
  LET others == SelectSeq(IF I.kind = "call" /\ I.callee \in Value \ Func
                          THEN <<I.callee>> \o Operands(I) ELSE Operands(I),
                          LAMBDA v : ~isInstruction(v))
  IN (IF I.val # NoValue THEN <<addPointerIn(f, I.val)>> ELSE <<>>)
     \o (IF I.kind = "store" /\ I.ops[1] \in Func
         THEN <<addSingleton(I.ops[1]), addSingleton(I.ops[2]),
                merge(I.ops[1], I.ops[2])>>
         ELSE <<>>)
     \o mapSeq(LAMBDA v : addPointerIn(f, v), others)

functionOps(f) ==
  concat(LAMBDA I : instructionOps(f, I), Instructions(f))
    \o mapSeq(LAMBDA v : addPointerIn(f, v),
              SelectSeq(Args(f), LAMBDA v : v # NoValue) \o SetToSeq(usedGlobals(f)))

\* What an instruction of f that uses the global g adds.
userOps(f, g, I) ==
  CASE g \notin ToSet(Operands(I)) \cup {I.callee} -> <<>>
    [] g \notin Func /\ I.val # NoValue -> <<computeFunctions(f), merge(I.val, g)>>
    [] I.kind = "store" /\ I.ops[1] \in Value /\ ~(g \notin Func /\ I.val # NoValue) ->
         <<computeFunctions(f), merge(I.ops[1], I.ops[2])>>
    [] OTHER -> <<computeFunctions(f)>>

globalOps(g) ==
  concat(LAMBDA f : concat(LAMBDA I : userOps(f, g, I), Instructions(f)), Functions)

constructorOps ==
  LET globals == mapSeq(computeValues, SetToSeq(GlobalObject \ Func) \o Functions)
      defined == SelectSeq(Functions, LAMBDA f : ~isDeclaration(f))
  IN {globals \o (IF lazy THEN <<>> ELSE mapSeq(computeFunctions, defined)) :
        lazy \in LazyModes}
=============================================================================
