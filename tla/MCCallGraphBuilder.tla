------------------------- MODULE MCCallGraphBuilder -------------------------
(***************************************************************************)
(* Two modules to build a call graph for, and the least call graph to      *)
(* compare with.  Module "Calls":                                          *)
(*   main():  s = alloca; store t1, s; run(s); r = get(0, t6); call *r;    *)
(*            ext(s)                                                       *)
(*   run(p):  c = load p; call *c(p)                                       *)
(*   t1(q):   run(t2)                                                      *)
(*   t2(u):   run(t4)                                                      *)
(*   t4(x):   store t5, G; d = load G; call *d(x)                          *)
(*   get(n, ...): va = va_list; call *va; return t3                        *)
(*   t3(), t5(w), t6(): empty, ext(e) is a declaration                     *)
(*   dead():  run(t3): never called                                        *)
(* t2 is a target in run only because t1 is, t4 only because t2 is, t5 is  *)
(* called only because t4 is: one round of resolution each.                *)
(* Module "Phi":                                                           *)
(*   main():  x = alloca; y = alloca; p = phi x, y; z = gep y              *)
(***************************************************************************)
EXTENDS CallGraphBuilder

CONSTANT Module

I(val, kind, callee, ops) == [val |-> val, kind |-> kind, callee |-> callee, ops |-> ops]

MCNoValue == "-"
MCNoFunction == "-"
MCFunctions == IF Module = "Calls"
               THEN <<"main", "run", "t1", "t2", "t3", "t4", "t5", "t6", "get", "dead", "ext">>
               ELSE <<"main">>
MCFunc == ToSet(MCFunctions)
Locals == IF Module = "Calls" THEN {"s", "r", "p", "c", "q", "u", "d", "x", "w", "e", "va"}
          ELSE {"x", "y", "p", "z"}
MCGlobalObject == MCFunc \cup (IF Module = "Calls" THEN {"G"} ELSE {})
MCValue == Locals \cup MCGlobalObject

MCFunctionOf(v) ==
  IF Module = "Phi" THEN IF v \in Locals THEN "main" ELSE "-"
  ELSE CASE v \in {"s", "r"} -> "main" [] v \in {"p", "c"} -> "run" [] v = "q" -> "t1"
         [] v = "va" -> "get" [] v = "u" -> "t2" [] v \in {"x", "d"} -> "t4" [] v = "w" -> "t5" [] v = "e" -> "ext"
         [] OTHER -> "-"
MCisDeclaration(f) == f = "ext"
MCTypeOf(v) == "ptr"
MCArgs(f) ==
  CASE f = "run" -> <<"p">> [] f = "t1" -> <<"q">> [] f = "t2" -> <<"u">>
    [] f = "t4" -> <<"x">> [] f = "t5" -> <<"w">> [] f = "get" -> <<"-">>
    [] f = "ext" -> <<"e">> [] OTHER -> <<>>
MCReturnValues(f) == IF f = "get" THEN <<"t3">> ELSE <<>>
MCVarArgs(f) == IF f = "get" THEN "va" ELSE "-"
MCInitializerGlobals(g) == IF g = "G" THEN {"t3"} ELSE {}
MCEntryPoints == <<"main">>

MCInstructions(f) ==
  IF Module = "Phi"
  THEN <<I("x", "other", "-", <<>>), I("y", "other", "-", <<>>),
         I("p", "other", "-", <<"x", "y">>), I("z", "other", "-", <<"y">>)>>
  ELSE CASE f = "main" -> <<I("s", "other", "-", <<>>), I("-", "store", "-", <<"t1", "s">>),
                            I("-", "call", "run", <<"s">>), I("r", "call", "get", <<"-", "t6">>),
                            I("-", "call", "r", <<>>), I("-", "call", "ext", <<"s">>)>>
         [] f = "run" -> <<I("c", "other", "-", <<"p">>), I("-", "call", "c", <<"p">>)>>
         [] f = "t1" -> <<I("-", "call", "run", <<"t2">>)>>
         [] f = "t2" -> <<I("-", "call", "run", <<"t4">>)>>
         [] f = "t4" -> <<I("-", "store", "-", <<"t5", "G">>), I("d", "other", "-", <<"G">>),
                          I("-", "call", "d", <<"x">>)>>
         [] f = "get" -> <<I("va", "other", "-", <<>>), I("-", "call", "va", <<>>),
                           I("-", "other", "-", <<"t3">>)>>
         [] f = "dead" -> <<I("-", "call", "run", <<"t3">>)>>
         [] OTHER -> <<>>

AliasPairs ==
  IF Module = "Phi" THEN {{"x", "p"}, {"y", "p"}, {"y", "z"}, {"p", "z"}}
  ELSE {{"p", "c"}, {"d", "G"}, {"d", "x"}, {"x", "G"}}
MCmayAlias(f, v, w) == v = w \/ {v, w} \in AliasPairs

\* isConsistentCall compares the number and types of arguments.
MCtargetsAt(v, c) ==
  IF v \in MCFunc /\ Len(MCArgs(v)) = Len(MCInstructions(c[1])[c[2]].ops) THEN {v} ELSE {}

MCSetId == 1 .. Cardinality(MCValue)

-----------------------------------------------------------------------------
(***************************************************************************)
(* The least call graph: functions reached, edges and aliases grow         *)
(* together from the aliases inside functions, without worklist, counts or *)
(* boxes.                                                                  *)
(***************************************************************************)
LocalPairs ==
  AliasPairs \cup UNION {{{merges[k].v, merges[k].w} :
                            k \in {j \in DOMAIN merges : merges[j].op = "merge"}} :
                         merges \in {globalOps(g) : g \in GlobalObject}
                                      \cup {functionOps(f) : f \in Func}}
RECURSIVE Close(_, _), LeastGraph(_)
\* The values that pairs connect with those of S.
Close(S, pairs) ==
  LET T == S \cup UNION {p \in pairs : p \cap S # {}} IN IF T = S THEN S ELSE Close(T, pairs)
\* E: a set of edges <<call, target>>.
LeastGraph(E) ==
  LET reached == {"main"} \cup {e[2] : e \in E}
      calls == UNION {ToSet(callsIn(f)) : f \in {g \in reached : ~isDeclaration(g)}}
      pairs == LocalPairs \cup UNION {{ToSet(flowsTo(e[1], e[2])[k]) :
                                         k \in 1 .. Len(flowsTo(e[1], e[2]))} :
                                      e \in {x \in E : ~isDeclaration(x[2])}}
      new == E \cup UNION {{c} \X (IF isIndirect(c)
                                  THEN UNION {targetsAt(v, c) :
                                                v \in Close({inst(c).callee}, pairs)}
                                  ELSE {inst(c).callee}) : c \in calls}
  IN IF new = E THEN E ELSE LeastGraph(new)
RefGraph == LeastGraph({})

(***************************************************************************)
(* With the fixpoint, whatever the order of resolution and with lazy or    *)
(* eager alias sets, the result is the least call graph.                   *)
(***************************************************************************)
LeastCallGraph ==
  (pc = "done" /\ RequiresIndirectCallsFixpoint) =>
    {<<c, g>> \in (DOMAIN CalleesAt) \X Func : g \in CalleesAt[c]} = RefGraph

(***************************************************************************)
(* "If we find several alias sets that may alias V, we must merge them.    *)
(* [...] We can still remove a representant, if we have another rep of the *)
(* same type within the same alias set" (addPointer): when a function is   *)
(* analysed, values that may alias are in one set.                         *)
(***************************************************************************)
MayAliasMerged ==
  Todo = <<>> =>
    \A v, w \in DOMAIN AliasSets \ GlobalObject :
      (FunctionOf(v) = FunctionOf(w) /\ FunctionOf(v) \in AnalyzedFunctions
         /\ mayAlias(FunctionOf(v), v, w)) => setOf(v) = setOf(w)
=============================================================================
