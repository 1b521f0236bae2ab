--------------------------- MODULE MCAndersenOTF ----------------------------
(***************************************************************************)
(* Programs for the Andersen analysis, and the least solution to compare   *)
(* its result with.  Program "Main":                                       *)
(*   main(a): p = alloca; q = alloca; x = phi(p, q, z); z = phi(x, q);     *)
(*            l = load p; store l, p; store a, p; memcpy(q, z);            *)
(*            r = pick(x, a); fp = load T; fp(z); k = load a; ext(k);      *)
(*            setup(); m = mk(); store z, m                                *)
(*   pick(u, w):   s = strchr(u); store cb, w; return s                    *)
(*   setup():      store f, T; free(spare)                                 *)
(*   f(y):         g = gep y, used by a phi before; j = load g; ext(j)     *)
(*   cb(b):        h = malloc(); store h, b                                *)
(*   mk():         a wrapper of malloc; spare(): a function nobody calls;  *)
(*                 T a global; ext, strchr, malloc and free declarations,  *)
(*                 strchr and free with a summary, that of free empty      *)
(* Program "Copy":                                                         *)
(*   main():  p = alloca; s = get(); x = phi(p, z); z = phi(x);            *)
(*            memcpy(z, s)                                                 *)
(*   get():   t = malloc(); return t                                       *)
(***************************************************************************)
EXTENDS AndersenOTF

CONSTANT Program

I(op, src, dst) == [op |-> op, src |-> src, dst |-> dst, args |-> <<>>, object |-> "-"]
Call(f, args, dst, obj) ==
  [op |-> "call", src |-> f, dst |-> dst, args |-> args, object |-> obj]

MCNoNode == "-"
MCFunc == CASE Program = "Main" ->
                 {"main", "pick", "setup", "f", "cb", "mk", "spare", "ext", "strchr",
                  "malloc", "free"}
            [] Program = "Copy" -> {"main", "get", "malloc"}
MCNode ==
  MCFunc \cup
    CASE Program = "Main" ->
         {"a", "oa", "p", "op", "q", "oq", "x", "z", "r", "or", "l", "k", "fp", "T", "oT", "m",
          "om", "u", "w", "s", "os", "pick.ret", "y", "g", "j", "b", "h", "oh", "mk.ret",
          "strchr.0"}
      [] Program = "Copy" -> {"p", "op", "x", "z", "s", "os", "t", "ot", "get.ret"}
MCEntries == <<"main">>
MCGlobals == "globals"

MainBody(f) ==
  CASE f = "globals" -> <<I("object", "oT", "T")>>
    [] f = "main" -> <<I("object", "op", "p"), I("object", "oq", "q"),
                       I("assign", "p", "x"), I("assign", "z", "x"),
                       I("assign", "x", "z"), I("assign", "q", "z"),
                       I("assign", "q", "x"), I("load", "p", "l"),
                       I("store", "l", "p"), I("store", "a", "p"), I("copy", "z", "q"),
                       Call("pick", <<"x", "a">>, "r", "or"), I("load", "T", "fp"),
                       Call("fp", <<"z">>, "-", "-"), I("load", "a", "k"),
                       Call("ext", <<"k">>, "-", "-"),
                       Call("setup", <<>>, "-", "-"), Call("mk", <<>>, "m", "om"),
                       I("store", "z", "m")>>
    [] f = "pick" -> <<Call("strchr", <<"u">>, "s", "os"), I("store", "cb", "w"),
                       I("assign", "s", "pick.ret")>>
    [] f = "setup" -> <<I("store", "f", "T"), Call("free", <<"spare">>, "-", "-")>>
    [] f = "f" -> <<I("alias", "y", "g"), I("load", "g", "j"),
                    Call("ext", <<"j">>, "-", "-")>>
    [] f = "cb" -> <<Call("malloc", <<>>, "h", "oh"), I("store", "h", "b")>>
    [] OTHER -> <<>>

CopyBody(f) ==
  CASE f = "main" -> <<I("object", "op", "p"), Call("get", <<>>, "s", "os"),
                       I("assign", "p", "x"), I("assign", "z", "x"),
                       I("assign", "x", "z"), I("copy", "s", "z")>>
    [] f = "get" -> <<Call("malloc", <<>>, "t", "ot"), I("assign", "t", "get.ret")>>
    [] OTHER -> <<>>

MCBody(f) == CASE Program = "Main" -> MainBody(f)
               [] Program = "Copy" -> CopyBody(f)

MCParams(f) == CASE f = "main" /\ Program = "Main" -> <<"a">> [] f = "pick" -> <<"u", "w">>
                 [] f = "f" -> <<"y">> [] f = "cb" -> <<"b">>
                 [] f = "strchr" -> <<"strchr.0">> [] OTHER -> <<>>
MCReturn(f) == CASE f = "pick" -> "pick.ret" [] f = "mk" -> "mk.ret"
                 [] f = "get" -> "get.ret" [] OTHER -> "-"
MCArgObject(p) == "oa"
MCisDeclaration(f) == f \in {"ext", "strchr", "malloc", "free"}
MCisAllocWrapper(f) == f = "mk"
MCisHeapAllocatingFunction(f) == f = "malloc"
MChasLibFacts(f) == f \in {"strchr", "free"}
MCLibFacts(f) == IF f = "strchr" THEN {<<1, 0>>} ELSE {}
MCtargetsAt(o, c) ==
  IF o \in MCFunc /\ Len(MCParams(o)) = Len(MCBody(c[1])[c[2]].args) THEN {o} ELSE {}

-----------------------------------------------------------------------------
(***************************************************************************)
(* The least solution, without representatives, waves and worklists.  R is *)
(* a set of pairs <<pointer, object>>, C of connected calls, F of reached  *)
(* functions.                                                              *)
(***************************************************************************)
allInsts(F) == UNION {{<<f, i>> : i \in 1 .. Len(Body(f))} : f \in F \cup {Globals}}
inclusions(R, C, F) ==
  LET insts(op) == {inst(c) : c \in {x \in allInsts(F) : inst(x).op = op}}
      P(v) == {o \in Node : <<v, o>> \in R}
      known == {e \in C : ~isDeclaration(e[2])}
      facts == UNION {{<<e[1], l>> : l \in LibFacts(e[2])} : e \in C}
  IN {<<J.src, J.dst>> : J \in insts("assign") \cup insts("alias")}
       \cup {<<J.dst, J.src>> : J \in insts("alias")}
       \cup UNION {P(J.src) \X {J.dst} : J \in insts("load")}
       \cup UNION {{J.src} \X P(J.dst) : J \in insts("store")}
       \cup UNION {P(J.src) \X P(J.dst) : J \in insts("copy")}
       \cup UNION {bindings(e[1], e[2]) : e \in known}
       \cup {<<Return(e[2]), inst(e[1]).dst>> :
               e \in {k \in known : /\ Return(k[2]) # NoNode /\ ~isAllocWrapper(k[2])
                                    /\ inst(k[1]).dst # NoNode}}
       \cup {<<inst(k[1]).args[k[2][1]], inst(k[1]).dst>> : k \in {x \in facts : x[2][2] = 0}}
RECURSIVE Least(_, _, _)
Least(R, C, F) ==
  LET insts == {inst(c) : c \in allInsts(F)}
      P(v) == {o \in Node : <<v, o>> \in R}
      ownSites == {c \in C : isAllocWrapper(c[2]) \/ isHeapAllocatingFunction(c[2])}
      R2 == R \cup {<<J.dst, J.src>> : J \in {x \in insts : x.op = "object"}}
              \cup UNION {{<<f, f>> : f \in ToSet(J.args) \cap Func} : J \in insts}
              \cup {<<J.src, J.src>> : J \in {x \in insts : x.op # "call" /\ x.src \in Func}}
              \cup {<<inst(c[1]).dst, inst(c[1]).object>> : c \in ownSites}
              \cup UNION {{<<e[2], o>> : o \in P(e[1])} : e \in inclusions(R, C, F)}
      calls == {c \in allInsts(F) : inst(c).op = "call"}
      C2 == C \cup UNION {{c} \X (IF inst(c).src \in Func THEN {inst(c).src}
                                 ELSE UNION {targetsAt(o, c) : o \in P(inst(c).src)}) :
                          c \in calls}
      unknown == {c \in C : isDeclaration(c[2]) /\ ~hasLibFacts(c[2])}
      F2 == F \cup {f \in {c[2] : c \in C}
                         \cup (IF Sound THEN UNION {UNION {P(v) : v \in ToSet(inst(c[1]).args)} :
                                                    c \in unknown} \cap Func
                               ELSE {}) : ~isDeclaration(f)}
  IN IF R2 = R /\ C2 = C /\ F2 = F THEN [pts |-> R, calls |-> C, reached |-> F]
     ELSE Least(R2, C2, F2)

(***************************************************************************)
(* "Andersen-style inclusion-based points-to analysis that co-refines the  *)
(* call graph and points-to sets in a single fixpoint": the result is the  *)
(* least solution, with exactly its calls, functions and aliases, and      *)
(* merging cycles costs no precision.                                      *)
(***************************************************************************)
LeastSolution ==
  pc = "done" =>
    LET L == Least({<<p, ArgObject(p)>> : p \in ToSet(Params("main"))}, {}, {"main"})
        P(v) == {o \in Node : <<v, o>> \in L.pts}
    IN /\ \A v \in Node : pts(v) = P(v)
       /\ \A v \in Node : aliasSet(v) = {w \in Node : P(v) \cap P(w) # {}}
       /\ ConnectedCallees = L.calls /\ Queued = L.reached
=============================================================================
