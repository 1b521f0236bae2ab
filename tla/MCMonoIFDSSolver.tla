-------------------------- MODULE MCMonoIFDSSolver --------------------------
(***************************************************************************)
(* Instances of MonoIFDSSolver, and the least solution of the equations to *)
(* compare with.                                                           *)
(*                                                                         *)
(* Program "Mutual":                                                       *)
(*   main: m1 b := source; m2 b := f(b); m3 copy(a, b); m4 sink(a); m5     *)
(*   f(a): f1 if ? { f2 b := g(a) } f3 sink(b); f4 return a                *)
(*   g(a): g1 b := h(a); g2 if ? { g3 b := k(b) } else { g4 log(a) } g5    *)
(*         return b                                                        *)
(*   k(a): k1 b := f(a); k2 return b                                       *)
(*   h(a): h1 b := a; h2 return b                                          *)
(* f, g and k are one component, with h below and main above; copy has a   *)
(* special summary; log is a declaration and a sink.  Program "Self":      *)
(*   s(a, b): s1 if ? { s2 s(b, 0) } s3 sink(a); s4                        *)
(*   top: t1 b := source; t2 call s(0, b); t3                              *)
(***************************************************************************)
EXTENDS MonoIFDSSolver

CONSTANT Programs

MCFact == {"0", "a", "b"}
MCZero == "0"

MutualNodes == {"m1", "m2", "m3", "m4", "m5", "f1", "f2", "f3", "f4",
                "g1", "g2", "g3", "g4", "g5", "h1", "h2", "k1", "k2"}
SelfNodes == {"s1", "s2", "s3", "s4", "t1", "t2", "t3"}

MCNode == (IF "Mutual" \in Programs THEN MutualNodes ELSE {})
            \cup (IF "Self" \in Programs THEN SelfNodes ELSE {})
FunctionOfNode ==
  [n \in MutualNodes \cup SelfNodes |->
     CASE n \in {"m1", "m2", "m3", "m4", "m5"} -> "main"
       [] n \in {"f1", "f2", "f3", "f4"} -> "f"
       [] n \in {"g1", "g2", "g3", "g4", "g5"} -> "g"
       [] n \in {"h1", "h2"} -> "h" [] n \in {"k1", "k2"} -> "k"
       [] n \in {"s1", "s2", "s3", "s4"} -> "s"
       [] OTHER -> "top"]
MCFunOf(n) == FunctionOfNode[n]
MCFun == {FunctionOfNode[n] : n \in MCNode}
           \cup (IF "Mutual" \in Programs THEN {"copy", "log"} ELSE {})
MCStartPoints(f) == {n \in {"m1", "f1", "g1", "h1", "k1", "s1", "t1"} : MCFunOf(n) = f}
MCExitInst == MCNode \cap {"m5", "f4", "g5", "h2", "k2", "s4", "t3"}
MCCallSite == MCNode \cap {"m2", "m3", "f2", "g1", "g3", "g4", "k1", "s2", "t2"}

Succs == [n \in MutualNodes \cup SelfNodes |->
  CASE n = "m1" -> {"m2"} [] n = "m2" -> {"m3"} [] n = "m3" -> {"m4"}
    [] n = "m4" -> {"m5"}
    [] n = "f1" -> {"f2", "f3"} [] n = "f2" -> {"f3"} [] n = "f3" -> {"f4"}
    [] n = "g1" -> {"g2"} [] n = "g2" -> {"g3", "g4"} [] n = "g3" -> {"g5"}
    [] n = "g4" -> {"g5"} [] n = "h1" -> {"h2"} [] n = "k1" -> {"k2"}
    [] n = "s1" -> {"s2", "s3"} [] n = "s2" -> {"s3"} [] n = "s3" -> {"s4"}
    [] n = "t1" -> {"t2"} [] n = "t2" -> {"t3"}
    [] OTHER -> {}]
MCSuccsOf(n) == Succs[n]
MCCalleesOf(n) ==
  CASE n \in {"m2", "k1"} -> {"f"} [] n = "g3" -> {"k"} [] n = "f2" -> {"g"} [] n = "g1" -> {"h"}
    [] n = "m3" -> {"copy"} [] n = "g4" -> {"log"}
    [] n \in {"s2", "t2"} -> {"s"} [] OTHER -> {}

MCNodesInSCC ==
  (IF "Mutual" \in Programs THEN <<{"h"}, {"log"}, {"f", "g", "k"}, {"copy"}, {"main"}>> ELSE <<>>)
    \o (IF "Self" \in Programs THEN <<{"s"}, {"top"}>> ELSE <<>>)

MCinitialSeeds(f) ==
  CASE f \in {"main", "top", "copy", "log"} -> {} [] f = "s" -> {"a", "b"} [] OTHER -> {"a"}
MCnormalFlow(n, d) == IF n = "h1" /\ d = "a" THEN {"a", "b"} ELSE {d}
\* The facts at the call that become fact s of the callee.
MCinvCallFlow(c, s) ==
  CASE s = "0" -> {"0"}
    [] c \in {"m2", "g3", "s2"} /\ s = "a" -> {"b"}
    [] c \in {"f2", "g1", "k1"} /\ s = "a" -> {"a"}
    [] c = "t2" /\ s = "b" -> {"b"}
    [] OTHER -> {}
MCreturnFlow(c, d) ==
  CASE d = "a" /\ c \in {"m2", "k1"} -> {"b"}
    [] d = "b" /\ c \in {"f2", "g1", "g3"} -> {"b"}
    [] d = "0" -> {"0"}
    [] OTHER -> {}
MCcallToRetFlow(c, d) ==
  CASE d = "b" -> IF c \in {"m2", "f2", "g1", "g3", "k1"} THEN {} ELSE {d}
    [] d = "a" -> IF c = "m3" THEN {} ELSE {d}
    [] OTHER -> {d}
MChasSummaryFlow(c, g) == g = "copy"
MCsummaryFlow(c, g, d) == IF d = "b" THEN {"a"} ELSE {}
MCgenerated(n) == IF n \in {"m1", "t1"} THEN {"b"} ELSE {}
MCsinks(n) == CASE n = "f3" -> {"b"} [] n \in {"m4", "g4", "s3"} -> {"a"}
                [] OTHER -> {}
MCshouldBeInSummary(d, n) ==
  \/ d = "0" \/ FunctionOfNode[n] = "s"
  \/ d = (IF FunctionOfNode[n] = "f" THEN "a" ELSE "b")

-----------------------------------------------------------------------------
(***************************************************************************)
(* The least solution of the equations.                                    *)
(***************************************************************************)
RECURSIVE LfpNodes(_), LfpFlows(_, _), LfpSinks(_, _, _)
LfpNodes(N) == IF Reaches(N) = N THEN N ELSE LfpNodes(Reaches(N))
LfpFlows(N, R) == IF Flows(N, R) = R THEN R ELSE LfpFlows(N, Flows(N, R))
LfpSinks(N, R, L) == IF Sinks(N, R, L) = L THEN L ELSE LfpSinks(N, R, Sinks(N, R, L))
RefNodes == LfpNodes({})
RefFlows == LfpFlows(RefNodes, {})
RefSinks == LfpSinks(RefNodes, RefFlows, {})

(***************************************************************************)
(* solve() computes the least solution: the summaries, the sinks each      *)
(* function reaches from each of its source facts, and the leaks           *)
(* reported, whatever the order of blocks, the rescheduling and the        *)
(* skipping of analysed versions.                                          *)
(***************************************************************************)
MonoResults ==
  pc = "done" =>
    /\ \A f \in Fun : /\ EndSummary[f] = ExitEnv(RefNodes, RefFlows, f)
                      /\ LeakIf[f] = notFromZero(LeaksIn(RefSinks, f))
    /\ Leaks = UNION {reportsOf(LeaksIn(RefSinks, f)) : f \in Fun}

(***************************************************************************)
(* "Invokes the given callback for each LeakFact for which the solver      *)
(* should later call onResult(Inst, LeakFact), if LeakFacts holds at Inst" *)
(* (MonoIFDSProblem.h, requestResultCallback): every sink that a tainted   *)
(* fact reaches is reported.                                               *)
(***************************************************************************)
EveryLeakReported ==
  pc = "done" => UNION {reportsOf(LeaksIn(RefSinks, f)) : f \in Fun} \subseteq Leaks
=============================================================================
