------------------------------ MODULE SparseCFG ------------------------------
(***************************************************************************)
(* Sparse control flow for one value: buildSparseCFG                       *)
(* (lib/PhasarLLVM/ControlFlow/SVFGCache.cpp) computes, for an             *)
(* instruction, the next one that may use the value; IDESolver jumps there *)
(* directly (getNextUserOrNull, NextUser in module IDESolver).             *)
(* advanceToNextUser (SparseLLVMControlFlow.cpp) answers the same question *)
(* by a local scan.                                                        *)
(*                                                                         *)
(* A control-flow graph gives each instruction its successors in order and *)
(* names the terminators of basic blocks.  Which instructions may use the  *)
(* value is any set (operands, aliases and calls decide it in the code).   *)
(***************************************************************************)
EXTENDS Integers, Sequences, FiniteSets

CONSTANTS CFGs, \* the graphs: [entry, exits, terms, succs] over nodes
          Null  \* nullptr

\* What LLVM's verifier guarantees of a function: its entry block has no
\* predecessors, only the last instruction of a block branches, and control
\* enters a block only at its first instruction.
ASSUME CFGAssumption ==
  \A g \in CFGs :
    LET nodes == DOMAIN g.succs IN
    /\ IsFiniteSet(nodes) /\ Null \notin nodes /\ g.entry \in nodes
    /\ \A n \in nodes : /\ g.succs[n] \in Seq(nodes)
                        /\ \A i \in 1 .. Len(g.succs[n]) : g.succs[n][i] # g.entry
                        /\ n \notin g.terms =>
                             /\ Len(g.succs[n]) = 1
                             /\ \A m \in nodes \ {n} : \A i \in 1 .. Len(g.succs[m]) :
                                  g.succs[m][i] # g.succs[n][1]

VARIABLES cfg, Users,  \* the function and the uses of Val, fixed
          WL,          \* vector of pairs <<From, To>>, popped at the back
          VGraph,      \* From -> next user, or Null when ambiguous
          Handled

vars == <<cfg, Users, WL, VGraph, Handled>>

Nodes == DOMAIN cfg.succs
SuccsOf(n) == {cfg.succs[n][i] : i \in 1 .. Len(cfg.succs[n])}
PredsOf(n) == {m \in Nodes : n \in SuccsOf(m)}

\* First in the function: first in a block that has no predecessors.
isStartInst(n) == PredsOf(n) = {}
shouldKeepInst(n) == n \in Users \/ n \in cfg.exits \/ isStartInst(n)

Edges(from, n) == [i \in 1 .. Len(cfg.succs[n]) |-> <<from, cfg.succs[n][i]>>]

Init ==
  /\ cfg \in CFGs
  /\ Users \in SUBSET DOMAIN cfg.succs
  /\ WL = Edges(cfg.entry, cfg.entry)
  /\ VGraph = <<>>
  /\ Handled = {}

\* Mutant: the last target wins.
recordUser_Last(from, to) ==
  [n \in DOMAIN VGraph \cup {from} |-> IF n = from THEN to ELSE VGraph[n]]

\* try_emplace; a second, different target makes the entry ambiguous.
recordUser(from, to) ==
  [n \in DOMAIN VGraph \cup {from} |->
     IF n # from THEN VGraph[n]
     ELSE IF from \in DOMAIN VGraph /\ VGraph[from] # to THEN Null ELSE to]

\* Mutants: the search goes on from To even when it is skipped; into
\* instructions that have been handled.
buildSparseCFG_AlwaysTo ==
  /\ WL # <<>>
  /\ LET from == WL[Len(WL)][1]
         to == WL[Len(WL)][2]
         rest == SubSeq(WL, 1, Len(WL) - 1)
     IN /\ VGraph' = IF shouldKeepInst(to) THEN recordUser(from, to) ELSE VGraph
        /\ Handled' = Handled \cup {to}
        /\ WL' = IF to \in Handled THEN rest ELSE rest \o Edges(to, to)
  /\ UNCHANGED <<cfg, Users>>

buildSparseCFG_Again ==
  /\ WL # <<>>
  /\ LET from == WL[Len(WL)][1]
         to == WL[Len(WL)][2]
         rest == SubSeq(WL, 1, Len(WL) - 1)
         curr == IF shouldKeepInst(to) THEN to ELSE from
     IN /\ VGraph' = IF shouldKeepInst(to) THEN recordUser(from, to) ELSE VGraph
        /\ Handled' = Handled \cup {to}
        /\ WL' = rest \o Edges(curr, to)
  /\ UNCHANGED <<cfg, Users>>

buildSparseCFG ==
  /\ WL # <<>>
  /\ LET from == WL[Len(WL)][1]
         to == WL[Len(WL)][2]
         rest == SubSeq(WL, 1, Len(WL) - 1)
         curr == IF shouldKeepInst(to) THEN to ELSE from
     IN /\ VGraph' = IF shouldKeepInst(to) THEN recordUser(from, to) ELSE VGraph
        /\ Handled' = Handled \cup {to}
        /\ WL' = IF to \in Handled THEN rest ELSE rest \o Edges(curr, to)
  /\ UNCHANGED <<cfg, Users>>

Next == buildSparseCFG

\* The fixpoint iteration does not block.
Spec == Init /\ [][Next]_vars /\ WF_vars(Next)

-----------------------------------------------------------------------------
\* Mutant: a branch is followed into its first successor.
advanceToNextUser_First(succ) ==
  LET step(n) == cfg.succs[n][1]
      scan[k \in 0 .. Cardinality(Nodes)] ==
        IF k = 0 THEN succ
        ELSE IF shouldKeepInst(scan[k - 1]) THEN scan[k - 1]
             ELSE step(scan[k - 1])
  IN scan[Cardinality(Nodes)]

\* The scan from succ on: within a block, and into the only successor block
\* as long as that is not a merge point.  A state of the scan is the current
\* instruction and whether it is the answer.
stops(n) == shouldKeepInst(n) \/ (n \in cfg.terms /\ Len(cfg.succs[n]) # 1)

\* Mutant: the scan goes on behind a merge point.
scanStep_ThroughMerge(succ, x) ==
  LET step == cfg.succs[x[1]][1]
  IN IF x[2] THEN x ELSE <<step, stops(step)>>

scanStep(succ, x) ==
  LET n == x[1]
      step == cfg.succs[n][1]
      merges == /\ n \in cfg.terms
                /\ (step = succ \/ Cardinality(PredsOf(step)) # 1)
  IN IF x[2] THEN x ELSE <<step, merges \/ stops(step)>>

\* As many steps of the scan as there are instructions.
scanned(succ) ==
  LET scan[k \in 0 .. Cardinality(Nodes)] ==
        IF k = 0 THEN <<succ, stops(succ)>> ELSE scanStep(succ, scan[k - 1])
  IN scan[Cardinality(Nodes)]

advanceToNextUser(succ) == scanned(succ)[1]

-----------------------------------------------------------------------------
(***************************************************************************)
(* Reference: what is found first along the paths that leave n.            *)
(***************************************************************************)
\* Instructions reached from the set S by passing only through skipped ones:
\* the least set that contains S and, of what it skips, the successors.
Within(S) ==
  LET Closed == {T \in SUBSET Nodes :
                   /\ S \subseteq T
                   /\ \A m \in T : shouldKeepInst(m) \/ SuccsOf(m) \subseteq T}
  IN {m \in Nodes : \A T \in Closed : m \in T}

NextUsers(n) == {m \in Within(SuccsOf(n)) : shouldKeepInst(m)}

SkippedMerges(n) == {m \in Within(SuccsOf(n)) :
                       ~shouldKeepInst(m) /\ Cardinality(PredsOf(m)) > 1}

\* The instructions the solver can ask about: kept and reachable.
Reachable ==
  LET Closed == {T \in SUBSET Nodes : /\ cfg.entry \in T
                                      /\ \A m \in T : SuccsOf(m) \subseteq T}
  IN {m \in Nodes : \A T \in Closed : m \in T}
Kept == {n \in Reachable : shouldKeepInst(n)}

TypeOK ==
  /\ cfg \in CFGs /\ Users \subseteq Nodes /\ Handled \subseteq Nodes
  /\ \A i \in 1 .. Len(WL) : WL[i] \in Nodes \X Nodes
  /\ DOMAIN VGraph \subseteq Nodes
  /\ \A n \in DOMAIN VGraph : VGraph[n] \in Nodes \cup {Null}

(***************************************************************************)
(* A jump never passes an instruction that may use the value, and never    *)
(* goes anywhere control flow does not (buildSparseCFG, at every step).    *)
(***************************************************************************)
NoInventedJump ==
  \A n \in DOMAIN VGraph :
    n \in Kept /\ (VGraph[n] # Null => VGraph[n] \in NextUsers(n))

(***************************************************************************)
(* Unless a merge point was skipped, the finished graph is exact: one next *)
(* user is recorded, several are ambiguous (buildSparseCFG, whatever the   *)
(* order in which paths are explored and cut off by Handled).              *)
(***************************************************************************)
ExactWithoutSkippedMerge ==
  WL = <<>> =>
    \A n \in Kept : SkippedMerges(n) = {} =>
      CASE NextUsers(n) = {} -> n \notin DOMAIN VGraph
        [] Cardinality(NextUsers(n)) = 1 ->
             n \in DOMAIN VGraph /\ VGraph[n] \in NextUsers(n)
        [] OTHER -> n \in DOMAIN VGraph /\ VGraph[n] = Null

(***************************************************************************)
(* The local scan stops, also in loops, and skips no use: after at most as *)
(* many steps as there are instructions it has its answer, and whatever    *)
(* can be found first from succ on can still be found first from there     *)
(* (advanceToNextUser).                                                    *)
(***************************************************************************)
AdvanceSkipsNoUser ==
  WL = <<>> =>
    \A n \in Reachable :
      /\ scanned(n)[2]
      /\ {m \in Within({n}) : shouldKeepInst(m)}
           = {m \in Within({advanceToNextUser(n)}) : shouldKeepInst(m)}

(***************************************************************************)
(* The iteration ends although the graph has loops (Handled).              *)
(***************************************************************************)
Terminates == <>(WL = <<>>)
=============================================================================
