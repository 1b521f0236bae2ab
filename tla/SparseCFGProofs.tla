--------------------------- MODULE SparseCFGProofs ---------------------------
(***************************************************************************)
(* Proofs about SparseCFG, for every finite control-flow graph and every   *)
(* set of uses.                                                            *)
(*                                                                         *)
(* That no jump is invented follows from what a worklist entry <<From, To>>*)
(* means: From is kept, and To is reached from it through skipped          *)
(* instructions.  That the graph is exact where no merge point is skipped  *)
(* needs more, because Handled cuts every second visit: the skipped        *)
(* instructions behind From then form a tree that only entries of From     *)
(* explore (OneOwner), from the moment that From itself is handled         *)
(* (Explored).                                                             *)
(***************************************************************************)
EXTENDS SparseCFG, FiniteSetTheorems, SequenceTheorems, WellFoundedInduction,
        TLAPS

-----------------------------------------------------------------------------
(***************************************************************************)
(* The graph.                                                              *)
(***************************************************************************)
\* The function under analysis is one of the graphs.
GraphOK == cfg \in CFGs /\ Users \subseteq Nodes

\* Nodes and their neighbours.
LEMMA GraphFacts ==
  ASSUME GraphOK
  PROVE  /\ IsFiniteSet(Nodes) /\ Null \notin Nodes /\ cfg.entry \in Nodes
         /\ \A n \in Nodes : /\ cfg.succs[n] \in Seq(Nodes)
                             /\ SuccsOf(n) \subseteq Nodes
                             /\ cfg.entry \notin SuccsOf(n)
                             /\ n \notin cfg.terms => Len(cfg.succs[n]) = 1
         /\ shouldKeepInst(cfg.entry)
<1>1. /\ IsFiniteSet(Nodes) /\ Null \notin Nodes /\ cfg.entry \in Nodes
      /\ \A n \in Nodes : /\ cfg.succs[n] \in Seq(Nodes)
                          /\ \A i \in 1 .. Len(cfg.succs[n]) : cfg.succs[n][i] # cfg.entry
                          /\ n \notin cfg.terms => Len(cfg.succs[n]) = 1
  BY CFGAssumption DEF GraphOK, Nodes
<1>2. \A n \in Nodes : SuccsOf(n) \subseteq Nodes /\ cfg.entry \notin SuccsOf(n)
  BY <1>1 DEF SuccsOf
<1>3. shouldKeepInst(cfg.entry)
  BY <1>2 DEF shouldKeepInst, isStartInst, PredsOf
<1> QED
  BY <1>1, <1>2, <1>3

\* Within(S) is the least set that contains S and is closed under skipping.
Skips(T) == \A m \in T : shouldKeepInst(m) \/ SuccsOf(m) \subseteq T

LEMMA WithinLeast ==
  ASSUME NEW S, NEW T \in SUBSET Nodes, S \subseteq T, Skips(T)
  PROVE  Within(S) \subseteq T
BY DEF Within, Skips

LEMMA WithinClosed ==
  ASSUME GraphOK, NEW S \in SUBSET Nodes
  PROVE  /\ Within(S) \subseteq Nodes /\ S \subseteq Within(S) /\ Skips(Within(S))
<1>1. Within(S) \subseteq Nodes /\ S \subseteq Within(S)
  BY DEF Within
<1>2. ASSUME NEW m \in Within(S), ~shouldKeepInst(m), NEW s \in SuccsOf(m)
      PROVE  s \in Within(S)
  <2>1. s \in Nodes
    BY <1>1, <1>2, GraphFacts
  <2>2. ASSUME NEW T \in SUBSET Nodes, S \subseteq T,
               \A x \in T : shouldKeepInst(x) \/ SuccsOf(x) \subseteq T
        PROVE  s \in T
    <3>1. m \in T
      BY <1>2, <2>2 DEF Within
    <3> QED
      BY <1>2, <2>2, <3>1
  <2> QED
    BY <2>1, <2>2 DEF Within
<1> QED
  BY <1>1, <1>2 DEF Skips

\* Reachable is the least set with the entry that is closed under control flow.
LEMMA ReachableLeast ==
  ASSUME NEW T \in SUBSET Nodes, cfg.entry \in T, \A m \in T : SuccsOf(m) \subseteq T
  PROVE  Reachable \subseteq T
BY DEF Reachable

LEMMA ReachableClosed ==
  ASSUME GraphOK
  PROVE  /\ Reachable \subseteq Nodes /\ cfg.entry \in Reachable
         /\ \A m \in Reachable : SuccsOf(m) \subseteq Reachable
<1>1. Reachable \subseteq Nodes /\ cfg.entry \in Reachable
  BY GraphFacts DEF Reachable
<1>2. ASSUME NEW m \in Reachable, NEW s \in SuccsOf(m)
      PROVE  s \in Reachable
  <2>1. s \in Nodes
    BY <1>1, <1>2, GraphFacts
  <2>2. ASSUME NEW T \in SUBSET Nodes, cfg.entry \in T,
               \A x \in T : SuccsOf(x) \subseteq T
        PROVE  s \in T
    <3>1. m \in T
      BY <1>2, <2>2 DEF Reachable
    <3> QED
      BY <1>2, <2>2, <3>1
  <2> QED
    BY <2>1, <2>2 DEF Reachable
<1> QED
  BY <1>1, <1>2

\* What is found from a reachable instruction is reachable.
LEMMA WithinReachable ==
  ASSUME GraphOK, NEW n \in Reachable
  PROVE  Within(SuccsOf(n)) \subseteq Reachable
<1>1. Reachable \in SUBSET Nodes /\ SuccsOf(n) \subseteq Reachable /\ Skips(Reachable)
  BY ReachableClosed DEF Skips
<1> QED
  BY <1>1, WithinLeast

-----------------------------------------------------------------------------
(***************************************************************************)
(* The worklist.                                                           *)
(***************************************************************************)
Pending == {WL[i] : i \in 1 .. Len(WL)}

WorkOK ==
  /\ WL \in Seq(Nodes \X Nodes)
  /\ \A p \in Pending : p[1] \in Kept /\ p[2] \in Within(SuccsOf(p[1]))

\* The edges that are pushed.
LEMMA EdgesFacts ==
  ASSUME GraphOK, NEW from \in Nodes, NEW n \in Nodes
  PROVE  /\ Edges(from, n) \in Seq(Nodes \X Nodes)
         /\ {Edges(from, n)[i] : i \in 1 .. Len(Edges(from, n))}
              = {<<from, s>> : s \in SuccsOf(n)}
<1> DEFINE s == cfg.succs[n]
<1>1. s \in Seq(Nodes) /\ Len(s) \in Nat
  BY GraphFacts
<1>2. Edges(from, n) = [i \in 1 .. Len(s) |-> <<from, s[i]>>]
  BY DEF Edges
<1>3. \A i \in 1 .. Len(s) : s[i] \in Nodes
  BY <1>1
<1>4. SuccsOf(n) = {s[i] : i \in 1 .. Len(s)}
  BY DEF SuccsOf
<1> HIDE DEF s
<1>5. Edges(from, n) \in Seq(Nodes \X Nodes) /\ Len(Edges(from, n)) = Len(s)
  BY <1>1, <1>2, <1>3
<1> QED
  BY <1>2, <1>4, <1>5

\* The elements of a sequence without its last one, and of an extended one.
LEMMA FrontFacts ==
  ASSUME NEW S, NEW s \in Seq(S), Len(s) >= 1
  PROVE  /\ SubSeq(s, 1, Len(s) - 1) \in Seq(S)
         /\ Len(SubSeq(s, 1, Len(s) - 1)) = Len(s) - 1
         /\ \A i \in 1 .. (Len(s) - 1) : SubSeq(s, 1, Len(s) - 1)[i] = s[i]
<1>1. Len(s) \in Nat /\ \A i \in 1 .. (Len(s) - 1) : s[i] \in S
  BY LenProperties, ElementOfSeq
<1> DEFINE n == Len(s) - 1
<1>2. n \in Nat /\ \A i \in 1 .. n : s[i] \in S
  BY <1>1
<1> HIDE DEF n
<1>3. /\ SubSeq(s, 1, n) \in Seq(S)
      /\ Len(SubSeq(s, 1, n)) = IF 1 <= n THEN n - 1 + 1 ELSE 0
      /\ \A i \in 1 .. n - 1 + 1 : SubSeq(s, 1, n)[i] = s[1 + i - 1]
  BY ONLY <1>2, SubSeqProperties
<1>4. /\ SubSeq(s, 1, n) \in Seq(S) /\ Len(SubSeq(s, 1, n)) = n
      /\ \A i \in 1 .. n : SubSeq(s, 1, n)[i] = s[i]
  BY <1>2, <1>3
<1> QED
  BY <1>4 DEF n

LEMMA AppendedFacts ==
  ASSUME NEW S, NEW s \in Seq(S), NEW t \in Seq(S)
  PROVE  /\ s \o t \in Seq(S) /\ Len(s) \in Nat /\ Len(t) \in Nat
         /\ Len(s \o t) = Len(s) + Len(t)
         /\ \A i \in 1 .. Len(s) : (s \o t)[i] = s[i]
         /\ \A i \in 1 .. Len(t) : (s \o t)[Len(s) + i] = t[i]
<1>1. Len(s) \in Nat /\ Len(t) \in Nat
  BY LenProperties
<1>2. s \o t \in Seq(S) /\ Len(s \o t) = Len(s) + Len(t)
  BY ConcatProperties
<1>3. \A i \in 1 .. (Len(s) + Len(t)) :
        (s \o t)[i] = IF i <= Len(s) THEN s[i] ELSE t[i - Len(s)]
  BY ConcatProperties
<1>4. ASSUME NEW i \in 1 .. Len(t) PROVE (s \o t)[Len(s) + i] = t[i]
  <2>1. Len(s) + i \in 1 .. (Len(s) + Len(t)) /\ ~(Len(s) + i <= Len(s))
        /\ (Len(s) + i) - Len(s) = i
    BY <1>1
  <2> QED
    BY <1>3, <2>1
<1> QED
  BY <1>1, <1>2, <1>3, <1>4

\* What one pop does to the worklist.
LEMMA PopFacts ==
  ASSUME GraphOK, WL \in Seq(Nodes \X Nodes), buildSparseCFG
  PROVE  \E from, to \in Nodes :
           LET curr == IF shouldKeepInst(to) THEN to ELSE from IN
           /\ <<from, to>> \in Pending
           /\ VGraph' = IF shouldKeepInst(to) THEN recordUser(from, to) ELSE VGraph
           /\ Handled' = Handled \cup {to}
           /\ WL' \in Seq(Nodes \X Nodes)
           /\ \A p \in Pending : p = <<from, to>> \/ p \in Pending'
           /\ \A p \in Pending' : \/ p \in Pending
                                  \/ to \notin Handled /\ \E s \in SuccsOf(to) : p = <<curr, s>>
           /\ to \notin Handled => \A s \in SuccsOf(to) : <<curr, s>> \in Pending'
<1> DEFINE L == Len(WL)
           from == WL[L][1]
           to == WL[L][2]
           rest == SubSeq(WL, 1, L - 1)
           curr == IF shouldKeepInst(to) THEN to ELSE from
<1>1. L \in Nat /\ L >= 1 /\ WL[L] \in Nodes \X Nodes
  BY DEF buildSparseCFG
<1>2. from \in Nodes /\ to \in Nodes /\ WL[L] = <<from, to>> /\ curr \in Nodes
  BY <1>1
<1>3. /\ VGraph' = IF shouldKeepInst(to) THEN recordUser(from, to) ELSE VGraph
      /\ Handled' = Handled \cup {to}
      /\ WL' = IF to \in Handled THEN rest ELSE rest \o Edges(curr, to)
  BY DEF buildSparseCFG
<1> HIDE DEF from, to, curr
<1>4. /\ rest \in Seq(Nodes \X Nodes) /\ Len(rest) = L - 1
      /\ \A i \in 1 .. (L - 1) : rest[i] = WL[i]
  BY <1>1, FrontFacts
<1>5. <<from, to>> \in Pending
  BY <1>1, <1>2 DEF Pending
<1>6. CASE to \in Handled
  <2>1. WL' = rest
    BY <1>3, <1>6
  <2>2. WL' \in Seq(Nodes \X Nodes)
    BY <1>4, <2>1
  <2>3. \A p \in Pending : p = <<from, to>> \/ p \in Pending'
    <3> SUFFICES ASSUME NEW i \in 1 .. L
                 PROVE  WL[i] = <<from, to>> \/ WL[i] \in Pending'
      BY DEF Pending
    <3>1. CASE i = L
      BY <1>2, <3>1
    <3>2. CASE i \in 1 .. (L - 1)
      BY <1>4, <2>1, <3>2 DEF Pending
    <3> QED
      BY <1>1, <3>1, <3>2
  <2>4. \A p \in Pending' : p \in Pending
    BY <1>1, <1>4, <2>1 DEF Pending
  <2> QED
    BY <1>2, <1>3, <1>5, <1>6, <2>2, <2>3, <2>4 DEF curr
<1>7. CASE to \notin Handled
  <2> DEFINE E == Edges(curr, to)
  <2>1. E \in Seq(Nodes \X Nodes) /\ {E[i] : i \in 1 .. Len(E)} = {<<curr, s>> : s \in SuccsOf(to)}
    BY <1>2, EdgesFacts
  <2>2. WL' = rest \o E
    BY <1>3, <1>7
  <2> HIDE DEF E, rest
  <2>3. /\ WL' \in Seq(Nodes \X Nodes) /\ Len(WL') = (L - 1) + Len(E) /\ Len(E) \in Nat
        /\ \A i \in 1 .. (L - 1) : WL'[i] = WL[i]
        /\ \A i \in 1 .. Len(E) : WL'[(L - 1) + i] = E[i]
    <3> DEFINE S == Nodes \X Nodes
    <3>1. Len(rest) = L - 1 /\ rest \in Seq(S) /\ E \in Seq(S)
      BY <1>4, <2>1
    <3> HIDE DEF S
    <3>2. /\ rest \o E \in Seq(S) /\ Len(rest \o E) = Len(rest) + Len(E) /\ Len(E) \in Nat
          /\ \A i \in 1 .. Len(rest) : (rest \o E)[i] = rest[i]
          /\ \A i \in 1 .. Len(E) : (rest \o E)[Len(rest) + i] = E[i]
      <4>1. rest \o E \in Seq(S) /\ Len(rest \o E) = Len(rest) + Len(E) /\ Len(E) \in Nat
        BY <3>1, AppendedFacts
      <4>2. \A i \in 1 .. Len(rest) : (rest \o E)[i] = rest[i]
        BY <3>1, AppendedFacts
      <4>3. \A i \in 1 .. Len(E) : (rest \o E)[Len(rest) + i] = E[i]
        BY <3>1, AppendedFacts
      <4> QED
        BY <4>1, <4>2, <4>3
    <3> USE DEF S
    <3>3. WL' \in Seq(Nodes \X Nodes) /\ Len(WL') = Len(rest) + Len(E) /\ Len(E) \in Nat
      BY <2>2, <3>2
    <3>4. \A i \in 1 .. Len(rest) : WL'[i] = WL[i]
      <4> SUFFICES ASSUME NEW i \in 1 .. Len(rest) PROVE WL'[i] = WL[i]
        OBVIOUS
      <4>1. (rest \o E)[i] = rest[i]
        BY <3>2
      <4>2. rest[i] = WL[i]
        BY <1>4
      <4> QED
        BY <2>2, <4>1, <4>2
    <3>5. \A i \in 1 .. Len(E) : WL'[Len(rest) + i] = E[i]
      BY <2>2, <3>2, Zenon
    <3> QED
      BY <3>1, <3>3, <3>4, <3>5
  <2>4. \A p \in Pending : p = <<from, to>> \/ p \in Pending'
    <3> SUFFICES ASSUME NEW i \in 1 .. L
                 PROVE  WL[i] = <<from, to>> \/ WL[i] \in Pending'
      BY DEF Pending
    <3>1. CASE i = L
      BY <1>2, <3>1
    <3>2. CASE i \in 1 .. (L - 1)
      <4>1. i \in 1 .. Len(WL') /\ WL'[i] = WL[i]
        BY <1>1, <2>3, <3>2
      <4> QED
        BY <4>1 DEF Pending
    <3> QED
      BY <1>1, <3>1, <3>2
  <2>5. ASSUME NEW i \in 1 .. Len(E) PROVE E[i] \in Pending'
    <3>1. (L - 1) + i \in 1 .. Len(WL') /\ WL'[(L - 1) + i] = E[i]
      BY <1>1, <2>3
    <3> QED
      BY <3>1 DEF Pending
  <2>6. \A s \in SuccsOf(to) : <<curr, s>> \in Pending'
    BY <2>1, <2>5
  <2>7. ASSUME NEW p \in Pending'
        PROVE  p \in Pending \/ \E s \in SuccsOf(to) : p = <<curr, s>>
    <3>1. PICK i \in 1 .. Len(WL') : p = WL'[i]
      BY DEF Pending
    <3>2. CASE i \in 1 .. (L - 1)
      <4>1. i \in 1 .. Len(WL) /\ p = WL[i]
        BY <1>1, <2>3, <3>1, <3>2
      <4> QED
        BY <4>1 DEF Pending
    <3>3. CASE i \notin 1 .. (L - 1)
      <4>1. i - (L - 1) \in 1 .. Len(E) /\ i = (L - 1) + (i - (L - 1))
        BY <1>1, <2>3, <3>3
      <4>2. p = E[i - (L - 1)]
        BY <2>3, <3>1, <4>1
      <4> QED
        BY <2>1, <4>1, <4>2
    <3> QED
      BY <3>2, <3>3
  <2> QED
    BY <1>2, <1>3, <1>5, <1>7, <2>3, <2>4, <2>6, <2>7 DEF curr
<1> QED
  BY <1>6, <1>7

-----------------------------------------------------------------------------
(***************************************************************************)
(* No jump is invented.                                                    *)
(***************************************************************************)
\* An entry of the graph is a next user; an ambiguous one had two.
JumpOK ==
  \A n \in DOMAIN VGraph :
    /\ n \in Kept
    /\ VGraph[n] # Null => VGraph[n] \in NextUsers(n)
    /\ VGraph[n] = Null => \E a, b \in NextUsers(n) : a # b

JumpInv == GraphOK /\ Handled \subseteq Nodes /\ WorkOK /\ JumpOK

\* The graph and the uses are fixed, and so is all that is defined from them.
LEMMA SameGraph ==
  ASSUME UNCHANGED <<cfg, Users>>
  PROVE  /\ Nodes' = Nodes /\ Kept' = Kept /\ GraphOK' = GraphOK
         /\ \A n : shouldKeepInst(n)' = shouldKeepInst(n)
         /\ \A n : SuccsOf(n)' = SuccsOf(n)
         /\ \A n : PredsOf(n)' = PredsOf(n)
         /\ \A S : Within(S)' = Within(S)
         /\ \A n : NextUsers(n)' = NextUsers(n)
         /\ \A n : SkippedMerges(n)' = SkippedMerges(n)
         /\ Reachable' = Reachable
<1>1. cfg' = cfg /\ Users' = Users
  OBVIOUS
<1>2. Nodes' = Nodes
  BY <1>1 DEF Nodes
<1>3. \A n : SuccsOf(n)' = SuccsOf(n)
  BY <1>1 DEF SuccsOf
<1>4. \A n : PredsOf(n)' = PredsOf(n)
  BY <1>2, <1>3 DEF PredsOf
<1>5. \A n : shouldKeepInst(n)' = shouldKeepInst(n)
  BY <1>1, <1>4 DEF shouldKeepInst, isStartInst
<1>6. \A S : Within(S)' = Within(S)
  BY <1>2, <1>3, <1>5 DEF Within
<1>7. Reachable' = Reachable
  BY <1>1, <1>2, <1>3 DEF Reachable
<1>8. Kept' = Kept
  BY <1>5, <1>7 DEF Kept
<1>9. \A n : NextUsers(n)' = NextUsers(n)
  BY <1>3, <1>5, <1>6 DEF NextUsers
<1>10. \A n : SkippedMerges(n)' = SkippedMerges(n)
  BY <1>3, <1>4, <1>5, <1>6 DEF SkippedMerges
<1>11. GraphOK' = GraphOK
  BY <1>1, <1>2 DEF GraphOK
<1> QED
  BY <1>2, <1>3, <1>4, <1>5, <1>6, <1>7, <1>8, <1>9, <1>10, <1>11

\* What is pushed with To is found from the instruction it is pushed for.
LEMMA PushedFound ==
  ASSUME GraphOK, NEW from \in Kept, NEW to \in Within(SuccsOf(from)),
         NEW s \in SuccsOf(to)
  PROVE  LET curr == IF shouldKeepInst(to) THEN to ELSE from
         IN to \in Nodes /\ curr \in Kept /\ s \in Within(SuccsOf(curr))
<1>1. from \in Reachable /\ from \in Nodes /\ SuccsOf(from) \in SUBSET Nodes
  BY ReachableClosed, GraphFacts DEF Kept
<1>2. to \in Reachable /\ to \in Nodes
  BY <1>1, WithinReachable, ReachableClosed
<1>3. CASE shouldKeepInst(to)
  <2>1. SuccsOf(to) \in SUBSET Nodes
    BY <1>2, GraphFacts
  <2>2. s \in Within(SuccsOf(to))
    BY <2>1, WithinClosed
  <2> QED
    BY <1>2, <1>3, <2>2 DEF Kept
<1>4. CASE ~shouldKeepInst(to)
  <2>1. Skips(Within(SuccsOf(from)))
    BY <1>1, WithinClosed
  <2>2. s \in Within(SuccsOf(from))
    BY <1>4, <2>1 DEF Skips
  <2> QED
    BY <1>2, <1>4, <2>2
<1> QED
  BY <1>3, <1>4

\* A next user that is recorded.
LEMMA RecordOK ==
  ASSUME GraphOK, JumpOK, NEW from \in Kept, NEW to \in NextUsers(from),
         NEW n \in DOMAIN recordUser(from, to)
  PROVE  LET v == recordUser(from, to)[n]
         IN /\ n \in Kept
            /\ v # Null => v \in NextUsers(n)
            /\ v = Null => \E a, b \in NextUsers(n) : a # b
<1>1. n \in DOMAIN VGraph \cup {from}
  BY DEF recordUser
<1>2. CASE n # from
  <2>1. n \in DOMAIN VGraph /\ recordUser(from, to)[n] = VGraph[n]
    BY <1>1, <1>2 DEF recordUser
  <2> QED
    BY <2>1 DEF JumpOK
<1>3. CASE n = from /\ ~(from \in DOMAIN VGraph /\ VGraph[from] # to)
  <2>1. recordUser(from, to)[n] = to
    BY <1>1, <1>3 DEF recordUser
  <2>2. to # Null
    <3>1. from \in Nodes /\ SuccsOf(from) \in SUBSET Nodes
      BY ReachableClosed, GraphFacts DEF Kept
    <3> QED
      BY <3>1, WithinClosed, GraphFacts DEF NextUsers
  <2> QED
    BY <1>3, <2>1, <2>2
<1>4. CASE n = from /\ from \in DOMAIN VGraph /\ VGraph[from] # to
  <2>1. recordUser(from, to)[n] = Null
    BY <1>1, <1>4 DEF recordUser
  <2>2. \E a, b \in NextUsers(from) : a # b
    BY <1>4 DEF JumpOK
  <2> QED
    BY <1>4, <2>1, <2>2
<1> QED
  BY <1>2, <1>3, <1>4

\* The initial state.
LEMMA InitJump ==
  ASSUME Init
  PROVE  JumpInv
<1>1. GraphOK /\ Handled \subseteq Nodes
  BY DEF Init, GraphOK, Nodes
<1>2. cfg.entry \in Nodes /\ cfg.entry \in Kept /\ SuccsOf(cfg.entry) \in SUBSET Nodes
  BY <1>1, GraphFacts, ReachableClosed DEF Kept
<1>3. /\ WL \in Seq(Nodes \X Nodes)
      /\ Pending = {<<cfg.entry, s>> : s \in SuccsOf(cfg.entry)}
  BY <1>1, <1>2, EdgesFacts DEF Init, Pending
<1>4. \A s \in SuccsOf(cfg.entry) : s \in Within(SuccsOf(cfg.entry))
  BY <1>1, <1>2, WithinClosed
<1>5. WorkOK
  BY <1>2, <1>3, <1>4 DEF WorkOK
<1>6. JumpOK
  BY DEF Init, JumpOK
<1> QED
  BY <1>1, <1>5, <1>6 DEF JumpInv

\* A pop.
LEMMA PopJump ==
  ASSUME JumpInv, buildSparseCFG
  PROVE  JumpInv'
<1>1. GraphOK /\ Handled \subseteq Nodes /\ WorkOK /\ JumpOK /\ WL \in Seq(Nodes \X Nodes)
  BY DEF JumpInv, WorkOK
<1>2. UNCHANGED <<cfg, Users>>
  BY DEF buildSparseCFG
<1>3. PICK from, to \in Nodes :
        LET curr == IF shouldKeepInst(to) THEN to ELSE from IN
        /\ <<from, to>> \in Pending
        /\ VGraph' = IF shouldKeepInst(to) THEN recordUser(from, to) ELSE VGraph
        /\ Handled' = Handled \cup {to}
        /\ WL' \in Seq(Nodes \X Nodes)
        /\ \A p \in Pending' : \/ p \in Pending
                               \/ to \notin Handled /\ \E s \in SuccsOf(to) : p = <<curr, s>>
  BY <1>1, PopFacts
<1>4. from \in Kept /\ to \in Within(SuccsOf(from))
  BY <1>1, <1>3 DEF WorkOK
<1>5. GraphOK' /\ (Handled \subseteq Nodes)'
  BY <1>1, <1>2, <1>3, SameGraph
<1>6. WorkOK'
  <2>1. ASSUME NEW p \in Pending'
        PROVE  p[1] \in Kept /\ p[2] \in Within(SuccsOf(p[1]))
    <3>1. CASE p \in Pending
      BY <1>1, <3>1 DEF WorkOK
    <3>2. CASE p \notin Pending
      <4> DEFINE curr == IF shouldKeepInst(to) THEN to ELSE from
      <4>1. PICK s \in SuccsOf(to) : p = <<curr, s>>
        BY <1>3, <3>2
      <4>2. curr \in Kept /\ s \in Within(SuccsOf(curr))
        BY <1>1, <1>4, PushedFound
      <4> HIDE DEF curr
      <4>3. p[1] = curr /\ p[2] = s
        BY <4>1
      <4> QED
        BY <4>2, <4>3
    <3> QED
      BY <3>1, <3>2
  <2> QED
    BY <1>2, <1>3, <2>1, SameGraph DEF WorkOK
<1>7. JumpOK'
  <2>1. CASE shouldKeepInst(to)
    <3>1. to \in NextUsers(from)
      BY <1>4, <2>1 DEF NextUsers
    <3>2. VGraph' = recordUser(from, to)
      BY <1>3, <2>1
    <3> QED
      BY <1>1, <1>2, <1>4, <3>1, <3>2, RecordOK, SameGraph DEF JumpOK
  <2>2. CASE ~shouldKeepInst(to)
    <3>1. VGraph' = VGraph
      BY <1>3, <2>2
    <3> QED
      BY <1>1, <1>2, <3>1, SameGraph DEF JumpOK
  <2> QED
    BY <2>1, <2>2
<1> QED
  BY <1>5, <1>6, <1>7 DEF JumpInv

LEMMA JumpInvariant == Spec => []JumpInv
<1>1. JumpInv /\ [Next]_vars => JumpInv'
  <2> SUFFICES ASSUME JumpInv, [Next]_vars PROVE JumpInv'
    OBVIOUS
  <2>1. CASE buildSparseCFG
    BY <2>1, PopJump
  <2>2. CASE UNCHANGED vars
    <3>1. UNCHANGED <<cfg, Users>> /\ WL' = WL /\ VGraph' = VGraph /\ Handled' = Handled
      BY <2>2 DEF vars
    <3>2. Pending' = Pending
      BY <3>1 DEF Pending
    <3> QED
      BY <3>1, <3>2, SameGraph DEF JumpInv, WorkOK, JumpOK
  <2> QED
    BY <2>1, <2>2 DEF Next
<1> QED
  BY <1>1, InitJump, PTL DEF Spec

\* At every step, a recorded jump leads from a kept instruction to one that
\* is found first along some path (recordUser, buildSparseCFG).
THEOREM JumpsAreNextUsers == Spec => []NoInventedJump
<1>1. JumpInv => NoInventedJump
  BY DEF JumpInv, JumpOK, NoInventedJump
<1> QED
  BY <1>1, JumpInvariant, PTL

\* The types, for every function and every set of uses.
THEOREM SparseTypes == Spec => []TypeOK
<1>1. ASSUME JumpInv PROVE TypeOK
  <2>1. GraphOK /\ Handled \subseteq Nodes /\ WL \in Seq(Nodes \X Nodes) /\ JumpOK
    BY <1>1 DEF JumpInv, WorkOK
  <2>2. \A i \in 1 .. Len(WL) : WL[i] \in Nodes \X Nodes
    BY <2>1, ElementOfSeq
  <2>3. ASSUME NEW n \in DOMAIN VGraph PROVE n \in Nodes /\ VGraph[n] \in Nodes \cup {Null}
    <3>1. n \in Kept /\ (VGraph[n] # Null => VGraph[n] \in NextUsers(n))
      BY <2>1 DEF JumpOK
    <3>2. n \in Nodes /\ SuccsOf(n) \in SUBSET Nodes
      BY <2>1, <3>1, ReachableClosed, GraphFacts DEF Kept
    <3> QED
      BY <2>1, <3>1, <3>2, WithinClosed DEF NextUsers
  <2> QED
    BY <2>1, <2>2, <2>3 DEF TypeOK, GraphOK
<1> QED
  BY <1>1, JumpInvariant, PTL

-----------------------------------------------------------------------------
(***************************************************************************)
(* The graph is exact where no merge point is skipped.                     *)
(***************************************************************************)
\* The search went on from these instructions.
Expanded == Handled \cup {cfg.entry}

\* Nothing that follows them is forgotten, and nothing else is reached.
Frontier ==
  \A m \in Expanded : \A s \in SuccsOf(m) : s \in Handled \/ \E f \in Nodes : <<f, s>> \in Pending

HasPred ==
  /\ \A x \in Handled : \E m \in Expanded : x \in SuccsOf(m)
  /\ \A p \in Pending : \E m \in Expanded : p[2] \in SuccsOf(m)

\* A kept instruction behind which no merge point is skipped.
Treelike(n) == n \in Kept /\ SkippedMerges(n) = {}
SkippedAfter(n) == {x \in Within(SuccsOf(n)) : ~shouldKeepInst(x)}

\* What is skipped behind it is only explored on its behalf.
OneOwner ==
  \A n \in Nodes : Treelike(n) => \A p \in Pending : p[2] \in SkippedAfter(n) => p[1] = n

\* The exploration on its behalf leaves nothing out.
Recorded(n, s) == n \in DOMAIN VGraph /\ VGraph[n] \in {s, Null}
Reached(n, s) ==
  \/ <<n, s>> \in Pending
  \/ shouldKeepInst(s) /\ Recorded(n, s)
  \/ ~shouldKeepInst(s) /\ s \in Handled

Explored ==
  \A n \in Expanded : Treelike(n) =>
    \A m \in {n} \cup (SkippedAfter(n) \cap Handled) : \A s \in SuccsOf(m) : Reached(n, s)

ExactInv == JumpInv /\ Frontier /\ HasPred /\ OneOwner /\ Explored

\* A skipped instruction behind a treelike one has one predecessor, ...
LEMMA OnePredecessorIsUnique ==
  ASSUME GraphOK, NEW n \in Nodes, Treelike(n), NEW x \in SkippedAfter(n),
         NEW p \in Nodes, x \in SuccsOf(p), NEW q \in Nodes, x \in SuccsOf(q)
  PROVE  p = q
<1>1. x \in Within(SuccsOf(n)) /\ ~shouldKeepInst(x)
  BY DEF SkippedAfter
<1>2. p \in PredsOf(x) /\ q \in PredsOf(x) /\ IsFiniteSet(PredsOf(x))
  <2>1. PredsOf(x) \in SUBSET Nodes
    BY DEF PredsOf
  <2>2. IsFiniteSet(PredsOf(x))
    BY <2>1, GraphFacts, FS_Subset
  <2> QED
    BY <2>2 DEF PredsOf
<1>3. ~(Cardinality(PredsOf(x)) > 1)
  BY <1>1 DEF Treelike, SkippedMerges
<1>4. Cardinality(PredsOf(x)) \in Nat /\ Cardinality(PredsOf(x)) # 0
  BY <1>2, FS_CardinalityType, FS_EmptySet
<1>5. Cardinality(PredsOf(x)) = 1
  BY <1>3, <1>4
<1> QED
  BY <1>2, <1>5, FS_Singleton

\* ... and that is the treelike one or is skipped behind it, too.
LEMMA OnePredecessor ==
  ASSUME GraphOK, NEW n \in Nodes, Treelike(n), NEW x \in SkippedAfter(n),
         NEW p \in Nodes, x \in SuccsOf(p)
  PROVE  p = n \/ p \in SkippedAfter(n)
<1> DEFINE W == Within(SuccsOf(n))
<1>1. W \subseteq Nodes /\ SuccsOf(n) \subseteq W /\ Skips(W)
  <2>1. SuccsOf(n) \in SUBSET Nodes
    BY GraphFacts
  <2> QED
    BY <2>1, WithinClosed
<1>2. x \in W /\ ~shouldKeepInst(x)
  BY DEF SkippedAfter
<1>3. PICK q \in Nodes : x \in SuccsOf(q) /\ (q = n \/ q \in SkippedAfter(n))
  <2> SUFFICES ASSUME \A q \in Nodes : x \in SuccsOf(q) => q # n /\ q \notin SkippedAfter(n)
               PROVE  FALSE
    OBVIOUS
  <2>1. W \ {x} \in SUBSET Nodes /\ SuccsOf(n) \subseteq W \ {x}
    BY <1>1
  <2>2. Skips(W \ {x})
    BY <1>1 DEF Skips, SkippedAfter
  <2>3. W \subseteq W \ {x}
    BY <2>1, <2>2, WithinLeast
  <2> QED
    BY <1>2, <2>3
<1>4. p = q
  BY <1>3, OnePredecessorIsUnique
<1> QED
  BY <1>3, <1>4

\* Nothing skipped behind a treelike instruction is handled before it is.
LEMMA NewStart ==
  ASSUME GraphOK, Handled \subseteq Nodes, HasPred, NEW n \in Nodes, Treelike(n), n \notin Expanded
  PROVE  SkippedAfter(n) \cap Handled = {}
<1> DEFINE W == Within(SuccsOf(n))
           T == {x \in W : shouldKeepInst(x) \/ x \notin Handled}
<1>1. W \subseteq Nodes /\ SuccsOf(n) \subseteq W /\ Skips(W)
  <2>1. SuccsOf(n) \in SUBSET Nodes
    BY GraphFacts
  <2> QED
    BY <2>1, WithinClosed
<1>2. ASSUME NEW x \in SkippedAfter(n), x \in Handled
      PROVE  \E m \in SkippedAfter(n) : m \in Handled /\ x \in SuccsOf(m)
  <2>1. PICK m \in Expanded : x \in SuccsOf(m)
    BY <1>2 DEF HasPred
  <2>2. m \in Nodes
    BY GraphFacts DEF Expanded
  <2>3. m = n \/ m \in SkippedAfter(n)
    BY <2>1, <2>2, OnePredecessor
  <2>4. m \in SkippedAfter(n)
    BY <2>3
  <2>5. m # cfg.entry
    BY <2>4, GraphFacts DEF SkippedAfter
  <2> QED
    BY <2>1, <2>4, <2>5 DEF Expanded
<1>3. SuccsOf(n) \subseteq T
  <2> SUFFICES ASSUME NEW s \in SuccsOf(n), ~shouldKeepInst(s), s \in Handled
               PROVE  FALSE
    BY <1>1
  <2>1. s \in SkippedAfter(n)
    BY <1>1 DEF SkippedAfter
  <2>2. PICK m \in SkippedAfter(n) : m \in Handled /\ s \in SuccsOf(m)
    BY <1>2, <2>1
  <2>3. m = n
    BY <2>1, <2>2, OnePredecessorIsUnique
  <2> QED
    BY <2>2, <2>3 DEF Expanded
<1>4. Skips(T)
  <2> SUFFICES ASSUME NEW m \in T, ~shouldKeepInst(m), NEW s \in SuccsOf(m)
               PROVE  s \in T
    BY DEF Skips
  <2>1. m \in W /\ m \in SkippedAfter(n) /\ m \notin Handled /\ s \in W
    BY <1>1 DEF Skips, SkippedAfter
  <2> SUFFICES ASSUME ~shouldKeepInst(s), s \in Handled PROVE FALSE
    BY <2>1
  <2>2. s \in SkippedAfter(n)
    BY <2>1 DEF SkippedAfter
  <2>3. PICK q \in SkippedAfter(n) : q \in Handled /\ s \in SuccsOf(q)
    BY <1>2, <2>2
  <2>4. m = q
    BY <1>1, <2>1, <2>2, <2>3, OnePredecessorIsUnique DEF SkippedAfter
  <2> QED
    BY <2>1, <2>3, <2>4
<1>5. W \subseteq T
  <2>1. T \in SUBSET Nodes
    BY <1>1
  <2> HIDE DEF T
  <2> QED
    BY <1>3, <1>4, <2>1, WithinLeast
<1> QED
  BY <1>5 DEF SkippedAfter

\* The initial state.
LEMMA InitExact ==
  ASSUME Init
  PROVE  ExactInv
<1>1. JumpInv /\ GraphOK /\ Handled = {} /\ Expanded = {cfg.entry}
  BY InitJump DEF JumpInv, Init, Expanded
<1>2. cfg.entry \in Nodes
  BY <1>1, GraphFacts
<1>3. Pending = {<<cfg.entry, s>> : s \in SuccsOf(cfg.entry)}
  BY <1>1, <1>2, EdgesFacts DEF Init, Pending
<1>4. Frontier
  BY <1>1, <1>2, <1>3 DEF Frontier
<1>5. HasPred
  BY <1>1, <1>3 DEF HasPred
<1>6. OneOwner
  <2> SUFFICES ASSUME NEW n \in Nodes, Treelike(n), NEW s \in SuccsOf(cfg.entry),
                      s \in SkippedAfter(n)
               PROVE  cfg.entry = n
    BY <1>3 DEF OneOwner
  <2>1. cfg.entry = n \/ cfg.entry \in SkippedAfter(n)
    BY <1>1, <1>2, OnePredecessor
  <2> QED
    BY <1>1, <2>1, GraphFacts DEF SkippedAfter
<1>7. Explored
  BY <1>1, <1>3 DEF Explored, Reached
<1> QED
  BY <1>1, <1>4, <1>5, <1>6, <1>7 DEF ExactInv

\* What a pop of <<from, to>> does (PopFacts).
Popped(from, to) ==
  LET curr == IF shouldKeepInst(to) THEN to ELSE from IN
  /\ <<from, to>> \in Pending
  /\ VGraph' = IF shouldKeepInst(to) THEN recordUser(from, to) ELSE VGraph
  /\ Handled' = Handled \cup {to}
  /\ \A p \in Pending : p = <<from, to>> \/ p \in Pending'
  /\ \A p \in Pending' : \/ p \in Pending
                         \/ to \notin Handled /\ \E s \in SuccsOf(to) : p = <<curr, s>>
  /\ to \notin Handled => \A s \in SuccsOf(to) : <<curr, s>> \in Pending'

\* What follows an expanded instruction is still handled or pending.
LEMMA PopFrontier ==
  ASSUME ExactInv, NEW from \in Nodes, NEW to \in Nodes, Popped(from, to),
         NEW m \in Handled \cup {to, cfg.entry}, NEW s \in SuccsOf(m)
  PROVE  s \in Handled' \/ \E f \in Nodes : <<f, s>> \in Pending'
<1>1. CASE m \in Expanded
  <2>1. s \in Handled \/ \E f \in Nodes : <<f, s>> \in Pending
    BY <1>1 DEF ExactInv, Frontier
  <2>2. ASSUME NEW f \in Nodes, <<f, s>> \in Pending
        PROVE  s \in Handled' \/ <<f, s>> \in Pending'
    BY <2>2 DEF Popped
  <2> QED
    BY <2>1, <2>2 DEF Popped
<1>2. CASE m \notin Expanded
  <2>1. m = to /\ to \notin Handled
    BY <1>2 DEF Expanded
  <2> DEFINE curr == IF shouldKeepInst(to) THEN to ELSE from
  <2>2. curr \in Nodes /\ <<curr, s>> \in Pending'
    BY <2>1 DEF Popped
  <2> QED
    BY <2>2
<1> QED
  BY <1>1, <1>2

\* What is recorded stays recorded, and what is popped is recorded.
LEMMA PopRecorded ==
  ASSUME GraphOK, JumpOK, NEW from \in Nodes, NEW to \in Nodes, Popped(from, to), NEW n, NEW s \in Nodes,
         shouldKeepInst(s), Recorded(n, s) \/ (n = from /\ s = to)
  PROVE  n \in DOMAIN VGraph' /\ VGraph'[n] \in {s, Null}
<1>1. CASE ~shouldKeepInst(to)
  <2>1. VGraph' = VGraph /\ s # to
    BY <1>1 DEF Popped
  <2> QED
    BY <2>1 DEF Recorded
<1>2. CASE shouldKeepInst(to)
  <2>1. VGraph' = recordUser(from, to)
    BY <1>2 DEF Popped
  <2>2. n \in DOMAIN VGraph \cup {from}
    BY DEF Recorded
  <2>3. /\ n \in DOMAIN VGraph'
        /\ VGraph'[n] = IF n # from THEN VGraph[n]
                        ELSE IF from \in DOMAIN VGraph /\ VGraph[from] # to THEN Null ELSE to
    BY <2>1, <2>2 DEF recordUser
  <2>4. to # Null
    BY GraphFacts
  <2> QED
    BY <2>3, <2>4 DEF Recorded
<1> QED
  BY <1>1, <1>2

\* Only the owner's entries lead to what is skipped behind it.
LEMMA PopOwner ==
  ASSUME ExactInv, NEW from \in Nodes, NEW to \in Nodes, Popped(from, to),
         NEW n \in Nodes, Treelike(n), NEW p \in Pending', p[2] \in SkippedAfter(n)
  PROVE  p[1] = n
<1>1. CASE p \in Pending
  BY <1>1 DEF ExactInv, OneOwner
<1>2. CASE p \notin Pending
  <2> DEFINE curr == IF shouldKeepInst(to) THEN to ELSE from
  <2>1. PICK s \in SuccsOf(to) : p = <<curr, s>>
    BY <1>2 DEF Popped
  <2>2. p[1] = curr /\ p[2] = s
    BY <2>1
  <2>3. to = n \/ to \in SkippedAfter(n)
    BY <2>2, OnePredecessor DEF ExactInv, JumpInv
  <2>4. CASE to = n
    <3>1. shouldKeepInst(to)
      BY <2>4 DEF Treelike, Kept
    <3> QED
      BY <2>2, <2>4, <3>1
  <2>5. CASE to \in SkippedAfter(n)
    <3>1. ~shouldKeepInst(to)
      BY <2>5 DEF SkippedAfter
    <3>2. <<from, to>> \in Pending
      BY DEF Popped
    <3>3. from = n
      BY <2>5, <3>2 DEF ExactInv, OneOwner
    <3> QED
      BY <2>2, <3>1, <3>3
  <2> QED
    BY <2>3, <2>4, <2>5
<1> QED
  BY <1>1, <1>2

\* Nothing that the owner reached, or now reaches, is left out.
LEMMA PopExplored ==
  ASSUME ExactInv, NEW from \in Nodes, NEW to \in Nodes, Popped(from, to),
         NEW n \in Handled \cup {to, cfg.entry}, Treelike(n),
         NEW m \in {n} \cup (SkippedAfter(n) \cap (Handled \cup {to})),
         NEW s \in SuccsOf(m)
  PROVE  \/ <<n, s>> \in Pending'
         \/ shouldKeepInst(s) /\ n \in DOMAIN VGraph' /\ VGraph'[n] \in {s, Null}
         \/ ~shouldKeepInst(s) /\ s \in Handled'
<1>0. GraphOK /\ JumpOK /\ Handled \subseteq Nodes /\ HasPred
  BY DEF ExactInv, JumpInv
<1>1. n \in Nodes /\ m \in Nodes /\ s \in Nodes /\ shouldKeepInst(n)
  <2>1. n \in Nodes /\ m \in Nodes
    BY <1>0, GraphFacts
  <2> QED
    BY <1>0, <2>1, GraphFacts DEF Treelike, Kept
<1>2. CASE n \in Expanded /\ (m = n \/ m \in Handled)
  <2>1. Reached(n, s)
    BY <1>2 DEF ExactInv, Explored
  <2>2. CASE <<n, s>> \in Pending /\ <<n, s>> # <<from, to>>
    BY <2>2 DEF Popped
  <2>3. CASE <<n, s>> = <<from, to>>
    <3>1. n = from /\ s = to
      BY <2>3
    <3>2. CASE shouldKeepInst(s)
      BY <1>0, <1>1, <3>1, <3>2, PopRecorded
    <3>3. CASE ~shouldKeepInst(s)
      BY <3>1, <3>3 DEF Popped
    <3> QED
      BY <3>2, <3>3
  <2>4. CASE shouldKeepInst(s) /\ Recorded(n, s)
    BY <1>0, <1>1, <2>4, PopRecorded
  <2>5. CASE ~shouldKeepInst(s) /\ s \in Handled
    BY <2>5 DEF Popped
  <2> QED
    BY <2>1, <2>2, <2>3, <2>4, <2>5 DEF Reached
<1>3. CASE m # n /\ m \notin Handled
  <2>1. m = to /\ to \in SkippedAfter(n) /\ to \notin Handled
    BY <1>3
  <2>2. from = n /\ ~shouldKeepInst(to)
    BY <1>1, <2>1 DEF ExactInv, OneOwner, Popped, SkippedAfter
  <2> QED
    BY <2>1, <2>2 DEF Popped
<1>4. CASE n \notin Expanded /\ (m = n \/ m \in Handled)
  <2>1. n = to /\ to \notin Handled
    BY <1>4 DEF Expanded
  <2>2. SkippedAfter(n) \cap Handled = {}
    BY <1>0, <1>1, <1>4, NewStart
  <2>3. m = n
    BY <1>4, <2>2
  <2> QED
    BY <1>1, <2>1, <2>3 DEF Popped
<1> QED
  BY <1>2, <1>3, <1>4

\* A pop.
LEMMA PopExact ==
  ASSUME ExactInv, buildSparseCFG
  PROVE  ExactInv'
<1>1. GraphOK /\ Handled \subseteq Nodes /\ WorkOK /\ JumpOK /\ WL \in Seq(Nodes \X Nodes)
  BY DEF ExactInv, JumpInv, WorkOK
<1>2. UNCHANGED <<cfg, Users>>
  BY DEF buildSparseCFG
<1>3. PICK from, to \in Nodes : Popped(from, to)
  BY <1>1, PopFacts DEF Popped
<1>4. /\ Nodes' = Nodes /\ \A n : SuccsOf(n)' = SuccsOf(n)
      /\ \A n : shouldKeepInst(n)' = shouldKeepInst(n)
      /\ \A n : Treelike(n)' = Treelike(n)
      /\ \A n : SkippedAfter(n)' = SkippedAfter(n)
      /\ cfg.entry' = cfg.entry
  BY <1>2, SameGraph DEF Treelike, SkippedAfter
<1>5. Handled' = Handled \cup {to} /\ Expanded' = Handled \cup {to, cfg.entry}
  BY <1>2, <1>3 DEF Popped, Expanded
<1>6. JumpInv'
  BY PopJump DEF ExactInv
<1>7. Frontier'
  BY <1>3, <1>4, <1>5, PopFrontier DEF Frontier
<1>8. HasPred'
  <2>1. \E m \in Expanded : to \in SuccsOf(m)
    BY <1>3 DEF ExactInv, HasPred, Popped
  <2>2. Expanded \subseteq Expanded' /\ to \in Expanded'
    BY <1>5 DEF Expanded
  <2>3. \A x \in Handled' : \E m \in Expanded' : x \in SuccsOf(m)
    BY <1>5, <2>1, <2>2 DEF ExactInv, HasPred
  <2>4. ASSUME NEW p \in Pending' PROVE \E m \in Expanded' : p[2] \in SuccsOf(m)
    <3>1. CASE p \in Pending
      BY <2>2, <3>1 DEF ExactInv, HasPred
    <3>2. CASE p \notin Pending
      <4>1. PICK c, s \in Nodes : s \in SuccsOf(to) /\ p = <<c, s>>
        BY <1>1, <1>3, <3>2, GraphFacts DEF Popped
      <4>2. p[2] \in SuccsOf(to)
        BY <4>1
      <4> QED
        BY <2>2, <4>2
    <3> QED
      BY <3>1, <3>2
  <2> QED
    BY <1>4, <2>3, <2>4 DEF HasPred
<1>9. OneOwner'
  BY <1>3, <1>4, PopOwner DEF OneOwner
<1>10. Explored'
  BY <1>3, <1>4, <1>5, PopExplored DEF Explored, Reached, Recorded
<1> QED
  BY <1>6, <1>7, <1>8, <1>9, <1>10 DEF ExactInv

LEMMA ExactInvariant == Spec => []ExactInv
<1>1. ExactInv /\ [Next]_vars => ExactInv'
  <2> SUFFICES ASSUME ExactInv, [Next]_vars PROVE ExactInv'
    OBVIOUS
  <2>1. CASE buildSparseCFG
    BY <2>1, PopExact
  <2>2. CASE UNCHANGED vars
    <3>1. UNCHANGED <<cfg, Users>> /\ WL' = WL /\ VGraph' = VGraph /\ Handled' = Handled
      BY <2>2 DEF vars
    <3>2. Pending' = Pending /\ Expanded' = Expanded
      BY <3>1 DEF Pending, Expanded
    <3>3. /\ \A n : SuccsOf(n)' = SuccsOf(n) /\ Treelike(n)' = Treelike(n)
                    /\ SkippedAfter(n)' = SkippedAfter(n)
          /\ \A n : shouldKeepInst(n)' = shouldKeepInst(n)
          /\ Nodes' = Nodes
      BY <3>1, SameGraph DEF Treelike, SkippedAfter
    <3>4. JumpInv'
      BY <3>1, <3>2, SameGraph DEF ExactInv, JumpInv, WorkOK, JumpOK
    <3> QED
      BY <3>1, <3>2, <3>3, <3>4
      DEF ExactInv, Frontier, HasPred, OneOwner, Explored, Reached, Recorded
  <2> QED
    BY <2>1, <2>2 DEF Next
<1> QED
  BY <1>1, InitExact, PTL DEF Spec

\* When the worklist is empty, every next user of a treelike one is recorded.
LEMMA AllRecorded ==
  ASSUME ExactInv, WL = <<>>, NEW n \in Kept, SkippedMerges(n) = {}
  PROVE  \A u \in NextUsers(n) : Recorded(n, u)
<1>1. GraphOK /\ Handled \subseteq Nodes /\ Pending = {}
  BY DEF ExactInv, JumpInv, Pending
<1>2. n \in Expanded
  <2>1. Expanded \in SUBSET Nodes /\ cfg.entry \in Expanded
    BY <1>1, GraphFacts DEF Expanded
  <2>2. \A m \in Expanded : SuccsOf(m) \subseteq Expanded
    BY <1>1 DEF ExactInv, Frontier, Expanded
  <2>3. Reachable \subseteq Expanded
    BY <2>1, <2>2, ReachableLeast
  <2> QED
    BY <2>3 DEF Kept
<1>3. Treelike(n) /\ n \in Nodes
  BY <1>1, ReachableClosed DEF Treelike, Kept
<1> DEFINE W == Within(SuccsOf(n))
           T == {x \in W : IF shouldKeepInst(x) THEN Recorded(n, x) ELSE x \in Handled}
<1>4. W \subseteq Nodes /\ SuccsOf(n) \subseteq W /\ Skips(W)
  <2>1. SuccsOf(n) \in SUBSET Nodes
    BY <1>1, <1>3, GraphFacts
  <2> QED
    BY <1>1, <2>1, WithinClosed
<1>5. \A m \in {n} \cup (SkippedAfter(n) \cap Handled) : \A s \in SuccsOf(m) :
        IF shouldKeepInst(s) THEN Recorded(n, s) ELSE s \in Handled
  BY <1>1, <1>2, <1>3 DEF ExactInv, Explored, Reached
<1>6. SuccsOf(n) \subseteq T
  BY <1>4, <1>5
<1>7. Skips(T)
  <2> SUFFICES ASSUME NEW m \in T, ~shouldKeepInst(m), NEW s \in SuccsOf(m)
               PROVE  s \in T
    BY DEF Skips
  <2>1. m \in SkippedAfter(n) /\ m \in Handled /\ s \in W
    BY <1>4 DEF SkippedAfter, Skips
  <2> QED
    BY <1>5, <2>1
<1>8. W \subseteq T
  <2>1. T \in SUBSET Nodes
    BY <1>4
  <2> HIDE DEF T
  <2> QED
    BY <1>6, <1>7, <2>1, WithinLeast
<1> QED
  BY <1>8 DEF NextUsers

\* Whatever the order in which paths are explored and cut off by Handled: a
\* kept instruction behind which no merge point is skipped ends up with its
\* only next user, with the mark of an ambiguous one if there are several,
\* and without an entry if there is none (buildSparseCFG).
THEOREM ExactJumps == Spec => []ExactWithoutSkippedMerge
<1>1. ASSUME ExactInv, WL = <<>>, NEW n \in Kept, SkippedMerges(n) = {}
      PROVE  CASE NextUsers(n) = {} -> n \notin DOMAIN VGraph
               [] Cardinality(NextUsers(n)) = 1 ->
                    n \in DOMAIN VGraph /\ VGraph[n] \in NextUsers(n)
               [] OTHER -> n \in DOMAIN VGraph /\ VGraph[n] = Null
  <2>1. GraphOK /\ JumpOK
    BY <1>1 DEF ExactInv, JumpInv
  <2>2. \A u \in NextUsers(n) : n \in DOMAIN VGraph /\ VGraph[n] \in {u, Null}
    BY <1>1, AllRecorded DEF Recorded
  <2>3. n \in DOMAIN VGraph => /\ VGraph[n] # Null => VGraph[n] \in NextUsers(n)
                               /\ VGraph[n] = Null => \E a, b \in NextUsers(n) : a # b
    BY <2>1 DEF JumpOK
  <2>4. NextUsers(n) \in SUBSET Nodes /\ IsFiniteSet(NextUsers(n))
    <3>1. n \in Nodes /\ SuccsOf(n) \in SUBSET Nodes
      BY <2>1, ReachableClosed, GraphFacts DEF Kept
    <3>2. NextUsers(n) \in SUBSET Nodes
      BY <2>1, <3>1, WithinClosed DEF NextUsers
    <3> QED
      BY <2>1, <3>2, GraphFacts, FS_Subset
  <2>5. CASE NextUsers(n) = {}
    BY <2>3, <2>5, FS_EmptySet
  <2>6. CASE Cardinality(NextUsers(n)) = 1
    <3>1. PICK u : NextUsers(n) = {u}
      BY <2>4, <2>6, FS_Singleton
    <3>2. n \in DOMAIN VGraph /\ VGraph[n] = u
      BY <2>2, <2>3, <3>1
    <3> QED
      BY <2>6, <3>1, <3>2
  <2>7. CASE NextUsers(n) # {} /\ Cardinality(NextUsers(n)) # 1
    <3>1. PICK a \in NextUsers(n) : TRUE
      BY <2>7
    <3>2. NextUsers(n) # {a}
      BY <2>7, FS_Singleton
    <3>3. PICK b \in NextUsers(n) : b # a
      BY <3>1, <3>2
    <3>4. n \in DOMAIN VGraph /\ VGraph[n] = Null
      BY <2>2, <3>1, <3>3
    <3> QED
      BY <2>7, <3>4
  <2> QED
    BY <2>5, <2>6, <2>7
<1>2. ExactInv => ExactWithoutSkippedMerge
  BY <1>1 DEF ExactWithoutSkippedMerge
<1> QED
  BY <1>2, ExactInvariant, PTL

-----------------------------------------------------------------------------
(***************************************************************************)
(* The local scan.                                                         *)
(***************************************************************************)
\* The least of some natural numbers, and induction in the form of a set.
LEMMA LeastOf ==
  ASSUME NEW S, S \subseteq Nat, S # {}
  PROVE  \E x \in S : \A y \in S : x <= y
<1> DEFINE R == OpToRel(<, Nat)
<1>1. IsWellFoundedOn(R, Nat)
  BY NatLessThanWellFounded, Zenon
<1>2. \A y, z \in Nat : y < z => <<y, z>> \in R
  BY DEF OpToRel
<1> HIDE DEF R
<1>3. PICK x \in S : \A y \in S : ~(<<y, x>> \in R)
  BY <1>1, WFMin
<1>4. \A y \in S : ~(y < x)
  BY <1>2, <1>3
<1> QED
  BY <1>4

LEMMA InductiveSet ==
  ASSUME NEW S, S \subseteq Nat, 0 \in S, \A n \in S : n + 1 \in S
  PROVE  S = Nat
<1> DEFINE T == Nat \ S
<1> SUFFICES ASSUME T # {} PROVE FALSE
  OBVIOUS
<1>1. PICK x \in T : \A y \in T : x <= y
  BY LeastOf
<1>2. x - 1 \in T
  BY <1>1
<1> QED
  BY <1>1, <1>2

\* The recursion of the scan has a solution.
ScanSolves(g, succ, n) ==
  g = [k \in 0 .. n |-> IF k = 0 THEN <<succ, stops(succ)>> ELSE scanStep(succ, g[k - 1])]

LEMMA ScanDefined ==
  ASSUME NEW succ, NEW m \in Nat
  PROVE  \E g : ScanSolves(g, succ, m)
<1> DEFINE v == <<succ, stops(succ)>>
           N == {n \in Nat : \E g : ScanSolves(g, succ, n)}
<1>1. 0 \in N
  <2>1. ScanSolves([k \in 0 .. 0 |-> v], succ, 0)
    BY DEF ScanSolves
  <2> QED
    BY <2>1
<1>2. ASSUME NEW n \in N PROVE n + 1 \in N
  <2>1. PICK g : ScanSolves(g, succ, n)
    OBVIOUS
  <2> DEFINE x == scanStep(succ, g[n])
             h == [k \in 0 .. (n + 1) |-> IF k = n + 1 THEN x ELSE g[k]]
  <2>2. \A k \in 0 .. (n + 1) : h[k] = IF k = 0 THEN v ELSE scanStep(succ, h[k - 1])
    <3> SUFFICES ASSUME NEW k \in 0 .. (n + 1)
                 PROVE  h[k] = IF k = 0 THEN v ELSE scanStep(succ, h[k - 1])
      OBVIOUS
    <3>1. CASE k = n + 1
      <4>1. h[k] = x /\ k # 0 /\ k - 1 = n /\ h[k - 1] = g[n]
        BY <3>1
      <4> QED
        BY <3>1, <4>1
    <3>2. CASE k # n + 1
      <4>1. k \in 0 .. n /\ h[k] = g[k] /\ (k # 0 => h[k - 1] = g[k - 1])
        BY <3>2
      <4>2. g[k] = IF k = 0 THEN v ELSE scanStep(succ, g[k - 1])
        BY <2>1, <4>1 DEF ScanSolves
      <4> QED
        BY <4>1, <4>2
    <3> QED
      BY <3>1, <3>2
  <2> HIDE DEF x
  <2>3. ScanSolves(h, succ, n + 1)
    <3>1. h = [k \in 0 .. (n + 1) |-> h[k]]
      OBVIOUS
    <3> QED
      BY <2>2, <3>1 DEF ScanSolves
  <2> HIDE DEF h
  <2> QED
    BY <2>3
<1>3. N = Nat
  BY <1>1, <1>2, InductiveSet
<1> QED
  BY <1>3

\* What can be found first from an instruction on, itself included.
FoundFrom(n) == {m \in Within({n}) : shouldKeepInst(m)}

\* A skipped instruction with one successor finds what its successor finds.
LEMMA SkipOne ==
  ASSUME GraphOK, NEW n \in Nodes, NEW s, ~shouldKeepInst(n), SuccsOf(n) = {s}
  PROVE  s \in Nodes /\ FoundFrom(n) = FoundFrom(s)
<1>1. s \in Nodes
  BY GraphFacts
<1>2. /\ Within({n}) \subseteq Nodes /\ n \in Within({n}) /\ Skips(Within({n}))
      /\ Within({s}) \subseteq Nodes /\ s \in Within({s}) /\ Skips(Within({s}))
  BY <1>1, WithinClosed
<1>3. s \in Within({n})
  BY <1>2 DEF Skips
<1>4. Within({s}) \subseteq Within({n})
  BY <1>2, <1>3, WithinLeast
<1>5. Within({n}) \subseteq Within({s}) \cup {n}
  <2>1. Within({s}) \cup {n} \in SUBSET Nodes
    BY <1>2
  <2>2. Skips(Within({s}) \cup {n})
    BY <1>2 DEF Skips
  <2> QED
    BY <2>1, <2>2, WithinLeast
<1> QED
  BY <1>1, <1>4, <1>5 DEF FoundFrom

\* What holds all along the scan from succ on.
ScanOK(succ, x) ==
  /\ x[1] \in Nodes /\ FoundFrom(x[1]) = FoundFrom(succ)
  /\ ~x[2] => ~stops(x[1])

\* One step of the scan.
LEMMA ScanStepOK ==
  ASSUME GraphOK, NEW succ \in Nodes, NEW x, ScanOK(succ, x)
  PROVE  ScanOK(succ, scanStep(succ, x))
<1>1. CASE x[2]
  BY <1>1 DEF scanStep
<1>2. CASE ~x[2]
  <2> DEFINE n == x[1]
             step == cfg.succs[n][1]
             merges == n \in cfg.terms /\ (step = succ \/ Cardinality(PredsOf(step)) # 1)
  <2>1. scanStep(succ, x) = <<step, merges \/ stops(step)>>
    BY <1>2 DEF scanStep
  <2>2. n \in Nodes /\ ~shouldKeepInst(n) /\ Len(cfg.succs[n]) = 1
    BY <1>2, GraphFacts DEF ScanOK, stops
  <2>3. SuccsOf(n) = {step}
    BY <2>2 DEF SuccsOf
  <2>4. step \in Nodes /\ FoundFrom(n) = FoundFrom(step)
    BY <2>2, <2>3, SkipOne
  <2>5. FoundFrom(n) = FoundFrom(succ)
    BY DEF ScanOK
  <2> HIDE DEF n, step, merges
  <2>6. scanStep(succ, x)[1] = step
    BY <2>1
  <2>7. scanStep(succ, x)[2] = (merges \/ stops(step))
    BY <2>1
  <2>8. ~scanStep(succ, x)[2] => ~stops(step)
    BY <2>7, Zenon
  <2> QED
    BY <2>4, <2>5, <2>6, <2>8 DEF ScanOK
<1> QED
  BY <1>1, <1>2

\* The scan as the sequence of its states.
ScanRun(scan, succ, c) ==
  /\ scanned(succ) = scan[c] /\ scan[0] = <<succ, stops(succ)>>
  /\ \A k \in 1 .. c : scan[k] = scanStep(succ, scan[k - 1])
  /\ \A k \in 0 .. c : ScanOK(succ, scan[k])

\* The whole scan.
LEMMA ScanRuns ==
  ASSUME GraphOK, NEW succ \in Nodes
  PROVE  \E scan : ScanRun(scan, succ, Cardinality(Nodes))
<1> DEFINE c == Cardinality(Nodes)
           scan == CHOOSE g : ScanSolves(g, succ, c)
<1>1. c \in Nat
  BY GraphFacts, FS_CardinalityType
<1>2. ScanSolves(scan, succ, c)
  <2>1. \E g : ScanSolves(g, succ, c)
    BY <1>1, ScanDefined
  <2> QED
    BY <2>1
<1>3. scanned(succ) = scan[c]
  BY DEF scanned, ScanSolves
<1> HIDE DEF scan, c
<1>4. scan[0] = <<succ, stops(succ)>> /\ \A k \in 1 .. c : scan[k] = scanStep(succ, scan[k - 1])
  BY <1>1, <1>2 DEF ScanSolves
<1> DEFINE N == {k \in Nat : k <= c => ScanOK(succ, scan[k])}
<1>5. 0 \in N
  <2>1. scan[0][1] = succ /\ scan[0][2] = stops(succ)
    BY <1>4
  <2>2. ScanOK(succ, scan[0])
    BY <2>1 DEF ScanOK
  <2> QED
    BY <2>2
<1>6. ASSUME NEW k \in N PROVE k + 1 \in N
  <2> SUFFICES ASSUME k + 1 <= c PROVE ScanOK(succ, scan[k + 1])
    OBVIOUS
  <2>1. k + 1 \in 1 .. c /\ (k + 1) - 1 = k /\ k <= c
    BY <1>1
  <2>2. ScanOK(succ, scan[k])
    BY <2>1
  <2>3. scan[k + 1] = scanStep(succ, scan[k])
    BY <1>4, <2>1
  <2> QED
    BY <2>2, <2>3, ScanStepOK
<1>7. N = Nat
  <2> HIDE DEF N
  <2>1. N \subseteq Nat
    BY DEF N
  <2> QED
    BY <1>5, <1>6, <2>1, InductiveSet
<1>8. ASSUME NEW k \in 0 .. c PROVE ScanOK(succ, scan[k])
  <2>1. k \in Nat /\ k <= c
    BY <1>1
  <2> QED
    BY <1>7, <2>1
<1>9. ScanRun(scan, succ, c)
  BY <1>3, <1>4, <1>8 DEF ScanRun
<1> QED
  BY <1>9 DEF c

\* A step of the scan that does not find the answer goes to an instruction
\* that has no other predecessor.
LEMMA OnlyWayIn ==
  ASSUME GraphOK, NEW succ \in Nodes, NEW x, ScanOK(succ, x), ~scanStep(succ, x)[2]
  PROVE  /\ ~x[2] /\ scanStep(succ, x)[1] \in SuccsOf(x[1])
         /\ \A m \in Nodes : scanStep(succ, x)[1] \in SuccsOf(m) => m = x[1]
<1> DEFINE n == x[1]
           step == cfg.succs[n][1]
           merges == n \in cfg.terms /\ (step = succ \/ Cardinality(PredsOf(step)) # 1)
<1>1. ~x[2]
  BY DEF scanStep
<1>2. scanStep(succ, x) = <<step, merges \/ stops(step)>>
  BY <1>1 DEF scanStep
<1>3. n \in Nodes /\ ~stops(n)
  BY <1>1 DEF ScanOK
<1>4. Len(cfg.succs[n]) = 1
  BY <1>3, GraphFacts DEF stops
<1>5. SuccsOf(n) = {step} /\ step \in Nodes
  <2>1. SuccsOf(n) = {step}
    BY <1>4 DEF SuccsOf
  <2> QED
    BY <1>3, <2>1, GraphFacts
<1> HIDE DEF merges
<1>6. ~merges
  <2>1. scanStep(succ, x)[2] = (merges \/ stops(step))
    BY <1>2
  <2> QED
    BY <2>1, Zenon
<1>7. ASSUME NEW m \in Nodes, step \in SuccsOf(m) PROVE m = n
  <2>1. CASE n \notin cfg.terms
    <3>1. \A q \in Nodes \ {n} : \A i \in 1 .. Len(cfg.succs[q]) : cfg.succs[q][i] # step
      BY <1>3, <2>1, CFGAssumption DEF GraphOK, Nodes
    <3>2. PICK i \in 1 .. Len(cfg.succs[m]) : step = cfg.succs[m][i]
      BY <1>7 DEF SuccsOf
    <3> QED
      BY <3>1, <3>2
  <2>2. CASE n \in cfg.terms
    <3>1. Cardinality(PredsOf(step)) = 1
      BY <1>6, <2>2 DEF merges
    <3>2. m \in PredsOf(step) /\ n \in PredsOf(step) /\ PredsOf(step) \in SUBSET Nodes
      BY <1>3, <1>5, <1>7 DEF PredsOf
    <3>3. IsFiniteSet(PredsOf(step))
      BY <3>2, GraphFacts, FS_Subset
    <3>4. PICK y : PredsOf(step) = {y}
      BY <3>1, <3>3, FS_Singleton
    <3> QED
      BY <3>2, <3>4
  <2> QED
    BY <2>1, <2>2
<1>8. scanStep(succ, x)[1] = step
  BY <1>2
<1> HIDE DEF step
<1> QED
  BY <1>1, <1>5, <1>7, <1>8

\* A scan that has no answer yet had none before.
LEMMA StillScanning ==
  ASSUME NEW succ, NEW c \in Nat, NEW scan, ScanRun(scan, succ, c), ~scan[c][2], NEW k \in 0 .. c
  PROVE  ~scan[k][2]
<1> DEFINE N == {i \in Nat : i <= c => ~scan[c - i][2]}
<1>1. 0 \in N
  BY SMT
<1>2. ASSUME NEW i \in N PROVE i + 1 \in N
  <2> SUFFICES ASSUME i + 1 <= c PROVE ~scan[c - (i + 1)][2]
    OBVIOUS
  <2> DEFINE j == c - i
  <2>1. j \in 1 .. c /\ j - 1 = c - (i + 1) /\ ~scan[j][2]
    OBVIOUS
  <2>2. scan[j] = scanStep(succ, scan[j - 1])
    BY <2>1 DEF ScanRun
  <2> HIDE DEF j
  <2>3. scan[j - 1][2] => scan[j] = scan[j - 1]
    BY <2>2 DEF scanStep
  <2>4. ~scan[j - 1][2]
    BY <2>1, <2>3
  <2> QED
    BY <2>1, <2>4
<1>3. N = Nat
  <2> HIDE DEF N
  <2>1. N \subseteq Nat
    BY DEF N
  <2> QED
    BY <1>1, <1>2, <2>1, InductiveSet
<1>4. c - k \in N /\ c - k <= c /\ c - (c - k) = k
  BY <1>3
<1> QED
  BY <1>4

\* The scan stops: if it came back to an instruction it would be in a cycle
\* that control cannot enter.
LEMMA ScanStops ==
  ASSUME GraphOK, NEW succ \in Reachable, NEW scan,
         ScanRun(scan, succ, Cardinality(Nodes))
  PROVE  scan[Cardinality(Nodes)][2]
<1> DEFINE c == Cardinality(Nodes)
<1>0. c \in Nat /\ succ \in Nodes
  BY GraphFacts, FS_CardinalityType, ReachableClosed
<1> SUFFICES ASSUME ~scan[c][2] PROVE FALSE
  OBVIOUS
<1> DEFINE f == [k \in 0 .. c |-> scan[k][1]]
<1>1. f \in [0 .. c -> Nodes] /\ f[0] = succ
  <2>1. \A k \in 0 .. c : scan[k][1] \in Nodes
    BY DEF ScanRun, ScanOK
  <2>2. scan[0][1] = succ /\ 0 \in 0 .. c
    BY <1>0 DEF ScanRun
  <2> QED
    BY <2>1, <2>2
<1>2. ASSUME NEW k \in 1 .. c
      PROVE  /\ k - 1 \in 0 .. c /\ k \in 0 .. c
             /\ f[k] \in SuccsOf(f[k - 1])
             /\ \A m \in Nodes : f[k] \in SuccsOf(m) => m = f[k - 1]
  <2>1. k - 1 \in 0 .. c /\ k \in 0 .. c
    BY <1>0
  <2>2. ScanOK(succ, scan[k - 1]) /\ scan[k] = scanStep(succ, scan[k - 1])
    BY <2>1 DEF ScanRun
  <2>3. ~scan[k][2]
    BY <1>0, <2>1, StillScanning
  <2>4. /\ scan[k][1] \in SuccsOf(scan[k - 1][1])
        /\ \A m \in Nodes : scan[k][1] \in SuccsOf(m) => m = scan[k - 1][1]
    BY <1>0, <2>2, <2>3, OnlyWayIn
  <2> QED
    BY <2>1, <2>4
<1>3. \E i, j \in 0 .. c : i < j /\ f[i] = f[j]
  <2>1. IsFiniteSet(0 .. c) /\ Cardinality(0 .. c) = c + 1
    BY <1>0, FS_Interval
  <2>2. IsFiniteSet(Nodes) /\ Cardinality(Nodes) < Cardinality(0 .. c)
    BY <1>0, <2>1, GraphFacts
  <2> HIDE DEF f
  <2>3. PICK x, y \in 0 .. c : x # y /\ f[x] = f[y]
    BY <1>1, <2>1, <2>2, FS_PigeonHole
  <2>4. x < y \/ y < x
    BY <1>0, <2>3
  <2> QED
    BY <2>3, <2>4
<1> HIDE DEF f, c
<1> DEFINE S == {i \in 0 .. c : \E j \in 0 .. c : i < j /\ f[i] = f[j]}
<1>4. PICK i \in S : \A y \in S : i <= y
  <2>1. S # {} /\ S \subseteq Nat
    BY <1>0, <1>3
  <2> HIDE DEF S
  <2> QED
    BY <2>1, LeastOf
<1>5. PICK j \in 0 .. c : i < j /\ f[i] = f[j]
  BY <1>4
<1>6. i = 0
  <2> SUFFICES ASSUME i # 0 PROVE FALSE
    OBVIOUS
  <2>1. i \in 1 .. c /\ j \in 1 .. c /\ i - 1 < j - 1
    BY <1>0, <1>4, <1>5
  <2>2. i - 1 \in 0 .. c /\ j - 1 \in 0 .. c /\ f[j - 1] \in Nodes
    BY <1>1, <1>2, <2>1
  <2>3. f[i] \in SuccsOf(f[j - 1])
    BY <1>2, <1>5, <2>1
  <2>4. f[i - 1] = f[j - 1]
    BY <1>2, <2>1, <2>2, <2>3
  <2>5. i - 1 \in S
    BY <2>1, <2>2, <2>4
  <2> QED
    BY <1>0, <1>4, <2>5
<1>7. j \in 1 .. c /\ f[j] = succ
  BY <1>0, <1>1, <1>5, <1>6
<1> DEFINE C == {f[k] : k \in 0 .. (j - 1)}
<1>8. ASSUME NEW s \in C
      PROVE  \E p \in C : s \in SuccsOf(p) /\ \A m \in Nodes : s \in SuccsOf(m) => m = p
  <2>1. PICK k \in 0 .. (j - 1) : s = f[k]
    OBVIOUS
  <2> DEFINE l == IF k = 0 THEN j ELSE k
  <2>2. l \in 1 .. c /\ l - 1 \in 0 .. (j - 1)
    BY <1>0, <1>7
  <2>3. s = f[l]
    BY <1>1, <1>7, <2>1
  <2> HIDE DEF l
  <2>4. /\ f[l] \in SuccsOf(f[l - 1])
        /\ \A m \in Nodes : f[l] \in SuccsOf(m) => m = f[l - 1]
    BY <1>2, <2>2
  <2>5. f[l - 1] \in C
    BY <2>2
  <2> QED
    BY <2>3, <2>4, <2>5
<1>9. C \subseteq Nodes /\ succ \in C
  <2>1. \A k \in 0 .. (j - 1) : k \in 0 .. c
    BY <1>0, <1>7
  <2>2. 0 \in 0 .. (j - 1)
    BY <1>0, <1>7
  <2> QED
    BY <1>1, <2>1, <2>2
<1> HIDE DEF C
<1> DEFINE T == Nodes \ C
<1>10. cfg.entry \in T
  BY <1>8, <1>9, GraphFacts
<1>11. ASSUME NEW m \in T, NEW s \in SuccsOf(m) PROVE s \in T
  BY <1>8, <1>11, GraphFacts
<1>12. Reachable \subseteq T
  BY <1>10, <1>11, ReachableLeast
<1> QED
  BY <1>9, <1>12

\* The scan of a block and of the only successor blocks stops, also in a loop,
\* and neither passes a use nor adds one: what can be found first stays the
\* same from succ to the instruction that advanceToNextUser returns.
THEOREM ScanSkipsNoUser == Spec => []AdvanceSkipsNoUser
<1>1. ASSUME JumpInv PROVE AdvanceSkipsNoUser
  <2>1. GraphOK
    BY <1>1 DEF JumpInv
  <2>2. ASSUME NEW n \in Reachable
        PROVE  scanned(n)[2] /\ FoundFrom(advanceToNextUser(n)) = FoundFrom(n)
    <3>1. n \in Nodes
      BY <2>1, ReachableClosed
    <3> DEFINE c == Cardinality(Nodes)
    <3>2. c \in 0 .. c
      BY <2>1, GraphFacts, FS_CardinalityType
    <3>3. PICK scan : ScanRun(scan, n, c)
      BY <2>1, <3>1, ScanRuns
    <3>4. scanned(n) = scan[c] /\ scan[c][2]
      BY <2>1, <3>3, ScanStops DEF ScanRun
    <3>5. FoundFrom(scan[c][1]) = FoundFrom(n)
      <4> HIDE DEF c
      <4> QED
        BY <3>2, <3>3 DEF ScanRun, ScanOK
    <3> QED
      BY <3>4, <3>5 DEF advanceToNextUser
  <2> QED
    BY <2>2 DEF AdvanceSkipsNoUser, FoundFrom
<1> QED
  BY <1>1, JumpInvariant, PTL

=============================================================================
