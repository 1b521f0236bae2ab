----------------------- MODULE CallGraphBuilderProofs -----------------------
(***************************************************************************)
(* For every module, alias analysis and client: the alias sets stay a      *)
(* partition of the known values, and aliases are never taken back.        *)
(*                                                                         *)
(* For every order of resolution: building the call graph and the alias    *)
(* sets together keeps it so, and the number of targets that               *)
(* constructDynamicCall compares with is a sound test for "there is a new  *)
(* target".                                                                *)
(***************************************************************************)
EXTENDS CallGraphBuilder, SequenceTheorems, WellFoundedInduction,
        FiniteSetTheorems, TLAPS

-----------------------------------------------------------------------------
(***************************************************************************)
(* The alias sets on their own.                                            *)
(***************************************************************************)
\* The inductive invariant: of the variables, only the three tables matter.
Inv == TablesOK /\ Partition

\* What every step does to the tables.
Grow ==
  /\ \A v \in DOMAIN AliasSets : v \in DOMAIN AliasSets' /\ AliasSets'[v] = AliasSets[v]
  /\ \A v, w \in DOMAIN AliasSets : setOf(v) = setOf(w) => setOf(v)' = setOf(w)'

\* A function on 1 .. n is a sequence of length n.
LEMMA FunctionIsSeq ==
  ASSUME NEW S, NEW n \in Nat, NEW f \in [1 .. n -> S]
  PROVE  f \in Seq(S) /\ Len(f) = n
  OBVIOUS

\* Initially the tables are empty.
LEMMA InitInv == AliasInit => Inv
  <1> SUFFICES ASSUME AliasInit PROVE Inv
    OBVIOUS
  <1>1. /\ AliasSets = <<>> /\ AllPTS = <<>> /\ OwnedPTS = <<>>
        /\ DOMAIN AliasSets = {} /\ DOMAIN OwnedPTS = {}
    BY DEF AliasInit
  <1>2. TablesOK
    BY <1>1 DEF TablesOK
  <1> QED BY <1>1, <1>2 DEF Inv, Partition, known, setOf, aliasSet

\* Steps that leave the tables alone.
LEMMA SameTables ==
  ASSUME Inv, UNCHANGED sets
  PROVE  Inv' /\ Grow
  BY DEF Inv, TablesOK, Partition, Grow, sets, known, setOf, aliasSet

\* addSingletonAliasSet: a new value gets a new box and a new set.
LEMMA SingletonStep ==
  ASSUME Inv, NEW v \in Value, addSingletonAliasSet(v)
  PROVE  Inv' /\ Grow
  <1>1. CASE known(v)
    BY <1>1, SameTables DEF addSingletonAliasSet
  <1>2. CASE ~known(v)
    <2> DEFINE s == CHOOSE x \in SetId : x \notin DOMAIN OwnedPTS
               n == Len(AllPTS)
    <2>1. /\ s \in SetId /\ s \notin DOMAIN OwnedPTS
          /\ OwnedPTS' = Put(OwnedPTS, s, {v})
          /\ AllPTS' = Append(AllPTS, s)
          /\ AliasSets' = Put(AliasSets, v, n + 1)
      BY <1>2 DEF addSingletonAliasSet
    <2> HIDE DEF s
    <2>2. /\ n \in Nat /\ AllPTS' \in Seq(SetId) /\ Len(AllPTS') = n + 1
          /\ AllPTS'[n + 1] = s /\ \A b \in 1 .. n : AllPTS'[b] = AllPTS[b]
      BY <2>1 DEF Inv, TablesOK
    <2>3. /\ DOMAIN AliasSets' = DOMAIN AliasSets \cup {v}
          /\ AliasSets'[v] = n + 1
          /\ \A u \in DOMAIN AliasSets : AliasSets'[u] = AliasSets[u] /\ AliasSets[u] \in 1 .. n
          /\ AliasSets' = [u \in DOMAIN AliasSets' |-> AliasSets'[u]]
      BY <1>2, <2>1, <2>2 DEF Put, known, Inv, TablesOK
    <2>4. /\ DOMAIN OwnedPTS' = DOMAIN OwnedPTS \cup {s}
          /\ OwnedPTS'[s] = {v}
          /\ \A x \in DOMAIN OwnedPTS : OwnedPTS'[x] = OwnedPTS[x]
          /\ OwnedPTS' = [x \in DOMAIN OwnedPTS' |-> OwnedPTS'[x]]
      BY <2>1 DEF Put, Inv, TablesOK
    <2>5. /\ setOf(v)' = s
          /\ \A u \in DOMAIN AliasSets : setOf(u)' = setOf(u)
      BY <2>2, <2>3 DEF setOf
    <2>6. TablesOK'
      <3>1. AliasSets' \in [DOMAIN AliasSets' -> 1 .. n + 1]
        BY <2>2, <2>3
      <3>2. \A x \in DOMAIN OwnedPTS' : OwnedPTS'[x] \subseteq Value
        BY <2>4 DEF Inv, TablesOK
      <3>3. OwnedPTS' \in [DOMAIN OwnedPTS' -> SUBSET Value]
        BY <2>4, <3>2
      <3> QED BY <2>1, <2>2, <2>3, <2>4, <3>1, <3>3 DEF Inv, TablesOK
    <2>7. Partition'
      <3>1. \A u \in DOMAIN AliasSets' : setOf(u)' \in DOMAIN OwnedPTS' /\ u \in OwnedPTS'[setOf(u)']
        BY <2>3, <2>4, <2>5 DEF Inv, Partition, aliasSet
      <3>2. \A x \in DOMAIN OwnedPTS' : \A u \in OwnedPTS'[x] :
              u \in DOMAIN AliasSets' /\ setOf(u)' = x
        BY <2>3, <2>4, <2>5 DEF Inv, Partition, known
      <3> QED BY <3>1, <3>2 DEF Partition, aliasSet, known
    <2>8. Grow
      BY <2>3, <2>5 DEF Grow
    <2> QED BY <2>6, <2>7, <2>8 DEF Inv
  <1> QED BY <1>1, <1>2

\* mergeAliasSets: the boxes of the freed set all lead to the other one,
\* because the members of the freed set are all the values that use them.
LEMMA MergeStep ==
  ASSUME Inv, NEW v, NEW w, known(v), known(w), mergeAliasSets(v, w)
  PROVE  Inv' /\ Grow
  <1> DEFINE s == setOf(v)
             t == setOf(w)
             small == IF Cardinality(OwnedPTS[s]) > Cardinality(OwnedPTS[t]) THEN t ELSE s
             large == IF small = s THEN t ELSE s
             moved(b) == /\ AllPTS[b] = small
                         /\ \E u \in OwnedPTS[small] : known(u) /\ AliasSets[u] = b
             n == Len(AllPTS)
  <1>1. CASE v = w \/ s = t
    BY <1>1, SameTables DEF mergeAliasSets
  <1>2. CASE ~(v = w \/ s = t)
    <2>1. /\ OwnedPTS' = [x \in DOMAIN OwnedPTS \ {small} |->
                            IF x = large THEN OwnedPTS[s] \cup OwnedPTS[t] ELSE OwnedPTS[x]]
          /\ AllPTS' = [b \in DOMAIN AllPTS |-> IF moved(b) THEN large ELSE AllPTS[b]]
          /\ AliasSets' = AliasSets
      BY <1>2 DEF mergeAliasSets
    <2>2. /\ s \in DOMAIN OwnedPTS /\ t \in DOMAIN OwnedPTS
          /\ small # large /\ {small, large} = {s, t}
      BY <1>2 DEF Inv, Partition, known
    <2>3. OwnedPTS[s] \cup OwnedPTS[t] = OwnedPTS[small] \cup OwnedPTS[large]
      BY <2>2
    <2> HIDE DEF small, large
    <2>4. /\ n \in Nat /\ DOMAIN AllPTS = 1 .. n
          /\ \A b \in 1 .. n : AllPTS[b] \in SetId
          /\ small \in SetId /\ large \in SetId
      <3>1. AllPTS \in Seq(SetId) /\ DOMAIN OwnedPTS \subseteq SetId
        BY DEF Inv, TablesOK
      <3> HIDE DEF s, t
      <3>2. small \in SetId /\ large \in SetId
        BY <2>2, <3>1
      <3> QED BY <3>1, <3>2
    <2>5. AllPTS' \in [1 .. n -> SetId]
      BY <2>1, <2>4
    <2>6. AllPTS' \in Seq(SetId) /\ Len(AllPTS') = n
      BY <2>4, <2>5, FunctionIsSeq
    <2>7. /\ DOMAIN OwnedPTS' = DOMAIN OwnedPTS \ {small}
          /\ OwnedPTS'[large] = OwnedPTS[small] \cup OwnedPTS[large]
          /\ \A x \in DOMAIN OwnedPTS' : x # large => OwnedPTS'[x] = OwnedPTS[x]
          /\ large \in DOMAIN OwnedPTS'
      BY <2>1, <2>2, <2>3
    <2>8. \A u \in DOMAIN AliasSets :
            setOf(u)' = IF setOf(u) = small THEN large ELSE setOf(u)
      <3> SUFFICES ASSUME NEW u \in DOMAIN AliasSets
                   PROVE  setOf(u)' = IF setOf(u) = small THEN large ELSE setOf(u)
        OBVIOUS
      <3>1. AliasSets[u] \in 1 .. n
        BY DEF Inv, TablesOK
      <3>2. setOf(u)' = IF moved(AliasSets[u]) THEN large ELSE setOf(u)
        BY <2>1, <2>4, <3>1 DEF setOf
      <3>3. setOf(u) = small => moved(AliasSets[u])
        BY DEF Inv, Partition, setOf, aliasSet, known
      <3>4. moved(AliasSets[u]) => setOf(u) = small
        BY DEF setOf
      <3> QED BY <3>2, <3>3, <3>4
    <2>9. TablesOK'
      <3>1. \A x \in DOMAIN OwnedPTS' : OwnedPTS'[x] \subseteq Value
        BY <2>2, <2>7 DEF Inv, TablesOK
      <3>2. OwnedPTS' \in [DOMAIN OwnedPTS' -> SUBSET Value]
        BY <2>1, <3>1
      <3> QED BY <2>1, <2>6, <2>7, <3>2 DEF Inv, TablesOK
    <2>10. Partition'
      <3>1. \A u \in DOMAIN AliasSets' : setOf(u)' \in DOMAIN OwnedPTS' /\ u \in OwnedPTS'[setOf(u)']
        BY <2>1, <2>7, <2>8 DEF Inv, Partition, aliasSet
      <3>2. \A x \in DOMAIN OwnedPTS' : \A u \in OwnedPTS'[x] :
              u \in DOMAIN AliasSets' /\ setOf(u)' = x
        BY <2>1, <2>2, <2>7, <2>8 DEF Inv, Partition, known
      <3> QED BY <3>1, <3>2 DEF Partition, aliasSet, known
    <2>11. Grow
      BY <2>1, <2>8 DEF Grow
    <2> QED BY <2>9, <2>10, <2>11 DEF Inv
  <1> QED BY <1>1, <1>2

\* The end of addPointer: a new value shares the representative's box.
LEMMA JoinStep ==
  ASSUME Inv, NEW v \in Value, NEW rep, known(rep), joinSet(v, rep)
  PROVE  Inv' /\ Grow
  <1>1. CASE known(v)
    BY <1>1, MergeStep DEF joinSet
  <1>2. CASE ~known(v)
    <2> DEFINE s == setOf(rep)
    <2>1. /\ AliasSets' = Put(AliasSets, v, AliasSets[rep])
          /\ OwnedPTS' = [OwnedPTS EXCEPT ![s] = @ \cup {v}]
          /\ AllPTS' = AllPTS
      BY <1>2 DEF joinSet
    <2>2. s \in DOMAIN OwnedPTS
      BY DEF Inv, Partition, known
    <2>3. /\ DOMAIN AliasSets' = DOMAIN AliasSets \cup {v}
          /\ AliasSets'[v] = AliasSets[rep]
          /\ \A u \in DOMAIN AliasSets : AliasSets'[u] = AliasSets[u]
          /\ AliasSets' = [u \in DOMAIN AliasSets' |-> AliasSets'[u]]
      BY <1>2, <2>1 DEF Put, known
    <2>4. /\ setOf(v)' = s
          /\ \A u \in DOMAIN AliasSets : setOf(u)' = setOf(u)
      BY <2>1, <2>3 DEF setOf
    <2> HIDE DEF s
    <2>5. /\ DOMAIN OwnedPTS' = DOMAIN OwnedPTS
          /\ OwnedPTS'[s] = OwnedPTS[s] \cup {v}
          /\ \A x \in DOMAIN OwnedPTS : x # s => OwnedPTS'[x] = OwnedPTS[x]
      BY <2>1, <2>2 DEF Inv, TablesOK
    <2>6. TablesOK'
      <3>1. \A u \in DOMAIN AliasSets' : AliasSets'[u] \in 1 .. Len(AllPTS')
        BY <2>1, <2>3 DEF Inv, TablesOK, known
      <3>2. \A x \in DOMAIN OwnedPTS' : OwnedPTS'[x] \subseteq Value
        BY <2>5, <2>2 DEF Inv, TablesOK
      <3>3. OwnedPTS' \in [DOMAIN OwnedPTS' -> SUBSET Value]
        BY <2>1, <3>2 DEF Inv, TablesOK
      <3> QED BY <2>1, <2>3, <2>5, <3>1, <3>3 DEF Inv, TablesOK
    <2>7. Partition'
      <3>1. \A u \in DOMAIN AliasSets' : setOf(u)' \in DOMAIN OwnedPTS' /\ u \in OwnedPTS'[setOf(u)']
        BY <2>2, <2>3, <2>4, <2>5 DEF Inv, Partition, aliasSet
      <3>2. \A x \in DOMAIN OwnedPTS' : \A u \in OwnedPTS'[x] :
              u \in DOMAIN AliasSets' /\ setOf(u)' = x
        BY <2>2, <2>3, <2>4, <2>5 DEF Inv, Partition, known
      <3> QED BY <3>1, <3>2 DEF Partition, aliasSet, known
    <2>8. Grow
      BY <2>3, <2>4 DEF Grow
    <2> QED BY <2>6, <2>7, <2>8 DEF Inv
  <1> QED BY <1>1, <1>2

\* One step of the class or of a client, for every action.
LEMMA NextInv ==
  ASSUME Inv, [AliasNext]_aliasVars
  PROVE  Inv' /\ Grow
  <1>1. CASE UNCHANGED aliasVars
    BY <1>1, SameTables DEF aliasVars, sets
  <1>2. CASE computeValuesAliasSet
    BY <1>2, SingletonStep DEF computeValuesAliasSet
  <1>3. CASE computeFunctionsAliasSet
    BY <1>3, SameTables DEF computeFunctionsAliasSet
  <1>4. CASE addPointer
    BY <1>4, SameTables DEF addPointer
  <1>5. CASE singletonStep
    BY <1>5, SingletonStep DEF singletonStep
  <1>6. CASE mergeStep
    BY <1>6, MergeStep DEF mergeStep
  <1>7. CASE joinStep
    BY <1>7, JoinStep DEF joinStep
  <1>8. CASE clientStep
    BY <1>8, SameTables DEF clientStep, Request
  <1> QED BY <1>1, <1>2, <1>3, <1>4, <1>5, <1>6, <1>7, <1>8 DEF AliasNext, AliasStep

-----------------------------------------------------------------------------
(***************************************************************************)
(* No box dangles and every member's box leads to its own set, for every   *)
(* order of computing, joining and merging and every reuse of addresses.   *)
(***************************************************************************)
THEOREM PartitionInvariant == AliasSpec => []Partition
  <1>1. Inv /\ [AliasNext]_aliasVars => Inv'
    BY NextInv
  <1>2. Inv => Partition
    BY DEF Inv
  <1> QED BY InitInv, <1>1, <1>2, PTL DEF AliasSpec

(***************************************************************************)
(* Boxes handed out stay valid and aliases are never taken back: the       *)
(* ground on which the call-graph builder compares numbers of targets.     *)
(***************************************************************************)
THEOREM AliasesGrow == AliasSpec => AliasesOnlyGrow
  <1>1. Inv /\ [AliasNext]_aliasVars => Inv'
    BY NextInv
  <1>2. Inv /\ [AliasNext]_aliasVars => [Grow]_aliasVars
    BY NextInv
  <1>3. AliasSpec => [][Grow]_aliasVars
    BY InitInv, <1>1, <1>2, PTL DEF AliasSpec
  <1> QED BY <1>3 DEF AliasesOnlyGrow, Grow
-----------------------------------------------------------------------------
(***************************************************************************)
(* The assertions of mergeAliasSets and addPointer.  First the sequences:  *)
(* induction over the naturals, from a least element of every set.         *)
(***************************************************************************)
LEMMA LeastElement ==
  ASSUME NEW S, S \subseteq Nat, S # {}
  PROVE  \E x \in S : \A y \in S : x <= y
  <1> DEFINE R == OpToRel(<, Nat)
  <1>1. IsWellFoundedOn(R, Nat)
    BY NatLessThanWellFounded, Zenon
  <1>2. \A y, z \in Nat : y < z => <<y, z>> \in R
    BY DEF OpToRel
  <1> HIDE DEF R
  <1>3. PICK x \in S : \A y \in S : ~(<<y, x>> \in R)
    BY <1>1, WFMin
  <1>4. \A y \in S : ~(y < x)
    BY <1>2, <1>3
  <1>5. \A y \in S : x <= y
    BY <1>4
  <1> QED BY <1>5

\* Induction over the naturals, for a set.
LEMMA SetInduction ==
  ASSUME NEW S, S \subseteq Nat, 0 \in S, \A n \in S : n + 1 \in S
  PROVE  S = Nat
  <1> DEFINE T == Nat \ S
  <1> SUFFICES ASSUME T # {} PROVE FALSE
    OBVIOUS
  <1>1. PICK x \in T : \A y \in T : x <= y
    BY LeastElement
  <1>2. x - 1 \in T
    BY <1>1
  <1> QED BY <1>1, <1>2

\* The function that keep is defined by.
KeepSol(g, s, S) == g = [i \in 0 .. Len(s) |-> IF i = 0 THEN <<>>
                                               ELSE IF s[i] \in S THEN Append(g[i - 1], s[i])
                                               ELSE g[i - 1]]

\* The recursion of keep has a solution.
LEMMA KeepDefined ==
  ASSUME NEW A, NEW s \in Seq(A), NEW S
  PROVE  \E g : KeepSol(g, s, S)
  <1> DEFINE Sol(g, n) == g = [i \in 0 .. n |-> IF i = 0 THEN <<>>
                                               ELSE IF s[i] \in S THEN Append(g[i - 1], s[i])
                                               ELSE g[i - 1]]
             N == {n \in Nat : \E g : Sol(g, n)}
  <1>1. 0 \in N
    <2>1. Sol([i \in 0 .. 0 |-> <<>>], 0)
      OBVIOUS
    <2> QED BY <2>1
  <1>2. ASSUME NEW n \in N PROVE n + 1 \in N
    <2>1. PICK g : Sol(g, n)
      OBVIOUS
    <2> DEFINE x == IF s[n + 1] \in S THEN Append(g[n], s[n + 1]) ELSE g[n]
               h == [i \in 0 .. (n + 1) |-> IF i = n + 1 THEN x ELSE g[i]]
    <2>2. \A i \in 0 .. (n + 1) : h[i] = IF i = 0 THEN <<>>
                                         ELSE IF s[i] \in S THEN Append(h[i - 1], s[i])
                                         ELSE h[i - 1]
      <3> SUFFICES ASSUME NEW i \in 0 .. (n + 1)
                   PROVE  h[i] = IF i = 0 THEN <<>>
                                 ELSE IF s[i] \in S THEN Append(h[i - 1], s[i]) ELSE h[i - 1]
        OBVIOUS
      <3>1. CASE i = n + 1
        <4>1. h[i] = x /\ i # 0 /\ i - 1 = n /\ h[i - 1] = g[n]
          BY <3>1
        <4> QED BY <3>1, <4>1
      <3>2. CASE i # n + 1
        <4>1. i \in 0 .. n /\ h[i] = g[i] /\ (i # 0 => h[i - 1] = g[i - 1])
          BY <3>2
        <4>2. g[i] = IF i = 0 THEN <<>>
                     ELSE IF s[i] \in S THEN Append(g[i - 1], s[i]) ELSE g[i - 1]
          BY <2>1, <4>1
        <4> QED BY <4>1, <4>2
      <3> QED BY <3>1, <3>2
    <2> HIDE DEF x
    <2>3. Sol(h, n + 1)
      <3>1. h = [i \in 0 .. (n + 1) |-> h[i]]
        OBVIOUS
      <3> QED BY <2>2, <3>1
    <2> HIDE DEF h, Sol
    <2> QED BY <2>3
  <1> HIDE DEF Sol
  <1>3. N = Nat
    BY <1>1, <1>2, SetInduction
  <1>4. Len(s) \in Nat
    OBVIOUS
  <1> QED BY <1>3, <1>4 DEF Sol, KeepSol

\* keep selects elements of the sequence that are in the set.
LEMMA KeepType ==
  ASSUME NEW A, NEW s \in Seq(A), NEW S
  PROVE  keep(s, S) \in Seq(A \cap S)
  <1> DEFINE Sol(g) == KeepSol(g, s, S)
             kept == CHOOSE g : Sol(g)
             N == {n \in Nat : n <= Len(s) => kept[n] \in Seq(A \cap S)}
  <1>1. Sol(kept)
    <2>1. \E g : Sol(g)
      BY KeepDefined
    <2> HIDE DEF Sol
    <2> QED BY <2>1
  <1> USE DEF KeepSol
  <1>2. keep(s, S) = kept[Len(s)]
    BY DEF keep
  <1> HIDE DEF kept
  <1>3. \A i \in 0 .. Len(s) : kept[i] = IF i = 0 THEN <<>>
                                        ELSE IF s[i] \in S THEN Append(kept[i - 1], s[i])
                                        ELSE kept[i - 1]
    BY <1>1
  <1>4. 0 \in N
    <2>1. kept[0] = <<>> /\ <<>> \in Seq(A \cap S)
      BY <1>3
    <2> QED BY <2>1
  <1>5. ASSUME NEW n \in N PROVE n + 1 \in N
    <2> SUFFICES ASSUME n + 1 <= Len(s) PROVE kept[n + 1] \in Seq(A \cap S)
      OBVIOUS
    <2>1. kept[n] \in Seq(A \cap S) /\ s[n + 1] \in A
      OBVIOUS
    <2>2. kept[n + 1] = IF s[n + 1] \in S THEN Append(kept[n], s[n + 1]) ELSE kept[n]
      BY <1>3
    <2> QED BY <2>1, <2>2
  <1>6. N = Nat
    <2> HIDE DEF N
    <2>1. N \subseteq Nat
      BY DEF N
    <2> QED BY <1>4, <1>5, <2>1, SetInduction
  <1> QED BY <1>2, <1>6
(***************************************************************************)
(* The inductive invariant of the assertions, of T = Todo, K = the known   *)
(* values, A = AnalyzedFunctions and R = Reps.  Wherever the next function *)
(* or value is taken up, the functions that count as analysed really are;  *)
(* wherever addPointer runs, the representatives have a set.               *)
(***************************************************************************)
Settled(T, K, A) ==
  \A k \in 1 .. (Len(T) + 1) :
    (k = Len(T) + 1 \/ T[k].op \in {"value", "function"}) =>
      \A f \in A : ~isDeclaration(f) => pointersOf(f) \subseteq K \cup before(T, k)
RepsReady(T, K, R) ==
  \A k \in 1 .. Len(T) :
    T[k].op = "pointer" => \A i \in 1 .. Len(R) : R[i] \in K \cup before(T, k)
ReadyFor(T, K, A, R) == ready(T, K) /\ Settled(T, K, A) /\ RepsReady(T, K, R)

\* A member of before(s, k) is left by an earlier step.
LEMMA BeforeDef ==
  ASSUME NEW s, NEW k, NEW x
  PROVE  x \in before(s, k) <=> \E j \in 1 .. (k - 1) : x \in leaves(s[j])
  BY DEF before

\* What comes before a step stays before it when the head is replaced.
Replaced(s, K, more, L, t) ==
  /\ t \in Seq(Op) /\ Len(t) = Len(more) + Len(s) - 1
  /\ \A k \in 1 .. Len(more) : t[k] = more[k] /\ before(t, k) = before(more, k)
  /\ \A k \in 2 .. Len(s) : t[Len(more) + k - 1] = s[k]
  /\ \A k \in 2 .. (Len(s) + 1) :
       K \cup before(s, k) \subseteq L \cup before(t, Len(more) + k - 1)
  /\ \A k \in 2 .. (Len(s) + 1) :
       before(more, Len(more) + 1) \subseteq before(t, Len(more) + k - 1)

\* The head of s gives way to the steps more, which leave what it would.
LEMMA HeadReplaced ==
  ASSUME NEW s \in Seq(Op), s # <<>>, NEW more \in Seq(Op), NEW K, NEW L, K \subseteq L,
         leaves(s[1]) \subseteq L \cup before(more, Len(more) + 1),
         NEW t, t = more \o Tail(s)
  PROVE  Replaced(s, K, more, L, t)
  <1> DEFINE m == Len(more)
             n == Len(s)
  <1>1. m \in Nat /\ n \in Nat /\ n >= 1
    OBVIOUS
  <1>2. /\ Tail(s) \in Seq(Op) /\ Len(Tail(s)) = n - 1
        /\ \A i \in 1 .. (n - 1) : Tail(s)[i] = s[i + 1]
    OBVIOUS
  <1>3. /\ t \in Seq(Op) /\ Len(t) = m + n - 1
        /\ \A k \in 1 .. m : t[k] = more[k]
    BY <1>2
  <1>4. \A k \in 2 .. n : t[m + k - 1] = s[k]
    <2> SUFFICES ASSUME NEW k \in 2 .. n PROVE t[m + k - 1] = s[k]
      OBVIOUS
    <2>1. m + k - 1 \in (m + 1) .. (m + n - 1) /\ (m + k - 1) - m = k - 1
      BY <1>1
    <2>2. t[m + k - 1] = Tail(s)[k - 1]
      BY <1>1, <1>2, <2>1, ConcatProperties
    <2> QED BY <1>1, <1>2, <2>2
  <1> HIDE DEF m, n
  <1>5. ASSUME NEW k \in 1 .. m PROVE before(t, k) = before(more, k)
    <2>1. \A j \in 1 .. (k - 1) : t[j] = more[j]
      BY <1>1, <1>3
    <2>2. \A x : x \in before(t, k) <=> x \in before(more, k)
      BY <2>1 DEF before
    <2> QED BY <2>2
  <1>6. ASSUME NEW k \in 2 .. (n + 1), NEW x \in before(more, m + 1)
        PROVE  x \in before(t, m + k - 1)
    <2>1. PICK j \in 1 .. m : x \in leaves(more[j])
      BY <1>1, BeforeDef
    <2>2. PICK q \in Nat : q = m + k - 1
      BY <1>1
    <2>3. j \in 1 .. (q - 1) /\ x \in leaves(t[j])
      BY <1>1, <1>3, <2>1, <2>2
    <2>4. x \in before(t, q)
      BY <2>3, BeforeDef
    <2> QED BY <2>2, <2>4
  <1>7. ASSUME NEW k \in 2 .. (n + 1), NEW x \in K \cup before(s, k)
        PROVE  x \in L \cup before(t, m + k - 1)
    <2>1. CASE x \in K
      BY <2>1
    <2>2. CASE x \in before(s, k)
      <3>1. PICK j \in 1 .. (k - 1) : x \in leaves(s[j])
        BY <2>2, BeforeDef
      <3>2. CASE j = 1
        <4>1. x \in L \cup before(more, m + 1)
          BY <3>1, <3>2 DEF m
        <4> QED BY <1>6, <4>1
      <3>3. CASE j # 1
        <4>1. PICK q \in Nat : q = m + k - 1
          BY <1>1
        <4>2. PICK i \in Nat : i = m + j - 1
          BY <1>1
        <4>3. j \in 2 .. n /\ i \in 1 .. (q - 1)
          BY <1>1, <3>3, <4>1, <4>2
        <4>4. x \in leaves(t[i])
          BY <1>4, <3>1, <4>2, <4>3
        <4>5. x \in before(t, q)
          BY <4>3, <4>4, BeforeDef
        <4> QED BY <4>1, <4>5
      <3> QED BY <3>2, <3>3
    <2> QED BY <2>1, <2>2
  <1> QED BY <1>3, <1>4, <1>5, <1>6, <1>7 DEF m, n, Replaced

\* Every position after a replaced head is one of the new steps or an old one.
LEMMA SplitPosition ==
  ASSUME NEW m \in Nat, NEW n \in Nat, n >= 1, NEW k \in 1 .. (m + n)
  PROVE  k \in 1 .. m \/ \E j \in 2 .. (n + 1) : k = m + j - 1
  <1>1. CASE k <= m
    BY <1>1
  <1>2. CASE k > m
    <2>1. k - m + 1 \in 2 .. (n + 1) /\ k = m + (k - m + 1) - 1
      BY <1>2
    <2> QED BY <2>1
  <1> QED BY <1>1, <1>2

NoPointer(s) == \A k \in 1 .. Len(s) : s[k].op # "pointer"

\* What new steps must satisfy when the known values become L, the analysed
\* functions B and the representatives Q.
Fits(more, L, A, B, R, Q) ==
  /\ ready(more, L)
  /\ \A f \in B : ~isDeclaration(f) =>
       f \in A \/ pointersOf(f) \subseteq L \cup before(more, Len(more) + 1)
  /\ \A k \in 1 .. Len(more) : more[k].op \in {"value", "function"} =>
       \A f \in B : ~isDeclaration(f) => pointersOf(f) \subseteq L
  /\ \A i \in 1 .. Len(Q) :
       (\E j \in 1 .. Len(R) : Q[i] = R[j]) \/ Q[i] \in L \cup before(more, Len(more) + 1)
  /\ NoPointer(more) \/ Len(Q) = 0

\* Replacing the head keeps the invariant, if the new steps fit.
LEMMA ReadyReplaced ==
  ASSUME NEW s \in Seq(Op), s # <<>>, NEW more \in Seq(Op), NEW K, NEW L, K \subseteq L,
         leaves(s[1]) \subseteq L \cup before(more, Len(more) + 1),
         NEW t, t = more \o Tail(s), NEW A, NEW B, NEW R, NEW Q,
         ReadyFor(s, K, A, R), Fits(more, L, A, B, R, Q)
  PROVE  ReadyFor(t, L, B, Q)
  <1> DEFINE m == Len(more)
             n == Len(s)
  <1>1. m \in Nat /\ n \in Nat /\ n >= 1
    OBVIOUS
  <1>2. /\ t \in Seq(Op) /\ Len(t) = m + n - 1
        /\ \A k \in 1 .. m : t[k] = more[k] /\ before(t, k) = before(more, k)
        /\ \A k \in 2 .. n : t[m + k - 1] = s[k]
        /\ \A k \in 2 .. (n + 1) : K \cup before(s, k) \subseteq L \cup before(t, m + k - 1)
        /\ \A k \in 2 .. (n + 1) : before(more, m + 1) \subseteq before(t, m + k - 1)
    <2>1. Replaced(s, K, more, L, t)
      BY HeadReplaced
    <2> QED BY <2>1 DEF Replaced
  <1>3. ready(t, L)
    <2> SUFFICES ASSUME NEW k \in 1 .. Len(t)
                 PROVE  needs(t[k]) \subseteq L \cup before(t, k)
      BY DEF ready
    <2>1. CASE k \in 1 .. m
      BY <1>2, <2>1 DEF Fits, ready, m
    <2>2. CASE \E j \in 2 .. (n + 1) : k = m + j - 1
      <3>1. PICK j \in 2 .. (n + 1) : k = m + j - 1
        BY <2>2
      <3>2. j \in 2 .. n /\ j \in 1 .. Len(s)
        BY <1>1, <1>2, <3>1
      <3>3. needs(s[j]) \subseteq K \cup before(s, j)
        BY <3>2 DEF ReadyFor, ready
      <3> HIDE DEF m, n
      <3> QED BY <1>2, <3>1, <3>2, <3>3
    <2> HIDE DEF m, n
    <2>3. k \in 1 .. (m + n)
      BY <1>1, <1>2
    <2> QED BY <1>1, <2>1, <2>2, <2>3, SplitPosition
  <1>4. Settled(t, L, B)
    <2> SUFFICES ASSUME NEW k \in 1 .. (Len(t) + 1),
                        k = Len(t) + 1 \/ t[k].op \in {"value", "function"},
                        NEW f \in B, ~isDeclaration(f)
                 PROVE  pointersOf(f) \subseteq L \cup before(t, k)
      BY DEF Settled
    <2>1. CASE k \in 1 .. m
      <3>1. more[k].op \in {"value", "function"}
        BY <1>1, <1>2, <2>1
      <3> QED BY <2>1, <3>1 DEF Fits
    <2>2. CASE \E j \in 2 .. (n + 1) : k = m + j - 1
      <3>1. PICK j \in 2 .. (n + 1) : k = m + j - 1
        BY <2>2
      <3>2. CASE f \in A
        <4>1. j \in 1 .. (Len(s) + 1) /\ (j = Len(s) + 1 \/ s[j].op \in {"value", "function"})
          BY <1>1, <1>2, <3>1
        <4>2. pointersOf(f) \subseteq K \cup before(s, j)
          BY <3>2, <4>1 DEF ReadyFor, Settled
        <4> HIDE DEF m, n
        <4> QED BY <1>2, <3>1, <4>2
      <3>3. CASE pointersOf(f) \subseteq L \cup before(more, Len(more) + 1)
        <4>1. before(more, m + 1) \subseteq before(t, k)
          BY <1>2, <3>1
        <4> QED BY <3>3, <4>1
      <3> QED BY <3>2, <3>3 DEF Fits
    <2> HIDE DEF m, n
    <2>3. k \in 1 .. (m + n)
      BY <1>1, <1>2
    <2> QED BY <1>1, <2>1, <2>2, <2>3, SplitPosition
  <1>5. RepsReady(t, L, Q)
    <2> SUFFICES ASSUME NEW k \in 1 .. Len(t), t[k].op = "pointer", NEW i \in 1 .. Len(Q)
                 PROVE  Q[i] \in L \cup before(t, k)
      BY DEF RepsReady
    <2>1. k \notin 1 .. m
      BY <1>2 DEF Fits, NoPointer, m
    <2>2. PICK j \in 2 .. (n + 1) : k = m + j - 1
      <3>1. k \in 1 .. (m + n)
        BY <1>1, <1>2
      <3> HIDE DEF m, n
      <3> QED BY <1>1, <2>1, <3>1, SplitPosition
    <2>3. j \in 1 .. Len(s) /\ s[j].op = "pointer"
      BY <1>1, <1>2, <2>2
    <2>4. CASE \E h \in 1 .. Len(R) : Q[i] = R[h]
      <3>1. Q[i] \in K \cup before(s, j)
        BY <2>3, <2>4 DEF ReadyFor, RepsReady
      <3> HIDE DEF m, n
      <3> QED BY <1>2, <2>2, <3>1
    <2>5. CASE Q[i] \in L \cup before(more, Len(more) + 1)
      <3>1. before(more, m + 1) \subseteq before(t, k)
        BY <1>2, <2>2
      <3> QED BY <2>5, <3>1
    <2> QED BY <2>4, <2>5 DEF Fits
  <1> QED BY <1>3, <1>4, <1>5 DEF ReadyFor
\* The type and the invariant of the steps that are still to be made.
StepsReady ==
  /\ AnalyzedFunctions \subseteq Func /\ Reps \in Seq(Value) /\ Todo \in Seq(Op)
  /\ ReadyFor(Todo, DOMAIN AliasSets, AnalyzedFunctions, Reps)

\* The records of the steps.
LEMMA OpTypes ==
  /\ \A v, w \in Value : /\ computeValues(v) \in Op /\ addPointerIn(w, v) \in Op
                         /\ addSingleton(v) \in Op /\ merge(v, w) \in Op
                         /\ joinTo(v, w) \in Op /\ computeFunctions(v) \in Op
  /\ \A v, w : /\ computeValues(v).op = "value" /\ computeValues(v).v = v
               /\ computeFunctions(v).op = "function" /\ computeFunctions(v).v = v
               /\ addPointerIn(w, v).op = "pointer" /\ addPointerIn(w, v).v = v
               /\ addSingleton(v).op = "singleton" /\ addSingleton(v).v = v
               /\ merge(v, w).op = "merge" /\ merge(v, w).v = v /\ merge(v, w).w = w
               /\ joinTo(v, w).op = "join" /\ joinTo(v, w).v = v /\ joinTo(v, w).w = w
  BY DEF Op, Kinds, computeValues, addPointerIn, addSingleton, merge, joinTo,
         computeFunctions

\* What each step needs before it, and leaves after it.
LEMMA OpLeaves ==
  \A v, w : /\ leaves(computeValues(v)) = {v} /\ needs(computeValues(v)) = {}
            /\ leaves(addPointerIn(w, v)) = {v} /\ needs(addPointerIn(w, v)) = {}
            /\ leaves(addSingleton(v)) = {v} /\ needs(addSingleton(v)) = {}
            /\ leaves(merge(v, w)) = {} /\ needs(merge(v, w)) = {v, w}
            /\ leaves(joinTo(v, w)) = {v} /\ needs(joinTo(v, w)) = {w}
            /\ needs(computeFunctions(v)) = {}
            /\ leaves(computeFunctions(v)) = IF isDeclaration(v) THEN {} ELSE pointersOf(v)
  BY OpTypes DEF leaves, needs

\* An empty or a one-step replacement.
LEMMA NoSteps ==
  /\ <<>> \in Seq(Op) /\ Len(<<>>) = 0
  /\ \A K : ready(<<>>, K)
  /\ before(<<>>, 1) = {} /\ \A S : only(<<>>, S)
  <1>1. before(<<>>, 1) = {}
    BY DEF before
  <1> QED BY <1>1 DEF ready, only

\* Sequences of one step that needs nothing are ready.
LEMMA OneStep ==
  ASSUME NEW o \in Op
  PROVE  /\ <<o>> \in Seq(Op) /\ Len(<<o>>) = 1 /\ <<o>>[1] = o
         /\ before(<<o>>, Len(<<o>>) + 1) = leaves(o)
         /\ \A K : needs(o) \subseteq K => ready(<<o>>, K)
  <1>1. before(<<o>>, 2) = leaves(o)
    <2>1. \A x : x \in before(<<o>>, 2) <=> x \in leaves(o)
      BY DEF before
    <2> QED BY <2>1
  <1>2. ASSUME NEW K, needs(o) \subseteq K PROVE ready(<<o>>, K)
    BY <1>2 DEF ready
  <1> QED BY <1>1, <1>2

\* What a step with a new set leaves known.
LEMMA SingletonKnown ==
  ASSUME NEW v, addSingletonAliasSet(v)
  PROVE  DOMAIN AliasSets' = DOMAIN AliasSets \cup {v}
  <1>1. CASE known(v)
    BY <1>1 DEF addSingletonAliasSet, sets, known
  <1>2. CASE ~known(v)
    BY <1>2 DEF addSingletonAliasSet, Put, known
  <1> QED BY <1>1, <1>2

\* joinSet gives the value a set.
LEMMA JoinKnown ==
  ASSUME NEW v, NEW rep, joinSet(v, rep)
  PROVE  DOMAIN AliasSets' = DOMAIN AliasSets \cup {v}
  <1>1. CASE known(v)
    BY <1>1 DEF joinSet, mergeAliasSets, sets, known
  <1>2. CASE ~known(v)
    BY <1>2 DEF joinSet, Put, known
  <1> QED BY <1>1, <1>2

\* The steps of FunctionOps leave a set for every pointer of the function.
LEMMA FunctionLeaves ==
  ASSUME NEW f \in Func
  PROVE  /\ FunctionOps(f) \in Seq(Op)
         /\ pointersOf(f) \subseteq before(FunctionOps(f), Len(FunctionOps(f)) + 1)
  <1> DEFINE s == FunctionOps(f)
  <1>1. s \in Seq(Op) /\ only(s, {"pointer", "singleton", "merge"})
    BY OpsAssumption, ReadyAssumption
  <1>2. ASSUME NEW x \in pointersOf(f) PROVE x \in before(s, Len(s) + 1)
    <2>1. PICK k \in DOMAIN s : s[k].op # "merge" /\ x = s[k].v
      BY <1>2 DEF pointersOf
    <2>2. k \in 1 .. Len(s) /\ s[k].op \in {"pointer", "singleton"}
      BY <1>1, <2>1 DEF only
    <2>3. leaves(s[k]) = {x}
      BY <2>1, <2>2 DEF leaves
    <2>4. PICK q \in Nat : q = Len(s) + 1
      BY <1>1
    <2>5. k \in 1 .. (q - 1)
      BY <1>1, <2>2, <2>4
    <2>6. x \in before(s, q)
      BY <2>3, <2>5, BeforeDef
    <2> QED BY <2>4, <2>6
  <1> QED BY <1>1, <1>2
\* One step of Todo, in terms of ReadyReplaced.
LEMMA StepReplaces ==
  ASSUME StepsReady, NEW head, NEW more \in Seq(Op), step(head, more),
         DOMAIN AliasSets \subseteq DOMAIN AliasSets',
         leaves(head) \subseteq DOMAIN AliasSets' \cup before(more, Len(more) + 1),
         Fits(more, DOMAIN AliasSets', AnalyzedFunctions, AnalyzedFunctions', Reps, Reps'),
         AnalyzedFunctions' \subseteq Func, Reps' \in Seq(Value)
  PROVE  StepsReady'
  <1>1. PICK s, t, K, L : s = Todo /\ t = Todo' /\ K = DOMAIN AliasSets /\ L = DOMAIN AliasSets'
    OBVIOUS
  <1>2. PICK A, B, R, Q : /\ A = AnalyzedFunctions /\ B = AnalyzedFunctions'
                          /\ R = Reps /\ Q = Reps'
    OBVIOUS
  <1>3. s \in Seq(Op) /\ s # <<>> /\ s[1] = head /\ t = more \o Tail(s)
    BY <1>1 DEF step, StepsReady
  <1>4. ReadyFor(s, K, A, R) /\ Fits(more, L, A, B, R, Q) /\ K \subseteq L
    BY <1>1, <1>2 DEF StepsReady
  <1>5. leaves(s[1]) \subseteq L \cup before(more, Len(more) + 1)
    BY <1>1, <1>3
  <1>6. ReadyFor(t, L, B, Q)
    BY <1>3, <1>4, <1>5, ReadyReplaced
  <1>7. t \in Seq(Op)
    BY <1>3
  <1> QED BY <1>1, <1>2, <1>6, <1>7 DEF StepsReady, ReadyFor, ready, Settled, RepsReady, before

\* What is known when a function or value is taken up next.
LEMMA SettledNow ==
  ASSUME StepsReady, Todo = <<>> \/ Todo[1].op \in {"value", "function"}
  PROVE  \A f \in AnalyzedFunctions : ~isDeclaration(f) => pointersOf(f) \subseteq DOMAIN AliasSets
  <1>1. PICK T, K : T = Todo /\ K = DOMAIN AliasSets
    OBVIOUS
  <1>2. T \in Seq(Op) /\ Settled(T, K, AnalyzedFunctions)
    BY <1>1 DEF StepsReady, ReadyFor
  <1>3. 1 \in 1 .. (Len(T) + 1) /\ (1 = Len(T) + 1 \/ T[1].op \in {"value", "function"})
    BY <1>1, <1>2
  <1>4. before(T, 1) = {}
    BY DEF before
  <1> QED BY <1>1, <1>2, <1>3, <1>4 DEF Settled

\* The steps that give a set to one value and go on.
LEMMA SimpleStep ==
  ASSUME StepsReady, NEW head, step(head, <<>>), leaves(head) \subseteq DOMAIN AliasSets',
         DOMAIN AliasSets \subseteq DOMAIN AliasSets', UNCHANGED <<AnalyzedFunctions, Reps>>
  PROVE  StepsReady'
  <1>1. PICK more : more = <<>>
    OBVIOUS
  <1>2. /\ more \in Seq(Op) /\ Len(more) = 0 /\ ready(more, DOMAIN AliasSets')
        /\ NoPointer(more) /\ step(head, more)
    BY <1>1, NoSteps DEF NoPointer
  <1>3. Fits(more, DOMAIN AliasSets', AnalyzedFunctions, AnalyzedFunctions', Reps, Reps')
    BY <1>2 DEF Fits, StepsReady
  <1>4. AnalyzedFunctions' \subseteq Func /\ Reps' \in Seq(Value)
    BY DEF StepsReady
  <1> QED BY <1>2, <1>3, <1>4, StepReplaces

\* computeValuesAliasSet: a set for the value, then its function or users.
LEMMA ValueReady ==
  ASSUME StepsReady, computeValuesAliasSet
  PROVE  StepsReady'
  <1>1. PICK v \in Value :
          /\ step(computeValues(v),
                  CASE v \in GlobalObject -> UserOps(v)
                    [] v \notin GlobalObject /\ FunctionOf(v) # NoFunction ->
                         <<computeFunctions(FunctionOf(v))>>
                    [] OTHER -> <<>>)
          /\ addSingletonAliasSet(v)
          /\ UNCHANGED <<AnalyzedFunctions, Reps>>
    BY DEF computeValuesAliasSet
  <1>2. DOMAIN AliasSets' = DOMAIN AliasSets \cup {v}
    BY <1>1, SingletonKnown
  <1>3. PICK more :
          more = CASE v \in GlobalObject -> UserOps(v)
                   [] v \notin GlobalObject /\ FunctionOf(v) # NoFunction ->
                        <<computeFunctions(FunctionOf(v))>>
                   [] OTHER -> <<>>
    OBVIOUS
  <1>4. /\ more \in Seq(Op) /\ ready(more, {v})
        /\ NoPointer(more)
    <2>1. CASE v \in GlobalObject
      <3>1. more = UserOps(v)
        BY <1>3, <2>1
      <3>2. more \in Seq(Op) /\ only(more, {"function", "merge"}) /\ ready(more, {v})
        BY <2>1, <3>1, OpsAssumption, ReadyAssumption
      <3> QED BY <3>2 DEF only, NoPointer
    <2>2. CASE v \notin GlobalObject /\ FunctionOf(v) # NoFunction
      <3>1. FunctionOf(v) \in Func /\ FunctionOf(v) \in Value
        BY <2>2, OpsAssumption
      <3>2. PICK o : o = computeFunctions(FunctionOf(v))
        OBVIOUS
      <3>3. o \in Op /\ o.op = "function" /\ needs(o) = {}
        BY <3>1, <3>2, OpTypes, OpLeaves
      <3>4. more = <<o>>
        BY <1>3, <2>2, <3>2
      <3>5. more \in Seq(Op) /\ Len(more) = 1 /\ more[1] = o /\ ready(more, {v})
        BY <3>3, <3>4, OneStep
      <3> QED BY <3>3, <3>5 DEF NoPointer
    <2>3. CASE v \notin GlobalObject /\ FunctionOf(v) = NoFunction
      <3>1. more = <<>>
        BY <1>3, <2>3
      <3> QED BY <3>1, NoSteps DEF NoPointer
    <2> QED BY <2>1, <2>2, <2>3
  <1>5. ready(more, DOMAIN AliasSets')
    <2>1. {v} \subseteq DOMAIN AliasSets'
      BY <1>2
    <2> QED BY <1>4, <2>1 DEF ready
  <1>6. step(computeValues(v), more)
    BY <1>1, <1>3
  <1>7. leaves(computeValues(v)) \subseteq DOMAIN AliasSets'
    <2>1. leaves(computeValues(v)) = {v}
      BY OpLeaves
    <2> QED BY <1>2, <2>1
  <1>8. \A f \in AnalyzedFunctions' : ~isDeclaration(f) => pointersOf(f) \subseteq DOMAIN AliasSets'
    <2>1. Todo[1].op = "value"
      BY <1>6, OpTypes DEF step
    <2> QED BY <1>1, <1>2, <2>1, SettledNow
  <1>9. Fits(more, DOMAIN AliasSets', AnalyzedFunctions, AnalyzedFunctions', Reps, Reps')
    BY <1>1, <1>4, <1>5, <1>8 DEF Fits, StepsReady
  <1>10. AnalyzedFunctions' \subseteq Func /\ Reps' \in Seq(Value)
    BY <1>1 DEF StepsReady
  <1>11. DOMAIN AliasSets \subseteq DOMAIN AliasSets'
    BY <1>2
  <1> QED BY <1>4, <1>6, <1>7, <1>9, <1>10, <1>11, StepReplaces
\* computeFunctionsAliasSet: nothing, or the steps of the function.
LEMMA FunctionReady ==
  ASSUME StepsReady, computeFunctionsAliasSet
  PROVE  StepsReady'
  <1>1. PICK f \in Func :
          /\ AnalyzedFunctions' = AnalyzedFunctions \cup {f}
          /\ IF f \in AnalyzedFunctions \/ isDeclaration(f)
             THEN step(computeFunctions(f), <<>>) /\ UNCHANGED Reps
             ELSE step(computeFunctions(f), FunctionOps(f)) /\ Reps' = <<>>
          /\ AliasSets' = AliasSets
    BY DEF computeFunctionsAliasSet, sets
  <1>2. Todo[1].op = "function"
    BY <1>1, OpTypes DEF step
  <1>3. \A g \in AnalyzedFunctions : ~isDeclaration(g) => pointersOf(g) \subseteq DOMAIN AliasSets'
    BY <1>1, <1>2, SettledNow
  <1>4. AnalyzedFunctions' \subseteq Func /\ Reps' \in Seq(Value)
    <2>1. Reps' = Reps \/ Reps' = <<>>
      BY <1>1
    <2>2. <<>> \in Seq(Value)
      OBVIOUS
    <2> QED BY <1>1, <2>1, <2>2 DEF StepsReady
  <1>5. leaves(computeFunctions(f)) = IF isDeclaration(f) THEN {} ELSE pointersOf(f)
    BY OpLeaves
  <1>6. CASE f \in AnalyzedFunctions \/ isDeclaration(f)
    <2>1. PICK more : more = <<>>
      OBVIOUS
    <2>2. /\ more \in Seq(Op) /\ Len(more) = 0 /\ ready(more, DOMAIN AliasSets')
          /\ NoPointer(more) /\ step(computeFunctions(f), more)
      BY <1>1, <1>6, <2>1, NoSteps DEF NoPointer
    <2>3. Fits(more, DOMAIN AliasSets', AnalyzedFunctions, AnalyzedFunctions', Reps, Reps')
      BY <1>1, <1>6, <2>2 DEF Fits, StepsReady
    <2>4. leaves(computeFunctions(f)) \subseteq DOMAIN AliasSets'
      BY <1>3, <1>5, <1>6
    <2> QED BY <1>1, <1>4, <2>2, <2>3, <2>4, StepReplaces
  <1>7. CASE ~(f \in AnalyzedFunctions \/ isDeclaration(f))
    <2>1. PICK more : more = FunctionOps(f)
      OBVIOUS
    <2>2. /\ more \in Seq(Op) /\ only(more, {"pointer", "singleton", "merge"})
          /\ ready(more, {}) /\ pointersOf(f) \subseteq before(more, Len(more) + 1)
          /\ step(computeFunctions(f), more) /\ Len(Reps') = 0
      BY <1>1, <1>7, <2>1, FunctionLeaves, ReadyAssumption
    <2>3. ready(more, DOMAIN AliasSets')
      BY <2>2 DEF ready
    <2>4. Fits(more, DOMAIN AliasSets', AnalyzedFunctions, AnalyzedFunctions', Reps, Reps')
      BY <1>1, <2>2, <2>3 DEF Fits, only
    <2>5. leaves(computeFunctions(f)) \subseteq before(more, Len(more) + 1)
      BY <1>5, <1>7, <2>2
    <2> QED BY <1>1, <1>4, <2>2, <2>4, <2>5, StepReplaces
  <1> QED BY <1>6, <1>7

\* Steps that take up no function fit when no function was added.
LEMMA FitsSameFunctions ==
  ASSUME NEW more \in Seq(Op), NEW L, NEW A, NEW R \in Seq(Value), NEW Q \in Seq(Value),
         ready(more, L),
         \A k \in 1 .. Len(more) : more[k].op \notin {"value", "function"},
         NoPointer(more),
         \A i \in 1 .. Len(Q) :
            (\E j \in 1 .. Len(R) : Q[i] = R[j]) \/ Q[i] \in before(more, Len(more) + 1)
  PROVE  Fits(more, L, A, A, R, Q)
  BY DEF Fits

\* addPointer: merges of representatives, and a set for the new value.
LEMMA PointerReady ==
  ASSUME StepsReady, addPointer
  PROVE  StepsReady'
  <1>1. PICK v \in Value, f \in Func :
          LET hits == {i \in 1 .. Len(Reps) : mayAlias(f, v, Reps[i])}
              first == CHOOSE i \in hits : \A j \in hits : i <= j
              all == [i \in 1 .. Len(Reps) |-> i]
              later == keep(all, hits \ {first})
              shadowed == {i \in hits : \E j \in hits :
                              j < i /\ TypeOf(Reps[j]) = TypeOf(Reps[i])}
              rest == keep(all, 1 .. Len(Reps) \ shadowed)
              isNewType == \A i \in hits : TypeOf(Reps[i]) # TypeOf(v)
          IN /\ step(addPointerIn(f, v),
                     IF hits = {} THEN <<addSingleton(v)>>
                     ELSE [k \in DOMAIN later |-> merge(Reps[first], Reps[later[k]])]
                            \o <<joinTo(v, Reps[first])>>)
             /\ Reps' = [k \in DOMAIN rest |-> Reps[rest[k]]]
                          \o (IF isNewType THEN <<v>> ELSE <<>>)
             /\ UNCHANGED <<sets, AnalyzedFunctions>>
    BY DEF addPointer
  <1> DEFINE N == 1 .. Len(Reps)
             hits == {i \in N : mayAlias(f, v, Reps[i])}
             first == CHOOSE i \in hits : \A j \in hits : i <= j
             all == [i \in N |-> i]
             later == keep(all, hits \ {first})
             shadowed == {i \in hits : \E j \in hits :
                             j < i /\ TypeOf(Reps[j]) = TypeOf(Reps[i])}
             rest == keep(all, N \ shadowed)
             isNewType == \A i \in hits : TypeOf(Reps[i]) # TypeOf(v)
             merges == [k \in DOMAIN later |-> merge(Reps[first], Reps[later[k]])]
             news == IF hits = {} THEN <<addSingleton(v)>>
                     ELSE merges \o <<joinTo(v, Reps[first])>>
  <1>2. /\ step(addPointerIn(f, v), news)
        /\ Reps' = [k \in DOMAIN rest |-> Reps[rest[k]]] \o (IF isNewType THEN <<v>> ELSE <<>>)
        /\ AliasSets' = AliasSets /\ AnalyzedFunctions' = AnalyzedFunctions
    BY <1>1 DEF sets
  <1>13. PICK more : more = news
    <2> HIDE DEF news
    <2> QED OBVIOUS
  <1>14. step(addPointerIn(f, v), more)
    BY <1>2, <1>13
  <1>3. /\ Reps \in Seq(Value) /\ Len(Reps) \in Nat /\ \A i \in N : Reps[i] \in Value
        /\ Todo \in Seq(Op) /\ Todo # <<>> /\ Todo[1] = addPointerIn(f, v)
    <2>1. Reps \in Seq(Value) /\ Todo \in Seq(Op)
      BY DEF StepsReady
    <2> QED BY <1>14, <2>1 DEF step
  <1>4. all \in Seq(N)
    BY <1>3, FunctionIsSeq
  <1>5. later \in Seq(N) /\ rest \in Seq(N)
    <2>1. keep(all, hits \ {first}) \in Seq(N \cap (hits \ {first}))
      BY <1>4, KeepType
    <2>2. keep(all, N \ shadowed) \in Seq(N \cap (N \ shadowed))
      BY <1>4, KeepType
    <2> HIDE DEF N, hits, first, all, shadowed
    <2> QED BY <2>1, <2>2
  <1>6. \A i \in N : Reps[i] \in DOMAIN AliasSets
    <2>1. PICK T, K : T = Todo /\ K = DOMAIN AliasSets
      OBVIOUS
    <2>2. T \in Seq(Op) /\ 1 \in 1 .. Len(T) /\ T[1].op = "pointer"
      BY <1>3, <2>1, OpTypes
    <2>3. RepsReady(T, K, Reps)
      BY <2>1 DEF StepsReady, ReadyFor
    <2>4. before(T, 1) = {}
      BY DEF before
    <2> QED BY <2>1, <2>2, <2>3, <2>4 DEF RepsReady
  <1> HIDE DEF all, later, rest, shadowed, isNewType
  <1>7. /\ Reps' \in Seq(Value)
        /\ \A i \in 1 .. Len(Reps') : (\E j \in N : Reps'[i] = Reps[j]) \/ Reps'[i] = v
    <2> DEFINE kept == [k \in DOMAIN rest |-> Reps[rest[k]]]
               last == IF isNewType THEN <<v>> ELSE <<>>
    <2> HIDE DEF N
    <2>1. /\ DOMAIN rest = 1 .. Len(rest) /\ Len(rest) \in Nat
          /\ \A k \in 1 .. Len(rest) : rest[k] \in N
      BY <1>5
    <2>2. kept \in [1 .. Len(rest) -> Value]
      BY <1>3, <2>1
    <2>3. kept \in Seq(Value) /\ Len(kept) = Len(rest)
      BY <2>1, <2>2, FunctionIsSeq
    <2>4. \A k \in 1 .. Len(kept) : \E j \in N : kept[k] = Reps[j]
      BY <2>1, <2>3
    <2>5. last \in Seq(Value) /\ Len(last) \in 0 .. 1 /\ \A k \in 1 .. Len(last) : last[k] = v
      OBVIOUS
    <2>6. Reps' = kept \o last
      BY <1>2
    <2> HIDE DEF kept, last
    <2>7. /\ Reps' \in Seq(Value) /\ Len(Reps') = Len(kept) + Len(last)
          /\ \A k \in 1 .. Len(Reps') :
               Reps'[k] = IF k <= Len(kept) THEN kept[k] ELSE last[k - Len(kept)]
      BY <2>3, <2>5, <2>6
    <2>8. PICK m \in Nat, n \in 0 .. 1 : m = Len(kept) /\ n = Len(last)
      BY <2>1, <2>3, <2>5
    <2>9. ASSUME NEW i \in 1 .. Len(Reps')
          PROVE  (\E j \in N : Reps'[i] = Reps[j]) \/ Reps'[i] = v
      <3>1. i \in 1 .. (m + n)
        BY <2>7, <2>8
      <3>2. CASE i <= m
        <4>1. i \in 1 .. Len(kept) /\ Reps'[i] = kept[i]
          BY <2>7, <2>8, <3>1, <3>2
        <4> QED BY <2>4, <4>1
      <3>3. CASE ~(i <= m)
        <4>1. PICK k \in 1 .. n : k = i - m
          BY <3>1, <3>3
        <4>2. k \in 1 .. Len(last) /\ Reps'[i] = last[k]
          BY <2>7, <2>8, <3>3, <4>1
        <4> QED BY <2>5, <4>2
      <3> QED BY <3>2, <3>3
    <2> QED BY <2>7, <2>9
  <1>9. /\ more \in Seq(Op) /\ only(more, {"merge", "join", "singleton"})
        /\ v \in before(more, Len(more) + 1) /\ ready(more, DOMAIN AliasSets)
    <2>1. CASE hits = {}
      <3>1. more = <<addSingleton(v)>>
        BY <1>13, <2>1
      <3>2. PICK o : o = addSingleton(v)
        OBVIOUS
      <3>3. o \in Op /\ o.op = "singleton" /\ leaves(o) = {v} /\ needs(o) = {}
        BY <3>2, OpTypes, OpLeaves
      <3>4. more = <<o>>
        BY <3>1, <3>2
      <3> QED BY <3>3, <3>4, OneStep DEF only
    <2>2. CASE hits # {}
      <3>1. first \in N
        <4>1. hits \subseteq N /\ hits \subseteq Nat
          BY <1>3
        <4> HIDE DEF hits
        <4>2. \E i \in hits : \A j \in hits : i <= j
          BY <2>2, <4>1, LeastElement
        <4> QED BY <4>1, <4>2
      <3> HIDE DEF hits, first, N
      <3>2. PICK r : r = Reps[first]
        OBVIOUS
      <3>3. r \in Value /\ r \in DOMAIN AliasSets
        BY <1>3, <1>6, <3>1, <3>2
      <3>4. /\ DOMAIN later = 1 .. Len(later) /\ Len(later) \in Nat
            /\ \A k \in 1 .. Len(later) : later[k] \in N
        BY <1>5
      <3>5. PICK m : m = Len(later)
        OBVIOUS
      <3>6. \A k \in 1 .. m : \E w \in Value : w \in DOMAIN AliasSets /\ merges[k] = merge(r, w)
        BY <1>3, <1>6, <3>2, <3>4, <3>5
      <3>7. merges \in [1 .. m -> Op]
        <4>1. \A k \in 1 .. m : merges[k] \in Op
          BY <3>3, <3>6, OpTypes
        <4>2. merges = [k \in 1 .. m |-> merges[k]]
          BY <3>4, <3>5
        <4> HIDE DEF merges
        <4> QED BY <4>1, <4>2
      <3> HIDE DEF merges
      <3>8. merges \in Seq(Op) /\ Len(merges) = m /\ m \in Nat
        BY <3>4, <3>5, <3>7, FunctionIsSeq
      <3>9. PICK o : o = joinTo(v, r)
        OBVIOUS
      <3>10. o \in Op /\ o.op = "join" /\ leaves(o) = {v} /\ needs(o) = {r}
        BY <3>3, <3>9, OpTypes, OpLeaves
      <3>11. more = merges \o <<o>>
        BY <1>13, <2>2, <3>2, <3>9
      <3>12. /\ more \in Seq(Op) /\ Len(more) = m + 1 /\ more[m + 1] = o
             /\ \A k \in 1 .. m : more[k] = merges[k]
        BY <3>8, <3>10, <3>11
      <3>13. only(more, {"merge", "join", "singleton"})
        <4>1. \A k \in 1 .. m : more[k].op = "merge"
          BY <3>6, <3>12, OpTypes
        <4> QED BY <3>8, <3>10, <3>12, <4>1 DEF only
      <3>14. ready(more, DOMAIN AliasSets)
        <4>1. \A k \in 1 .. m : needs(more[k]) \subseteq DOMAIN AliasSets
          BY <3>3, <3>6, <3>12, OpLeaves
        <4>2. needs(more[m + 1]) \subseteq DOMAIN AliasSets
          BY <3>3, <3>10, <3>12
        <4> QED BY <3>8, <3>12, <4>1, <4>2 DEF ready
      <3>15. v \in before(more, Len(more) + 1)
        <4>1. PICK q \in Nat : q = m + 2
          BY <3>8
        <4>2. m + 1 \in 1 .. (q - 1) /\ v \in leaves(more[m + 1])
          BY <3>8, <3>10, <3>12, <4>1
        <4>3. v \in before(more, q)
          BY <4>2, BeforeDef
        <4> QED BY <3>8, <3>12, <4>1, <4>3
      <3> QED BY <3>12, <3>13, <3>14, <3>15
    <2> QED BY <2>1, <2>2
  <1>10. Fits(more, DOMAIN AliasSets', AnalyzedFunctions, AnalyzedFunctions', Reps, Reps')
    <2> HIDE DEF news
    <2>1. /\ \A k \in 1 .. Len(more) : more[k].op \notin {"value", "function"}
          /\ NoPointer(more)
      BY <1>9 DEF only, NoPointer
    <2>2. ready(more, DOMAIN AliasSets')
      BY <1>2, <1>9
    <2>3. \A i \in 1 .. Len(Reps') :
            (\E j \in 1 .. Len(Reps) : Reps'[i] = Reps[j]) \/ Reps'[i] \in before(more, Len(more) + 1)
      BY <1>7, <1>9
    <2>4. AnalyzedFunctions' = AnalyzedFunctions
      BY <1>2
    <2> QED BY <1>3, <1>7, <1>9, <2>1, <2>2, <2>3, <2>4, FitsSameFunctions
  <1>11. leaves(addPointerIn(f, v)) \subseteq before(more, Len(more) + 1)
    <2>1. leaves(addPointerIn(f, v)) = {v}
      BY OpLeaves
    <2> QED BY <1>9, <2>1
  <1>12. step(addPointerIn(f, v), more) /\ DOMAIN AliasSets \subseteq DOMAIN AliasSets'
         /\ AnalyzedFunctions' \subseteq Func
    BY <1>2, <1>14 DEF StepsReady
  <1> QED BY <1>7, <1>9, <1>10, <1>11, <1>12, StepReplaces
\* The remaining steps of the class.
LEMMA StepReady ==
  ASSUME StepsReady, AliasStep
  PROVE  StepsReady'
  <1>1. CASE singletonStep
    <2>1. PICK v \in Value : /\ step(addSingleton(v), <<>>) /\ addSingletonAliasSet(v)
                             /\ UNCHANGED <<AnalyzedFunctions, Reps>>
      BY <1>1 DEF singletonStep
    <2>2. DOMAIN AliasSets' = DOMAIN AliasSets \cup {v} /\ leaves(addSingleton(v)) = {v}
      BY <2>1, SingletonKnown, OpLeaves
    <2> QED BY <2>1, <2>2, SimpleStep
  <1>2. CASE mergeStep
    <2>1. PICK v, w \in Value : /\ step(merge(v, w), <<>>) /\ mergeAliasSets(v, w)
                                /\ UNCHANGED <<AnalyzedFunctions, Reps>>
      BY <1>2 DEF mergeStep
    <2>2. AliasSets' = AliasSets /\ leaves(merge(v, w)) = {}
      BY <2>1, OpLeaves DEF mergeAliasSets, sets
    <2> QED BY <2>1, <2>2, SimpleStep
  <1>3. CASE joinStep
    <2>1. PICK v, rep \in Value : /\ step(joinTo(v, rep), <<>>) /\ joinSet(v, rep)
                                  /\ UNCHANGED <<AnalyzedFunctions, Reps>>
      BY <1>3 DEF joinStep
    <2>2. DOMAIN AliasSets' = DOMAIN AliasSets \cup {v} /\ leaves(joinTo(v, rep)) = {v}
      BY <2>1, JoinKnown, OpLeaves
    <2> QED BY <2>1, <2>2, SimpleStep
  <1> QED BY <1>1, <1>2, <1>3, ValueReady, FunctionReady, PointerReady DEF AliasStep

\* What a client asks for: values are computed before they are merged.
Requests == {s \in Seq(Op) : only(s, {"value", "merge"}) /\ ready(s, {})}
requestStep == \E s \in Requests : Request(s)

\* A client's request finds every value it merges computed.
LEMMA RequestReady ==
  ASSUME StepsReady, requestStep
  PROVE  StepsReady'
  <1>1. PICK s \in Requests : Request(s)
    BY DEF requestStep
  <1>2. Todo = <<>> /\ Todo' = s /\ UNCHANGED <<AliasSets, AnalyzedFunctions, Reps>>
    BY <1>1 DEF Request, sets
  <1>3. s \in Seq(Op) /\ only(s, {"value", "merge"}) /\ ready(s, {})
    BY <1>1 DEF Requests
  <1>4. PICK K, A : K = DOMAIN AliasSets /\ A = AnalyzedFunctions
    OBVIOUS
  <1>5. \A f \in A : ~isDeclaration(f) => pointersOf(f) \subseteq K
    BY <1>2, <1>4, SettledNow
  <1>6. ready(s, K)
    BY <1>3 DEF ready
  <1>7. Settled(s, K, A)
    BY <1>5 DEF Settled
  <1>8. RepsReady(s, K, Reps)
    BY <1>3 DEF RepsReady, only
  <1>9. ReadyFor(s, K, A, Reps)
    BY <1>6, <1>7, <1>8 DEF ReadyFor
  <1> QED BY <1>2, <1>3, <1>4, <1>9 DEF StepsReady, ReadyFor, ready, Settled, RepsReady, before

\* The requests of the class: getAliasSet and introduceAlias.
LEMMA ClientRequests ==
  ASSUME NEW v \in Value, NEW w \in Value
  PROVE  getAliasSet(v) \in Requests /\ introduceAlias(v, w) \in Requests
  <1>1. PICK a, b, c : a = computeValues(v) /\ b = computeValues(w) /\ c = merge(v, w)
    OBVIOUS
  <1>2. /\ a \in Op /\ b \in Op /\ c \in Op
        /\ a.op = "value" /\ b.op = "value" /\ c.op = "merge"
        /\ leaves(a) = {v} /\ leaves(b) = {w} /\ needs(a) = {} /\ needs(b) = {}
        /\ needs(c) = {v, w}
    BY <1>1, OpTypes, OpLeaves
  <1>3. <<a>> \in Requests
    BY <1>2, OneStep DEF Requests, only
  <1>4. PICK s : s = <<a, b, c>>
    OBVIOUS
  <1>5. s \in Seq(Op) /\ Len(s) = 3 /\ s[1] = a /\ s[2] = b /\ s[3] = c
    BY <1>2, <1>4
  <1>6. only(s, {"value", "merge"})
    BY <1>2, <1>5 DEF only
  <1>7. v \in before(s, 3) /\ w \in before(s, 3)
    BY <1>2, <1>5 DEF before
  <1>8. ready(s, {})
    BY <1>2, <1>5, <1>7 DEF ready
  <1> QED BY <1>1, <1>3, <1>4, <1>5, <1>6, <1>8 DEF Requests, getAliasSet, introduceAlias

\* The constructor computes the globals' sets, and those of all functions.
LEMMA InitReady == AliasInit => StepsReady
  <1> SUFFICES ASSUME AliasInit PROVE StepsReady
    OBVIOUS
  <1>1. PICK s, K : s = Todo /\ K = DOMAIN AliasSets
    OBVIOUS
  <1>2. /\ s \in Seq(Op) /\ only(s, {"value", "function"})
        /\ AnalyzedFunctions = {} /\ Reps = <<>> /\ Len(Reps) = 0
    BY <1>1, OpsAssumption, ReadyAssumption DEF AliasInit
  <1>3. ready(s, K)
    BY <1>2 DEF ready, only, needs
  <1>4. Settled(s, K, AnalyzedFunctions) /\ RepsReady(s, K, Reps)
    BY <1>2 DEF Settled, RepsReady
  <1>5. Reps \in Seq(Value)
    BY <1>2
  <1> QED BY <1>1, <1>2, <1>3, <1>4, <1>5 DEF StepsReady, ReadyFor

\* The assertions hold at the next step, because the invariant covers all.
LEMMA ReadyNow == StepsReady => MergeReady
  <1> SUFFICES ASSUME StepsReady, Todo # <<>>
               PROVE  /\ Todo[1].op = "merge" => known(Todo[1].v) /\ known(Todo[1].w)
                      /\ Todo[1].op = "join" => known(Todo[1].w)
    BY DEF MergeReady
  <1>1. PICK s, K : s = Todo /\ K = DOMAIN AliasSets
    OBVIOUS
  <1>2. s \in Seq(Op) /\ 1 \in 1 .. Len(s) /\ ready(s, K)
    BY <1>1 DEF StepsReady, ReadyFor
  <1>3. before(s, 1) = {}
    BY DEF before
  <1>4. needs(s[1]) \subseteq K
    BY <1>2, <1>3 DEF ready
  <1>5. s[1].op = "merge" => needs(s[1]) = {s[1].v, s[1].w}
    BY DEF needs
  <1>6. s[1].op = "join" => needs(s[1]) = {s[1].w}
    BY DEF needs
  <1> QED BY <1>1, <1>4, <1>5, <1>6 DEF known

\* The class with clients that make such requests.
RequestSpec == AliasInit /\ [][AliasStep \/ requestStep]_aliasVars

(***************************************************************************)
(* The assertions of mergeAliasSets and addPointer never fail, whatever    *)
(* clients ask for in whatever order: every value has a set when it is     *)
(* merged or joined to, also when a function counts as analysed already.   *)
(***************************************************************************)
THEOREM MergesAreReady == RequestSpec => []MergeReady
  <1>1. StepsReady /\ [AliasStep \/ requestStep]_aliasVars => StepsReady'
    <2>1. ASSUME StepsReady, UNCHANGED aliasVars PROVE StepsReady'
      BY <2>1 DEF StepsReady, aliasVars, sets, ReadyFor, ready, Settled, RepsReady, before
    <2> QED BY <2>1, StepReady, RequestReady
  <1> QED BY InitReady, ReadyNow, <1>1, PTL DEF RequestSpec

(***************************************************************************)
(* The tables, the representatives and the steps keep their types.         *)
(***************************************************************************)
THEOREM AliasTypes == RequestSpec => []AliasTypeOK
  <1>1. StepsReady /\ Inv /\ [AliasStep \/ requestStep]_aliasVars => (StepsReady /\ Inv)'
    <2>1. ASSUME StepsReady, UNCHANGED aliasVars PROVE StepsReady'
      BY <2>1 DEF StepsReady, aliasVars, sets, ReadyFor, ready, Settled, RepsReady, before
    <2>2. ASSUME Inv, [AliasStep \/ requestStep]_aliasVars PROVE Inv'
      <3>1. CASE requestStep
        BY <2>2, <3>1, SameTables DEF requestStep, Request
      <3>2. CASE ~requestStep
        BY <2>2, <3>2, NextInv DEF AliasNext
      <3> QED BY <3>1, <3>2
    <2> QED BY <2>1, <2>2, StepReady, RequestReady
  <1>2. StepsReady /\ Inv => AliasTypeOK
    BY DEF StepsReady, Inv, AliasTypeOK
  <1> QED BY InitReady, InitInv, <1>1, <1>2, PTL DEF RequestSpec

-----------------------------------------------------------------------------
(***************************************************************************)
(* The builder with its alias sets.                                        *)
(***************************************************************************)
\* A step of the builder is one of the alias sets or leaves their tables.
LEMMA BuilderTables ==
  ASSUME Next
  PROVE  AliasStep \/ UNCHANGED sets
  BY DEF Next, processFunction, processDirectCall, askAliasSet, fillPossibleTargets,
         endFunction, askAgain, constructDynamicCall, buildCallGraph, connect, Request,
         aliasVars

\* So the invariant of the alias sets holds while a call graph is built.
LEMMA BuilderAlias ==
  ASSUME Inv, [Next]_vars
  PROVE  Inv' /\ Grow
  <1>1. CASE AliasStep
    BY <1>1, NextInv DEF AliasNext
  <1>2. CASE UNCHANGED sets
    BY <1>2, SameTables
  <1>3. CASE UNCHANGED vars
    BY <1>3, SameTables DEF vars, aliasVars
  <1> QED BY <1>1, <1>2, <1>3, BuilderTables

\* A value's aliases are never lost.
LEMMA AliasSetGrows ==
  ASSUME Inv, Inv', Grow, NEW v, known(v)
  PROVE  known(v)' /\ aliasSet(v) \subseteq aliasSet(v)'
  <1>1. v \in DOMAIN AliasSets /\ v \in DOMAIN AliasSets'
    BY DEF known, Grow
  <1>2. ASSUME NEW u \in aliasSet(v) PROVE u \in aliasSet(v)'
    <2>1. setOf(v) \in DOMAIN OwnedPTS /\ u \in OwnedPTS[setOf(v)]
      BY <1>1, <1>2 DEF Inv, Partition, aliasSet
    <2>2. u \in DOMAIN AliasSets /\ setOf(u) = setOf(v)
      BY <2>1 DEF Inv, Partition, known
    <2>3. u \in DOMAIN AliasSets' /\ setOf(u)' = setOf(v)'
      BY <1>1, <2>2 DEF Grow
    <2>4. u \in aliasSet(u)'
      BY <2>3 DEF Inv, Partition
    <2> QED BY <2>3, <2>4 DEF aliasSet
  <1> QED BY <1>1, <1>2 DEF known

\* Nor are the targets of a call whose alias set was computed.
LEMMA TargetsGrow ==
  ASSUME Inv, Inv', Grow, NEW c, known(inst(c).callee)
  PROVE  known(inst(c).callee)' /\ resolveIndirectCall(c) \subseteq resolveIndirectCall(c)'
  <1> DEFINE v == inst(c).callee
  <1>1. known(v)' /\ aliasSet(v) \subseteq aliasSet(v)'
    BY AliasSetGrows
  <1> QED BY <1>1 DEF resolveIndirectCall

\* The calls that were asked for have an alias set, and the calls that were
\* resolved have only targets which their alias set still yields.
Resolved(c) == known(inst(c).callee) /\ CalleesAt[c] \subseteq resolveIndirectCall(c)

BuilderInv ==
  /\ Inv
  /\ DOMAIN IndirectCalls \subseteq DOMAIN CalleesAt
  /\ \A c \in DOMAIN IndirectCalls : isIndirect(c)
  /\ \A c \in DOMAIN CalleesAt : isIndirect(c) => Resolved(c)
  /\ Redo \subseteq DOMAIN IndirectCalls
  /\ pc = "resolve" => /\ isIndirect(Head(Calls))
                       /\ \/ known(inst(Head(Calls)).callee)
                          \/ Todo = getAliasSet(inst(Head(Calls)).callee)
  /\ pc = "redo" /\ Calls # <<>> => Head(Calls) \in DOMAIN IndirectCalls
  /\ pc = "pop" => Calls = <<>>
  /\ CountExact

\* Initially nothing is resolved.
LEMMA BuilderInit == Init => BuilderInv
  <1> SUFFICES ASSUME Init PROVE BuilderInv
    OBVIOUS
  <1>1. Inv
    BY InitInv DEF Init
  <1>2. DOMAIN IndirectCalls = {} /\ DOMAIN CalleesAt = {} /\ Redo = {} /\ pc = "pop"
        /\ Calls = <<>>
    BY DEF Init
  <1> QED BY <1>1, <1>2 DEF BuilderInv, CountExact

\* The part of the invariant that is about resolved calls, across a step
\* that enters targets only for the call c.
LEMMA ResolvedKept ==
  ASSUME BuilderInv, Inv', Grow, NEW c \in DOMAIN CalleesAt, isIndirect(c),
         CalleesAt'[c] = CalleesAt[c]
  PROVE  Resolved(c)'
  <1>1. Resolved(c)
    BY DEF BuilderInv
  <1>2. known(inst(c).callee)' /\ resolveIndirectCall(c) \subseteq resolveIndirectCall(c)'
    BY <1>1, TargetsGrow DEF BuilderInv, Resolved
  <1> QED BY <1>1, <1>2 DEF Resolved
\* computeValuesAliasSet(v) ends with a set for v.
LEMMA AskedIsKnown ==
  ASSUME NEW v, Todo = getAliasSet(v), AliasStep
  PROVE  known(v)'
  <1>1. Todo[1].op = "value" /\ Todo[1].v = v
    BY DEF getAliasSet, computeValues
  <1>2. computeValuesAliasSet
    <2>1. computeFunctionsAliasSet => \E f : Todo[1] = computeFunctions(f)
      BY DEF computeFunctionsAliasSet, step
    <2>2. addPointer => \E v1, f : Todo[1] = addPointerIn(f, v1)
      BY DEF addPointer, step
    <2>3. singletonStep \/ mergeStep \/ joinStep =>
            \E v1, w1 : Todo[1] \in {addSingleton(v1), merge(v1, w1), joinTo(v1, w1)}
      BY DEF singletonStep, mergeStep, joinStep, step
    <2>4. \A v1, w1 : /\ computeFunctions(v1).op # "value" /\ addPointerIn(v1, w1).op # "value"
                      /\ addSingleton(v1).op # "value" /\ merge(v1, w1).op # "value"
                      /\ joinTo(v1, w1).op # "value"
      BY DEF computeFunctions, addPointerIn, addSingleton, merge, joinTo
    <2> QED BY <1>1, <2>1, <2>2, <2>3, <2>4 DEF AliasStep
  <1>3. PICK u \in Value : Todo[1] = computeValues(u) /\ addSingletonAliasSet(u)
    BY <1>2 DEF computeValuesAliasSet, step
  <1>4. u = v
    BY <1>1, <1>3 DEF computeValues
  <1>5. addSingletonAliasSet(v)
    BY <1>3, <1>4
  <1> QED BY <1>5 DEF addSingletonAliasSet, known, Put, sets

\* What connect does to the table of targets.
LEMMA ConnectCallees ==
  ASSUME NEW c, NEW targets, connect(c, targets)
  PROVE  /\ DOMAIN CalleesAt' = DOMAIN CalleesAt \cup {c}
         /\ c \in DOMAIN CalleesAt => CalleesAt'[c] = targets \cup CalleesAt[c]
         /\ c \notin DOMAIN CalleesAt => CalleesAt'[c] = targets
         /\ \A d \in DOMAIN CalleesAt : d # c => CalleesAt'[d] = CalleesAt[d]
         /\ Todo = <<>> /\ UNCHANGED sets
  <1>1. CalleesAt' = Put(CalleesAt, c,
                         targets \cup (IF c \in DOMAIN CalleesAt THEN CalleesAt[c] ELSE {}))
    BY DEF connect
  <1>2. Todo = <<>> /\ UNCHANGED sets
    BY DEF connect, Request
  <1> QED BY <1>1, <1>2 DEF Put

\* The rest of a step, once its effect on the tables of calls is known.
LEMMA SameCalls ==
  ASSUME BuilderInv, Inv', Grow, UNCHANGED <<IndirectCalls, CalleesAt>>
  PROVE  /\ DOMAIN IndirectCalls' \subseteq DOMAIN CalleesAt'
         /\ \A c \in DOMAIN IndirectCalls' : isIndirect(c)
         /\ \A c \in DOMAIN CalleesAt' : isIndirect(c) => Resolved(c)'
         /\ CountExact'
  <1>1. ASSUME NEW c \in DOMAIN CalleesAt', isIndirect(c) PROVE Resolved(c)'
    BY <1>1, ResolvedKept
  <1> QED BY <1>1 DEF BuilderInv, CountExact

\* A step of the alias sets: the call that was asked for gets its set.
LEMMA AliasStepInv ==
  ASSUME BuilderInv, AliasStep, UNCHANGED builderVars
  PROVE  BuilderInv'
  <1>1. Inv' /\ Grow
    BY BuilderAlias DEF BuilderInv, Next
  <1>2. UNCHANGED <<IndirectCalls, CalleesAt, Redo, pc, Calls>>
    BY DEF builderVars
  <1>3. PICK c : c = Head(Calls)
    OBVIOUS
  <1>4. ASSUME pc' = "resolve"
        PROVE  isIndirect(c) /\ known(inst(c).callee)'
    <2>1. isIndirect(c) /\ (known(inst(c).callee) \/ Todo = getAliasSet(inst(c).callee))
      BY <1>2, <1>3, <1>4 DEF BuilderInv
    <2>2. known(inst(c).callee) => known(inst(c).callee)'
      BY <1>1 DEF known, Grow
    <2> QED BY <2>1, <2>2, AskedIsKnown
  <1>5. Head(Calls)' = c
    BY <1>2, <1>3
  <1>6. pc' = "resolve" => (isIndirect(Head(Calls)) /\ known(inst(Head(Calls)).callee))'
    BY <1>4, <1>5 DEF isIndirect, inst, known
  <1> QED BY <1>1, <1>2, <1>6, SameCalls DEF BuilderInv
\* Steps of the builder that enter no target.
LEMMA QuietStep ==
  ASSUME BuilderInv,
         \/ processFunction \/ askAliasSet \/ endFunction \/ askAgain \/ buildCallGraph
  PROVE  BuilderInv'
  <1>1. Inv' /\ Grow
    BY BuilderAlias DEF BuilderInv, Next
  <1>2. UNCHANGED <<IndirectCalls, CalleesAt>>
    BY DEF processFunction, askAliasSet, endFunction, askAgain, buildCallGraph
  <1>3. Redo' \subseteq DOMAIN IndirectCalls'
    BY <1>2 DEF BuilderInv, processFunction, askAliasSet, endFunction, askAgain,
                buildCallGraph
  <1>4. (pc = "resolve" => /\ isIndirect(Head(Calls))
                           /\ \/ known(inst(Head(Calls)).callee)
                              \/ Todo = getAliasSet(inst(Head(Calls)).callee))'
    <2>1. CASE askAliasSet
      <3>1. PICK c : c = Head(Calls) /\ isIndirect(c) /\ Todo' = getAliasSet(inst(c).callee)
        BY <2>1 DEF askAliasSet, Request
      <3>2. Head(Calls)' = c
        BY <2>1, <3>1 DEF askAliasSet
      <3> QED BY <3>1, <3>2 DEF isIndirect, inst, getAliasSet, computeValues
    <2>2. CASE ~askAliasSet
      BY <2>2 DEF BuilderInv, processFunction, endFunction, askAgain, buildCallGraph
    <2> QED BY <2>1, <2>2
  <1>5. (pc = "redo" /\ Calls # <<>> => Head(Calls) \in DOMAIN IndirectCalls)'
    <2>1. CASE askAgain
      BY <1>2, <2>1 DEF askAgain, BuilderInv
    <2>2. CASE endFunction
      BY <1>2, <2>2 DEF endFunction, BuilderInv
    <2>3. CASE processFunction \/ askAliasSet \/ buildCallGraph
      BY <1>2, <2>3 DEF processFunction, askAliasSet, buildCallGraph, BuilderInv
    <2> QED BY <2>1, <2>2, <2>3
  <1>6. (pc = "pop" => Calls = <<>>)'
    BY DEF processFunction, askAliasSet, endFunction, askAgain, buildCallGraph, BuilderInv
  <1> QED BY <1>1, <1>2, <1>3, <1>4, <1>5, <1>6, SameCalls DEF BuilderInv
\* A direct call has its one target for ever.
LEMMA DirectCallStep ==
  ASSUME BuilderInv, processDirectCall
  PROVE  BuilderInv'
  <1>1. Inv' /\ Grow
    BY BuilderAlias DEF BuilderInv, Next
  <1>2. PICK c : c = Head(Calls) /\ ~isIndirect(c) /\ connect(c, {inst(c).callee})
    BY DEF processDirectCall
  <1>3. /\ DOMAIN CalleesAt' = DOMAIN CalleesAt \cup {c}
        /\ \A d \in DOMAIN CalleesAt : d # c => CalleesAt'[d] = CalleesAt[d]
    BY <1>2, ConnectCallees
  <1>4. UNCHANGED <<IndirectCalls, Redo, pc>> /\ pc = "calls"
    BY DEF processDirectCall
  <1>5. ASSUME NEW d \in DOMAIN CalleesAt', isIndirect(d) PROVE Resolved(d)'
    <2>1. d # c /\ d \in DOMAIN CalleesAt /\ CalleesAt'[d] = CalleesAt[d]
      BY <1>2, <1>3, <1>5
    <2> QED BY <1>1, <1>5, <2>1, ResolvedKept
  <1>6. CountExact'
    BY <1>2, <1>3, <1>4 DEF BuilderInv, CountExact
  <1> QED BY <1>1, <1>3, <1>4, <1>5, <1>6 DEF BuilderInv

\* The targets a call gets are the ones its alias set yields now, and they
\* include all that it had.
LEMMA NewTargets ==
  ASSUME BuilderInv, NEW c, isIndirect(c), known(inst(c).callee),
         NEW targets, targets \subseteq resolveIndirectCall(c),
         c \in DOMAIN CalleesAt => resolveIndirectCall(c) = targets \cup CalleesAt[c],
         c \notin DOMAIN CalleesAt => resolveIndirectCall(c) = targets,
         connect(c, targets), Inv', Grow
  PROVE  /\ CalleesAt'[c] = resolveIndirectCall(c)
         /\ \A d \in DOMAIN CalleesAt' : isIndirect(d) => Resolved(d)'
  <1>1. /\ DOMAIN CalleesAt' = DOMAIN CalleesAt \cup {c}
        /\ CalleesAt'[c] = resolveIndirectCall(c)
        /\ \A d \in DOMAIN CalleesAt : d # c => CalleesAt'[d] = CalleesAt[d]
    BY ConnectCallees
  <1>2. Resolved(c)'
    BY <1>1, TargetsGrow DEF Resolved, BuilderInv
  <1>3. ASSUME NEW d \in DOMAIN CalleesAt', isIndirect(d), d # c PROVE Resolved(d)'
    BY <1>1, <1>3, ResolvedKept
  <1> QED BY <1>1, <1>2, <1>3

\* The first resolution of an indirect call.
LEMMA FillStep ==
  ASSUME BuilderInv, fillPossibleTargets
  PROVE  BuilderInv'
  <1>1. Inv' /\ Grow
    BY BuilderAlias DEF BuilderInv, Next
  <1>2. PICK c : c = Head(Calls)
    OBVIOUS
  <1>3. PICK targets : targets = resolveIndirectCall(c)
    OBVIOUS
  <1>4. connect(c, targets) /\ IndirectCalls' = Put(IndirectCalls, c, Cardinality(targets))
    BY <1>2, <1>3 DEF fillPossibleTargets
  <1>5. Todo = <<>> /\ isIndirect(c)
        /\ (known(inst(c).callee) \/ Todo = getAliasSet(inst(c).callee))
    BY <1>2, <1>4, ConnectCallees DEF fillPossibleTargets, BuilderInv
  <1>6. known(inst(c).callee)
    BY <1>5 DEF getAliasSet
  <1>7. c \in DOMAIN CalleesAt => CalleesAt[c] \subseteq targets
    BY <1>3, <1>5 DEF BuilderInv, Resolved
  <1>8. /\ CalleesAt'[c] = targets
        /\ \A d \in DOMAIN CalleesAt' : isIndirect(d) => Resolved(d)'
    BY <1>1, <1>3, <1>4, <1>5, <1>6, <1>7, NewTargets
  <1>9. /\ DOMAIN CalleesAt' = DOMAIN CalleesAt \cup {c}
        /\ \A d \in DOMAIN CalleesAt : d # c => CalleesAt'[d] = CalleesAt[d]
    BY <1>4, ConnectCallees
  <1>10. /\ DOMAIN IndirectCalls' = DOMAIN IndirectCalls \cup {c}
         /\ IndirectCalls'[c] = Cardinality(targets)
         /\ \A d \in DOMAIN IndirectCalls : d # c => IndirectCalls'[d] = IndirectCalls[d]
    BY <1>4 DEF Put
  <1>11. CountExact'
    BY <1>8, <1>9, <1>10 DEF BuilderInv, CountExact
  <1>12. pc' = "calls" /\ Redo' = Redo
    BY DEF fillPossibleTargets
  <1> QED BY <1>1, <1>5, <1>8, <1>9, <1>10, <1>11, <1>12 DEF BuilderInv

\* A later resolution: when the numbers differ, the table takes exactly the
\* targets that the alias set yields now.
LEMMA AgainStep ==
  ASSUME BuilderInv, constructDynamicCall
  PROVE  /\ BuilderInv'
         /\ ~(IndirectCalls[Head(Calls)] >= Cardinality(resolveIndirectCall(Head(Calls)))) =>
              CalleesAt'[Head(Calls)] = resolveIndirectCall(Head(Calls))
  <1>1. Inv' /\ Grow
    BY BuilderAlias DEF BuilderInv, Next
  <1>2. PICK c : c = Head(Calls)
    OBVIOUS
  <1>3. PICK targets : targets = resolveIndirectCall(c)
    OBVIOUS
  <1>4. /\ c \in DOMAIN IndirectCalls /\ c \in DOMAIN CalleesAt /\ isIndirect(c)
        /\ known(inst(c).callee) /\ CalleesAt[c] \subseteq targets
    BY <1>2, <1>3 DEF constructDynamicCall, BuilderInv, Resolved
  <1>5. Calls' = <<>> /\ pc' = "redo" /\ Redo' = Redo
    BY DEF constructDynamicCall
  <1>6. CASE IndirectCalls[c] >= Cardinality(targets)
    <2>1. UNCHANGED <<IndirectCalls, CalleesAt>>
      BY <1>2, <1>3, <1>6 DEF constructDynamicCall
    <2> QED BY <1>1, <1>2, <1>3, <1>5, <1>6, <2>1, SameCalls DEF BuilderInv
  <1>7. CASE ~(IndirectCalls[c] >= Cardinality(targets))
    <2>1. /\ IndirectCalls' = [IndirectCalls EXCEPT ![c] = Cardinality(targets)]
          /\ connect(c, targets \ CalleesAt[c])
      BY <1>2, <1>3, <1>7 DEF constructDynamicCall
    <2>2. PICK fresh : fresh = targets \ CalleesAt[c]
      OBVIOUS
    <2>3. /\ CalleesAt'[c] = targets
          /\ \A d \in DOMAIN CalleesAt' : isIndirect(d) => Resolved(d)'
      BY <1>1, <1>3, <1>4, <2>1, <2>2, NewTargets
    <2>4. /\ DOMAIN CalleesAt' = DOMAIN CalleesAt \cup {c}
          /\ \A d \in DOMAIN CalleesAt : d # c => CalleesAt'[d] = CalleesAt[d]
      BY <2>1, <2>2, ConnectCallees
    <2>5. /\ DOMAIN IndirectCalls' = DOMAIN IndirectCalls
          /\ IndirectCalls'[c] = Cardinality(targets)
          /\ \A d \in DOMAIN IndirectCalls : d # c => IndirectCalls'[d] = IndirectCalls[d]
      BY <1>4, <2>1
    <2>6. CountExact'
      BY <1>4, <2>3, <2>4, <2>5 DEF BuilderInv, CountExact
    <2> QED BY <1>1, <1>2, <1>3, <1>5, <2>3, <2>4, <2>5, <2>6 DEF BuilderInv
  <1> QED BY <1>6, <1>7

\* One step of the builder, for every action.
LEMMA BuilderNext ==
  ASSUME BuilderInv, [Next]_vars
  PROVE  BuilderInv'
  <1>1. CASE UNCHANGED vars
    <2>1. Inv' /\ Grow
      BY BuilderAlias DEF BuilderInv
    <2>2. UNCHANGED <<IndirectCalls, CalleesAt, Redo, pc, Calls, Todo, AliasSets>>
      BY <1>1 DEF vars, builderVars, aliasVars, sets
    <2> QED BY <2>1, <2>2, SameCalls DEF BuilderInv, known
  <1>2. CASE Next
    BY <1>2, AliasStepInv, QuietStep, DirectCallStep, FillStep, AgainStep DEF Next
  <1> QED BY <1>1, <1>2

-----------------------------------------------------------------------------
(***************************************************************************)
(* Types, and what the builder asks of the alias sets: every value is      *)
(* computed before it is merged, whatever calls and targets there are.     *)
(***************************************************************************)
\* The recursion of FlattenSeq has a solution.
LEMMA FlattenDefined ==
  ASSUME NEW s, NEW m \in Nat
  PROVE  \E g : g = [i \in 1 .. m |-> IF i = 1 THEN s[i] ELSE g[i - 1] \o s[i]]
  <1> DEFINE Sol(g, n) == g = [i \in 1 .. n |-> IF i = 1 THEN s[i] ELSE g[i - 1] \o s[i]]
             N == {n \in Nat : \E g : Sol(g, n)}
  <1>1. 0 \in N
    <2>1. Sol([i \in 1 .. 0 |-> s[i]], 0)
      OBVIOUS
    <2> HIDE DEF Sol
    <2> QED BY <2>1
  <1>2. ASSUME NEW n \in N PROVE n + 1 \in N
    <2>1. PICK g : Sol(g, n)
      OBVIOUS
    <2> DEFINE x == IF n + 1 = 1 THEN s[n + 1] ELSE g[n] \o s[n + 1]
               h == [i \in 1 .. (n + 1) |-> IF i = n + 1 THEN x ELSE g[i]]
    <2>2. \A i \in 1 .. (n + 1) : h[i] = IF i = 1 THEN s[i] ELSE h[i - 1] \o s[i]
      <3> SUFFICES ASSUME NEW i \in 1 .. (n + 1)
                   PROVE  h[i] = IF i = 1 THEN s[i] ELSE h[i - 1] \o s[i]
        OBVIOUS
      <3>1. CASE i = n + 1
        <4>1. h[i] = x /\ i - 1 = n /\ (i # 1 => h[i - 1] = g[n])
          BY <3>1
        <4> QED BY <3>1, <4>1
      <3>2. CASE i # n + 1
        <4>1. i \in 1 .. n /\ h[i] = g[i] /\ (i # 1 => h[i - 1] = g[i - 1])
          BY <3>2
        <4>2. g[i] = IF i = 1 THEN s[i] ELSE g[i - 1] \o s[i]
          BY <2>1, <4>1
        <4> QED BY <4>1, <4>2
      <3> QED BY <3>1, <3>2
    <2> HIDE DEF x
    <2>3. Sol(h, n + 1)
      <3>1. h = [i \in 1 .. (n + 1) |-> h[i]]
        OBVIOUS
      <3> QED BY <2>2, <3>1
    <2> HIDE DEF h, Sol
    <2> QED BY <2>3
  <1> HIDE DEF Sol
  <1>3. N = Nat
    BY <1>1, <1>2, SetInduction
  <1> QED BY <1>3 DEF Sol

\* A set of sequences that is closed under concatenation is so under FlattenSeq.
LEMMA FlattenClosed ==
  ASSUME NEW P, <<>> \in P, \A a, b \in P : a \o b \in P, NEW s \in Seq(P)
  PROVE  FlattenSeq(s) \in P
  <1>1. CASE Len(s) = 0
    <2>1. s = <<>>
      BY <1>1
    <2> QED BY <1>1, <2>1 DEF FlattenSeq
  <1>2. CASE Len(s) # 0
    <2> DEFINE Sol(g) == g = [i \in 1 .. Len(s) |-> IF i = 1 THEN s[i] ELSE g[i - 1] \o s[i]]
               flat == CHOOSE g : Sol(g)
               N == {n \in Nat : n + 1 <= Len(s) => flat[n + 1] \in P}
    <2>1. Len(s) \in Nat /\ Len(s) >= 1 /\ \A i \in 1 .. Len(s) : s[i] \in P
      BY <1>2
    <2>2. Sol(flat)
      <3>1. \E g : Sol(g)
        BY <2>1, FlattenDefined
      <3> HIDE DEF Sol
      <3> QED BY <3>1
    <2>3. FlattenSeq(s) = flat[Len(s)]
      BY <1>2 DEF FlattenSeq
    <2> HIDE DEF flat
    <2>4. \A i \in 1 .. Len(s) : flat[i] = IF i = 1 THEN s[i] ELSE flat[i - 1] \o s[i]
      BY <2>2
    <2>5. 0 \in N
      <3>1. flat[1] = s[1]
        BY <2>1, <2>4
      <3> QED BY <2>1, <3>1
    <2>6. ASSUME NEW n \in N PROVE n + 1 \in N
      <3> SUFFICES ASSUME (n + 1) + 1 <= Len(s) PROVE flat[(n + 1) + 1] \in P
        OBVIOUS
      <3>1. PICK i \in Nat : i = n + 2
        OBVIOUS
      <3>2. i \in 1 .. Len(s) /\ i # 1 /\ i - 1 = n + 1 /\ n + 1 <= Len(s)
        BY <2>1, <3>1
      <3>3. flat[i - 1] \in P /\ s[i] \in P
        BY <2>1, <3>2
      <3>4. flat[i] = flat[i - 1] \o s[i]
        BY <2>4, <3>2
      <3>5. flat[i] \in P
        BY <3>3, <3>4
      <3> QED BY <3>1, <3>5
    <2>7. N = Nat
      <3> HIDE DEF N
      <3>1. N \subseteq Nat
        BY DEF N
      <3> QED BY <2>5, <2>6, <3>1, SetInduction
    <2>8. PICK n \in Nat : n + 1 = Len(s)
      <3>1. Len(s) - 1 \in Nat /\ (Len(s) - 1) + 1 = Len(s)
        BY <2>1
      <3> QED BY <3>1
    <2>9. n \in N
      BY <2>7, <2>8
    <2> QED BY <2>1, <2>3, <2>8, <2>9
  <1> QED BY <1>1, <1>2

\* Requests may be made one after the other.
LEMMA RequestsClosed ==
  /\ <<>> \in Requests
  /\ \A a, b \in Requests : a \o b \in Requests
  <1>1. <<>> \in Requests
    BY NoSteps DEF Requests
  <1>2. ASSUME NEW a \in Requests, NEW b \in Requests PROVE a \o b \in Requests
    <2>1. /\ a \in Seq(Op) /\ only(a, {"value", "merge"}) /\ ready(a, {})
          /\ b \in Seq(Op) /\ only(b, {"value", "merge"}) /\ ready(b, {})
      BY DEF Requests
    <2>2. PICK t, m, n : t = a \o b /\ m = Len(a) /\ n = Len(b)
      OBVIOUS
    <2>3. /\ t \in Seq(Op) /\ Len(t) = m + n /\ m \in Nat /\ n \in Nat
          /\ \A k \in 1 .. m : t[k] = a[k]
          /\ \A k \in 1 .. n : t[m + k] = b[k]
      BY <2>1, <2>2
    <2>4. \A k \in 1 .. (m + n) : k \in 1 .. m \/ \E j \in 1 .. n : k = m + j
      <3> SUFFICES ASSUME NEW k \in 1 .. (m + n), k \notin 1 .. m
                   PROVE  \E j \in 1 .. n : k = m + j
        OBVIOUS
      <3>1. k - m \in 1 .. n /\ k = m + (k - m)
        BY <2>3
      <3> QED BY <3>1
    <2>5. only(t, {"value", "merge"})
      BY <2>1, <2>2, <2>3, <2>4 DEF only
    <2>6. ASSUME NEW k \in 1 .. m PROVE needs(t[k]) \subseteq before(t, k)
      <3>1. needs(a[k]) \subseteq before(a, k)
        BY <2>1, <2>2 DEF ready
      <3>2. \A x : x \in before(a, k) => x \in before(t, k)
        <4>1. \A j \in 1 .. (k - 1) : t[j] = a[j]
          BY <2>3
        <4> QED BY <4>1 DEF before
      <3> QED BY <2>3, <3>1, <3>2
    <2>7. ASSUME NEW k \in 1 .. n PROVE needs(t[m + k]) \subseteq before(t, m + k)
      <3>1. needs(b[k]) \subseteq before(b, k)
        BY <2>1, <2>2 DEF ready
      <3>2. PICK q \in Nat : q = m + k
        BY <2>3
      <3>3. ASSUME NEW x \in before(b, k) PROVE x \in before(t, q)
        <4>1. PICK j \in 1 .. (k - 1) : x \in leaves(b[j])
          BY <3>3, BeforeDef
        <4>2. PICK i \in Nat : i = m + j
          BY <2>3
        <4>3. i \in 1 .. (q - 1) /\ t[i] = b[j]
          BY <2>3, <3>2, <4>2
        <4> QED BY <4>1, <4>3, BeforeDef
      <3> QED BY <2>3, <3>1, <3>2, <3>3
    <2>8. ready(t, {})
      BY <2>3, <2>4, <2>6, <2>7 DEF ready
    <2> QED BY <2>2, <2>3, <2>5, <2>8 DEF Requests
  <1> QED BY <1>1, <1>2
\* The calls of the module.
AllCalls == UNION {callSites(f) : f \in Func}

\* What is known of one call.
LEMMA CallTypes ==
  ASSUME NEW c \in AllCalls
  PROVE  /\ inst(c) \in Instruction /\ inst(c).callee \in Value
         /\ \A v \in Value : targetsAt(v, c) \subseteq Func
  <1>1. PICK f \in Func : c \in callSites(f)
    BY DEF AllCalls
  <1>2. PICK i \in 1 .. Len(Instructions(f)) : c = <<f, i>> /\ Instructions(f)[i].kind = "call"
    BY <1>1 DEF callSites
  <1>3. Instructions(f) \in Seq(Instruction) /\ Instructions(f)[i].callee \in Value
    BY <1>2, InstructionAssumption
  <1>4. inst(c) = Instructions(f)[i]
    BY <1>2 DEF inst
  <1>5. \A v \in Value : targetsAt(v, c) \subseteq Func
    BY <1>1, ModuleAssumption
  <1> QED BY <1>2, <1>3, <1>4, <1>5

\* callsIn lists calls of the module.
LEMMA CallsInType ==
  ASSUME NEW f \in Func
  PROVE  callsIn(f) \in Seq(AllCalls)
  <1> DEFINE n == Len(Instructions(f))
             A == {<<f, i>> : i \in 1 .. n}
             s == [i \in 1 .. n |-> <<f, i>>]
  <1>1. n \in Nat
    BY InstructionAssumption
  <1>2. s \in [1 .. n -> A]
    OBVIOUS
  <1>3. s \in Seq(A)
    BY <1>1, <1>2, FunctionIsSeq
  <1>4. keep(s, callSites(f)) \in Seq(A \cap callSites(f))
    BY <1>3, KeepType
  <1>5. A \cap callSites(f) \subseteq AllCalls
    BY DEF AllCalls
  <1> HIDE DEF A, s
  <1>6. keep(s, callSites(f)) \in Seq(AllCalls)
    BY <1>4, <1>5, SeqMonotonic
  <1> QED BY <1>6 DEF callsIn, s

\* flowsTo pairs pointers with pointers: what is none was left out.
LEMMA FlowsToType ==
  ASSUME NEW c \in AllCalls, NEW g \in Func
  PROVE  flowsTo(c, g) \in Seq(Value \X Value)
  <1> DEFINE ops == inst(c).ops
             n == Len(ops)
             s == [i \in 1 .. n |-> <<ops[i], formal(g, i)>>]
             V == Value \cup {NoValue}
             r == ReturnValues(g)
             t == [i \in 1 .. Len(r) |-> <<inst(c).val, r[i]>>]
  <1>1. ops \in Seq(V) /\ inst(c).val \in V /\ Args(g) \in Seq(V) /\ r \in Seq(Value)
    BY CallTypes, InstructionAssumption, ModuleAssumption DEF Instruction
  <1>2. n \in Nat /\ \A i \in 1 .. n : formal(g, i) \in V
    BY <1>1, ModuleAssumption DEF formal
  <1> HIDE DEF ops, V, r
  <1>3. s \in [1 .. n -> V \X V]
    BY <1>1, <1>2
  <1>4. s \in Seq(V \X V)
    BY <1>2, <1>3, FunctionIsSeq
  <1>5. keep(s, Value \X Value) \in Seq((V \X V) \cap (Value \X Value))
    BY <1>4, KeepType
  <1>6. (V \X V) \cap (Value \X Value) \subseteq Value \X Value
    OBVIOUS
  <1>7. keep(s, Value \X Value) \in Seq(Value \X Value)
    <2> HIDE DEF s
    <2> QED BY <1>5, <1>6, SeqMonotonic
  <1>8. flowsTo(c, g) = keep(s, Value \X Value) \o (IF inst(c).val = NoValue THEN <<>> ELSE t)
    BY DEF flowsTo, mapSeq, ops, r
  <1>9. inst(c).val # NoValue => t \in Seq(Value \X Value)
    <2> SUFFICES ASSUME inst(c).val # NoValue PROVE t \in Seq(Value \X Value)
      OBVIOUS
    <2>1. inst(c).val \in Value
      BY <1>1 DEF V
    <2>2. Len(r) \in Nat /\ t \in [1 .. Len(r) -> Value \X Value]
      BY <1>1, <2>1
    <2> QED BY <2>2, FunctionIsSeq
  <1>10. <<>> \in Seq(Value \X Value)
    OBVIOUS
  <1> HIDE DEF s, t
  <1> QED BY <1>7, <1>8, <1>9, <1>10

\* handlePossibleTargets asks for both values of each pair before it merges them.
LEMMA TargetRequests ==
  ASSUME NEW c \in AllCalls, NEW q \in Seq(Func)
  PROVE  handlePossibleTargets(c, q) \in Requests
  <1> DEFINE flows(g) == [j \in 1 .. Len(flowsTo(c, g)) |->
                            introduceAlias(flowsTo(c, g)[j][1], flowsTo(c, g)[j][2])]
             ops(g) == IF isDeclaration(g) THEN <<>> ELSE FlattenSeq(flows(g))
             all == [i \in 1 .. Len(q) |-> ops(q[i])]
  <1>1. ASSUME NEW g \in Func PROVE ops(g) \in Requests
    <2>1. CASE isDeclaration(g)
      BY <2>1, RequestsClosed
    <2>2. CASE ~isDeclaration(g)
      <3>1. PICK s : s = flowsTo(c, g)
        OBVIOUS
      <3>2. s \in Seq(Value \X Value)
        BY <3>1, FlowsToType
      <3>3. \A j \in 1 .. Len(s) : introduceAlias(s[j][1], s[j][2]) \in Requests
        BY <3>2, ClientRequests
      <3>4. Len(s) \in Nat /\ flows(g) \in [1 .. Len(s) -> Requests]
        BY <3>1, <3>2, <3>3
      <3>5. flows(g) \in Seq(Requests)
        BY <3>4, FunctionIsSeq
      <3> HIDE DEF flows
      <3>6. FlattenSeq(flows(g)) \in Requests
        BY <3>5, RequestsClosed, FlattenClosed
      <3> QED BY <2>2, <3>6
    <2> QED BY <2>1, <2>2
  <1>2. handlePossibleTargets(c, q) = FlattenSeq(all)
    BY DEF handlePossibleTargets, concat, mapSeq
  <1> HIDE DEF ops
  <1>3. Len(q) \in Nat /\ all \in [1 .. Len(q) -> Requests]
    BY <1>1
  <1>4. all \in Seq(Requests)
    BY <1>3, FunctionIsSeq
  <1> HIDE DEF all
  <1> QED BY <1>2, <1>4, RequestsClosed, FlattenClosed
-----------------------------------------------------------------------------
(***************************************************************************)
(* The builder's own tables, by type.                                      *)
(***************************************************************************)
BuilderTypes ==
  /\ FunctionWL \in Seq(Func) /\ VisitedFunctions \subseteq Func
  /\ Calls \in Seq(AllCalls) /\ (pc = "resolve" => Calls # <<>>)
  /\ DOMAIN CalleesAt \subseteq AllCalls
  /\ \A c \in DOMAIN CalleesAt : CalleesAt[c] \subseteq Func
  /\ \A c \in DOMAIN IndirectCalls : IndirectCalls[c] \in Nat
  /\ pc \in {"pop", "calls", "resolve", "redo", "done"}

\* Initially the tables are empty.
LEMMA TypesInit == Init => BuilderTypes
  <1> SUFFICES ASSUME Init PROVE BuilderTypes
    OBVIOUS
  <1>1. DOMAIN IndirectCalls = {} /\ DOMAIN CalleesAt = {} /\ pc = "pop" /\ Calls = <<>>
        /\ VisitedFunctions = {} /\ FunctionWL = EntryPoints
    BY DEF Init
  <1> QED BY <1>1, ModuleAssumption DEF BuilderTypes

\* The targets of a call are functions, once its alias set was computed.
LEMMA TargetTypes ==
  ASSUME Inv, NEW c \in AllCalls, known(inst(c).callee)
  PROVE  resolveIndirectCall(c) \subseteq Func
  <1>1. aliasSet(inst(c).callee) \subseteq Value
    BY DEF Inv, TablesOK, Partition, known, aliasSet
  <1> QED BY <1>1, CallTypes DEF resolveIndirectCall

\* There are finitely many functions.
LEMMA FiniteTargets ==
  ASSUME NEW T, T \subseteq Func
  PROVE  IsFiniteSet(T) /\ Cardinality(T) \in Nat
  BY ModuleAssumption, FS_Subset, FS_CardinalityType

\* connect is a request to the alias sets, and adds only functions.
LEMMA ConnectTypes ==
  ASSUME BuilderTypes, NEW c \in AllCalls, NEW targets, targets \subseteq Func,
         connect(c, targets)
  PROVE  /\ requestStep
         /\ FunctionWL' \in Seq(Func)
         /\ DOMAIN CalleesAt' \subseteq AllCalls
         /\ \A d \in DOMAIN CalleesAt' : CalleesAt'[d] \subseteq Func
  <1>1. PICK q \in SetToSeqs(targets) : /\ Request(handlePossibleTargets(c, q))
                                        /\ FunctionWL' = FunctionWL \o q
    BY DEF connect
  <1>2. PICK n \in Nat : n = Cardinality(targets)
    BY FiniteTargets
  <1>3. q \in [1 .. n -> targets]
    BY <1>1, <1>2 DEF SetToSeqs
  <1>4. q \in [1 .. n -> Func]
    BY <1>3
  <1>5. q \in Seq(Func)
    BY <1>4, FunctionIsSeq
  <1>6. requestStep
    BY <1>1, <1>5, TargetRequests DEF requestStep
  <1>7. FunctionWL' \in Seq(Func)
    BY <1>1, <1>5 DEF BuilderTypes
  <1>8. /\ DOMAIN CalleesAt' = DOMAIN CalleesAt \cup {c}
        /\ c \in DOMAIN CalleesAt => CalleesAt'[c] = targets \cup CalleesAt[c]
        /\ c \notin DOMAIN CalleesAt => CalleesAt'[c] = targets
        /\ \A d \in DOMAIN CalleesAt : d # c => CalleesAt'[d] = CalleesAt[d]
    BY ConnectCallees
  <1>9. DOMAIN CalleesAt' \subseteq AllCalls
    BY <1>8 DEF BuilderTypes
  <1>10. ASSUME NEW d \in DOMAIN CalleesAt' PROVE CalleesAt'[d] \subseteq Func
    BY <1>8 DEF BuilderTypes
  <1> QED BY <1>6, <1>7, <1>9, <1>10

\* The first of the calls that are left.
LEMMA HeadCall ==
  ASSUME NEW s \in Seq(AllCalls), s # <<>>
  PROVE  Head(s) \in AllCalls /\ Tail(s) \in Seq(AllCalls)
  OBVIOUS

\* A step of the builder keeps the types, and to the alias sets it is a
\* request, or nothing.
LEMMA TypesNext ==
  ASSUME BuilderInv, BuilderTypes, Next
  PROVE  BuilderTypes' /\ (AliasStep \/ requestStep \/ UNCHANGED aliasVars)
  <1>1. CASE AliasStep /\ UNCHANGED builderVars
    BY <1>1 DEF builderVars, BuilderTypes
  <1>2. CASE processFunction
    <2>1. PICK s : s = FunctionWL
      OBVIOUS
    <2>2. s \in Seq(Func) /\ s # <<>>
      BY <1>2, <2>1 DEF processFunction, BuilderTypes
    <2>3. Front(s) \in Seq(Func) /\ Last(s) \in Func
      BY <2>2 DEF Front, Last
    <2>4. FunctionWL' = Front(s) /\ UNCHANGED <<aliasVars, IndirectCalls, CalleesAt>>
      BY <1>2, <2>1 DEF processFunction
    <2>5. PICK F \in Func : F = Last(FunctionWL)
      BY <2>1, <2>3
    <2>6. \/ UNCHANGED <<VisitedFunctions, Calls, pc>>
          \/ VisitedFunctions' = VisitedFunctions \cup {F} /\ Calls' = callsIn(F)
             /\ pc' = "calls"
      BY <1>2, <2>5 DEF processFunction
    <2> QED BY <2>3, <2>4, <2>6, CallsInType DEF BuilderTypes
  <1>3. CASE processDirectCall
    <2>1. PICK c : c = Head(Calls)
      OBVIOUS
    <2>2. c \in AllCalls /\ Tail(Calls) \in Seq(AllCalls)
      BY <1>3, <2>1, HeadCall DEF processDirectCall, BuilderTypes
    <2>3. PICK targets : targets = {inst(c).callee}
      OBVIOUS
    <2>4. targets \subseteq Func /\ connect(c, targets) /\ Calls' = Tail(Calls)
          /\ UNCHANGED <<VisitedFunctions, IndirectCalls, pc>> /\ pc = "calls"
      BY <1>3, <2>1, <2>3 DEF processDirectCall, isIndirect
    <2>5. /\ requestStep /\ FunctionWL' \in Seq(Func) /\ DOMAIN CalleesAt' \subseteq AllCalls
          /\ \A d \in DOMAIN CalleesAt' : CalleesAt'[d] \subseteq Func
      BY <2>2, <2>4, ConnectTypes
    <2> QED BY <2>2, <2>4, <2>5 DEF BuilderTypes
  <1>4. CASE askAliasSet
    <2>1. PICK v : v = inst(Head(Calls)).callee
      OBVIOUS
    <2>2. v \in Value
      BY <1>4, <2>1, HeadCall, CallTypes DEF askAliasSet, BuilderTypes
    <2>3. requestStep
      BY <1>4, <2>1, <2>2, ClientRequests DEF askAliasSet, requestStep
    <2> QED BY <1>4, <2>3 DEF askAliasSet, BuilderTypes
  <1>5. CASE fillPossibleTargets
    <2>1. PICK c : c = Head(Calls)
      OBVIOUS
    <2>2. c \in AllCalls /\ Tail(Calls) \in Seq(AllCalls)
      BY <1>5, <2>1, HeadCall DEF fillPossibleTargets, BuilderTypes
    <2>3. PICK targets : targets = resolveIndirectCall(c)
      OBVIOUS
    <2>4. /\ connect(c, targets) /\ IndirectCalls' = Put(IndirectCalls, c, Cardinality(targets))
          /\ Calls' = Tail(Calls) /\ pc' = "calls" /\ UNCHANGED VisitedFunctions
      BY <1>5, <2>1, <2>3 DEF fillPossibleTargets
    <2>5. Todo = <<>> /\ (known(inst(c).callee) \/ Todo = getAliasSet(inst(c).callee))
      BY <1>5, <2>1, <2>4, ConnectCallees DEF fillPossibleTargets, BuilderInv
    <2>6. known(inst(c).callee)
      BY <2>5 DEF getAliasSet
    <2>7. targets \subseteq Func
      BY <2>2, <2>3, <2>6, TargetTypes DEF BuilderInv
    <2>8. /\ requestStep /\ FunctionWL' \in Seq(Func) /\ DOMAIN CalleesAt' \subseteq AllCalls
          /\ \A d \in DOMAIN CalleesAt' : CalleesAt'[d] \subseteq Func
      BY <2>2, <2>4, <2>7, ConnectTypes
    <2>9. \A d \in DOMAIN IndirectCalls' : IndirectCalls'[d] \in Nat
      BY <2>4, <2>7, FiniteTargets DEF Put, BuilderTypes
    <2> QED BY <2>2, <2>4, <2>8, <2>9 DEF BuilderTypes
  <1>6. CASE endFunction
    BY <1>6 DEF endFunction, BuilderTypes
  <1>7. CASE askAgain
    <2>1. PICK c \in Redo : Request(getAliasSet(inst(c).callee)) /\ Calls' = <<c>>
      BY <1>7 DEF askAgain
    <2>2. c \in AllCalls
      BY <2>1 DEF BuilderInv, BuilderTypes
    <2>3. requestStep
      BY <2>1, <2>2, CallTypes, ClientRequests DEF requestStep
    <2>4. Calls' \in Seq(AllCalls)
      BY <2>1, <2>2
    <2> QED BY <1>7, <2>3, <2>4 DEF askAgain, BuilderTypes
  <1>8. CASE constructDynamicCall
    <2>1. PICK c : c = Head(Calls)
      OBVIOUS
    <2>2. PICK targets : targets = resolveIndirectCall(c)
      OBVIOUS
    <2>3. /\ c \in DOMAIN IndirectCalls /\ c \in AllCalls /\ known(inst(c).callee)
      BY <1>8, <2>1 DEF constructDynamicCall, BuilderInv, BuilderTypes, Resolved
    <2>4. targets \subseteq Func
      BY <2>2, <2>3, TargetTypes DEF BuilderInv
    <2>5. Calls' = <<>> /\ Calls' \in Seq(AllCalls) /\ UNCHANGED <<VisitedFunctions, pc>>
          /\ pc = "redo"
      BY <1>8 DEF constructDynamicCall
    <2>6. CASE IndirectCalls[c] >= Cardinality(targets)
      <3>1. UNCHANGED <<aliasVars, FunctionWL, IndirectCalls, CalleesAt>>
        BY <1>8, <2>1, <2>2, <2>6 DEF constructDynamicCall
      <3> QED BY <2>5, <3>1 DEF BuilderTypes
    <2>7. CASE ~(IndirectCalls[c] >= Cardinality(targets))
      <3>1. PICK fresh : fresh = targets \ CalleesAt[c]
        OBVIOUS
      <3>2. /\ IndirectCalls' = [IndirectCalls EXCEPT ![c] = Cardinality(targets)]
            /\ connect(c, fresh)
        BY <1>8, <2>1, <2>2, <2>7, <3>1 DEF constructDynamicCall
      <3>3. fresh \subseteq Func
        BY <2>4, <3>1
      <3>4. /\ requestStep /\ FunctionWL' \in Seq(Func) /\ DOMAIN CalleesAt' \subseteq AllCalls
            /\ \A d \in DOMAIN CalleesAt' : CalleesAt'[d] \subseteq Func
        BY <2>3, <3>2, <3>3, ConnectTypes
      <3>5. \A d \in DOMAIN IndirectCalls' : IndirectCalls'[d] \in Nat
        BY <2>4, <3>2, FiniteTargets DEF BuilderTypes
      <3> QED BY <2>5, <3>4, <3>5 DEF BuilderTypes
    <2> QED BY <2>6, <2>7
  <1>9. CASE buildCallGraph
    BY <1>9 DEF buildCallGraph, BuilderTypes
  <1> QED BY <1>1, <1>2, <1>3, <1>4, <1>5, <1>6, <1>7, <1>8, <1>9 DEF Next
\* Both invariants together.
LEMMA TypedInit == Init => BuilderInv /\ BuilderTypes
  BY BuilderInit, TypesInit

\* ... are kept by every step.
LEMMA TypedNext == BuilderInv /\ BuilderTypes /\ [Next]_vars => (BuilderInv /\ BuilderTypes)'
  <1>1. ASSUME BuilderTypes, UNCHANGED vars PROVE BuilderTypes'
    BY <1>1 DEF BuilderTypes, vars, builderVars
  <1> QED BY <1>1, BuilderNext, TypesNext

-----------------------------------------------------------------------------
(***************************************************************************)
(* While the call graph is built, the alias sets stay a partition ...      *)
(***************************************************************************)
THEOREM PartitionWhileBuilding == Spec => []Partition
  <1>1. Inv /\ [Next]_vars => Inv'
    BY BuilderAlias
  <1>2. Inv => Partition
    BY DEF Inv
  <1>3. Init => Inv
    BY InitInv DEF Init
  <1> QED BY <1>1, <1>2, <1>3, PTL DEF Spec

(***************************************************************************)
(* ... boxes that were handed out stay valid, and aliases are never taken  *)
(* back between two resolutions of a call.                                 *)
(***************************************************************************)
THEOREM AliasesGrowWhileBuilding == Spec => AliasesOnlyGrow
  <1>1. Inv /\ [Next]_vars => Inv'
    BY BuilderAlias
  <1>2. Inv /\ [Next]_vars => [Grow]_aliasVars
    BY BuilderAlias
  <1>3. Init => Inv
    BY InitInv DEF Init
  <1>4. Spec => [][Grow]_aliasVars
    BY <1>1, <1>2, <1>3, PTL DEF Spec
  <1> QED BY <1>4 DEF AliasesOnlyGrow, Grow

(***************************************************************************)
(* IndirectCalls[c] is the number of targets that the call graph has for   *)
(* c, whatever was merged between two resolutions of c.                    *)
(***************************************************************************)
THEOREM CountsAreExact == Spec => []CountExact
  <1>1. BuilderInv /\ [Next]_vars => BuilderInv'
    BY BuilderNext
  <1>2. BuilderInv => CountExact
    BY DEF BuilderInv
  <1> QED BY BuilderInit, <1>1, <1>2, PTL DEF Spec

\* After its turn in a round, an indirect call has all its current targets.
NoTargetOverlooked ==
  [][constructDynamicCall =>
       CalleesAt'[Head(Calls)] = resolveIndirectCall(Head(Calls))]_vars

(***************************************************************************)
(* constructDynamicCall compares only numbers, never the targets: that is  *)
(* enough to notice every new target, because the old ones are among the   *)
(* new ones.  The targets are functions of one module, so finitely many.   *)
(***************************************************************************)
THEOREM ComparingNumbersSuffices == Spec => NoTargetOverlooked
  <1> DEFINE Same == CalleesAt'[Head(Calls)] = resolveIndirectCall(Head(Calls))
  <1>1. ASSUME BuilderInv, BuilderTypes, constructDynamicCall
        PROVE  Same
    <2>1. PICK c : c = Head(Calls)
      OBVIOUS
    <2>2. PICK targets : targets = resolveIndirectCall(c)
      OBVIOUS
    <2>3. CASE ~(IndirectCalls[c] >= Cardinality(targets))
      BY <1>1, <2>1, <2>2, <2>3, AgainStep
    <2>4. CASE IndirectCalls[c] >= Cardinality(targets)
      <3>1. /\ c \in DOMAIN IndirectCalls /\ c \in DOMAIN CalleesAt
            /\ known(inst(c).callee) /\ CalleesAt[c] \subseteq targets
            /\ IndirectCalls[c] = Cardinality(CalleesAt[c])
        BY <1>1, <2>1, <2>2 DEF constructDynamicCall, BuilderInv, Resolved, CountExact
      <3>2. c \in AllCalls
        BY <1>1, <3>1 DEF BuilderTypes
      <3>3. targets \subseteq Func
        BY <1>1, <2>2, <3>1, <3>2, TargetTypes DEF BuilderInv
      <3>4. IsFiniteSet(targets)
        BY <3>3, FiniteTargets
      <3>5. /\ IsFiniteSet(CalleesAt[c])
            /\ Cardinality(CalleesAt[c]) <= Cardinality(targets)
            /\ Cardinality(targets) \in Nat /\ Cardinality(CalleesAt[c]) \in Nat
        BY <3>1, <3>4, FS_Subset, FS_CardinalityType
      <3>6. CalleesAt[c] = targets
        BY <2>4, <3>1, <3>4, <3>5, FS_Subset
      <3>7. CalleesAt' = CalleesAt
        BY <1>1, <2>1, <2>2, <2>4 DEF constructDynamicCall
      <3> QED BY <2>1, <2>2, <3>6, <3>7
    <2> QED BY <2>3, <2>4
  <1>2. BuilderInv /\ BuilderTypes /\ [Next]_vars => [constructDynamicCall => Same]_vars
    BY <1>1
  <1>3. Spec => [][constructDynamicCall => Same]_vars
    BY TypedInit, TypedNext, <1>2, PTL DEF Spec
  <1> QED BY <1>3 DEF NoTargetOverlooked

(***************************************************************************)
(* The alias sets that the builder uses are those of LLVMAliasSet with a   *)
(* client that makes requests: what holds of the class, holds here.        *)
(***************************************************************************)
THEOREM BuilderIsClient == Spec => RequestSpec
  <1>1. Init => AliasInit
    BY DEF Init
  <1>2. BuilderInv /\ BuilderTypes /\ [Next]_vars => [AliasStep \/ requestStep]_aliasVars
    BY TypesNext DEF vars
  <1> QED BY TypedInit, TypedNext, <1>1, <1>2, PTL DEF Spec, RequestSpec

(***************************************************************************)
(* The builder implements the specification of the alias sets with an      *)
(* arbitrary client.                                                       *)
(***************************************************************************)
THEOREM BuilderUsesAliasSets == Spec => AliasSpec
  <1>1. [AliasStep \/ requestStep]_aliasVars => [AliasNext]_aliasVars
    <2>1. requestStep => clientStep
      BY DEF requestStep, clientStep, Request, Requests
    <2> QED BY <2>1 DEF AliasNext
  <1> QED BY BuilderIsClient, <1>1, PTL DEF RequestSpec, AliasSpec

(***************************************************************************)
(* No assertion of mergeAliasSets or addPointer fails while the call graph *)
(* is built: each argument and parameter has its set before they merge.    *)
(***************************************************************************)
THEOREM MergesReadyWhileBuilding == Spec => []MergeReady
  BY BuilderIsClient, MergesAreReady, PTL

(***************************************************************************)
(* Types, of the builder and of the alias sets.                            *)
(***************************************************************************)
THEOREM TypeCorrect == Spec => []TypeOK
  <1>1. Init => FixpointReached \in BOOLEAN
    BY Zenon DEF Init
  <1>2. FixpointReached \in BOOLEAN /\ [Next]_vars => (FixpointReached \in BOOLEAN)'
    <2>1. Next => FixpointReached' \in {FixpointReached, TRUE, FALSE}
      BY Zenon DEF Next, builderVars, processFunction, processDirectCall, askAliasSet,
                   fillPossibleTargets, endFunction, askAgain, constructDynamicCall,
                   buildCallGraph
    <2>2. UNCHANGED vars => FixpointReached' = FixpointReached
      BY DEF vars, builderVars
    <2> QED BY <2>1, <2>2, Zenon
  <1>3. BuilderInv /\ BuilderTypes /\ AliasTypeOK /\ FixpointReached \in BOOLEAN => TypeOK
    BY Zenon DEF TypeOK, BuilderInv, BuilderTypes
  <1>4. Spec => []AliasTypeOK
    BY BuilderIsClient, AliasTypes, PTL
  <1> QED BY TypedInit, TypedNext, <1>1, <1>2, <1>3, <1>4, PTL DEF Spec
=============================================================================
