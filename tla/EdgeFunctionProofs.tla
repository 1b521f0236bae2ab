------------------------- MODULE EdgeFunctionProofs -------------------------
(***************************************************************************)
(* For integers of every width and all edge functions of a problem:        *)
(* symbolic composition is exact, joins are sound, and joining is the      *)
(* semilattice operation that the proofs of the IDE solver assume.         *)
(***************************************************************************)
EXTENDS EdgeFunctionPaths, SequenceTheorems, WellFoundedInduction, TLAPS

-----------------------------------------------------------------------------
(***************************************************************************)
(* Joining.                                                                *)
(***************************************************************************)
\* The forms of an edge function, told apart by their kind.
LEMMA Forms ==
  ASSUME NEW f, isEdgeFunction(f)
  PROVE  \/ f = EdgeIdentity /\ f.kind = "EdgeIdentity"
         \/ f = AllTop /\ f.kind = "AllTop"
         \/ f = AllBottom /\ f.kind = "AllBottom"
         \/ \E v \in Consts : f = ConstantEdgeFunction(v) /\ f.kind = "Constant" /\ f.value = v
         \/ \E s \in Seq(BinOp) : /\ s # <<>> /\ f = EdgeFunctionComposer(s)
                                  /\ f.kind = "BinOps" /\ f.ops = s
  BY DEF isEdgeFunction, EdgeIdentity, AllTop, AllBottom, ConstantEdgeFunction,
         EdgeFunctionComposer

\* The join of two constants.
LEMMA JoinConstants ==
  ASSUME NEW v \in Consts, NEW w \in Consts
  PROVE  joinLattice(v, w) = IF v = w THEN v ELSE Bottom
  BY IntAssumption DEF joinLattice

\* joinWith is the join of a flat lattice: different functions give AllBottom.
LEMMA JoinIs ==
  ASSUME NEW f, NEW g, isEdgeFunction(f), isEdgeFunction(g)
  PROVE  joinWith(f, g) = IF f = AllTop THEN g
                          ELSE IF g = AllTop \/ f = g THEN f ELSE AllBottom
  <1>1. CASE f = AllTop \/ f = AllBottom
    BY <1>1, Forms DEF joinWith, AllTop, AllBottom
  <1>2. ASSUME NEW a, NEW b, isEdgeFunction(a), isEdgeFunction(b),
               a.kind \in {"Constant", "BinOps"}
        PROVE  joinOther(a, b) = IF b = AllTop \/ a = b THEN a ELSE AllBottom
    <2>1. a # AllBottom /\ a # AllTop /\ AllBottom # AllTop
      BY <1>2 DEF AllBottom, AllTop
    <2>2. CASE b = AllBottom \/ b = AllTop \/ b = a
      BY <2>1, <2>2 DEF joinOther
    <2>3. CASE ~(b = AllBottom \/ b = AllTop \/ b = a)
      <3>1. joinOther(a, b) = IF a.kind = "Constant" /\ b.kind = "Constant"
                              THEN constantOf(joinLattice(a.value, b.value)) ELSE AllBottom
        BY <2>3 DEF joinOther
      <3>2. ASSUME a.kind = "Constant", b.kind = "Constant"
            PROVE  joinLattice(a.value, b.value) = Bottom
        <4>1. PICK v \in Consts : a = ConstantEdgeFunction(v) /\ a.value = v
          BY <1>2, <3>2, Forms
        <4>2. PICK w \in Consts : b = ConstantEdgeFunction(w) /\ b.value = w
          BY <1>2, <3>2, Forms
        <4>3. v # w
          BY <2>3, <4>1, <4>2
        <4> QED BY <4>1, <4>2, <4>3, JoinConstants
      <3>3. constantOf(Bottom) = AllBottom
        BY IntAssumption DEF constantOf
      <3>4. joinOther(a, b) = AllBottom
        BY <3>1, <3>2, <3>3
      <3> QED BY <2>3, <3>4
    <2> QED BY <2>2, <2>3
  <1>3. CASE f = EdgeIdentity
    <2>1. f.kind = "EdgeIdentity" /\ f # AllTop /\ f # AllBottom /\ AllTop # AllBottom
      BY <1>3 DEF EdgeIdentity, AllTop, AllBottom
    <2>2. CASE g = EdgeIdentity \/ g = AllTop \/ g = AllBottom
      BY <1>3, <2>1, <2>2 DEF joinWith
    <2>3. CASE ~(g = EdgeIdentity \/ g = AllTop \/ g = AllBottom)
      <3>1. g.kind \in {"Constant", "BinOps"}
        BY <2>3, Forms
      <3>2. joinWith(f, g) = joinOther(g, f)
        BY <1>3, <2>1, <2>3 DEF joinWith
      <3> QED BY <1>2, <1>3, <2>1, <2>3, <3>1, <3>2
    <2> QED BY <2>2, <2>3
  <1>4. CASE f.kind \in {"Constant", "BinOps"}
    <2>1. f # AllTop /\ joinWith(f, g) = joinOther(f, g)
      BY <1>4 DEF joinWith, AllTop
    <2> QED BY <1>2, <1>4, <2>1
  <1> QED BY <1>1, <1>3, <1>4, Forms

\* So joining stays among the edge functions.
LEMMA JoinClosed ==
  ASSUME NEW f, NEW g, isEdgeFunction(f), isEdgeFunction(g)
  PROVE  isEdgeFunction(joinWith(f, g))
  <1>1. isEdgeFunction(AllBottom)
    BY DEF isEdgeFunction
  <1> QED BY <1>1, JoinIs

(***************************************************************************)
(* CombineAssumption of IDESolver, for the linear constant analysis: the   *)
(* default combine is idempotent, commutative and associative, and AllTop  *)
(* is neutral, on all functions that composing and joining produce.        *)
(***************************************************************************)
THEOREM JoinIsSemilattice ==
  ASSUME NEW f, NEW g, NEW h, isEdgeFunction(f), isEdgeFunction(g), isEdgeFunction(h)
  PROVE  /\ joinWith(f, f) = f /\ joinWith(AllTop, f) = f
         /\ joinWith(f, g) = joinWith(g, f)
         /\ joinWith(joinWith(f, g), h) = joinWith(f, joinWith(g, h))
         /\ joinWith(f, AllBottom) = AllBottom
  <1>1. isEdgeFunction(AllTop) /\ isEdgeFunction(AllBottom) /\ AllTop # AllBottom
    BY DEF isEdgeFunction, AllTop, AllBottom
  <1>2. isEdgeFunction(joinWith(f, g)) /\ isEdgeFunction(joinWith(g, h))
    BY JoinClosed
  <1>3. /\ joinWith(joinWith(f, g), h)
             = IF joinWith(f, g) = AllTop THEN h
               ELSE IF h = AllTop \/ joinWith(f, g) = h THEN joinWith(f, g) ELSE AllBottom
        /\ joinWith(f, joinWith(g, h))
             = IF f = AllTop THEN joinWith(g, h)
               ELSE IF joinWith(g, h) = AllTop \/ f = joinWith(g, h) THEN f ELSE AllBottom
    BY <1>2, JoinIs
  <1>4. /\ joinWith(f, g) = IF f = AllTop THEN g
                            ELSE IF g = AllTop \/ f = g THEN f ELSE AllBottom
        /\ joinWith(g, h) = IF g = AllTop THEN h
                            ELSE IF h = AllTop \/ g = h THEN g ELSE AllBottom
    BY JoinIs
  <1>5. joinWith(joinWith(f, g), h) = joinWith(f, joinWith(g, h))
    BY <1>1, <1>3, <1>4
  <1>6. joinWith(f, f) = f /\ joinWith(AllTop, f) = f /\ joinWith(f, AllBottom) = AllBottom
    BY <1>1, JoinIs
  <1>7. joinWith(f, g) = joinWith(g, f)
    BY <1>1, JoinIs
  <1> QED BY <1>5, <1>6, <1>7
-----------------------------------------------------------------------------
(***************************************************************************)
(* Computing.                                                              *)
(***************************************************************************)
\* The absolute value and the sign.
LEMMA AbsSign ==
  ASSUME NEW x \in Int
  PROVE  /\ Abs(x) \in Nat /\ Sign(x) \in {-1, 1} /\ x = Sign(x) * Abs(x)
         /\ (x # 0 => Abs(x) > 0)
  BY DEF Abs, Sign

\* Euclid, for a positive divisor.
LEMMA Euclid ==
  ASSUME NEW a \in Nat, NEW b \in Nat, b > 0
  PROVE  /\ a \div b \in Int /\ 0 <= a \div b
         /\ 0 <= b * (a \div b) /\ b * (a \div b) <= a
  <1>1. a \div b \in Int /\ 0 <= a \div b
    OBVIOUS
  <1>2. b * (a \div b) <= a
    OBVIOUS
  <1>3. 0 <= b * (a \div b)
    <2>1. PICK q \in Int : q = a \div b /\ 0 <= q
      BY <1>1
    <2>2. 0 <= b * q
      BY <2>1
    <2> QED BY <2>1, <2>2
  <1> QED BY <1>1, <1>2, <1>3

\* A remainder lies between zero and the dividend, so it fits.
LEMMA RemFits ==
  ASSUME NEW l \in Consts, NEW r \in Consts, r # 0
  PROVE  Rem(l, r) \in Consts
  <1>1. l \in Int /\ r \in Int
    BY IntAssumption DEF Consts
  <1>2. PICK a \in Nat, s \in {-1, 1} : a = Abs(l) /\ s = Sign(l) /\ l = s * a
    BY <1>1, AbsSign
  <1>3. PICK b \in Nat, t \in {-1, 1} : b = Abs(r) /\ t = Sign(r) /\ r = t * b /\ b > 0
    BY <1>1, AbsSign
  <1>4. PICK q \in Int : q = a \div b
    BY <1>2, <1>3, Euclid
  <1>5. PICK m \in Int : m = b * q
    BY <1>3, <1>4
  <1>6. 0 <= m /\ m <= a
    BY <1>2, <1>3, <1>4, <1>5, Euclid
  <1>7. Rem(l, r) = l - r * (s * t * q)
    BY <1>2, <1>3, <1>4 DEF Rem, Quot
  <1>8. r * (s * t * q) = s * m
    <2>1. r * (s * t * q) = (s * t * t) * (b * q)
      <3>1. CASE t = 1
        <4>1. r = b /\ s * t = s /\ s * t * t = s
          BY <1>2, <1>3, <3>1
        <4>2. b * (s * q) = s * (b * q)
          BY <1>2, <1>3, <1>4
        <4> QED BY <4>1, <4>2
      <3>2. CASE t = -1
        <4>1. r = -b /\ s * t = -s /\ s * t * t = s
          BY <1>2, <1>3, <3>2
        <4>2. (-b) * ((-s) * q) = s * (b * q)
          BY <1>2, <1>3, <1>4
        <4> QED BY <4>1, <4>2
      <3> QED BY <3>1, <3>2
    <2>2. s * t * t = s
      BY <1>2, <1>3
    <2> QED BY <1>5, <2>1, <2>2
  <1>9. Rem(l, r) = s * a - s * m
    BY <1>2, <1>7, <1>8
  <1>10. CASE s = 1
    BY <1>2, <1>5, <1>6, <1>9, <1>10, IntAssumption DEF Consts
  <1>11. CASE s = -1
    BY <1>2, <1>5, <1>6, <1>9, <1>11, IntAssumption DEF Consts
  <1> QED BY <1>10, <1>11

\* executeBinOperation yields a constant that fits, or Bottom.
LEMMA ExecuteType ==
  ASSUME NEW op, NEW l, NEW r
  PROVE  executeBinOperation(op, l, r) \in Consts \cup {Bottom}
  <1>1. \A x : Fit(x) \in Consts \cup {Bottom}
    BY DEF Fit
  <1>2. CASE l \notin Consts \/ r \notin Consts
    BY <1>2 DEF executeBinOperation
  <1>3. CASE l \in Consts /\ r \in Consts
    <2>1. r # 0 => Rem(l, r) \in Consts
      BY <1>3, RemFits
    <2> QED BY <1>1, <1>3, <2>1 DEF executeBinOperation
  <1> QED BY <1>2, <1>3

\* So does a BinOp, whatever it is applied to.
LEMMA ApplyType ==
  ASSUME NEW b, NEW v
  PROVE  /\ applyBinOp(b, v) \in Consts \cup {Bottom}
         /\ applyBinOp(b, Bottom) = Bottom
  BY ExecuteType DEF applyBinOp

\* The least element of a set of naturals.
LEMMA LeastElement ==
  ASSUME NEW S, S \subseteq Nat, S # {}
  PROVE  \E x \in S : \A y \in S : x <= y
  <1> DEFINE R == OpToRel(<, Nat)
  <1>1. IsWellFoundedOn(R, Nat)
    BY NatLessThanWellFounded, Zenon
  <1>2. \A y, z \in Nat : y < z => <<y, z>> \in R
    BY DEF OpToRel
  <1> HIDE DEF R
  <1>3. PICK x \in S : \A y \in S : ~(<<y, x>> \in R)
    BY <1>1, WFMin
  <1>4. \A y \in S : ~(y < x)
    BY <1>2, <1>3
  <1>5. \A y \in S : x <= y
    BY <1>4
  <1> QED BY <1>5

\* Induction over the naturals, for a set.
LEMMA SetInduction ==
  ASSUME NEW S, S \subseteq Nat, 0 \in S, \A n \in S : n + 1 \in S
  PROVE  S = Nat
  <1> DEFINE T == Nat \ S
  <1> SUFFICES ASSUME T # {} PROVE FALSE
    OBVIOUS
  <1>1. PICK x \in T : \A y \in T : x <= y
    BY LeastElement
  <1>2. x - 1 \in T
    BY <1>1
  <1> QED BY <1>1, <1>2
\* The recursion of applyBinOps has a solution.
Solves(g, s, v, n) == g = [i \in 0 .. n |-> IF i = 0 THEN v ELSE applyBinOp(s[i], g[i - 1])]

\* Such a function exists for every number of steps.
LEMMA ChainDefined ==
  ASSUME NEW s, NEW v, NEW m \in Nat
  PROVE  \E g : Solves(g, s, v, m)
  <1> DEFINE Sol(g, n) == g = [i \in 0 .. n |-> IF i = 0 THEN v
                                               ELSE applyBinOp(s[i], g[i - 1])]
             N == {n \in Nat : \E g : Sol(g, n)}
  <1>1. 0 \in N
    <2>1. Sol([i \in 0 .. 0 |-> v], 0)
      OBVIOUS
    <2> HIDE DEF Sol
    <2> QED BY <2>1
  <1>2. ASSUME NEW n \in N PROVE n + 1 \in N
    <2>1. PICK g : Sol(g, n)
      OBVIOUS
    <2> DEFINE x == applyBinOp(s[n + 1], g[n])
               h == [i \in 0 .. (n + 1) |-> IF i = n + 1 THEN x ELSE g[i]]
    <2>2. \A i \in 0 .. (n + 1) : h[i] = IF i = 0 THEN v ELSE applyBinOp(s[i], h[i - 1])
      <3> SUFFICES ASSUME NEW i \in 0 .. (n + 1)
                   PROVE  h[i] = IF i = 0 THEN v ELSE applyBinOp(s[i], h[i - 1])
        OBVIOUS
      <3>1. CASE i = n + 1
        <4>1. h[i] = x /\ i # 0 /\ i - 1 = n /\ h[i - 1] = g[n]
          BY <3>1
        <4> QED BY <3>1, <4>1
      <3>2. CASE i # n + 1
        <4>1. i \in 0 .. n /\ h[i] = g[i] /\ (i # 0 => h[i - 1] = g[i - 1])
          BY <3>2
        <4>2. g[i] = IF i = 0 THEN v ELSE applyBinOp(s[i], g[i - 1])
          BY <2>1, <4>1
        <4> QED BY <4>1, <4>2
      <3> QED BY <3>1, <3>2
    <2> HIDE DEF x
    <2>3. Sol(h, n + 1)
      <3>1. h = [i \in 0 .. (n + 1) |-> h[i]]
        OBVIOUS
      <3> QED BY <2>2, <3>1
    <2> HIDE DEF h, Sol
    <2> QED BY <2>3
  <1> HIDE DEF Sol
  <1>3. N = Nat
    BY <1>1, <1>2, SetInduction
  <1> QED BY <1>3 DEF Sol, Solves

\* g holds the values that the first n operations of s give one after the other.
Chain(g, s, n) == \A i \in 1 .. n : g[i] = applyBinOp(s[i], g[i - 1])

\* applyBinOps computes such values.
LEMMA ApplyChain ==
  ASSUME NEW s \in Seq(BinOp), NEW v
  PROVE  \E g : Chain(g, s, Len(s)) /\ g[0] = v /\ applyBinOps(s, v) = g[Len(s)]
  <1> DEFINE after == CHOOSE g : Solves(g, s, v, Len(s))
  <1>1. Len(s) \in Nat
    OBVIOUS
  <1>2. Solves(after, s, v, Len(s))
    <2>1. \E g : Solves(g, s, v, Len(s))
      BY <1>1, ChainDefined
    <2> QED BY <2>1
  <1>3. applyBinOps(s, v) = after[Len(s)]
    BY DEF applyBinOps, Solves
  <1> HIDE DEF after
  <1>4. after[0] = v
    BY <1>1, <1>2 DEF Solves
  <1>5. Chain(after, s, Len(s))
    BY <1>1, <1>2 DEF Chain, Solves
  <1> QED BY <1>3, <1>4, <1>5

\* The operations and the first value determine the last one.
LEMMA Determined ==
  ASSUME NEW s, NEW m \in Nat, NEW g, NEW h, g[0] = h[0], Chain(g, s, m), Chain(h, s, m)
  PROVE  g[m] = h[m]
  <1> DEFINE N == {n \in Nat : n <= m => g[n] = h[n]}
  <1>1. 0 \in N
    OBVIOUS
  <1>2. ASSUME NEW n \in N PROVE n + 1 \in N
    <2> SUFFICES ASSUME n + 1 <= m PROVE g[n + 1] = h[n + 1]
      OBVIOUS
    <2>1. PICK k \in 1 .. m : k = n + 1 /\ k - 1 = n
      OBVIOUS
    <2>2. g[k] = applyBinOp(s[k], g[n]) /\ h[k] = applyBinOp(s[k], h[n]) /\ g[n] = h[n]
      BY <2>1 DEF Chain
    <2>3. g[k] = h[k]
      BY <2>2
    <2> QED BY <2>1, <2>3
  <1>3. N = Nat
    <2> HIDE DEF N
    <2>1. N \subseteq Nat
      BY DEF N
    <2> QED BY <1>1, <1>2, <2>1, SetInduction
  <1> QED BY <1>3

\* Chaining operations is applying one part after the other.
LEMMA ChainConcat ==
  ASSUME NEW s \in Seq(BinOp), NEW t \in Seq(BinOp), NEW v
  PROVE  applyBinOps(s \o t, v) = applyBinOps(t, applyBinOps(s, v))
  <1>1. PICK u, m, n : u = s \o t /\ m = Len(s) /\ n = Len(t)
    OBVIOUS
  <1>2. /\ m \in Nat /\ n \in Nat /\ u \in Seq(BinOp) /\ Len(u) = m + n
        /\ \A i \in 1 .. m : u[i] = s[i]
        /\ \A i \in 1 .. n : u[m + i] = t[i]
    BY <1>1
  <1>3. PICK g : Chain(g, s, m) /\ g[0] = v /\ applyBinOps(s, v) = g[m]
    BY <1>1, ApplyChain
  <1>4. PICK h : Chain(h, t, n) /\ h[0] = g[m] /\ applyBinOps(t, g[m]) = h[n]
    <2>1. \A w : \E h : Chain(h, t, Len(t)) /\ h[0] = w /\ applyBinOps(t, w) = h[Len(t)]
      BY ApplyChain
    <2>2. PICK h : /\ Chain(h, t, Len(t)) /\ h[0] = g[m]
                   /\ applyBinOps(t, g[m]) = h[Len(t)]
      BY <2>1
    <2> QED BY <1>1, <2>2
  <1>5. PICK k : Chain(k, u, m + n) /\ k[0] = v /\ applyBinOps(u, v) = k[m + n]
    <2>1. PICK k : Chain(k, u, Len(u)) /\ k[0] = v /\ applyBinOps(u, v) = k[Len(u)]
      BY <1>2, ApplyChain
    <2> QED BY <1>2, <2>1
  <1>6. k[m] = g[m]
    <2>1. Chain(k, s, m)
      BY <1>2, <1>5 DEF Chain
    <2> QED BY <1>2, <1>3, <1>5, <2>1, Determined
  <1>7. PICK l : l = [i \in 0 .. n |-> k[m + i]]
    OBVIOUS
  <1>8. l[0] = k[m] /\ l[n] = k[m + n]
    BY <1>2, <1>7
  <1>9. Chain(l, t, n)
    <2> SUFFICES ASSUME NEW i \in 1 .. n PROVE l[i] = applyBinOp(t[i], l[i - 1])
      BY DEF Chain
    <2>1. PICK j \in 1 .. (m + n) : j = m + i /\ j - 1 = m + (i - 1) /\ i - 1 \in 0 .. n
      BY <1>2
    <2>2. k[j] = applyBinOp(u[j], k[j - 1]) /\ u[j] = t[i]
      BY <1>2, <1>5, <2>1 DEF Chain
    <2>3. l[i] = k[j] /\ l[i - 1] = k[j - 1]
      BY <1>7, <2>1
    <2> QED BY <2>2, <2>3
  <1>10. l[n] = h[n]
    <2>1. l[0] = h[0]
      BY <1>4, <1>6, <1>8
    <2> QED BY <1>2, <1>4, <1>9, <2>1, Determined
  <1> QED BY <1>1, <1>3, <1>4, <1>5, <1>8, <1>10

\* The result of operations fits, and Bottom stays Bottom.
LEMMA ChainType ==
  ASSUME NEW s \in Seq(BinOp), s # <<>>, NEW v
  PROVE  applyBinOps(s, v) \in Consts \cup {Bottom} /\ applyBinOps(s, Bottom) = Bottom
  <1>1. Len(s) \in Nat /\ Len(s) \in 1 .. Len(s)
    OBVIOUS
  <1>2. applyBinOps(s, v) \in Consts \cup {Bottom}
    <2>1. PICK g : Chain(g, s, Len(s)) /\ applyBinOps(s, v) = g[Len(s)]
      BY ApplyChain
    <2> QED BY <1>1, <2>1, ApplyType DEF Chain
  <1>3. applyBinOps(s, Bottom) = Bottom
    <2>1. PICK g : Chain(g, s, Len(s)) /\ g[0] = Bottom /\ applyBinOps(s, Bottom) = g[Len(s)]
      BY ApplyChain
    <2>2. PICK h : h = [i \in 0 .. Len(s) |-> Bottom]
      OBVIOUS
    <2>3. Chain(h, s, Len(s)) /\ h[0] = Bottom /\ h[Len(s)] = Bottom
      BY <1>1, <2>2, ApplyType DEF Chain
    <2> QED BY <1>1, <2>1, <2>3, Determined
  <1> QED BY <1>2, <1>3
\* What each form computes.
LEMMA Targets ==
  ASSUME NEW v
  PROVE  /\ computeTarget(EdgeIdentity, v) = v
         /\ computeTarget(AllTop, v) = Top
         /\ computeTarget(AllBottom, v) = Bottom
         /\ \A w : computeTarget(ConstantEdgeFunction(w), v) = w
         /\ \A s : computeTarget(EdgeFunctionComposer(s), v) = applyBinOps(s, v)
  BY DEF computeTarget, EdgeIdentity, AllTop, AllBottom, ConstantEdgeFunction,
         EdgeFunctionComposer

\* Edge functions map the lattice to itself.
LEMMA TargetType ==
  ASSUME NEW f, isEdgeFunction(f), NEW v \in LatticeDomain
  PROVE  computeTarget(f, v) \in LatticeDomain
  <1>1. CASE \E s \in Seq(BinOp) : s # <<>> /\ f = EdgeFunctionComposer(s)
    <2>1. PICK s \in Seq(BinOp) : s # <<>> /\ f = EdgeFunctionComposer(s)
      BY <1>1
    <2>2. computeTarget(f, v) = applyBinOps(s, v)
      BY <2>1, Targets
    <2>3. applyBinOps(s, v) \in Consts \cup {Bottom}
      BY <2>1, ChainType
    <2> QED BY <2>2, <2>3 DEF LatticeDomain
  <1>2. CASE \E w \in Consts : f = ConstantEdgeFunction(w)
    BY <1>2, Targets DEF LatticeDomain
  <1>3. CASE f = EdgeIdentity \/ f = AllTop \/ f = AllBottom
    BY <1>3, Targets DEF LatticeDomain
  <1> QED BY <1>1, <1>2, <1>3, Forms

\* The canonical form of a constant.
LEMMA ConstantForm ==
  ASSUME NEW w \in Consts \cup {Bottom}
  PROVE  /\ isEdgeFunction(constantOf(w)) /\ constantOf(w) # AllTop
         /\ \A v : computeTarget(constantOf(w), v) = w
         /\ constantOf(Bottom) = AllBottom
  <1>1. w # Top /\ Top # Bottom
    BY IntAssumption
  <1>2. constantOf(Bottom) = AllBottom
    BY <1>1 DEF constantOf
  <1>3. CASE w = Bottom
    BY <1>2, <1>3, Targets DEF isEdgeFunction, AllTop, AllBottom
  <1>4. CASE w \in Consts /\ w # Bottom
    <2>1. constantOf(w) = ConstantEdgeFunction(w)
      BY <1>1, <1>4 DEF constantOf
    <2>2. ConstantEdgeFunction(w) # AllTop
      BY DEF ConstantEdgeFunction, AllTop
    <2>3. isEdgeFunction(ConstantEdgeFunction(w))
      BY <1>4 DEF isEdgeFunction
    <2>4. \A v : computeTarget(ConstantEdgeFunction(w), v) = w
      BY Targets
    <2> QED BY <1>2, <2>1, <2>2, <2>3, <2>4
  <1> QED BY <1>3, <1>4

\* What a problem returns, and what the solver extends.
isFlow(f) == isEdgeFunction(f) /\ f # AllTop

\* compose, case by case.
LEMMA ComposeCases ==
  ASSUME NEW f, NEW g, isFlow(f), isFlow(g)
  PROVE  \/ f = EdgeIdentity /\ compose(f, g) = g
         \/ (\A v, w : computeTarget(g, v) = computeTarget(g, w)) /\ compose(f, g) = g
         \/ /\ \E w \in Consts \cup {Bottom} :
                 /\ \A v : computeTarget(f, v) = w
                 /\ compose(f, g) = constantOf(computeTarget(g, w))
            /\ \/ g = EdgeIdentity
               \/ \E t \in Seq(BinOp) : t # <<>> /\ g = EdgeFunctionComposer(t)
         \/ g = EdgeIdentity /\ compose(f, g) = f
         \/ \E s, t \in Seq(BinOp) : /\ s # <<>> /\ t # <<>>
                                     /\ f = EdgeFunctionComposer(s) /\ g = EdgeFunctionComposer(t)
                                     /\ compose(f, g) = EdgeFunctionComposer(s \o t)
  <1> USE DEF isFlow
  <1>1. CASE f = EdgeIdentity
    BY <1>1 DEF compose, EdgeIdentity
  <1>2. CASE f # EdgeIdentity /\ isConstant(g)
    <2>1. compose(f, g) = g
      <3>1. f.kind # "EdgeIdentity"
        BY <1>2, Forms
      <3> QED BY <1>2, <3>1 DEF compose
    <2>2. \A v, w : computeTarget(g, v) = computeTarget(g, w)
      BY <1>2 DEF computeTarget, isConstant
    <2> QED BY <2>1, <2>2
  <1>3. CASE f # EdgeIdentity /\ ~isConstant(g)
    <2>1. \/ g = EdgeIdentity
          \/ \E t \in Seq(BinOp) : t # <<>> /\ g = EdgeFunctionComposer(t) /\ g.ops = t
      BY <1>3, Forms DEF isConstant
    <2>2. g = EdgeIdentity \/ (g # EdgeIdentity /\ g.kind = "BinOps")
      BY <1>3, Forms DEF isConstant, EdgeIdentity
    <2>3. CASE f = AllBottom
      <3>1. compose(f, g) = constantOf(computeTarget(g, Bottom))
        BY <1>3, <2>3 DEF compose, AllBottom
      <3>2. \A v : computeTarget(f, v) = Bottom
        BY <2>3, Targets
      <3> QED BY <2>1, <3>1, <3>2
    <2>4. ASSUME NEW w \in Consts, f = ConstantEdgeFunction(w)
          PROVE  compose(f, g) = IF g = EdgeIdentity THEN f
                                 ELSE constantOf(computeTarget(g, w))
      BY <1>3, <2>4 DEF compose, ConstantEdgeFunction
    <2>5. ASSUME NEW s \in Seq(BinOp), s # <<>>, f = EdgeFunctionComposer(s)
          PROVE  compose(f, g) = IF g = EdgeIdentity THEN f
                                 ELSE EdgeFunctionComposer(s \o g.ops)
      BY <1>3, <2>5 DEF compose, EdgeFunctionComposer
    <2>6. CASE \E w \in Consts : f = ConstantEdgeFunction(w)
      <3>1. PICK w \in Consts : f = ConstantEdgeFunction(w)
        BY <2>6
      <3>2. \A v : computeTarget(f, v) = w
        BY <3>1, Targets
      <3> QED BY <2>1, <2>4, <3>1, <3>2
    <2>7. CASE \E s \in Seq(BinOp) : s # <<>> /\ f = EdgeFunctionComposer(s)
      BY <2>1, <2>5, <2>7
    <2> QED BY <1>3, <2>3, <2>6, <2>7, Forms
  <1> QED BY <1>1, <1>2, <1>3

(***************************************************************************)
(* Composition is exact, for every function but AllTop: compose(f, g) is   *)
(* canonical again and computes g after f, whatever overflows on the way.  *)
(***************************************************************************)
THEOREM ComposeIsExact ==
  ASSUME NEW f, NEW g, isFlow(f), isFlow(g)
  PROVE  /\ isFlow(compose(f, g))
         /\ \A v : computeTarget(compose(f, g), v) = computeTarget(g, computeTarget(f, v))
  <1>1. CASE f = EdgeIdentity /\ compose(f, g) = g
    BY <1>1, Targets
  <1>2. CASE (\A v, w : computeTarget(g, v) = computeTarget(g, w)) /\ compose(f, g) = g
    BY <1>2
  <1>3. CASE g = EdgeIdentity /\ compose(f, g) = f
    BY <1>3, Targets
  <1>4. ASSUME NEW w \in Consts \cup {Bottom}, \A v : computeTarget(f, v) = w,
               compose(f, g) = constantOf(computeTarget(g, w)),
               \/ g = EdgeIdentity
               \/ \E t \in Seq(BinOp) : t # <<>> /\ g = EdgeFunctionComposer(t)
        PROVE  /\ isFlow(compose(f, g))
               /\ \A v : computeTarget(compose(f, g), v) = computeTarget(g, computeTarget(f, v))
    <2>1. computeTarget(g, w) \in Consts \cup {Bottom}
      BY <1>4, Targets, ChainType
    <2> QED BY <1>4, <2>1, ConstantForm DEF isFlow
  <1>5. ASSUME NEW s \in Seq(BinOp), NEW t \in Seq(BinOp), s # <<>>, t # <<>>,
               f = EdgeFunctionComposer(s), g = EdgeFunctionComposer(t),
               compose(f, g) = EdgeFunctionComposer(s \o t)
        PROVE  /\ isFlow(compose(f, g))
               /\ \A v : computeTarget(compose(f, g), v) = computeTarget(g, computeTarget(f, v))
    <2>1. PICK u : u = s \o t
      OBVIOUS
    <2>2. u \in Seq(BinOp) /\ u # <<>>
      BY <1>5, <2>1
    <2>3. isFlow(EdgeFunctionComposer(u))
      BY <2>2 DEF isFlow, isEdgeFunction, EdgeFunctionComposer, AllTop
    <2>4. ASSUME NEW v
          PROVE  computeTarget(compose(f, g), v) = computeTarget(g, computeTarget(f, v))
      <3>1. computeTarget(compose(f, g), v) = applyBinOps(u, v)
        BY <1>5, <2>1, Targets
      <3>2. computeTarget(f, v) = applyBinOps(s, v)
        BY <1>5, Targets
      <3>3. computeTarget(g, applyBinOps(s, v)) = applyBinOps(t, applyBinOps(s, v))
        BY <1>5, Targets
      <3>4. applyBinOps(u, v) = applyBinOps(t, applyBinOps(s, v))
        BY <2>1, ChainConcat
      <3> QED BY <3>1, <3>2, <3>3, <3>4
    <2> QED BY <1>5, <2>1, <2>3, <2>4
  <1> QED BY <1>1, <1>2, <1>3, <1>4, <1>5, ComposeCases

\* AllTop and AllBottom as the first or the second function.
LEMMA ComposeExtremes ==
  ASSUME NEW h, isEdgeFunction(h)
  PROVE  /\ compose(h, AllTop) = AllTop /\ compose(h, AllBottom) = AllBottom
         /\ isConstant(h) =>
              \A f : isEdgeFunction(f) => compose(f, h) = h
         /\ ~isConstant(h) =>
              compose(AllTop, h) = AllTop /\ compose(AllBottom, h) = AllBottom
  <1>1. /\ isConstant(AllTop) /\ isConstant(AllBottom)
        /\ AllTop.kind = "AllTop" /\ AllBottom.kind = "AllBottom"
    BY DEF isConstant, AllTop, AllBottom
  <1>2. ASSUME NEW f, NEW g, isConstant(g), isEdgeFunction(f) PROVE compose(f, g) = g
    <2>1. f.kind = "EdgeIdentity" \/ f.kind # "EdgeIdentity"
      OBVIOUS
    <2> QED BY <1>2, <2>1 DEF compose
  <1>3. ASSUME ~isConstant(h) PROVE compose(AllTop, h) = AllTop
    BY <1>1, <1>3 DEF compose
  <1>4. ASSUME ~isConstant(h) PROVE compose(AllBottom, h) = AllBottom
    <2>1. compose(AllBottom, h) = constantOf(computeTarget(h, Bottom))
      BY <1>1, <1>4 DEF compose
    <2>2. \/ h = EdgeIdentity
          \/ \E s \in Seq(BinOp) : s # <<>> /\ h = EdgeFunctionComposer(s)
      BY <1>4, Forms DEF isConstant
    <2>3. computeTarget(h, Bottom) = Bottom
      BY <2>2, Targets, ChainType
    <2> QED BY <2>1, <2>3, ConstantForm
  <1> QED BY <1>1, <1>2, <1>3, <1>4

\* f is below g in the order of the join.
Below(f, g) == joinWith(g, f) = g

\* The order is flat.
LEMMA FlatOrder ==
  ASSUME NEW f, NEW g, isEdgeFunction(f), isEdgeFunction(g)
  PROVE  Below(f, g) <=> f = g \/ f = AllTop \/ g = AllBottom
  <1>1. AllTop # AllBottom
    BY DEF AllTop, AllBottom
  <1> QED BY <1>1, JoinIs DEF Below

(***************************************************************************)
(* ExtendMonotone of IDESolverProofs, for the linear constant analysis:    *)
(* compose stays among the edge functions and respects their order in both *)
(* arguments, AllTop included -- although compose(AllTop, BinOp) is AllTop *)
(* while the BinOp itself maps Top to Bottom.                              *)
(***************************************************************************)
THEOREM ComposeIsMonotone ==
  ASSUME NEW f, NEW g, NEW h, isEdgeFunction(f), isEdgeFunction(g), isEdgeFunction(h)
  PROVE  /\ isEdgeFunction(compose(f, g))
         /\ Below(f, g) => /\ Below(compose(f, h), compose(g, h))
                           /\ Below(compose(h, f), compose(h, g))
  <1>1. isEdgeFunction(AllTop) /\ isEdgeFunction(AllBottom)
    BY DEF isEdgeFunction
  <1>2. ASSUME NEW x, NEW y, isEdgeFunction(x), isEdgeFunction(y)
        PROVE  isEdgeFunction(compose(x, y))
    <2>1. CASE isConstant(y)
      BY <1>2, <2>1, ComposeExtremes
    <2>2. CASE ~isConstant(y) /\ x = AllTop
      BY <1>1, <1>2, <2>2, ComposeExtremes
    <2>3. CASE ~isConstant(y) /\ x # AllTop
      <3>1. y # AllTop
        BY <2>3 DEF isConstant, AllTop
      <3> QED BY <1>2, <2>3, <3>1, ComposeIsExact DEF isFlow
    <2> QED BY <2>1, <2>2, <2>3
  <1>3. ASSUME Below(f, g)
        PROVE  Below(compose(f, h), compose(g, h)) /\ Below(compose(h, f), compose(h, g))
    <2>1. f = g \/ f = AllTop \/ g = AllBottom
      BY <1>3, FlatOrder
    <2>2. /\ isEdgeFunction(compose(f, h)) /\ isEdgeFunction(compose(g, h))
          /\ isEdgeFunction(compose(h, f)) /\ isEdgeFunction(compose(h, g))
      BY <1>2
    <2>3. \/ compose(f, h) = compose(g, h) \/ compose(f, h) = AllTop
          \/ compose(g, h) = AllBottom
      BY <2>1, ComposeExtremes
    <2>4. \/ compose(h, f) = compose(h, g) \/ compose(h, f) = AllTop
          \/ compose(h, g) = AllBottom
      BY <2>1, ComposeExtremes
    <2> QED BY <2>2, <2>3, <2>4, FlatOrder
  <1> QED BY <1>2, <1>3
-----------------------------------------------------------------------------
(***************************************************************************)
(* Paths.                                                                  *)
(***************************************************************************)
\* The table p is what the function f computes.
Computes(f, p) == \A v \in LatticeDomain : p[v] = computeTarget(f, v)

(***************************************************************************)
(* The inductive invariant.  The join is flat: a function either computes  *)
(* exactly what each of its paths does, or it is AllBottom.                *)
(***************************************************************************)
PathInv ==
  /\ ef \in [Reg -> {ef[r] : r \in Reg}]
  /\ \A r \in Reg : isFlow(ef[r])
  /\ paths \in [Reg -> SUBSET [LatticeDomain -> LatticeDomain]]
  /\ \A r \in Reg : \A p \in paths[r] : Computes(ef[r], p) \/ ef[r] = AllBottom

\* Before the first edge, every register is the identity of one path.
LEMMA PathInvInit == PathsInit => PathInv
  <1> SUFFICES ASSUME PathsInit PROVE PathInv
    OBVIOUS
  <1>1. isFlow(EdgeIdentity)
    BY DEF isFlow, isEdgeFunction, EdgeIdentity, AllTop
  <1>2. Identity \in [LatticeDomain -> LatticeDomain]
    BY DEF Identity
  <1>3. Computes(EdgeIdentity, Identity)
    BY Targets DEF Computes, Identity
  <1> QED BY <1>1, <1>2, <1>3 DEF PathsInit, PathInv

\* An edge, followed by all the paths.
LEMMA ExtendInv ==
  ASSUME PathInv, NEW r \in Reg, NEW g \in Generators, extend(r, g)
  PROVE  PathInv'
  <1>1. isFlow(g) /\ isFlow(ef[r])
    BY GeneratorAssumption DEF isFlow, PathInv
  <1>2. PICK h : h = compose(ef[r], g)
    OBVIOUS
  <1>3. isFlow(h) /\ \A v : computeTarget(h, v) = computeTarget(g, computeTarget(ef[r], v))
    BY <1>1, <1>2, ComposeIsExact
  <1> DEFINE along(p) == [v \in LatticeDomain |-> computeTarget(g, p[v])]
             P == {along(p) : p \in paths[r]}
  <1>4. /\ ef' = [ef EXCEPT ![r] = h]
        /\ paths' = [paths EXCEPT ![r] = P]
    BY <1>2 DEF extend
  <1>5. ASSUME NEW p \in paths[r] PROVE along(p) \in [LatticeDomain -> LatticeDomain]
    BY <1>1, <1>5, TargetType DEF PathInv, isFlow
  <1>6. ASSUME NEW p \in paths[r] PROVE Computes(h, along(p)) \/ h = AllBottom
    <2>1. CASE Computes(ef[r], p)
      BY <1>3, <2>1 DEF Computes
    <2>2. CASE ef[r] = AllBottom
      <3>1. h = AllBottom \/ \A v, w : computeTarget(g, v) = computeTarget(g, w)
        <4>1. \/ h = g /\ \A v, w : computeTarget(g, v) = computeTarget(g, w)
              \/ h = AllBottom
              \/ h = constantOf(computeTarget(g, Bottom)) /\ computeTarget(g, Bottom) = Bottom
          <5>1. AllBottom # EdgeIdentity /\ \A s : AllBottom # EdgeFunctionComposer(s)
            BY DEF AllBottom, EdgeIdentity, EdgeFunctionComposer
          <5>2. \A v : computeTarget(AllBottom, v) = Bottom
            BY Targets
          <5>3. g = EdgeIdentity => computeTarget(g, Bottom) = Bottom
            BY Targets
          <5>4. ASSUME NEW t \in Seq(BinOp), t # <<>>, g = EdgeFunctionComposer(t)
                PROVE  computeTarget(g, Bottom) = Bottom
            BY <5>4, Targets, ChainType
          <5> QED BY <1>1, <1>2, <2>2, <5>1, <5>2, <5>3, <5>4, ComposeCases
        <4> QED BY <4>1, ConstantForm
      <3>2. CASE \A v, w : computeTarget(g, v) = computeTarget(g, w)
        <4>1. \A v : computeTarget(h, v) = computeTarget(g, v)
          BY <1>3, <3>2
        <4> QED BY <3>2, <4>1 DEF Computes
      <3> QED BY <3>1, <3>2
    <2> QED BY <2>1, <2>2 DEF PathInv
  <1> HIDE DEF along
  <1>7. P \subseteq [LatticeDomain -> LatticeDomain]
        /\ \A p \in P : Computes(h, p) \/ h = AllBottom
    BY <1>5, <1>6
  <1> HIDE DEF P
  <1>8. /\ ef'[r] = h /\ paths'[r] = P
        /\ \A q \in Reg : q # r => ef'[q] = ef[q] /\ paths'[q] = paths[q]
        /\ DOMAIN ef' = Reg /\ ef' = [q \in Reg |-> ef'[q]]
    BY <1>4 DEF PathInv
  <1>9. ef' \in [Reg -> {ef'[q] : q \in Reg}]
    BY <1>8
  <1>10. paths' \in [Reg -> SUBSET [LatticeDomain -> LatticeDomain]]
    BY <1>4, <1>7 DEF PathInv
  <1>11. \A q \in Reg : isFlow(ef'[q])
    BY <1>3, <1>8 DEF PathInv
  <1>12. \A q \in Reg : \A p \in paths'[q] : Computes(ef'[q], p) \/ ef'[q] = AllBottom
    BY <1>7, <1>8 DEF PathInv
  <1> QED BY <1>9, <1>10, <1>11, <1>12 DEF PathInv
\* Where paths meet, the function is that of both, or AllBottom.
LEMMA CombineInv ==
  ASSUME PathInv, combine
  PROVE  PathInv'
  <1>1. PICK f, g : f = ef[1] /\ g = ef[2] /\ isFlow(f) /\ isFlow(g)
    BY DEF PathInv, Reg
  <1>2. PICK h : h = joinWith(f, g)
    OBVIOUS
  <1>3. h = IF f = g THEN f ELSE AllBottom
    BY <1>1, <1>2, JoinIs DEF isFlow
  <1>4. isFlow(AllBottom)
    BY DEF isFlow, isEdgeFunction, AllBottom, AllTop
  <1>5. isFlow(h)
    BY <1>1, <1>3, <1>4
  <1>6. PICK P : P = paths[1] \cup paths[2]
    OBVIOUS
  <1>7. ef' = [ef EXCEPT ![1] = h] /\ paths' = [paths EXCEPT ![1] = P]
    BY <1>1, <1>2, <1>6 DEF combine
  <1>8. P \subseteq [LatticeDomain -> LatticeDomain]
    BY <1>6 DEF PathInv, Reg
  <1>9. \A p \in P : Computes(h, p) \/ h = AllBottom
    BY <1>1, <1>3, <1>6 DEF PathInv, Reg
  <1>10. /\ ef'[1] = h /\ paths'[1] = P
         /\ \A q \in Reg : q # 1 => ef'[q] = ef[q] /\ paths'[q] = paths[q]
         /\ DOMAIN ef' = Reg /\ ef' = [q \in Reg |-> ef'[q]]
    BY <1>7 DEF PathInv, Reg
  <1>11. ef' \in [Reg -> {ef'[q] : q \in Reg}]
    BY <1>10
  <1>12. paths' \in [Reg -> SUBSET [LatticeDomain -> LatticeDomain]]
    BY <1>7, <1>8 DEF PathInv, Reg
  <1>13. \A q \in Reg : isFlow(ef'[q])
    BY <1>5, <1>10 DEF PathInv
  <1>14. \A q \in Reg : \A p \in paths'[q] : Computes(ef'[q], p) \/ ef'[q] = AllBottom
    BY <1>9, <1>10 DEF PathInv
  <1> QED BY <1>11, <1>12, <1>13, <1>14 DEF PathInv

\* Both actions.
LEMMA PathInvNext == PathInv /\ [PathsNext]_vars => PathInv'
  <1> SUFFICES ASSUME PathInv, [PathsNext]_vars PROVE PathInv'
    OBVIOUS
  <1>1. CASE UNCHANGED vars
    BY <1>1 DEF vars, PathInv, isFlow, Computes
  <1>2. CASE PathsNext
    BY <1>2, ExtendInv, CombineInv DEF PathsNext
  <1> QED BY <1>1, <1>2

\* Every value is below Bottom and below itself.
LEMMA BelowBottom ==
  ASSUME NEW v
  PROVE  joinLattice(v, Bottom) = Bottom /\ joinLattice(v, v) = v
  BY IntAssumption DEF joinLattice

(***************************************************************************)
(* A jump function covers every path it stands for, however many edges and *)
(* joins it took (compose and joinWith, as extend and combine use them).   *)
(***************************************************************************)
THEOREM JumpFunctionsAreSound == PathsSpec => []PathSound
  <1>1. PathInv => PathSound
    <2> SUFFICES ASSUME PathInv, NEW r \in Reg, NEW p \in paths[r], NEW v \in LatticeDomain
                 PROVE  joinLattice(p[v], computeTarget(ef[r], v)) = computeTarget(ef[r], v)
      BY DEF PathSound
    <2>1. CASE Computes(ef[r], p)
      BY <2>1, BelowBottom DEF Computes
    <2>2. CASE ef[r] = AllBottom
      BY <2>2, BelowBottom, Targets
    <2> QED BY <2>1, <2>2 DEF PathInv
  <1> QED BY PathInvInit, PathInvNext, <1>1, PTL DEF PathsSpec

(***************************************************************************)
(* Without a join the jump function is exactly its path, overflow and      *)
(* division by zero included.                                              *)
(***************************************************************************)
THEOREM CompositionIsExact == PathsSpec => []PathExact
  <1> DEFINE Exact == /\ merged \in [Reg -> BOOLEAN]
                      /\ \A r \in Reg : ~merged[r] => \A p \in paths[r] : Computes(ef[r], p)
  <1>1. PathsInit => Exact
    <2> SUFFICES ASSUME PathsInit PROVE Exact
      OBVIOUS
    <2>1. Computes(EdgeIdentity, Identity)
      BY Targets DEF Computes, Identity
    <2> QED BY <2>1 DEF PathsInit
  <1>2. ASSUME PathInv, Exact, NEW r \in Reg, NEW g \in Generators, extend(r, g)
        PROVE  Exact'
    <2>1. isFlow(g) /\ isFlow(ef[r])
      BY GeneratorAssumption, <1>2 DEF isFlow, PathInv
    <2>2. PICK h : h = compose(ef[r], g)
      OBVIOUS
    <2>3. \A v : computeTarget(h, v) = computeTarget(g, computeTarget(ef[r], v))
      BY <2>1, <2>2, ComposeIsExact
    <2>4. /\ ef'[r] = h
          /\ paths'[r] = {[v \in LatticeDomain |-> computeTarget(g, p[v])] : p \in paths[r]}
          /\ \A q \in Reg : q # r => ef'[q] = ef[q] /\ paths'[q] = paths[q]
          /\ merged' = merged
      BY <1>2, <2>2 DEF extend, PathInv
    <2>5. ASSUME ~merged[r], NEW p \in paths'[r] PROVE Computes(h, p)
      <3>1. PICK q \in paths[r] : p = [v \in LatticeDomain |-> computeTarget(g, q[v])]
        BY <2>4, <2>5
      <3>2. Computes(ef[r], q)
        BY <1>2, <2>5
      <3> QED BY <2>3, <3>1, <3>2 DEF Computes
    <2>6. \A q \in Reg : ~merged'[q] => \A p \in paths'[q] : Computes(ef'[q], p)
      BY <1>2, <2>4, <2>5
    <2> QED BY <1>2, <2>4, <2>6
  <1>3. ASSUME PathInv, Exact, combine PROVE Exact'
    <2>1. /\ \A q \in Reg : q # 1 => ef'[q] = ef[q] /\ paths'[q] = paths[q]
          /\ merged' = [merged EXCEPT ![1] = TRUE]
      BY <1>3 DEF combine, PathInv, Reg
    <2>2. merged' \in [Reg -> BOOLEAN] /\ \A q \in Reg : ~merged'[q] => q # 1 /\ ~merged[q]
      BY <1>3, <2>1 DEF Reg
    <2>3. \A q \in Reg : ~merged'[q] => \A p \in paths'[q] : Computes(ef'[q], p)
      BY <1>3, <2>1, <2>2
    <2> QED BY <2>2, <2>3
  <1>4. ASSUME Exact, UNCHANGED vars PROVE Exact'
    BY <1>4 DEF vars, Computes
  <1>5. PathInv /\ Exact /\ [PathsNext]_vars => Exact'
    BY <1>2, <1>3, <1>4 DEF PathsNext
  <1>6. Exact => PathExact
    BY DEF PathExact, Computes
  <1> QED BY PathInvInit, PathInvNext, <1>1, <1>5, <1>6, PTL DEF PathsSpec

(***************************************************************************)
(* The order in which the worklist delivers two propagations cannot matter *)
(* for any functions that paths reach (joinWith).                          *)
(***************************************************************************)
THEOREM JoinOrderNeverMatters == PathsSpec => []JoinOrderIrrelevant
  <1>1. PathInv => JoinOrderIrrelevant
    <2> SUFFICES ASSUME PathInv PROVE JoinOrderIrrelevant
      OBVIOUS
    <2>1. PICK f, g : f = ef[1] /\ g = ef[2] /\ isEdgeFunction(f) /\ isEdgeFunction(g)
      BY DEF PathInv, Reg, isFlow
    <2>2. PICK h : h = joinWith(f, g)
      OBVIOUS
    <2>3. isEdgeFunction(h) /\ h = joinWith(g, f)
      BY <2>1, <2>2, JoinClosed, JoinIsSemilattice
    <2>4. joinWith(h, g) = h
      BY <2>1, <2>2, JoinIsSemilattice
    <2>5. joinWith(h, f) = h
      BY <2>1, <2>3, JoinIsSemilattice
    <2>6. \A k \in Generators : joinWith(joinWith(k, f), g) = joinWith(k, h)
      BY <2>1, <2>2, GeneratorAssumption, JoinIsSemilattice
    <2> QED BY <2>1, <2>2, <2>3, <2>4, <2>5, <2>6 DEF JoinOrderIrrelevant
  <1> QED BY PathInvInit, PathInvNext, <1>1, PTL DEF PathsSpec

(***************************************************************************)
(* No result of executeBinOperation leaves the integers, and no function   *)
(* its canonical form.                                                     *)
(***************************************************************************)
THEOREM PathTypes == PathsSpec => []TypeOK
  <1> DEFINE Rest == merged \in [Reg -> BOOLEAN] /\ edges \in 0 .. MaxEdges
  <1>1. PathsInit => Rest
    BY GeneratorAssumption DEF PathsInit
  <1>2. Rest /\ [PathsNext]_vars => Rest'
    <2>1. ASSUME Rest, NEW r \in Reg, NEW g \in Generators, extend(r, g) PROVE Rest'
      BY <2>1, GeneratorAssumption DEF extend
    <2>2. ASSUME Rest, combine PROVE Rest'
      BY <2>2 DEF combine
    <2>3. ASSUME Rest, UNCHANGED vars PROVE Rest'
      BY <2>3 DEF vars
    <2> QED BY <2>1, <2>2, <2>3 DEF PathsNext
  <1>3. PathInv /\ Rest => TypeOK
    BY DEF PathInv, TypeOK, isFlow
  <1> QED BY PathInvInit, PathInvNext, <1>1, <1>2, <1>3, PTL DEF PathsSpec
=============================================================================
