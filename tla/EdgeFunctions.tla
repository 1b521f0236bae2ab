---------------------------- MODULE EdgeFunctions ----------------------------
(***************************************************************************)
(* Edge functions over a flat lattice and their algebra: EdgeIdentity,     *)
(* AllTop, AllBottom and ConstantEdgeFunction with the default compose and *)
(* join helpers (include/phasar/DataFlow/IfdsIde/EdgeFunctionUtils.h), and *)
(* the BinOp functions and composer of the linear constant analysis        *)
(* (lib/PhasarLLVM/DataFlow/IfdsIde/Problems/IDELinearConstantAnalysis.cpp)*)
(*                                                                         *)
(* The composer nests to the right: compose(Composer(F, G), H) is          *)
(* F.composeWith(G.composeWith(H)).  A composer whose leaves are BinOps is *)
(* therefore determined by the sequence of its leaves, which is how it is  *)
(* represented; a BinOp is the sequence of length one.                     *)
(***************************************************************************)
EXTENDS Integers, Sequences

CONSTANTS Top, Bottom,    \* the two added elements of LatticeDomain
          MinInt, MaxInt  \* int64_t, scaled down

Consts == MinInt .. MaxInt

ASSUME IntAssumption ==
  /\ MinInt \in Int /\ MaxInt \in Int /\ MinInt <= 0 /\ 0 <= MaxInt
  /\ Top \notin Consts /\ Bottom \notin Consts /\ Top # Bottom

LatticeDomain == Consts \cup {Top, Bottom}

\* JoinLatticeTraits<LatticeDomain<int64_t>>::join: Top is neutral.
joinLattice(v, w) == CASE v = Top \/ v = w -> w
                       [] v # Top /\ w = Top -> v
                       [] OTHER -> Bottom

-----------------------------------------------------------------------------
\* C++ integer division truncates towards zero.
Abs(x) == IF x < 0 THEN -x ELSE x
Sign(x) == IF x < 0 THEN -1 ELSE 1
Quot(x, y) == Sign(x) * Sign(y) * (Abs(x) \div Abs(y))
Rem(x, y) == x - y * Quot(x, y)

\* Mutant: no overflow check.
Fit_Unchecked(x) == x

\* A result that does not fit is Bottom (llvm::AddOverflow and friends).
Fit(x) == IF x \in Consts THEN x ELSE Bottom

\* Add, Sub, Mul, and the signed or unsigned Div and Rem, which the code treats
\* alike.  And, Or and Xor, which cannot overflow, are left out of BinOp.
\* MinInt rem -1 is not guarded; C++ leaves it undefined.  It is 0 here, as on
\* targets that do not trap; a trap ends the program.
executeBinOperation(op, l, r) ==
  IF l \notin Consts \/ r \notin Consts THEN Bottom
  ELSE CASE op = "Add" -> Fit(l + r)
         [] op = "Sub" -> Fit(l - r)
         [] op = "Mul" -> Fit(l * r)
         [] op = "Div" -> IF r = 0 THEN Bottom ELSE Fit(Quot(l, r))
         [] op = "Rem" -> IF r = 0 THEN Bottom ELSE Rem(l, r)
         [] OTHER -> Bottom

\* BinOp with the constant c as its left or its right operand.  (With two
\* constants it ignores its argument; that case is left out.)
BinOp == [op : {"Add", "Sub", "Mul", "Div", "Rem"}, c : Consts, left : BOOLEAN]

applyBinOp(b, v) ==
  CASE v = Bottom -> Bottom
    [] v # Bottom /\ b.left -> executeBinOperation(b.op, b.c, v)
    [] OTHER -> executeBinOperation(b.op, v, b.c)

-----------------------------------------------------------------------------
EdgeIdentity == [kind |-> "EdgeIdentity"]
AllTop == [kind |-> "AllTop"]
AllBottom == [kind |-> "AllBottom"]
ConstantEdgeFunction(v) == [kind |-> "Constant", value |-> v]
EdgeFunctionComposer(ops) == [kind |-> "BinOps", ops |-> ops]

\* The edge functions in canonical form.
isEdgeFunction(f) ==
  \/ f \in {EdgeIdentity, AllTop, AllBottom}
  \/ \E v \in Consts : f = ConstantEdgeFunction(v)
  \/ /\ f.kind = "BinOps" /\ f = EdgeFunctionComposer(f.ops)
     /\ f.ops \in Seq(BinOp) \ {<<>>}

isConstant(f) == f.kind \in {"AllTop", "AllBottom", "Constant"}

\* A constant result in its canonical form.
constantOf(v) == CASE v = Bottom -> AllBottom
                   [] v = Top -> AllTop
                   [] OTHER -> ConstantEdgeFunction(v)

\* The leaves of a composer, one after the other.
applyBinOps(ops, v) ==
  LET after[i \in 0 .. Len(ops)] == IF i = 0 THEN v ELSE applyBinOp(ops[i], after[i - 1])
  IN after[Len(ops)]

computeTarget(f, v) ==
  CASE f.kind = "EdgeIdentity" -> v
    [] f.kind = "AllTop" -> Top
    [] f.kind = "AllBottom" -> Bottom
    [] f.kind = "Constant" -> f.value
    [] f.kind = "BinOps" -> applyBinOps(f.ops, v)

-----------------------------------------------------------------------------
\* Mutant: the composer applies g first.
compose_Swapped(f, g) ==
  CASE f.kind = "EdgeIdentity" -> g
    [] f.kind # "EdgeIdentity" /\ isConstant(g) -> g
    [] f.kind = "AllTop" /\ ~isConstant(g) -> AllTop
    [] f.kind = "AllBottom" /\ ~isConstant(g) -> constantOf(computeTarget(g, Bottom))
    [] OTHER ->
         IF g = EdgeIdentity THEN f
         ELSE IF f.kind = "Constant" THEN constantOf(computeTarget(g, f.value))
              ELSE EdgeFunctionComposer(g.ops \o f.ops)

\* f first, then g (EdgeFunction::composeWith, the default of extend).
compose(f, g) ==
  CASE f.kind = "EdgeIdentity" -> g
    [] f.kind # "EdgeIdentity" /\ isConstant(g) -> g
    [] f.kind = "AllTop" /\ ~isConstant(g) -> AllTop
    [] f.kind = "AllBottom" /\ ~isConstant(g) -> constantOf(computeTarget(g, Bottom))
    [] OTHER ->
         IF g = EdgeIdentity THEN f
         ELSE IF f.kind = "Constant" THEN constantOf(computeTarget(g, f.value))
              ELSE EdgeFunctionComposer(f.ops \o g.ops)

\* Mutants: one of two constants wins; Bottom is not put in canonical form.
joinOther_First(f, g) ==
  CASE g = AllBottom -> AllBottom
    [] g = AllTop \/ g = f -> f
    [] OTHER -> IF f.kind = "Constant" THEN f ELSE AllBottom

joinOther_Raw(f, g) ==
  CASE g = AllBottom -> AllBottom
    [] g = AllTop \/ g = f -> f
    [] OTHER -> IF f.kind = "Constant" THEN ConstantEdgeFunction(Bottom)
                ELSE AllBottom

\* ConstantEdgeFunction::join, BinOp::join and LCAEdgeFunctionComposer::join.
joinOther(f, g) ==
  CASE g = AllBottom -> AllBottom
    [] g = AllTop \/ g = f -> f
    [] OTHER -> IF f.kind = "Constant" /\ g.kind = "Constant"
                THEN constantOf(joinLattice(f.value, g.value)) ELSE AllBottom

\* EdgeFunction::joinWith, the default of combine.
joinWith(f, g) ==
  CASE f.kind = "AllTop" -> g
    [] f.kind = "AllBottom" -> AllBottom
    [] f.kind = "EdgeIdentity" ->
         (CASE g \in {EdgeIdentity, AllTop} -> f
            [] g = AllBottom -> AllBottom
            [] OTHER -> joinOther(g, f))
    [] OTHER -> joinOther(f, g)
=============================================================================
