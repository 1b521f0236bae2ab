-------------------------- MODULE EdgeFunctionPaths --------------------------
(***************************************************************************)
(* How jump functions come about: a function is extended by one edge at a  *)
(* time along a path and combined with that of another path where paths    *)
(* meet (IDETabulationProblem::extend and ::combine).  Beside the symbolic *)
(* edge function, each register keeps the value tables of the paths it     *)
(* stands for, computed edge by edge.                                      *)
(***************************************************************************)
EXTENDS EdgeFunctions

CONSTANTS Generators,  \* the edge functions a problem returns for an edge
          MaxEdges     \* bound on the number of extensions

\* No problem returns AllTop: it stands for a flow that does not exist.
ASSUME GeneratorAssumption ==
  /\ MaxEdges \in Nat
  /\ \A g \in Generators : isEdgeFunction(g) /\ g # AllTop

VARIABLES ef, paths, merged, edges

vars == <<ef, paths, merged, edges>>
Reg == {1, 2}

Identity == [v \in LatticeDomain |-> v]

PathsInit ==
  /\ ef = [r \in Reg |-> EdgeIdentity]
  /\ paths = [r \in Reg |-> {Identity}]
  /\ merged = [r \in Reg |-> FALSE]
  /\ edges = 0

\* processNormalFlow and processCall extend the jump function of a path edge,
\* which is never AllTop: propagate() drops such an entry.
extend(r, g) ==
  /\ ef[r] # AllTop
  /\ edges < MaxEdges
  /\ edges' = edges + 1
  /\ ef' = [ef EXCEPT ![r] = compose(ef[r], g)]
  /\ paths' = [paths EXCEPT ![r] =
                 {[v \in LatticeDomain |-> computeTarget(g, p[v])] : p \in paths[r]}]
  /\ UNCHANGED merged

\* propagate() joins the function of a second path into that of a first.
combine ==
  /\ ef' = [ef EXCEPT ![1] = joinWith(ef[1], ef[2])]
  /\ paths' = [paths EXCEPT ![1] = paths[1] \cup paths[2]]
  /\ merged' = [merged EXCEPT ![1] = TRUE]
  /\ UNCHANGED edges

PathsNext == \/ \E r \in Reg, g \in Generators : extend(r, g)
             \/ combine

PathsSpec == PathsInit /\ [][PathsNext]_vars

-----------------------------------------------------------------------------
TypeOK ==
  /\ \A r \in Reg : isEdgeFunction(ef[r])
  /\ paths \in [Reg -> SUBSET [LatticeDomain -> LatticeDomain]]
  /\ merged \in [Reg -> BOOLEAN]
  /\ edges \in 0 .. MaxEdges

(***************************************************************************)
(* A jump function covers every path it stands for: its result is at or    *)
(* above the value computed edge by edge, whatever was combined before.    *)
(***************************************************************************)
PathSound ==
  \A r \in Reg : \A p \in paths[r] : \A v \in LatticeDomain :
    joinLattice(p[v], computeTarget(ef[r], v)) = computeTarget(ef[r], v)

(***************************************************************************)
(* Without a join nothing is lost: composing symbolically (folding a       *)
(* constant, dropping an identity, chaining BinOps) gives exactly the      *)
(* value of the path, integer overflow and division by zero included.      *)
(***************************************************************************)
PathExact ==
  \A r \in Reg : ~merged[r] =>
    \A p \in paths[r] : \A v \in LatticeDomain : computeTarget(ef[r], v) = p[v]

(***************************************************************************)
(* What IDESolver assumes of combine, at the functions paths reach: it is  *)
(* commutative, idempotent and absorbing, so that the order in which the   *)
(* worklist delivers two propagations cannot matter.                       *)
(***************************************************************************)
JoinOrderIrrelevant ==
  LET f == ef[1]  g == ef[2]  h == joinWith(f, g) IN
  /\ h = joinWith(g, f)
  /\ joinWith(h, f) = h /\ joinWith(h, g) = h
  /\ \A k \in Generators : joinWith(joinWith(k, f), g) = joinWith(k, h)
=============================================================================
