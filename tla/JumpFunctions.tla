---------------------------- MODULE JumpFunctions ----------------------------
(***************************************************************************)
(* The three indexes of the jump-function table                            *)
(* (include/phasar/DataFlow/IfdsIde/Solver/JumpFunctions.h).  IDESolver    *)
(* reads the forward index in jumpFunction and propagateValueAtStart, the  *)
(* reverse index in processExit and the index by target node in            *)
(* valueComputationTask; module IDESolver has one table for the three.     *)
(*                                                                         *)
(* An index is a function from <<source, target, target value>> to edge    *)
(* functions, whatever the nesting of its keys.  An empty inner list that  *)
(* a lookup leaves behind is the same as no entry to every reader.         *)
(***************************************************************************)
CONSTANTS Fact, Node, EF, AllTop

VARIABLES NonEmptyReverseLookup, NonEmptyForwardLookup,
          NonEmptyLookupByTargetNode

tableVars == <<NonEmptyReverseLookup, NonEmptyForwardLookup,
               NonEmptyLookupByTargetNode>>

Empty == <<>>

\* An existing entry is overwritten; the default function (all-top) is not
\* stored.
Store(T, key, f) ==
  IF f = AllTop THEN T
  ELSE [k \in DOMAIN T \cup {key} |-> IF k = key THEN f ELSE T[k]]

Without(T, S) == [k \in DOMAIN T \ S |-> T[k]]

TableInit ==
  /\ NonEmptyReverseLookup = Empty
  /\ NonEmptyForwardLookup = Empty
  /\ NonEmptyLookupByTargetNode = Empty

\* Mutant: the index by target is forgotten.
addFunction_NoTarget(d1, n, d2, f) ==
  /\ NonEmptyReverseLookup' = Store(NonEmptyReverseLookup, <<d1, n, d2>>, f)
  /\ NonEmptyForwardLookup' = Store(NonEmptyForwardLookup, <<d1, n, d2>>, f)
  /\ UNCHANGED NonEmptyLookupByTargetNode

addFunction(d1, n, d2, f) ==
  /\ NonEmptyReverseLookup' = Store(NonEmptyReverseLookup, <<d1, n, d2>>, f)
  /\ NonEmptyForwardLookup' = Store(NonEmptyForwardLookup, <<d1, n, d2>>, f)
  /\ NonEmptyLookupByTargetNode' =
       Store(NonEmptyLookupByTargetNode, <<d1, n, d2>>, f)

\* The index by target loses all records of the target.
removeFunction(d1, n, d2) ==
  /\ NonEmptyReverseLookup' = Without(NonEmptyReverseLookup, {<<d1, n, d2>>})
  /\ NonEmptyForwardLookup' = Without(NonEmptyForwardLookup, {<<d1, n, d2>>})
  /\ NonEmptyLookupByTargetNode' =
       Without(NonEmptyLookupByTargetNode,
               {k \in DOMAIN NonEmptyLookupByTargetNode : k[2] = n})

clear ==
  /\ NonEmptyReverseLookup' = Empty
  /\ NonEmptyForwardLookup' = Empty
  /\ NonEmptyLookupByTargetNode' = Empty

TableNext ==
  \/ \E d1 \in Fact, n \in Node, d2 \in Fact :
       \/ \E f \in EF : addFunction(d1, n, d2, f)
       \/ removeFunction(d1, n, d2)
  \/ clear

TableSpec == TableInit /\ [][TableNext]_tableVars

-----------------------------------------------------------------------------
(***************************************************************************)
(* lookupByTarget(n) returns exactly the records with target n that the    *)
(* forward index holds, each with the same function.                       *)
(***************************************************************************)
ByTargetExact(n) ==
  \A k \in DOMAIN NonEmptyForwardLookup \cup DOMAIN NonEmptyLookupByTargetNode :
    k[2] = n =>
      /\ k \in DOMAIN NonEmptyForwardLookup
      /\ k \in DOMAIN NonEmptyLookupByTargetNode
      /\ NonEmptyLookupByTargetNode[k] = NonEmptyForwardLookup[k]
=============================================================================
