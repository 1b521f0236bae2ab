--------------------------- MODULE IDESolverTables ---------------------------
(***************************************************************************)
(* IDESolver composed with the table it stores its jump functions in       *)
(* (IDESolver.h and JumpFunctions.h).  propagate looks a jump function up  *)
(* in the reverse index and stores its join with addFunction;              *)
(* pathEdgeProcessingTask and propagateValueAtStart read the forward       *)
(* index, processExit the reverse one, valueComputationTask the index by   *)
(* target.  IDESolver reads the one function JumpFn in their place.        *)
(***************************************************************************)
EXTENDS IDESolver

VARIABLES NonEmptyReverseLookup, NonEmptyForwardLookup,
          NonEmptyLookupByTargetNode

Tables == INSTANCE JumpFunctions WITH AllTop <- allTop

tableVars == <<NonEmptyReverseLookup, NonEmptyForwardLookup,
               NonEmptyLookupByTargetNode>>
tablesVars == <<vars, tableVars>>

TablesInit == Init /\ Tables!TableInit

\* next(): only a jump function that propagate() has changed is stored.
doNextStored ==
  /\ phase = "tabulate"
  /\ \E e \in WorkList :
       \/ propagateOld(e) /\ UNCHANGED tableVars
       \/ /\ pathEdgeProcessingTask(e)
          /\ Tables!addFunction(e.src, e.tgt, e.dst, fPrime(e))
  /\ UNCHANGED <<Seeds, phase2Vars, phase>>

TablesNext ==
  \/ doNextStored
  \/ /\ submitInitialSeeds \/ doFinalize \/ Phase2
     /\ UNCHANGED tableVars

TablesSpec ==
  TablesInit /\ [][TablesNext]_tablesVars /\ WF_tablesVars(TablesNext)

-----------------------------------------------------------------------------
(***************************************************************************)
(* The one table of IDESolver is each of the three indexes: whichever of   *)
(* them a reader asks, in Phase I or in Phase II, it finds every jump      *)
(* function that propagate has stored, no other, and each with the latest  *)
(* join (addFunction updates the indexes one by one).                      *)
(***************************************************************************)
LookupsConsistent ==
  /\ NonEmptyReverseLookup = JumpFn
  /\ NonEmptyForwardLookup = JumpFn
  /\ NonEmptyLookupByTargetNode = JumpFn

(***************************************************************************)
(* What the note in processExit says of unbalanced returns, "we propagate  *)
(* that way only values that originate from ZERO": an exit whose source    *)
(* fact is not zero and for which no call is registered hands nothing to   *)
(* another function.                                                       *)
(***************************************************************************)
OnlyZeroPastSeeds ==
  [][\A e \in WorkList \ WorkList' :
       (/\ e.tgt \in ExitInst \ CallSite /\ e.src # Zero
        /\ \A c \in CallSite : Inc(FunOf(e.tgt), e.src, c) = {})
         => \A p \in WorkList' \ WorkList : FunOf(p.tgt) = FunOf(e.tgt)]_vars
=============================================================================
