---------------------------- MODULE LLVMAliasSet ----------------------------
(***************************************************************************)
(* PhASAR's lazily computed, mutable alias sets                            *)
(* (lib/PhasarLLVM/Pointer/LLVMAliasSet.cpp).  A value has a box, fixed    *)
(* for ever and handed out to clients; a box points to an alias set, which *)
(* an AliasSetOwner allocates and frees.  Merging two sets frees the       *)
(* smaller one and has to redirect every box that points to it.            *)
(*                                                                         *)
(* An operation of the class is a sequence of steps; Todo holds those that *)
(* the call in progress has still to make, in order.                       *)
(***************************************************************************)
EXTENDS Naturals, Sequences, FiniteSets

CONSTANTS
  Value,            \* the interesting pointers: see isInterestingPointer
  GlobalObject,     \* the functions and global variables among them
  Func, NoFunction, FunctionOf(_),   \* retrieveFunction
  isDeclaration(_), TypeOf(_),
  FunctionOps(_),   \* the steps of computeFunctionsAliasSet
  UserOps(_),       \* the steps of computeValuesAliasSet for a global's users
  mayAlias(_, _, _),          \* the function-local alias analysis
  SetId,            \* addresses of alias sets
  ConstructorOps    \* the steps of the constructor: eager, lazy

Kinds == {"value", "function", "pointer", "singleton", "merge", "join"}
Op == [op : Kinds, v : Value, w : Value]

computeValues(v) == [op |-> "value", v |-> v, w |-> v]
computeFunctions(f) == [op |-> "function", v |-> f, w |-> f]
addPointerIn(f, v) == [op |-> "pointer", v |-> v, w |-> f]
addSingleton(v) == [op |-> "singleton", v |-> v, w |-> v]
merge(v, w) == [op |-> "merge", v |-> v, w |-> w]
joinTo(v, rep) == [op |-> "join", v |-> v, w |-> rep]

ASSUME OpsAssumption ==
  /\ GlobalObject \subseteq Value /\ Func \subseteq GlobalObject
  /\ \A f \in Func : FunctionOps(f) \in Seq(Op)
  /\ \A g \in GlobalObject : UserOps(g) \in Seq(Op)
  /\ ConstructorOps \subseteq Seq(Op)
  /\ \A v \in Value \ GlobalObject : FunctionOf(v) \in Func \cup {NoFunction}

(***************************************************************************)
(* Why a set exists for every value that is merged (MergeReady below): the *)
(* analysis of a function merges what it gave a set just before, and the   *)
(* users of a global merge values of functions analysed just before.       *)
(***************************************************************************)
\* The values that have a set after the analysis of f.
pointersOf(f) ==
  {FunctionOps(f)[k].v : k \in {j \in DOMAIN FunctionOps(f) : FunctionOps(f)[j].op # "merge"}}
\* The values that need a set before a step, and that have one after it.
needs(o) == CASE o.op = "merge" -> {o.v, o.w} [] o.op = "join" -> {o.w} [] OTHER -> {}
leaves(o) == CASE o.op = "merge" -> {}
               [] o.op = "function" -> IF isDeclaration(o.v) THEN {} ELSE pointersOf(o.v)
               [] OTHER -> {o.v}
before(s, k) == UNION {leaves(s[j]) : j \in 1 .. (k - 1)}
ready(s, K) == \A k \in 1 .. Len(s) : needs(s[k]) \subseteq K \cup before(s, k)
only(s, kinds) == \A k \in 1 .. Len(s) : s[k].op \in kinds

ASSUME ReadyAssumption ==
  /\ \A f \in Func : /\ only(FunctionOps(f), {"pointer", "singleton", "merge"})
                     /\ ready(FunctionOps(f), {})
  /\ \A g \in GlobalObject : /\ only(UserOps(g), {"function", "merge"})
                             /\ ready(UserOps(g), {g})
  /\ \A s \in ConstructorOps : only(s, {"value", "function"})

VARIABLES
  AliasSets,          \* value -> box
  AllPTS,             \* box -> alias set (AliasSetOwner: stable, only grows)
  OwnedPTS,           \* the allocated alias sets and what they contain
  AnalyzedFunctions,
  Reps,               \* representatives in the function being analysed
  Todo

sets == <<AliasSets, AllPTS, OwnedPTS>>
aliasVars == <<sets, AnalyzedFunctions, Reps, Todo>>

known(v) == v \in DOMAIN AliasSets
setOf(v) == AllPTS[AliasSets[v]]
aliasSet(v) == OwnedPTS[setOf(v)]

\* The elements of s that are in S, in order.
keep(s, S) ==
  LET kept[i \in 0 .. Len(s)] == IF i = 0 THEN <<>>
                                 ELSE IF s[i] \in S THEN Append(kept[i - 1], s[i])
                                 ELSE kept[i - 1]
  IN kept[Len(s)]

Put(T, k, x) == [y \in DOMAIN T \cup {k} |-> IF y = k THEN x ELSE T[y]]

-----------------------------------------------------------------------------
AliasInit ==
  /\ AliasSets = <<>> /\ AllPTS = <<>> /\ OwnedPTS = <<>>
  /\ AnalyzedFunctions = {} /\ Reps = <<>>
  /\ Todo \in ConstructorOps

\* The next step is head, and after it come the steps more.
step(head, more) == Todo # <<>> /\ Todo[1] = head /\ Todo' = more \o Tail(Todo)

\* Addresses are reused, memory is not exhausted.
addSingletonAliasSet(v) ==
  IF known(v) THEN UNCHANGED sets
  ELSE LET s == CHOOSE x \in SetId : x \notin DOMAIN OwnedPTS IN
       /\ \E x \in SetId : x \notin DOMAIN OwnedPTS
       /\ OwnedPTS' = Put(OwnedPTS, s, {v})
       /\ AllPTS' = Append(AllPTS, s)
       /\ AliasSets' = Put(AliasSets, v, Len(AllPTS) + 1)

\* Mutant: only the boxes of the two values are redirected.
mergeAliasSets_OneBox(v, w) ==
  LET s == setOf(v)  t == setOf(w)
      small == IF Cardinality(OwnedPTS[s]) > Cardinality(OwnedPTS[t]) THEN t ELSE s
      large == IF small = s THEN t ELSE s
  IN IF v = w \/ s = t THEN UNCHANGED sets
     ELSE /\ OwnedPTS' = [x \in DOMAIN OwnedPTS \ {small} |->
                            IF x = large THEN OwnedPTS[s] \cup OwnedPTS[t]
                            ELSE OwnedPTS[x]]
          /\ AllPTS' = [AllPTS EXCEPT ![AliasSets[v]] = large, ![AliasSets[w]] = large]
          /\ UNCHANGED AliasSets

mergeAliasSets(v, w) ==
  LET s == setOf(v)  t == setOf(w)
      small == IF Cardinality(OwnedPTS[s]) > Cardinality(OwnedPTS[t]) THEN t ELSE s
      large == IF small = s THEN t ELSE s
  IN IF v = w \/ s = t THEN UNCHANGED sets
     ELSE /\ OwnedPTS' = [x \in DOMAIN OwnedPTS \ {small} |->
                            IF x = large THEN OwnedPTS[s] \cup OwnedPTS[t]
                            ELSE OwnedPTS[x]]
          /\ AllPTS' = [b \in DOMAIN AllPTS |->
                          IF AllPTS[b] = small
                             /\ \E u \in OwnedPTS[small] : known(u) /\ AliasSets[u] = b
                          THEN large ELSE AllPTS[b]]
          /\ UNCHANGED AliasSets

\* Mutant: a value with a set of its own moves to the representative's.
joinSet_Overwrite(v, rep) ==
  /\ AliasSets' = Put(AliasSets, v, AliasSets[rep])
  /\ OwnedPTS' = [OwnedPTS EXCEPT ![setOf(rep)] = @ \cup {v}]
  /\ UNCHANGED AllPTS

\* The end of addPointer: v goes to the set of a representative.
joinSet(v, rep) ==
  IF known(v) THEN mergeAliasSets(rep, v)
  ELSE /\ AliasSets' = Put(AliasSets, v, AliasSets[rep])
       /\ OwnedPTS' = [OwnedPTS EXCEPT ![setOf(rep)] = @ \cup {v}]
       /\ UNCHANGED AllPTS

-----------------------------------------------------------------------------
(***************************************************************************)
(* The steps.                                                              *)
(***************************************************************************)
computeValuesAliasSet ==
  \E v \in Value :
    /\ step(computeValues(v),
            CASE v \in GlobalObject -> UserOps(v)
              [] v \notin GlobalObject /\ FunctionOf(v) # NoFunction ->
                   <<computeFunctions(FunctionOf(v))>>
              [] OTHER -> <<>>)
    /\ addSingletonAliasSet(v)
    /\ UNCHANGED <<AnalyzedFunctions, Reps>>

computeFunctionsAliasSet ==
  \E f \in Func :
    /\ AnalyzedFunctions' = AnalyzedFunctions \cup {f}
    /\ IF f \in AnalyzedFunctions \/ isDeclaration(f)
       THEN step(computeFunctions(f), <<>>) /\ UNCHANGED Reps
       ELSE step(computeFunctions(f), FunctionOps(f)) /\ Reps' = <<>>
    /\ UNCHANGED sets

\* Of the representatives that may alias v, the first of each type stays.
addPointer ==
  \E v \in Value, f \in Func :
    LET hit(i) == mayAlias(f, v, Reps[i])
        hits == {i \in 1 .. Len(Reps) : hit(i)}
        first == CHOOSE i \in hits : \A j \in hits : i <= j
        all == [i \in 1 .. Len(Reps) |-> i]
        later == keep(all, hits \ {first})
        shadowed == {i \in hits : \E j \in hits :
                        j < i /\ TypeOf(Reps[j]) = TypeOf(Reps[i])}
        rest == keep(all, 1 .. Len(Reps) \ shadowed)
        isNewType == \A i \in hits : TypeOf(Reps[i]) # TypeOf(v)
    IN /\ step(addPointerIn(f, v),
               IF hits = {} THEN <<addSingleton(v)>>
               ELSE [k \in DOMAIN later |-> merge(Reps[first], Reps[later[k]])]
                      \o <<joinTo(v, Reps[first])>>)
       /\ Reps' = [k \in DOMAIN rest |-> Reps[rest[k]]]
                    \o (IF isNewType THEN <<v>> ELSE <<>>)
       /\ UNCHANGED <<sets, AnalyzedFunctions>>

singletonStep ==
  \E v \in Value : /\ step(addSingleton(v), <<>>)
                   /\ addSingletonAliasSet(v)
                   /\ UNCHANGED <<AnalyzedFunctions, Reps>>

mergeStep ==
  \E v, w \in Value : /\ step(merge(v, w), <<>>)
                      /\ known(v) /\ known(w) /\ mergeAliasSets(v, w)
                      /\ UNCHANGED <<AnalyzedFunctions, Reps>>

joinStep ==
  \E v, rep \in Value : /\ step(joinTo(v, rep), <<>>)
                        /\ known(rep) /\ joinSet(v, rep)
                        /\ UNCHANGED <<AnalyzedFunctions, Reps>>

AliasStep == \/ computeValuesAliasSet \/ computeFunctionsAliasSet \/ addPointer
             \/ singletonStep \/ mergeStep \/ joinStep

\* A client's calls: getAliasSet and alias ask for values, introduceAlias
\* asks for two and merges them.
getAliasSet(v) == <<computeValues(v)>>
\* Mutant: the aliases of the second value are not computed.
introduceAlias_OneSet(v, w) == <<computeValues(v), merge(v, w)>>
introduceAlias(v, w) == <<computeValues(v), computeValues(w), merge(v, w)>>

Request(ops) ==
  /\ Todo = <<>> /\ Todo' = ops
  /\ UNCHANGED <<sets, AnalyzedFunctions, Reps>>

\* What any client may do.
clientStep == Todo' \in Seq(Op) /\ Request(Todo')

AliasNext == AliasStep \/ clientStep
AliasSpec == AliasInit /\ [][AliasNext]_aliasVars

-----------------------------------------------------------------------------
TablesOK ==
  /\ DOMAIN AliasSets \subseteq Value
  /\ AliasSets \in [DOMAIN AliasSets -> 1 .. Len(AllPTS)]
  /\ AllPTS \in Seq(SetId)
  /\ DOMAIN OwnedPTS \subseteq SetId
  /\ OwnedPTS \in [DOMAIN OwnedPTS -> SUBSET Value]

AliasTypeOK ==
  /\ TablesOK
  /\ AnalyzedFunctions \subseteq Func
  /\ Reps \in Seq(Value) /\ Todo \in Seq(Op)

(***************************************************************************)
(* The alias sets are a partition of the known values: no box dangles, and *)
(* the box of each member of a set leads to that very set, also after sets *)
(* were freed, their addresses reused and boxes shared and redirected.     *)
(***************************************************************************)
Partition ==
  /\ \A v \in DOMAIN AliasSets : setOf(v) \in DOMAIN OwnedPTS /\ v \in aliasSet(v)
  /\ \A s \in DOMAIN OwnedPTS : \A v \in OwnedPTS[s] : known(v) /\ setOf(v) = s

(***************************************************************************)
(* A box that a client holds stays the value's box, and values that once   *)
(* alias do so for ever: the call-graph builder compares only the number   *)
(* of targets with the earlier one.                                        *)
(***************************************************************************)
AliasesOnlyGrow ==
  [][/\ \A v \in DOMAIN AliasSets : v \in DOMAIN AliasSets' /\ AliasSets'[v] = AliasSets[v]
     /\ \A v, w \in DOMAIN AliasSets : setOf(v) = setOf(w) => setOf(v)' = setOf(w)']_aliasVars

(***************************************************************************)
(* The assertions of mergeAliasSets and addPointer: a set exists for every *)
(* value that is merged or joined to.                                      *)
(***************************************************************************)
MergeReady ==
  Todo # <<>> => /\ Todo[1].op = "merge" => known(Todo[1].v) /\ known(Todo[1].w)
                 /\ Todo[1].op = "join" => known(Todo[1].w)
=============================================================================
