---------------------------- MODULE AndersenOTF -----------------------------
(***************************************************************************)
(* The on-the-fly Andersen points-to analysis                              *)
(* (lib/PhasarLLVM/Pointer/AndersenOTFAA.cpp): inclusion constraints are   *)
(* solved by difference propagation with lazy cycle detection, while the   *)
(* calls found on the way add functions and constraints.  Without calling  *)
(* contexts (the default) and without the tables for fields of structs.    *)
(*                                                                         *)
(* An instruction is a record with op in                                   *)
(*   "object" (src: an object that dst points to), "assign", "alias",      *)
(*   "load" (src is the pointer), "store" (dst is), "copy" (both are), and *)
(*   "call" (src is the callee, a function or a pointer, dst the result    *)
(*   and args the arguments, each possibly NoNode, object the object of    *)
(*   this call site, should it allocate).                                  *)
(* A function is also the node of its own address and object.              *)
(***************************************************************************)
EXTENDS Naturals, FiniteSets, SequencesExt

CONSTANTS
  Node, NoNode, Func,
  Entries,                       \* the entry functions, in order
  Globals,                       \* "function" of the global initialisers
  Body(_), Params(_), Return(_), ArgObject(_),
  isDeclaration(_), isAllocWrapper(_), isHeapAllocatingFunction(_),
  hasLibFacts(_),                \* a declaration with a library summary, and
  LibFacts(_),                   \* its flows <<i, j>>, j = 0: result
  targetsAt(_, _),               \* the functions an object yields at a call
  SoundModes                     \* values of SoundnessFlag # Unsound

VARIABLES
  Sound,
  graph,               \* SCCUf, Nodes and PropWorklist
  wave,                \* U, UPending and Dsts of propagate()
  FunctionWorklist, Queued,
  ConnectedCallees,    \* pairs <<call, function>>
  UnresolvedFPCalls, UnresolvedCallbacks,
  Changed, Todo, pc

vars == <<Sound, graph, wave, FunctionWorklist, Queued, ConnectedCallees,
          UnresolvedFPCalls, UnresolvedCallbacks, Changed, Todo, pc>>

Instruction ==
  {I \in [op : {"object", "assign", "alias", "load", "store", "copy", "call"},
           src : Node, dst : Node \cup {NoNode}, args : Seq(Node \cup {NoNode}),
           object : Node \cup {NoNode}] :
     /\ I.op # "call" => I.dst # NoNode
     /\ I.op = "call" /\ I.dst # NoNode => I.object # NoNode
     /\ I.op = "call" /\ isHeapAllocatingFunction(I.src) => I.dst # NoNode}

ASSUME ProgramAssumption ==
  /\ NoNode \notin Node /\ Func \subseteq Node /\ IsFiniteSet(Func)
  /\ Entries \in Seq(Func)
  /\ \A f \in Func \cup {Globals} : Body(f) \in Seq(Instruction)
  /\ \A f \in Func : /\ Params(f) \in Seq(Node \cup {NoNode})
                     /\ Return(f) \in Node \cup {NoNode}
                     /\ \A i \in 1 .. Len(Params(f)) :
                          Params(f)[i] # NoNode => ArgObject(Params(f)[i]) \in Node
                     /\ \A i \in 1 .. Len(Body(f)), o \in Node :
                          targetsAt(o, <<f, i>>) \subseteq Func
  /\ \A i \in 1 .. Len(Body(Globals)), o \in Node :
       targetsAt(o, <<Globals, i>>) \subseteq Func

inst(c) == Body(c[1])[c[2]]
image(R, v) == {p[2] : p \in {q \in R : q[1] = v}}
rep(v) == graph.rep[v]
pts(v) == image(graph.pts, rep(v))

-----------------------------------------------------------------------------
(***************************************************************************)
(* Constraint insertion: from a graph g to the next.  Its fields but for   *)
(* rep and wl are relations, sets of pairs: pts is PtsSet, pending         *)
(* PendingPts, assign AssignDsts, load LoadDsts, store StoreSrcs, copySrc  *)
(* MemCopyAsSrc and copyDst MemCopyAsDst of the first component.  The      *)
(* order of PropWorklist, wl, is left open.                                *)
(***************************************************************************)
emptyGraph == [rep |-> [v \in Node |-> v], pts |-> {}, pending |-> {}, assign |-> {},
               load |-> {}, store |-> {}, copySrc |-> {}, copyDst |-> {}, wl |-> {}]

\* addPointee for each pair of a node and an object.
addPointees(g, pairs) ==
  LET new == {<<g.rep[p[1]], p[2]>> : p \in pairs} \ g.pts
  IN [g EXCEPT !.pts = @ \cup new, !.pending = @ \cup new,
               !.wl = @ \cup {p[1] : p \in new}]

\* Mutant: a new edge does not see what its source had before.
addAssignEdges_Delta(g, edges) ==
  [g EXCEPT !.assign = @ \cup {e \in {<<g.rep[x[1]], g.rep[x[2]]>> : x \in edges} :
                                 e[1] # e[2]}]

\* addAssignEdge for each of the edges.
addAssignEdges(g, edges) ==
  LET new == {e \in {<<g.rep[x[1]], g.rep[x[2]]>> : x \in edges} : e[1] # e[2]} \ g.assign
      again == {p \in g.pts : \E e \in new : e[1] = p[1]}
  IN [g EXCEPT !.assign = @ \cup new, !.pending = @ \cup again,
               !.wl = @ \cup {p[1] : p \in again}]

addLoad(g, ptr, dst) ==
  LET p == g.rep[ptr]  d == g.rep[dst] IN
  addAssignEdges([g EXCEPT !.load = @ \cup {<<p, d>>}], image(g.pts, p) \X {d})

\* addStore for each pair of a pointer and what is stored.
addStores(g, pairs) ==
  LET new == {<<g.rep[x[1]], g.rep[x[2]]>> : x \in pairs} IN
  addAssignEdges([g EXCEPT !.store = @ \cup new],
                 UNION {{x[2]} \X image(g.pts, x[1]) : x \in new})

addMemCopy(g, src, dst) ==
  LET s == g.rep[src]  d == g.rep[dst] IN
  addAssignEdges([g EXCEPT !.copySrc = @ \cup {<<s, d>>}, !.copyDst = @ \cup {<<d, s>>}],
                 image(g.pts, s) \X image(g.pts, d))

\* The edges that pointees objs ask for, given the constraints of their
\* pointer.  The other pointer of a copy is taken as it was recorded.
required(P, objs, loads, stores, srcs, dsts) ==
  (objs \X loads) \cup (stores \X objs)
    \cup (UNION {objs \X image(P, d) : d \in srcs})
    \cup (UNION {image(P, s) \X objs : s \in dsts})

\* The wave objs reaches p.
onNewPointee(g, p, objs) ==
  LET h == addPointees(g, {p} \X objs) IN
  addAssignEdges(h, required(h.pts, objs, image(g.load, p), image(g.store, p),
                             image(g.copySrc, p), image(g.copyDst, p)))

\* Mutant: the constraints that q brings along are not applied to the
\* pointees that r has.
mergeInto_NoRefire(g, r, q) ==
  LET new == image(g.pts, q) \ image(g.pts, r)
      seen == g.pts \cup ({r} \X new)
      fold(R) == {<<IF p[1] = q THEN r ELSE p[1], p[2]>> : p \in R}
      drop(R) == {p \in R : p[1] # q}
      waiting == drop(g.pending) \cup ({r} \X new)
  IN addAssignEdges(
       [g EXCEPT !.rep = [v \in Node |-> IF @[v] = q THEN r ELSE @[v]],
          !.pts = drop(seen), !.pending = waiting, !.assign = drop(@),
          !.load = fold(@), !.store = fold(@), !.copySrc = fold(@), !.copyDst = fold(@),
          !.wl = IF image(waiting, r) = {} THEN @ ELSE @ \cup {r}],
       ({r} \X image(g.assign, q))
         \cup required(seen, new, image(g.load, r), image(g.store, r),
                       image(g.copySrc, r), image(g.copyDst, r)))

\* merge(), where r stays and q goes: the pointees new to r meet the
\* constraints of r, and all of them those that q brings along.
mergeInto(g, r, q) ==
  LET new == image(g.pts, q) \ image(g.pts, r)
      seen == g.pts \cup ({r} \X new)
      brought(R) == image(R, q) \ image(R, r)
      fold(R) == {<<IF p[1] = q THEN r ELSE p[1], p[2]>> : p \in R}
      drop(R) == {p \in R : p[1] # q}
      waiting == drop(g.pending) \cup ({r} \X new)
  IN addAssignEdges(
       [g EXCEPT !.rep = [v \in Node |-> IF @[v] = q THEN r ELSE @[v]],
          !.pts = drop(seen), !.pending = waiting, !.assign = drop(@),
          !.load = fold(@), !.store = fold(@), !.copySrc = fold(@), !.copyDst = fold(@),
          !.wl = IF image(waiting, r) = {} THEN @ ELSE @ \cup {r}],
       ({r} \X image(g.assign, q))
         \cup required(seen, new, image(g.load, r), image(g.store, r),
                       image(g.copySrc, r), image(g.copyDst, r))
         \cup required(seen, image(seen, r), brought(g.load), brought(g.store),
                       brought(g.copySrc), brought(g.copyDst)))

\* The leader is the smaller id: the order of ids is left open.
merged(g, v, w) ==
  IF g.rep[v] = g.rep[w] THEN {g}
  ELSE {mergeInto(g, g.rep[v], g.rep[w]), mergeInto(g, g.rep[w], g.rep[v])}

-----------------------------------------------------------------------------
(***************************************************************************)
(* Translation of instructions and calls.  Todo holds the steps that the   *)
(* call stack of run() has still to make.                                  *)
(***************************************************************************)
translate(c) == [op |-> "translate", call |-> c, f |-> NoNode]
resolve(c) == [op |-> "resolve", call |-> c, f |-> NoNode]
connect(c, f) == [op |-> "connect", call |-> c, f |-> f]
callbacks(c) == [op |-> "callbacks", call |-> c, f |-> NoNode]
drain == [op |-> "propagate", call |-> <<>>, f |-> NoNode]

mapSeq(F(_), s) == [i \in 1 .. Len(s) |-> F(s[i])]
bodyOf(f) == [i \in 1 .. Len(Body(f)) |-> translate(<<f, i>>)]

next(op) == Todo # <<>> /\ Todo[1].op = op
rest == Tail(Todo)

\* forEachOpId: a function that is an operand points to itself.
operands(I) == {I.src, I.dst} \cup ToSet(I.args)
addGlobalPointee(g, I) == addPointees(g, {<<f, f>> : f \in operands(I) \cap Func})

constrain(g, I) ==
  CASE I.op = "object" -> {addPointees(g, {<<I.dst, I.src>>})}
    [] I.op = "assign" -> {addAssignEdges(g, {<<I.src, I.dst>>})}
    [] I.op = "alias"  -> merged(g, I.dst, I.src)
    [] I.op = "load"   -> {addLoad(g, I.src, I.dst)}
    [] I.op = "store"  -> {addStores(g, {<<I.dst, I.src>>})}
    [] I.op = "copy"   -> {addMemCopy(g, I.src, I.dst)}

processInstruction ==
  /\ next("translate") /\ inst(Todo[1].call).op # "call"
  /\ LET I == inst(Todo[1].call) IN graph' \in constrain(addGlobalPointee(graph, I), I)
  /\ Todo' = rest
  /\ UNCHANGED <<Sound, wave, FunctionWorklist, Queued, ConnectedCallees,
                 UnresolvedFPCalls, UnresolvedCallbacks, Changed, pc>>

handleCall ==
  /\ next("translate") /\ inst(Todo[1].call).op = "call"
  /\ LET c == Todo[1].call IN
     /\ LET g == addGlobalPointee(graph, [inst(c) EXCEPT !.src = NoNode]) IN
        graph' = IF isHeapAllocatingFunction(inst(c).src)
                 THEN addPointees(g, {<<inst(c).dst, inst(c).object>>}) ELSE g
     /\ IF inst(c).src \in Func
        THEN Todo' = <<connect(c, inst(c).src)>> \o rest /\ UNCHANGED UnresolvedFPCalls
        ELSE /\ Todo' = <<resolve(c)>> \o rest
             /\ UnresolvedFPCalls' = Append(UnresolvedFPCalls, c)
  /\ UNCHANGED <<Sound, wave, FunctionWorklist, Queued, ConnectedCallees,
                 UnresolvedCallbacks, Changed, pc>>

\* resolveFPCall, resolveVtableCall: the pointees are a snapshot.
resolveFPCall ==
  /\ next("resolve")
  /\ LET c == Todo[1].call IN
     \E q \in SetToSeqs(UNION {targetsAt(o, c) : o \in pts(inst(c).src)}) :
       Todo' = mapSeq(LAMBDA f : connect(c, f), q) \o rest
  /\ UNCHANGED <<Sound, graph, wave, FunctionWorklist, Queued, ConnectedCallees,
                 UnresolvedFPCalls, UnresolvedCallbacks, Changed, pc>>

\* The pairs <<argument, parameter>> of pointers.
bindings(c, f) ==
  {<<inst(c).args[i], Params(f)[i]>> :
     i \in {j \in 1 .. Len(Params(f)) : /\ j <= Len(inst(c).args)
                                       /\ inst(c).args[j] # NoNode /\ Params(f)[j] # NoNode}}

bindResult(g, c, f) ==
  CASE inst(c).dst = NoNode \/ Return(f) = NoNode -> g
    [] inst(c).dst # NoNode /\ Return(f) # NoNode /\ isAllocWrapper(f) ->
         addPointees(g, {<<inst(c).dst, inst(c).object>>})
    [] OTHER -> addAssignEdges(g, {<<Return(f), inst(c).dst>>})

\* Flows among arguments are stores, to the result they are assignments.
applyLibrarySummary(g, c, f) ==
  LET arg(i) == inst(c).args[i]
      given == {i \in 1 .. Len(inst(c).args) : arg(i) # NoNode}
      toArgs == {e \in LibFacts(f) : e[1] \in given /\ e[2] \in given}
      toResult == {e \in LibFacts(f) : e[1] \in given /\ e[2] = 0 /\ inst(c).dst # NoNode}
  IN addAssignEdges(addStores(g, {<<arg(e[2]), arg(e[1])>> : e \in toArgs}),
                    {<<arg(e[1]), inst(c).dst>> : e \in toResult})

\* addFnPtrArgsAsEntries: the functions that the arguments of c may be.
entriesOf(c) ==
  {f \in (UNION {pts(v) : v \in ToSet(inst(c).args) \ {NoNode}}) \cap Func :
     ~isDeclaration(f) /\ f \notin Queued}

enqueue(fs) ==
  /\ Queued' = Queued \cup fs
  /\ \E q \in SetToSeqs(fs) : FunctionWorklist' = FunctionWorklist \o q

\* Mutant: a call is connected anew at each resolution.
connectCallee_Again ==
  /\ next("connect")
  /\ LET c == Todo[1].call  f == Todo[1].f IN
     IF isDeclaration(f)
     THEN /\ ConnectedCallees' = ConnectedCallees \cup {<<c, f>>} /\ Todo' = rest
          /\ UNCHANGED <<graph, FunctionWorklist, Queued, UnresolvedCallbacks, Changed>>
     ELSE /\ ConnectedCallees' = ConnectedCallees \cup {<<c, f>>}
          /\ graph' = addAssignEdges(bindResult(graph, c, f), bindings(c, f))
          /\ enqueue({f} \ Queued)
          /\ Todo' = <<drain>> \o rest /\ Changed' = TRUE
          /\ UNCHANGED UnresolvedCallbacks
  /\ UNCHANGED <<Sound, wave, UnresolvedFPCalls, pc>>

connectCallee ==
  /\ next("connect")
  /\ LET c == Todo[1].call  f == Todo[1].f  anew == <<c, f>> \notin ConnectedCallees
         sum == hasLibFacts(f)
     IN
     /\ ConnectedCallees' = ConnectedCallees \cup {<<c, f>>}
     /\ \/ /\ ~anew /\ Todo' = rest
           /\ UNCHANGED <<graph, FunctionWorklist, Queued, UnresolvedCallbacks, Changed>>
        \/ /\ anew /\ isDeclaration(f) /\ sum /\ Todo' = rest
           /\ graph' = applyLibrarySummary(graph, c, f)
           /\ UNCHANGED <<FunctionWorklist, Queued, UnresolvedCallbacks, Changed>>
        \/ /\ anew /\ isDeclaration(f) /\ ~sum /\ Todo' = rest
           /\ IF Sound /\ \E i \in 1 .. Len(inst(c).args) : inst(c).args[i] # NoNode
              THEN /\ enqueue(entriesOf(c))
                   /\ UnresolvedCallbacks' = Append(UnresolvedCallbacks, c)
              ELSE UNCHANGED <<FunctionWorklist, Queued, UnresolvedCallbacks>>
           /\ UNCHANGED <<graph, Changed>>
        \/ /\ anew /\ ~isDeclaration(f)
           /\ enqueue({f} \ Queued)
           /\ graph' = addAssignEdges(bindResult(graph, c, f), bindings(c, f))
           /\ Todo' = <<drain>> \o rest /\ Changed' = TRUE
           /\ UNCHANGED UnresolvedCallbacks
  /\ UNCHANGED <<Sound, wave, UnresolvedFPCalls, pc>>

checkUnresolvedCallback ==
  /\ next("callbacks")
  /\ LET fs == entriesOf(Todo[1].call) IN enqueue(fs) /\ Changed' = (Changed \/ fs # {})
  /\ Todo' = rest
  /\ UNCHANGED <<Sound, graph, wave, ConnectedCallees, UnresolvedFPCalls,
                 UnresolvedCallbacks, pc>>

-----------------------------------------------------------------------------
(***************************************************************************)
(* propagate()                                                             *)
(***************************************************************************)
idle == [u |-> NoNode, pending |-> {}, dsts |-> {}]
propagating == next("propagate")
                 /\ UNCHANGED <<Sound, FunctionWorklist, Queued, ConnectedCallees,
                                UnresolvedFPCalls, UnresolvedCallbacks, Changed, pc>>

popNode ==
  /\ propagating /\ wave.dsts = {}
  /\ \E w \in graph.wl : LET u == rep(w) IN
       /\ graph' = [graph EXCEPT !.wl = @ \ {w}, !.pending = {p \in @ : p[1] # u}]
       /\ wave' = IF image(graph.pending, u) = {} THEN idle
                  ELSE [u |-> u, pending |-> image(graph.pending, u),
                        dsts |-> {rep(v) : v \in image(graph.assign, u)}]
  /\ UNCHANGED Todo

\* Lazy cycle detection: v has what u has, and leads back to u.
visitSuccessor ==
  /\ propagating
  /\ \E d \in wave.dsts : LET v == rep(d)  new == wave.pending \ pts(v) IN
       /\ \/ /\ new # {} /\ v # wave.u
             /\ graph' = onNewPointee(graph, v, new)
          \/ /\ new = {} /\ v # wave.u /\ <<v, wave.u>> \in graph.assign
             /\ graph' \in merged(graph, wave.u, v)
          \/ /\ v = wave.u \/ (new = {} /\ <<v, wave.u>> \notin graph.assign)
             /\ UNCHANGED graph
       /\ wave' = [wave EXCEPT !.dsts = @ \ {d}, !.u = graph'.rep[wave.u]]
  /\ UNCHANGED Todo

endPropagate ==
  /\ propagating /\ wave.dsts = {} /\ graph.wl = {}
  /\ Todo' = rest /\ wave' = idle
  /\ UNCHANGED graph

-----------------------------------------------------------------------------
(***************************************************************************)
(* run()                                                                   *)
(***************************************************************************)
Init ==
  /\ Sound \in SoundModes
  /\ graph = LET args == (UNION {ToSet(Params(f)) : f \in ToSet(Entries)}) \ {NoNode}
             IN addPointees(emptyGraph, {<<p, ArgObject(p)>> : p \in args})
  /\ wave = idle
  /\ FunctionWorklist = Entries /\ Queued = ToSet(Entries)
  /\ ConnectedCallees = {} /\ UnresolvedFPCalls = <<>> /\ UnresolvedCallbacks = <<>>
  /\ Changed = FALSE
  /\ Todo = bodyOf(Globals) \o <<drain>>
  /\ pc = "functions"

processFunction ==
  /\ pc = "functions" /\ Todo = <<>> /\ FunctionWorklist # <<>>
  /\ Todo' = bodyOf(Last(FunctionWorklist)) \o <<drain>>
  /\ FunctionWorklist' = Front(FunctionWorklist)
  /\ UNCHANGED <<Sound, graph, wave, Queued, ConnectedCallees, UnresolvedFPCalls,
                 UnresolvedCallbacks, Changed, pc>>

\* Mutant: callbacks are looked for only once.
checkUnresolved_NoCallbacks ==
  /\ pc = "functions" /\ Todo = <<>> /\ FunctionWorklist = <<>>
  /\ Changed' = FALSE /\ pc' = "recheck"
  /\ Todo' = mapSeq(resolve, UnresolvedFPCalls)
  /\ UNCHANGED <<Sound, graph, wave, FunctionWorklist, Queued, ConnectedCallees,
                 UnresolvedFPCalls, UnresolvedCallbacks>>

\* The checkUnresolved... of one round.
checkUnresolved ==
  /\ pc = "functions" /\ Todo = <<>> /\ FunctionWorklist = <<>>
  /\ Changed' = FALSE /\ pc' = "recheck"
  /\ Todo' = mapSeq(resolve, UnresolvedFPCalls) \o mapSeq(callbacks, UnresolvedCallbacks)
  /\ UNCHANGED <<Sound, graph, wave, FunctionWorklist, Queued, ConnectedCallees,
                 UnresolvedFPCalls, UnresolvedCallbacks>>

endRound ==
  /\ pc = "recheck" /\ Todo = <<>>
  /\ pc' = IF FunctionWorklist # <<>> \/ Changed THEN "functions" ELSE "done"
  /\ UNCHANGED <<Sound, graph, wave, FunctionWorklist, Queued, ConnectedCallees,
                 UnresolvedFPCalls, UnresolvedCallbacks, Changed, Todo>>

Next == \/ processInstruction \/ handleCall \/ resolveFPCall \/ connectCallee
        \/ checkUnresolvedCallback \/ popNode \/ visitSuccessor \/ endPropagate
        \/ processFunction \/ checkUnresolved \/ endRound

\* One sequential loop that never blocks.
Spec == Init /\ [][Next]_vars /\ WF_vars(Next)

\* buildResult: values alias when their representatives share a pointee.
aliasSet(v) == UNION {{w \in Node : o \in pts(w)} : o \in pts(v)}

-----------------------------------------------------------------------------
\* A node that was merged away keeps no information.
TypeOK ==
  /\ \A v \in Node : rep(v) \in Node /\ rep(rep(v)) = rep(v)
  /\ \A R \in {graph.pts, graph.assign, graph.load, graph.store, graph.copySrc,
               graph.copyDst} :
       \A p \in R : p[1] \in Node /\ rep(p[1]) = p[1] /\ p[2] \in Node
  /\ graph.pending \subseteq graph.pts /\ graph.wl \subseteq Node
  /\ wave.u \in Node \cup {NoNode} /\ wave.dsts \subseteq Node /\ wave.pending \subseteq Node
  /\ Queued \subseteq Func /\ FunctionWorklist \in Seq(Func)
  /\ pc \in {"functions", "recheck", "done"}

edge(v, w) == rep(v) = rep(w) \/ \E e \in graph.assign : e[1] = rep(v) /\ rep(e[2]) = rep(w)

(***************************************************************************)
(* Difference propagation loses nothing, whatever is merged in the middle  *)
(* of a wave: what a node has, its successors have, but for what is still  *)
(* pending or in the wave under way to them; and pending nodes are queued. *)
(***************************************************************************)
NoLostWave ==
  /\ \A p \in graph.pending : \E w \in graph.wl : rep(w) = p[1]
  /\ \A e \in graph.assign : \A o \in image(graph.pts, e[1]) :
       \/ o \in pts(e[2])
       \/ <<e[1], o>> \in graph.pending
       \/ wave.u = e[1] /\ o \in wave.pending /\ \E x \in wave.dsts : rep(x) = rep(e[2])

(***************************************************************************)
(* "Load constraints: dst = *this", "Store constraints: *this = src",      *)
(* "memcpy(dst_ptr, this=src_ptr)" (NodeInfo): each pointee of a node, no  *)
(* matter when it came and which nodes were merged, has the edges that the *)
(* constraints of the node ask for.                                        *)
(***************************************************************************)
ConstraintsApplied ==
  \A p \in graph.pts : LET o == p[2] IN
    /\ \A d \in image(graph.load, p[1]) : edge(o, d)
    /\ \A s \in image(graph.store, p[1]) : edge(s, o)
    /\ \A d \in image(graph.copySrc, p[1]) : \A x \in pts(d) : edge(o, x)
    /\ \A s \in image(graph.copyDst, p[1]) : \A x \in pts(s) : edge(x, o)

\* The analysis ends.
Termination == <>(pc = "done")
=============================================================================
