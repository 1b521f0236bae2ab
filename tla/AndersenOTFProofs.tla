------------------------- MODULE AndersenOTFProofs --------------------------
(***************************************************************************)
(* Proofs about the Andersen analysis: whatever the program, difference    *)
(* propagation with lazy cycle detection loses no pointee.                 *)
(*                                                                         *)
(* The inductive invariant is AndersenInv.  Its heart, Delivered, speaks   *)
(* of a graph and a wave that need not belong together yet: a merge in the *)
(* middle of a wave first takes the successor off the wave, then merges,   *)
(* then renames the node the wave started from.                            *)
(***************************************************************************)
EXTENDS AndersenOTF, FiniteSetTheorems, SequenceTheorems, TLAPS

Graph == [rep : [Node -> Node], pts : SUBSET (Node \X Node),
          pending : SUBSET (Node \X Node), assign : SUBSET (Node \X Node),
          load : SUBSET (Node \X Node), store : SUBSET (Node \X Node),
          copySrc : SUBSET (Node \X Node), copyDst : SUBSET (Node \X Node),
          wl : SUBSET Node]

Idempotent(g) == \A v \in Node : g.rep[g.rep[v]] = g.rep[v]
OnReps(g, R) == \A p \in R : g.rep[p[1]] = p[1]
ConstraintsOnReps(g) == /\ OnReps(g, g.load) /\ OnReps(g, g.store)
                        /\ OnReps(g, g.copySrc) /\ OnReps(g, g.copyDst)
Waiting(g) == \A p \in g.pending : p \in g.pts /\ \E x \in g.wl : g.rep[x] = p[1]

GraphOK(g) == /\ g \in Graph /\ Idempotent(g) /\ ConstraintsOnReps(g)
              /\ OnReps(g, g.pts) /\ OnReps(g, g.assign) /\ Waiting(g)

\* What the source of an edge has, its destination has, or is on its way.
Delivered(g, u, P, D) ==
  \A e \in g.assign : \A o \in Node :
    <<e[1], o>> \in g.pts =>
      \/ <<g.rep[e[2]], o>> \in g.pts
      \/ <<e[1], o>> \in g.pending
      \/ u = e[1] /\ o \in P /\ \E x \in D : g.rep[x] = g.rep[e[2]]

\* The graphs that insertion may end in, seen from g: in order, and nothing
\* of a wave lost.
Kept(g, h) == GraphOK(h) /\ h.rep = g.rep
              /\ \A u, P, D : Delivered(g, u, P, D) => Delivered(h, u, P, D)

Pairs(R) == R \subseteq Node \X Node

-----------------------------------------------------------------------------
\* image holds the second components of the pairs that start at v.
LEMMA ImageDef ==
  ASSUME NEW R, Pairs(R), NEW v, NEW o
  PROVE  o \in image(R, v) <=> <<v, o>> \in R
<1>1. \A p \in R : p = <<p[1], p[2]>>
  BY DEF Pairs
<1> QED
  BY <1>1 DEF image

\* An image of a relation on nodes is a set of nodes.
LEMMA ImageNodes ==
  ASSUME NEW R, Pairs(R), NEW v
  PROVE  image(R, v) \subseteq Node
BY DEF image, Pairs

\* What addPointees makes of each field.
LEMMA PointeeFields ==
  ASSUME NEW g \in Graph, NEW pairs, Pairs(pairs)
  PROVE  LET new == {<<g.rep[p[1]], p[2]>> : p \in pairs} \ g.pts
             h == addPointees(g, pairs)
         IN /\ h \in Graph /\ Pairs(new)
            /\ h.rep = g.rep /\ h.pts = g.pts \cup new
            /\ h.pending = g.pending \cup new
            /\ h.assign = g.assign /\ h.load = g.load /\ h.store = g.store
            /\ h.copySrc = g.copySrc /\ h.copyDst = g.copyDst
            /\ h.wl = g.wl \cup {p[1] : p \in new}
<1> DEFINE new == {<<g.rep[p[1]], p[2]>> : p \in pairs} \ g.pts
           h == addPointees(g, pairs)
<1>1. \A p \in pairs : p[1] \in Node /\ p[2] \in Node
  BY DEF Pairs
<1>2. Pairs(new)
  BY <1>1 DEF Pairs, Graph
<1>3. {p[1] : p \in new} \subseteq Node
  BY <1>2 DEF Pairs
<1>4. h = [g EXCEPT !.pts = @ \cup new, !.pending = @ \cup new,
                    !.wl = @ \cup {p[1] : p \in new}]
  BY DEF addPointees
<1> HIDE DEF new, h
<1>5. h \in Graph
  BY <1>2, <1>3, <1>4 DEF Graph, Pairs
<1>6. /\ h.rep = g.rep /\ h.pts = g.pts \cup new
      /\ h.pending = g.pending \cup new
      /\ h.assign = g.assign /\ h.load = g.load /\ h.store = g.store
      /\ h.copySrc = g.copySrc /\ h.copyDst = g.copyDst
      /\ h.wl = g.wl \cup {p[1] : p \in new}
  BY <1>4 DEF Graph
<1> QED
  BY <1>2, <1>5, <1>6 DEF new, h

\* New pointees are queued with their node: a graph that is in order stays
\* so, and what was delivered or under way still is.
LEMMA PointeesKeep ==
  ASSUME NEW g, GraphOK(g), NEW pairs, Pairs(pairs)
  PROVE  Kept(g, addPointees(g, pairs))
<1>0. g \in Graph
  BY DEF GraphOK
<1> DEFINE new == {<<g.rep[p[1]], p[2]>> : p \in pairs} \ g.pts
           h == addPointees(g, pairs)
<1>1. /\ h \in Graph /\ Pairs(new)
      /\ h.rep = g.rep /\ h.pts = g.pts \cup new
      /\ h.pending = g.pending \cup new
      /\ h.assign = g.assign /\ h.load = g.load /\ h.store = g.store
      /\ h.copySrc = g.copySrc /\ h.copyDst = g.copyDst
      /\ h.wl = g.wl \cup {p[1] : p \in new}
  BY <1>0, PointeeFields
<1>2. \A p \in new : p[1] \in Node /\ g.rep[p[1]] = p[1]
  <2>1. \A p \in pairs : g.rep[g.rep[p[1]]] = g.rep[p[1]] /\ g.rep[p[1]] \in Node
    BY <1>0 DEF GraphOK, Idempotent, Pairs, Graph
  <2> QED
    BY <2>1
<1> HIDE DEF new, h
<1>3. Idempotent(h) /\ ConstraintsOnReps(h) /\ OnReps(h, h.assign)
  BY <1>1 DEF GraphOK, Idempotent, ConstraintsOnReps, OnReps
<1>4. OnReps(h, h.pts)
  BY <1>1, <1>2 DEF GraphOK, OnReps
<1>5. Waiting(h)
  <2>1. ASSUME NEW p \in g.pending
        PROVE  p \in h.pts /\ \E x \in h.wl : h.rep[x] = p[1]
    BY <1>1 DEF GraphOK, Waiting
  <2>2. ASSUME NEW p \in new
        PROVE  p \in h.pts /\ \E x \in h.wl : h.rep[x] = p[1]
    BY <1>1, <1>2
  <2> QED
    BY <1>1, <2>1, <2>2 DEF Waiting
<1>6. ASSUME NEW u, NEW P, NEW D, Delivered(g, u, P, D)
      PROVE  Delivered(h, u, P, D)
  <2> SUFFICES ASSUME NEW e \in h.assign, NEW o \in Node, <<e[1], o>> \in h.pts,
                      <<e[1], o>> \notin h.pending
               PROVE  \/ <<h.rep[e[2]], o>> \in h.pts
                      \/ u = e[1] /\ o \in P /\ \E x \in D : h.rep[x] = h.rep[e[2]]
    BY DEF Delivered
  <2>1. e \in g.assign /\ <<e[1], o>> \in g.pts /\ <<e[1], o>> \notin g.pending
    BY <1>1
  <2>2. \/ <<g.rep[e[2]], o>> \in g.pts
        \/ u = e[1] /\ o \in P /\ \E x \in D : g.rep[x] = g.rep[e[2]]
    BY <1>6, <2>1 DEF Delivered
  <2> QED
    BY <1>1, <2>2
<1>7. GraphOK(h) /\ h.rep = g.rep
  BY <1>1, <1>3, <1>4, <1>5 DEF GraphOK
<1> QED
  BY <1>6, <1>7 DEF h, Kept

\* What addAssignEdges makes of each field.
LEMMA EdgeFields ==
  ASSUME NEW g \in Graph, NEW edges, Pairs(edges)
  PROVE  LET new == {e \in {<<g.rep[x[1]], g.rep[x[2]]>> : x \in edges} : e[1] # e[2]} \ g.assign
             again == {p \in g.pts : \E e \in new : e[1] = p[1]}
             h == addAssignEdges(g, edges)
         IN /\ h \in Graph /\ Pairs(new)
            /\ h.rep = g.rep /\ h.pts = g.pts
            /\ h.pending = g.pending \cup again
            /\ h.assign = g.assign \cup new /\ h.load = g.load /\ h.store = g.store
            /\ h.copySrc = g.copySrc /\ h.copyDst = g.copyDst
            /\ h.wl = g.wl \cup {p[1] : p \in again}
<1> DEFINE new == {e \in {<<g.rep[x[1]], g.rep[x[2]]>> : x \in edges} : e[1] # e[2]} \ g.assign
           again == {p \in g.pts : \E e \in new : e[1] = p[1]}
           h == addAssignEdges(g, edges)
<1>1. \A x \in edges : x[1] \in Node /\ x[2] \in Node
  BY DEF Pairs
<1>2. Pairs(new)
  BY <1>1 DEF Pairs, Graph
<1>3. again \subseteq Node \X Node /\ {p[1] : p \in again} \subseteq Node
  BY DEF Graph
<1>4. h = [g EXCEPT !.assign = @ \cup new, !.pending = @ \cup again,
                    !.wl = @ \cup {p[1] : p \in again}]
  BY DEF addAssignEdges
<1> HIDE DEF new, again, h
<1>5. h \in Graph
  BY <1>2, <1>3, <1>4 DEF Graph, Pairs
<1>6. /\ h.rep = g.rep /\ h.pts = g.pts
      /\ h.pending = g.pending \cup again
      /\ h.assign = g.assign \cup new /\ h.load = g.load /\ h.store = g.store
      /\ h.copySrc = g.copySrc /\ h.copyDst = g.copyDst
      /\ h.wl = g.wl \cup {p[1] : p \in again}
  BY <1>4 DEF Graph
<1> QED
  BY <1>2, <1>5, <1>6 DEF new, again, h

\* A new edge sees what its source had before: all of it is queued again.
LEMMA EdgesKeep ==
  ASSUME NEW g, GraphOK(g), NEW edges, Pairs(edges)
  PROVE  Kept(g, addAssignEdges(g, edges))
<1>0. g \in Graph
  BY DEF GraphOK
<1> DEFINE new == {e \in {<<g.rep[x[1]], g.rep[x[2]]>> : x \in edges} : e[1] # e[2]} \ g.assign
           again == {p \in g.pts : \E e \in new : e[1] = p[1]}
           h == addAssignEdges(g, edges)
<1>1. /\ h \in Graph /\ Pairs(new)
      /\ h.rep = g.rep /\ h.pts = g.pts
      /\ h.pending = g.pending \cup again
      /\ h.assign = g.assign \cup new /\ h.load = g.load /\ h.store = g.store
      /\ h.copySrc = g.copySrc /\ h.copyDst = g.copyDst
      /\ h.wl = g.wl \cup {p[1] : p \in again}
  BY <1>0, EdgeFields
<1>2. \A e \in new : e[1] \in Node /\ g.rep[e[1]] = e[1]
  <2>1. \A x \in edges : g.rep[g.rep[x[1]]] = g.rep[x[1]] /\ g.rep[x[1]] \in Node
    BY <1>0 DEF GraphOK, Idempotent, Pairs, Graph
  <2> QED
    BY <2>1
<1>3. again \subseteq g.pts
  OBVIOUS
<1>4. \A e \in new : \A o : <<e[1], o>> \in g.pts => <<e[1], o>> \in again
  OBVIOUS
<1> HIDE DEF new, again, h
<1>5. Idempotent(h) /\ ConstraintsOnReps(h) /\ OnReps(h, h.pts)
  BY <1>1 DEF GraphOK, Idempotent, ConstraintsOnReps, OnReps
<1>6. OnReps(h, h.assign)
  BY <1>1, <1>2 DEF GraphOK, OnReps
<1>7. Waiting(h)
  <2>1. ASSUME NEW p \in g.pending
        PROVE  p \in h.pts /\ \E x \in h.wl : h.rep[x] = p[1]
    BY <1>1 DEF GraphOK, Waiting
  <2>2. ASSUME NEW p \in again
        PROVE  p \in h.pts /\ \E x \in h.wl : h.rep[x] = p[1]
    <3>1. p \in g.pts /\ g.rep[p[1]] = p[1]
      BY <1>3 DEF GraphOK, OnReps
    <3> QED
      BY <1>1, <3>1
  <2> QED
    BY <1>1, <2>1, <2>2 DEF Waiting
<1>8. ASSUME NEW u, NEW P, NEW D, Delivered(g, u, P, D)
      PROVE  Delivered(h, u, P, D)
  <2> SUFFICES ASSUME NEW e \in h.assign, NEW o \in Node, <<e[1], o>> \in h.pts,
                      <<e[1], o>> \notin h.pending
               PROVE  \/ <<h.rep[e[2]], o>> \in h.pts
                      \/ u = e[1] /\ o \in P /\ \E x \in D : h.rep[x] = h.rep[e[2]]
    BY DEF Delivered
  <2>1. e \in g.assign /\ <<e[1], o>> \in g.pts /\ <<e[1], o>> \notin g.pending
    BY <1>1, <1>4
  <2>2. \/ <<g.rep[e[2]], o>> \in g.pts
        \/ u = e[1] /\ o \in P /\ \E x \in D : g.rep[x] = g.rep[e[2]]
    BY <1>8, <2>1 DEF Delivered
  <2> QED
    BY <1>1, <2>2
<1>9. GraphOK(h) /\ h.rep = g.rep
  BY <1>1, <1>5, <1>6, <1>7 DEF GraphOK
<1> QED
  BY <1>8, <1>9 DEF h, Kept

\* Recording constraints of representatives disturbs neither.
LEMMA ConstraintsKeep ==
  ASSUME NEW g, GraphOK(g), NEW h \in Graph, ConstraintsOnReps(h),
         h.rep = g.rep, h.pts = g.pts, h.pending = g.pending, h.assign = g.assign,
         h.wl = g.wl
  PROVE  Kept(g, h)
<1>1. Idempotent(h) /\ OnReps(h, h.pts) /\ OnReps(h, h.assign) /\ Waiting(h)
  BY DEF GraphOK, Idempotent, OnReps, Waiting
<1>2. ASSUME NEW u, NEW P, NEW D, Delivered(g, u, P, D)
      PROVE  Delivered(h, u, P, D)
  BY <1>2 DEF Delivered
<1> QED
  BY <1>1, <1>2 DEF GraphOK, Kept

\* Insertions follow each other.
LEMMA KeptTransitive ==
  ASSUME NEW f, NEW g, NEW h, Kept(f, g), Kept(g, h)
  PROVE  Kept(f, h)
BY DEF Kept


-----------------------------------------------------------------------------
\* The constraint operations record a constraint and insert its edges.
LEMMA LoadKept ==
  ASSUME NEW g, GraphOK(g), NEW ptr \in Node, NEW dst \in Node
  PROVE  Kept(g, addLoad(g, ptr, dst))
<1> DEFINE p == g.rep[ptr]
           d == g.rep[dst]
           h == [g EXCEPT !.load = @ \cup {<<p, d>>}]
           es == image(g.pts, p) \X {d}
<1>1. g \in Graph /\ p \in Node /\ d \in Node /\ g.rep[p] = p
  BY DEF GraphOK, Graph, Idempotent
<1>2. addLoad(g, ptr, dst) = addAssignEdges(h, es)
  BY DEF addLoad
<1>3. Pairs(es)
  <2>1. image(g.pts, p) \subseteq Node
    BY <1>1, ImageNodes DEF Graph, Pairs
  <2> QED
    BY <1>1, <2>1 DEF Pairs
<1> HIDE DEF p, d, es
<1>4. /\ h \in Graph /\ h.rep = g.rep /\ h.pts = g.pts /\ h.pending = g.pending
      /\ h.assign = g.assign /\ h.wl = g.wl /\ h.load = g.load \cup {<<p, d>>}
      /\ h.store = g.store /\ h.copySrc = g.copySrc /\ h.copyDst = g.copyDst
  BY <1>1 DEF Graph
<1> HIDE DEF h
<1>5. ConstraintsOnReps(h)
  BY <1>1, <1>4 DEF GraphOK, ConstraintsOnReps, OnReps
<1>6. Kept(g, h)
  BY <1>4, <1>5, ConstraintsKeep
<1>7. Kept(h, addAssignEdges(h, es))
  BY <1>3, <1>6, EdgesKeep DEF Kept
<1> QED
  BY <1>2, <1>6, <1>7, KeptTransitive

\* The same for the stores of a call or an instruction.
LEMMA StoresKept ==
  ASSUME NEW g, GraphOK(g), NEW pairs, Pairs(pairs)
  PROVE  Kept(g, addStores(g, pairs))
<1> DEFINE new == {<<g.rep[x[1]], g.rep[x[2]]>> : x \in pairs}
           h == [g EXCEPT !.store = @ \cup new]
           es == UNION {{x[2]} \X image(g.pts, x[1]) : x \in new}
<1>1. g \in Graph
  BY DEF GraphOK
<1>2. addStores(g, pairs) = addAssignEdges(h, es)
  BY DEF addStores
<1>3. \A x \in new : /\ x \in Node \X Node /\ x[1] \in Node /\ x[2] \in Node
                     /\ g.rep[x[1]] = x[1]
  <2>1. \A x \in pairs : x[1] \in Node /\ x[2] \in Node
    BY DEF Pairs
  <2>2. \A v \in Node : g.rep[v] \in Node /\ g.rep[g.rep[v]] = g.rep[v]
    BY <1>1 DEF GraphOK, Graph, Idempotent
  <2> QED
    BY <2>1, <2>2
<1>4. Pairs(es)
  <2>1. \A x \in new : image(g.pts, x[1]) \subseteq Node
    BY <1>1, ImageNodes DEF Graph, Pairs
  <2>2. \A x \in new : {x[2]} \X image(g.pts, x[1]) \subseteq Node \X Node
    BY <1>3, <2>1
  <2> HIDE DEF new
  <2>3. \A y \in es : \E x \in new : y \in {x[2]} \X image(g.pts, x[1])
    OBVIOUS
  <2> HIDE DEF es
  <2> QED
    BY <2>2, <2>3 DEF Pairs
<1> HIDE DEF new, es
<1>5. /\ h \in Graph /\ h.rep = g.rep /\ h.pts = g.pts /\ h.pending = g.pending
      /\ h.assign = g.assign /\ h.wl = g.wl /\ h.store = g.store \cup new
      /\ h.load = g.load /\ h.copySrc = g.copySrc /\ h.copyDst = g.copyDst
  BY <1>1, <1>3 DEF Graph
<1> HIDE DEF h
<1>6. ConstraintsOnReps(h)
  BY <1>3, <1>5 DEF GraphOK, ConstraintsOnReps, OnReps
<1>7. Kept(g, h)
  BY <1>5, <1>6, ConstraintsKeep
<1>8. Kept(h, addAssignEdges(h, es))
  BY <1>4, <1>7, EdgesKeep DEF Kept
<1> QED
  BY <1>2, <1>7, <1>8, KeptTransitive

\* The same for a copy, which is recorded at both its pointers.
LEMMA MemCopyKept ==
  ASSUME NEW g, GraphOK(g), NEW src \in Node, NEW dst \in Node
  PROVE  Kept(g, addMemCopy(g, src, dst))
<1> DEFINE s == g.rep[src]
           d == g.rep[dst]
           h == [g EXCEPT !.copySrc = @ \cup {<<s, d>>}, !.copyDst = @ \cup {<<d, s>>}]
           es == image(g.pts, s) \X image(g.pts, d)
<1>1. g \in Graph /\ s \in Node /\ d \in Node /\ g.rep[s] = s /\ g.rep[d] = d
  BY DEF GraphOK, Graph, Idempotent
<1>2. addMemCopy(g, src, dst) = addAssignEdges(h, es)
  BY DEF addMemCopy
<1>3. Pairs(es)
  <2>1. image(g.pts, s) \subseteq Node /\ image(g.pts, d) \subseteq Node
    BY <1>1, ImageNodes DEF Graph, Pairs
  <2> QED
    BY <2>1 DEF Pairs
<1> HIDE DEF s, d, es
<1>4. /\ h \in Graph /\ h.rep = g.rep /\ h.pts = g.pts /\ h.pending = g.pending
      /\ h.assign = g.assign /\ h.wl = g.wl /\ h.load = g.load /\ h.store = g.store
      /\ h.copySrc = g.copySrc \cup {<<s, d>>} /\ h.copyDst = g.copyDst \cup {<<d, s>>}
  <2>1. PICK A, B : A = g.copySrc \cup {<<s, d>>} /\ B = g.copyDst \cup {<<d, s>>}
    OBVIOUS
  <2>2. A \in SUBSET (Node \X Node) /\ B \in SUBSET (Node \X Node)
    BY <1>1, <2>1 DEF Graph
  <2>3. h = [g EXCEPT !.copySrc = A, !.copyDst = B]
    BY <2>1
  <2> HIDE DEF h
  <2>4. h \in Graph
    BY <1>1, <2>2, <2>3 DEF Graph
  <2>5. /\ h.rep = g.rep /\ h.pts = g.pts /\ h.pending = g.pending
        /\ h.assign = g.assign /\ h.wl = g.wl /\ h.load = g.load /\ h.store = g.store
        /\ h.copySrc = A /\ h.copyDst = B
    BY <1>1, <2>3 DEF Graph
  <2> QED
    BY <2>1, <2>4, <2>5
<1> HIDE DEF h
<1>5. ConstraintsOnReps(h)
  BY <1>1, <1>4 DEF GraphOK, ConstraintsOnReps, OnReps
<1>6. Kept(g, h)
  BY <1>4, <1>5, ConstraintsKeep
<1>7. Kept(h, addAssignEdges(h, es))
  BY <1>3, <1>6, EdgesKeep DEF Kept
<1> QED
  BY <1>2, <1>6, <1>7, KeptTransitive

\* The edges that pointees ask for are edges between nodes.
LEMMA RequiredPairs ==
  ASSUME NEW P, Pairs(P), NEW objs \in SUBSET Node, NEW loads \in SUBSET Node,
         NEW stores \in SUBSET Node, NEW srcs, NEW dsts
  PROVE  Pairs(required(P, objs, loads, stores, srcs, dsts))
<1>1. \A v : image(P, v) \subseteq Node
  BY ImageNodes
<1>2. \A d : objs \X image(P, d) \subseteq Node \X Node
  BY <1>1
<1>3. \A d : image(P, d) \X objs \subseteq Node \X Node
  BY <1>1
<1>4. UNION {objs \X image(P, d) : d \in srcs} \subseteq Node \X Node
  BY <1>2
<1>5. UNION {image(P, s) \X objs : s \in dsts} \subseteq Node \X Node
  BY <1>3
<1>6. (objs \X loads) \cup (stores \X objs) \subseteq Node \X Node
  OBVIOUS
<1> DEFINE A == UNION {objs \X image(P, d) : d \in srcs}
           B == UNION {image(P, s) \X objs : s \in dsts}
           C == (objs \X loads) \cup (stores \X objs)
<1>7. A \subseteq Node \X Node /\ B \subseteq Node \X Node /\ C \subseteq Node \X Node
  BY <1>4, <1>5, <1>6, Zenon
<1>8. required(P, objs, loads, stores, srcs, dsts) = C \cup A \cup B
  BY DEF required
<1> HIDE DEF A, B, C
<1> QED
  BY <1>7, <1>8 DEF Pairs

\* The wave objs reaches p: its objects become pointees of p.
LEMMA NewPointeeKept ==
  ASSUME NEW g, GraphOK(g), NEW p \in Node, NEW objs \in SUBSET Node
  PROVE  /\ Kept(g, addPointees(g, {p} \X objs))
         /\ Kept(addPointees(g, {p} \X objs), onNewPointee(g, p, objs))
<1>1. g \in Graph
  BY DEF GraphOK
<1>2. Pairs({p} \X objs)
  BY DEF Pairs
<1>3. PICK h : h = addPointees(g, {p} \X objs)
  OBVIOUS
<1>4. Kept(g, h)
  BY <1>2, <1>3, PointeesKeep
<1>5. GraphOK(h) /\ h \in Graph /\ Pairs(h.pts)
  BY <1>4 DEF Kept, GraphOK, Graph, Pairs
<1>6. image(g.load, p) \subseteq Node /\ image(g.store, p) \subseteq Node
  BY <1>1, ImageNodes DEF Graph, Pairs
<1>7. Pairs(required(h.pts, objs, image(g.load, p), image(g.store, p),
                     image(g.copySrc, p), image(g.copyDst, p)))
  BY <1>5, <1>6, RequiredPairs
<1>8. Kept(h, onNewPointee(g, p, objs))
  BY <1>3, <1>5, <1>7, EdgesKeep DEF onNewPointee
<1> QED
  BY <1>3, <1>4, <1>8

-----------------------------------------------------------------------------
(***************************************************************************)
(* Merging.  withoutNode is the graph in the middle of mergeInto, when the *)
(* node q is gone and its edges are not yet those of r.                    *)
(***************************************************************************)
withoutNode(g, r, q) ==
  LET new == image(g.pts, q) \ image(g.pts, r)
      fold(R) == {<<IF p[1] = q THEN r ELSE p[1], p[2]>> : p \in R}
      drop(R) == {p \in R : p[1] # q}
      waiting == drop(g.pending) \cup ({r} \X new)
  IN [g EXCEPT !.rep = [v \in Node |-> IF @[v] = q THEN r ELSE @[v]],
        !.pts = drop(g.pts \cup ({r} \X new)), !.pending = waiting, !.assign = drop(@),
        !.load = fold(@), !.store = fold(@), !.copySrc = fold(@), !.copyDst = fold(@),
        !.wl = IF image(waiting, r) = {} THEN @ ELSE @ \cup {r}]

\* q gone from a relation: its pairs are dropped, or they are pairs of r.
Drop(R, q) == {p \in R : p[1] # q}
Fold(R, r, q) == {<<IF p[1] = q THEN r ELSE p[1], p[2]>> : p \in R}

\* The pointees that r gets from q, and what is pending once q is gone.
Gained(g, r, q) == image(g.pts, q) \ image(g.pts, r)
StillWaiting(g, r, q) == Drop(g.pending, q) \cup ({r} \X Gained(g, r, q))

\* h has the fields that withoutNode gives a graph.
IsWithout(h, g, r, q) ==
  /\ h \in Graph /\ Gained(g, r, q) \subseteq Node
  /\ h.rep = [v \in Node |-> IF g.rep[v] = q THEN r ELSE g.rep[v]]
  /\ h.pts = Drop(g.pts \cup ({r} \X Gained(g, r, q)), q)
  /\ h.pending = StillWaiting(g, r, q) /\ h.assign = Drop(g.assign, q)
  /\ h.load = Fold(g.load, r, q) /\ h.store = Fold(g.store, r, q)
  /\ h.copySrc = Fold(g.copySrc, r, q) /\ h.copyDst = Fold(g.copyDst, r, q)
  /\ h.wl = IF image(StillWaiting(g, r, q), r) = {} THEN g.wl ELSE g.wl \cup {r}

\* What withoutNode makes of each field.
LEMMA WithoutFields ==
  ASSUME NEW g \in Graph, NEW r \in Node, NEW q \in Node
  PROVE  IsWithout(withoutNode(g, r, q), g, r, q)
<1> DEFINE new == image(g.pts, q) \ image(g.pts, r)
           waiting == Drop(g.pending, q) \cup ({r} \X new)
           h == withoutNode(g, r, q)
           rp == [v \in Node |-> IF g.rep[v] = q THEN r ELSE g.rep[v]]
           ps == Drop(g.pts \cup ({r} \X new), q)
           as == Drop(g.assign, q)
           lo == Fold(g.load, r, q)
           st == Fold(g.store, r, q)
           cs == Fold(g.copySrc, r, q)
           cd == Fold(g.copyDst, r, q)
           wl == IF image(waiting, r) = {} THEN g.wl ELSE g.wl \cup {r}
<1>1. h = [g EXCEPT !.rep = rp, !.pts = ps, !.pending = waiting, !.assign = as, !.load = lo,
                    !.store = st, !.copySrc = cs, !.copyDst = cd, !.wl = wl]
  BY DEF withoutNode, Drop, Fold, Graph
<1>2. new \subseteq Node
  BY ImageNodes DEF Graph, Pairs
<1>3. rp \in [Node -> Node]
  BY DEF Graph
<1>4. \A R \in SUBSET (Node \X Node) : Fold(R, r, q) \in SUBSET (Node \X Node)
  BY DEF Fold
<1>5. lo \in SUBSET (Node \X Node) /\ st \in SUBSET (Node \X Node)
      /\ cs \in SUBSET (Node \X Node) /\ cd \in SUBSET (Node \X Node)
  BY <1>4 DEF Graph
<1>6. {r} \X new \subseteq Node \X Node
  BY <1>2
<1>7. ps \in SUBSET (Node \X Node) /\ waiting \in SUBSET (Node \X Node)
      /\ as \in SUBSET (Node \X Node)
  BY <1>6 DEF Drop, Graph
<1>8. wl \in SUBSET Node
  BY DEF Graph
<1> HIDE DEF new, waiting, h, rp, ps, as, lo, st, cs, cd, wl
<1>9. h \in Graph
  BY <1>1, <1>3, <1>5, <1>7, <1>8 DEF Graph
<1>10. /\ h.rep = rp /\ h.pts = ps /\ h.pending = waiting /\ h.assign = as /\ h.load = lo
       /\ h.store = st /\ h.copySrc = cs /\ h.copyDst = cd /\ h.wl = wl
  BY <1>1 DEF Graph
<1>11. new = Gained(g, r, q) /\ waiting = StillWaiting(g, r, q)
  BY DEF new, waiting, Gained, StillWaiting
<1> QED
  BY <1>2, <1>9, <1>10, <1>11 DEF IsWithout, rp, ps, as, lo, st, cs, cd, wl, h

\* Folding a relation of representatives gives one of the representatives
\* that are left.
LEMMA FoldOnReps ==
  ASSUME NEW g \in Graph, NEW R \in SUBSET (Node \X Node), OnReps(g, R),
         NEW r \in Node, NEW q \in Node, r # q, g.rep[r] = r, NEW h,
         h.rep = [v \in Node |-> IF g.rep[v] = q THEN r ELSE g.rep[v]]
  PROVE  OnReps(h, Fold(R, r, q)) /\ OnReps(h, Drop(R, q))
<1>1. \A p \in R : p[1] \in Node /\ g.rep[p[1]] = p[1]
  BY DEF OnReps
<1>2. \A p \in R : p[1] # q => h.rep[p[1]] = p[1]
  BY <1>1
<1>3. h.rep[r] = r
  OBVIOUS
<1>4. OnReps(h, Fold(R, r, q))
  BY <1>2, <1>3 DEF OnReps, Fold
<1>5. OnReps(h, Drop(R, q))
  BY <1>2 DEF OnReps, Drop
<1> QED
  BY <1>4, <1>5

(***************************************************************************)
(* The representative q goes and r stays.  The pointees that r gets from q *)
(* are pending at r; an edge to q is one to r, and so is a successor of    *)
(* the wave; a wave that started from q goes on from r, but has none of    *)
(* the edges of q left.                                                    *)
(***************************************************************************)
LEMMA WithoutKeeps ==
  ASSUME NEW g, GraphOK(g), NEW r \in Node, NEW q \in Node, r # q,
         g.rep[r] = r, g.rep[q] = q,
         NEW u \in Node, NEW P, NEW D \in SUBSET Node, Delivered(g, u, P, D)
  PROVE  /\ GraphOK(withoutNode(g, r, q))
         /\ Delivered(withoutNode(g, r, q), withoutNode(g, r, q).rep[u], P, D)
<1> DEFINE new == Gained(g, r, q)
           waiting == StillWaiting(g, r, q)
<1>0. g \in Graph /\ Pairs(g.pts)
  BY DEF GraphOK, Graph, Pairs
<1>1. PICK h : h = withoutNode(g, r, q)
  OBVIOUS
<1>2. /\ h \in Graph /\ new \subseteq Node
      /\ h.rep = [v \in Node |-> IF g.rep[v] = q THEN r ELSE g.rep[v]]
      /\ h.pts = Drop(g.pts \cup ({r} \X new), q)
      /\ h.pending = waiting /\ h.assign = Drop(g.assign, q)
      /\ h.load = Fold(g.load, r, q) /\ h.store = Fold(g.store, r, q)
      /\ h.copySrc = Fold(g.copySrc, r, q) /\ h.copyDst = Fold(g.copyDst, r, q)
      /\ h.wl = IF image(waiting, r) = {} THEN g.wl ELSE g.wl \cup {r}
  <2>1. IsWithout(h, g, r, q)
    BY <1>0, <1>1, WithoutFields
  <2> QED
    BY <2>1 DEF IsWithout
<1>3. \A o : <<q, o>> \in g.pts => <<r, o>> \in g.pts \/ o \in new
  BY <1>0, ImageDef DEF Gained
<1>11. waiting = Drop(g.pending, q) \cup ({r} \X new)
  BY DEF StillWaiting
<1> HIDE DEF new, waiting
<1>4. \A p \in g.pts \cup ({r} \X new) : p[1] # q => p \in h.pts
  BY <1>2 DEF Drop
<1>5. Idempotent(h)
  <2>1. \A v \in Node : g.rep[v] \in Node /\ g.rep[g.rep[v]] = g.rep[v]
    BY <1>0 DEF GraphOK, Idempotent, Graph
  <2>2. ASSUME NEW v \in Node
        PROVE  h.rep[h.rep[v]] = h.rep[v]
    BY <1>2, <2>1
  <2> QED
    BY <2>2 DEF Idempotent
<1>6. ConstraintsOnReps(h)
  <2>1. /\ OnReps(h, Fold(g.load, r, q)) /\ OnReps(h, Fold(g.store, r, q))
        /\ OnReps(h, Fold(g.copySrc, r, q)) /\ OnReps(h, Fold(g.copyDst, r, q))
    BY <1>0, <1>2, FoldOnReps DEF GraphOK, ConstraintsOnReps, Graph
  <2> QED
    BY <1>2, <2>1 DEF ConstraintsOnReps
<1>7. OnReps(h, h.pts) /\ OnReps(h, h.assign)
  <2>0. /\ g.pts \in SUBSET (Node \X Node) /\ OnReps(g, g.pts)
        /\ g.assign \in SUBSET (Node \X Node) /\ OnReps(g, g.assign)
    BY <1>0 DEF GraphOK, Graph
  <2>1. OnReps(h, Drop(g.pts, q)) /\ OnReps(h, Drop(g.assign, q))
    BY <1>0, <1>2, <2>0, FoldOnReps
  <2>2. h.rep[r] = r
    BY <1>2
  <2>3. \A p \in h.pts : p \in Drop(g.pts, q) \/ p[1] = r
    BY <1>2 DEF Drop
  <2>4. \A p \in h.pts : h.rep[p[1]] = p[1]
    BY <2>1, <2>2, <2>3 DEF OnReps
  <2>5. h.assign = Drop(g.assign, q)
    BY <1>2
  <2> QED
    BY <2>1, <2>4, <2>5 DEF OnReps
<1>8. Waiting(h)
  <2>1. ASSUME NEW p \in Drop(g.pending, q)
        PROVE  p \in h.pts /\ \E x \in h.wl : h.rep[x] = p[1]
    <3>1. p \in g.pending /\ p[1] # q
      BY DEF Drop
    <3>2. PICK x \in g.wl : p \in g.pts /\ g.rep[x] = p[1]
      BY <3>1 DEF GraphOK, Waiting
    <3>3. x \in Node /\ x \in h.wl
      BY <1>0, <1>2 DEF Graph
    <3> QED
      BY <1>2, <1>4, <3>1, <3>2, <3>3
  <2>2. ASSUME NEW p \in {r} \X new
        PROVE  p \in h.pts /\ \E x \in h.wl : h.rep[x] = p[1]
    <3>1. p[1] = r /\ p \in waiting
      BY <1>11
    <3>2. p[2] \in image(waiting, r)
      BY <3>1 DEF image
    <3>3. r \in h.wl
      BY <1>2, <3>2
    <3> QED
      BY <1>2, <1>4, <3>1, <3>3
  <2> QED
    BY <1>2, <1>11, <2>1, <2>2 DEF Waiting
<1>9. Delivered(h, h.rep[u], P, D)
  <2> SUFFICES ASSUME NEW e \in h.assign, NEW o \in Node, <<e[1], o>> \in h.pts,
                      <<e[1], o>> \notin h.pending
               PROVE  \/ <<h.rep[e[2]], o>> \in h.pts
                      \/ /\ h.rep[u] = e[1] /\ o \in P
                         /\ \E x \in D : h.rep[x] = h.rep[e[2]]
    BY DEF Delivered
  <2>1. e \in g.assign /\ e[1] # q /\ e[1] \in Node /\ e[2] \in Node /\ g.rep[e[1]] = e[1]
    BY <1>0, <1>2 DEF Drop, GraphOK, OnReps, Graph
  <2>2. <<e[1], o>> \in g.pts /\ <<e[1], o>> \notin g.pending
    BY <1>2, <1>11, <2>1 DEF Drop
  <2>3. CASE <<g.rep[e[2]], o>> \in g.pts
    <3>1. CASE g.rep[e[2]] = q
      <4>1. h.rep[e[2]] = r
        BY <1>2, <2>1, <3>1
      <4>2. <<r, o>> \in g.pts \cup ({r} \X new)
        BY <1>3, <2>3, <3>1
      <4> QED
        BY <1>4, <4>1, <4>2
    <3>2. CASE g.rep[e[2]] # q
      <4>1. h.rep[e[2]] = g.rep[e[2]]
        BY <1>2, <2>1, <3>2
      <4> QED
        BY <1>4, <2>3, <3>2, <4>1
    <3> QED
      BY <3>1, <3>2
  <2>4. CASE u = e[1] /\ o \in P /\ \E x \in D : g.rep[x] = g.rep[e[2]]
    <3>1. h.rep[u] = e[1]
      BY <1>2, <2>1, <2>4
    <3>2. \A x \in D : g.rep[x] = g.rep[e[2]] => h.rep[x] = h.rep[e[2]]
      BY <1>2, <2>1
    <3> QED
      BY <2>4, <3>1, <3>2
  <2> QED
    BY <2>1, <2>2, <2>3, <2>4 DEF Delivered
<1>10. GraphOK(h)
  BY <1>2, <1>5, <1>6, <1>7, <1>8 DEF GraphOK
<1> QED
  BY <1>1, <1>9, <1>10

\* mergeInto then hands the edges of q to r, and those that the constraints
\* of the two ask for.
LEMMA MergeIntoKeeps ==
  ASSUME NEW g, GraphOK(g), NEW r \in Node, NEW q \in Node, r # q,
         g.rep[r] = r, g.rep[q] = q,
         NEW u \in Node, NEW P, NEW D \in SUBSET Node, Delivered(g, u, P, D)
  PROVE  /\ GraphOK(mergeInto(g, r, q))
         /\ Delivered(mergeInto(g, r, q), mergeInto(g, r, q).rep[u], P, D)
<1> DEFINE new == image(g.pts, q) \ image(g.pts, r)
           seen == g.pts \cup ({r} \X new)
           brought(R) == image(R, q) \ image(R, r)
           es == ({r} \X image(g.assign, q))
                   \cup required(seen, new, image(g.load, r), image(g.store, r),
                                 image(g.copySrc, r), image(g.copyDst, r))
                   \cup required(seen, image(seen, r), brought(g.load), brought(g.store),
                                 brought(g.copySrc), brought(g.copyDst))
           h == withoutNode(g, r, q)
<1>1. mergeInto(g, r, q) = addAssignEdges(h, es)
  BY DEF mergeInto, withoutNode
<1>2. /\ Pairs(g.pts) /\ Pairs(g.assign) /\ Pairs(g.load) /\ Pairs(g.store)
  BY DEF GraphOK, Graph, Pairs
<1>3. new \subseteq Node /\ image(g.assign, q) \subseteq Node
      /\ image(g.load, r) \subseteq Node /\ image(g.store, r) \subseteq Node
      /\ brought(g.load) \subseteq Node /\ brought(g.store) \subseteq Node
  BY <1>2, ImageNodes
<1>4. Pairs(seen)
  BY <1>2, <1>3 DEF Pairs
<1>5. image(seen, r) \subseteq Node
  BY <1>4, ImageNodes
<1>6. Pairs(required(seen, new, image(g.load, r), image(g.store, r),
                     image(g.copySrc, r), image(g.copyDst, r)))
  BY <1>3, <1>4, RequiredPairs
<1>7. Pairs(required(seen, image(seen, r), brought(g.load), brought(g.store),
                     brought(g.copySrc), brought(g.copyDst)))
  BY <1>3, <1>4, <1>5, RequiredPairs
<1>8. Pairs(es)
  <2>1. \A A, B, C : Pairs(A) /\ Pairs(B) /\ Pairs(C) => Pairs(A \cup B \cup C)
    BY DEF Pairs
  <2>2. Pairs({r} \X image(g.assign, q))
    BY <1>3 DEF Pairs
  <2> QED
    BY <1>6, <1>7, <2>1, <2>2
<1> HIDE DEF new, seen, brought, es
<1>9. GraphOK(h) /\ Delivered(h, h.rep[u], P, D)
  BY WithoutKeeps
<1> HIDE DEF h
<1>10. Kept(h, addAssignEdges(h, es))
  BY <1>8, <1>9, EdgesKeep
<1> QED
  BY <1>1, <1>9, <1>10 DEF Kept

\* merge() of any two nodes, in either order of their ids.
LEMMA MergeKeeps ==
  ASSUME NEW g, GraphOK(g), NEW v \in Node, NEW w \in Node, NEW h \in merged(g, v, w),
         NEW u \in Node, NEW P, NEW D \in SUBSET Node, Delivered(g, u, P, D)
  PROVE  GraphOK(h) /\ Delivered(h, h.rep[u], P, D)
<1>1. CASE g.rep[v] = g.rep[w]
  <2>1. h = g
    BY <1>1 DEF merged
  <2>2. \A e \in g.assign : u = e[1] => g.rep[u] = e[1]
    BY DEF GraphOK, OnReps
  <2> QED
    BY <2>1, <2>2 DEF Delivered
<1>2. CASE g.rep[v] # g.rep[w]
  <2>1. /\ g.rep[v] \in Node /\ g.rep[w] \in Node
        /\ g.rep[g.rep[v]] = g.rep[v] /\ g.rep[g.rep[w]] = g.rep[w]
    BY DEF GraphOK, Graph, Idempotent
  <2>2. h = mergeInto(g, g.rep[v], g.rep[w]) \/ h = mergeInto(g, g.rep[w], g.rep[v])
    BY <1>2 DEF merged
  <2> QED
    BY <1>2, <2>1, <2>2, MergeIntoKeeps
<1> QED
  BY <1>1, <1>2

-----------------------------------------------------------------------------
(***************************************************************************)
(* The inductive invariant.                                                *)
(***************************************************************************)
Site == UNION {{<<f, i>> : i \in 1 .. Len(Body(f))} : f \in Func \cup {Globals}}
CallInst == {c \in Site : inst(c).op = "call"}
Step == {translate(c) : c \in Site} \cup {resolve(c) : c \in CallInst}
          \cup {connect(c, f) : c \in CallInst, f \in Func}
          \cup {callbacks(c) : c \in CallInst} \cup {drain}

StepsOK ==
  /\ Todo \in Seq(Step) /\ FunctionWorklist \in Seq(Func) /\ Queued \subseteq Func
  /\ UnresolvedFPCalls \in Seq(CallInst) /\ UnresolvedCallbacks \in Seq(CallInst)
  /\ pc \in {"functions", "recheck", "done"}

\* Only propagate() has a wave under way.
WaveOK ==
  /\ wave \in [u : Node \cup {NoNode}, pending : SUBSET Node, dsts : SUBSET Node]
  /\ wave.dsts # {} => wave.u \in Node /\ next("propagate")

AndersenInv ==
  /\ GraphOK(graph) /\ WaveOK /\ StepsOK
  /\ Delivered(graph, wave.u, wave.pending, wave.dsts)

\* A graph in order from which no wave is under way.
Quiet(g) == GraphOK(g) /\ Delivered(g, NoNode, {}, {})

\* Without successors it does not matter where the wave started.
LEMMA NoWave ==
  ASSUME NEW g, NEW u, NEW P, NEW x, NEW Q
  PROVE  Delivered(g, u, P, {}) => Delivered(g, x, Q, {})
BY DEF Delivered

\* Insertions keep a graph quiet.
LEMMA QuietKept ==
  ASSUME NEW g, Quiet(g), NEW h, Kept(g, h)
  PROVE  Quiet(h)
BY DEF Quiet, Kept

\* A place in a body is an instruction of it.
LEMMA SiteInst ==
  ASSUME NEW c \in Site
  PROVE  inst(c) \in Instruction
<1>1. PICK f \in Func \cup {Globals} : \E i \in 1 .. Len(Body(f)) : c = <<f, i>>
  BY DEF Site
<1>2. PICK i \in 1 .. Len(Body(f)) : c = <<f, i>>
  BY <1>1
<1>3. Body(f) \in Seq(Instruction)
  BY ProgramAssumption
<1>4. Body(f)[i] \in Instruction
  BY <1>3
<1> QED
  BY <1>2, <1>4 DEF inst

\* The fields of an instruction.
LEMMA InstTypes ==
  ASSUME NEW I \in Instruction
  PROVE  /\ I.op \in {"object", "assign", "alias", "load", "store", "copy", "call"}
         /\ I.src \in Node /\ I.dst \in Node \cup {NoNode}
         /\ I.args \in Seq(Node \cup {NoNode}) /\ I.object \in Node \cup {NoNode}
         /\ I.op # "call" => I.dst \in Node
         /\ I.op = "call" /\ I.dst # NoNode => I.dst \in Node /\ I.object \in Node
         /\ I.op = "call" /\ isHeapAllocatingFunction(I.src) => I.dst # NoNode
BY DEF Instruction

\* What each step of Todo holds.
LEMMA StepTypes ==
  ASSUME NEW s \in Step
  PROVE  /\ s.op = "translate" => s.call \in Site
         /\ s.op \in {"resolve", "connect", "callbacks"} => s.call \in CallInst
         /\ s.op = "connect" => s.f \in Func
BY DEF Step, translate, resolve, connect, callbacks, drain

\* The first step of Todo, and those after it.
LEMMA FirstStep ==
  ASSUME StepsOK, Todo # <<>>
  PROVE  Todo[1] \in Step /\ rest \in Seq(Step)
BY DEF StepsOK, rest

\* The operands of an instruction that are functions point to themselves.
LEMMA GlobalPointeeKept ==
  ASSUME NEW g, GraphOK(g), NEW I
  PROVE  Kept(g, addGlobalPointee(g, I))
<1>1. Pairs({<<f, f>> : f \in operands(I) \cap Func})
  BY ProgramAssumption DEF Pairs
<1> QED
  BY <1>1, PointeesKeep DEF addGlobalPointee

\* One instruction other than a call.
LEMMA ConstrainKeeps ==
  ASSUME NEW g, Quiet(g), NEW I \in Instruction, I.op # "call", NEW h \in constrain(g, I)
  PROVE  Quiet(h)
<1>1. I.src \in Node /\ I.dst \in Node
  BY InstTypes
<1>2. /\ Pairs({<<I.dst, I.src>>}) /\ Pairs({<<I.src, I.dst>>})
  BY <1>1 DEF Pairs
<1>3. GraphOK(g)
  BY DEF Quiet
<1>4. CASE I.op = "object"
  <2>1. h = addPointees(g, {<<I.dst, I.src>>})
    BY <1>4 DEF constrain
  <2> QED
    BY <1>2, <1>3, <2>1, PointeesKeep, QuietKept
<1>5. CASE I.op = "assign"
  <2>1. h = addAssignEdges(g, {<<I.src, I.dst>>})
    BY <1>5 DEF constrain
  <2> QED
    BY <1>2, <1>3, <2>1, EdgesKeep, QuietKept
<1>6. CASE I.op = "alias"
  <2>1. h \in merged(g, I.dst, I.src)
    BY <1>6 DEF constrain
  <2>2. Delivered(g, I.src, {}, {})
    BY NoWave DEF Quiet
  <2>3. GraphOK(h) /\ Delivered(h, h.rep[I.src], {}, {})
    BY <1>1, <1>3, <2>1, <2>2, MergeKeeps
  <2> QED
    BY <2>3, NoWave DEF Quiet
<1>7. CASE I.op = "load"
  <2>1. h = addLoad(g, I.src, I.dst)
    BY <1>7 DEF constrain
  <2> QED
    BY <1>1, <1>3, <2>1, LoadKept, QuietKept
<1>8. CASE I.op = "store"
  <2>1. h = addStores(g, {<<I.dst, I.src>>})
    BY <1>8 DEF constrain
  <2> QED
    BY <1>2, <1>3, <2>1, StoresKept, QuietKept
<1>9. CASE I.op = "copy"
  <2>1. h = addMemCopy(g, I.src, I.dst)
    BY <1>9 DEF constrain
  <2> QED
    BY <1>1, <1>3, <2>1, MemCopyKept, QuietKept
<1> QED
  BY <1>4, <1>5, <1>6, <1>7, <1>8, <1>9, InstTypes

\* The arguments and the result of a call, bound to those of a callee.
LEMMA BindKept ==
  ASSUME NEW g, GraphOK(g), NEW c \in CallInst, NEW f \in Func
  PROVE  Kept(g, addAssignEdges(bindResult(g, c, f), bindings(c, f)))
<1>1. inst(c) \in Instruction /\ inst(c).op = "call"
  BY SiteInst DEF CallInst
<1>2. PICK I : I = inst(c)
  OBVIOUS
<1>3. /\ I.dst # NoNode => I.dst \in Node /\ I.object \in Node
      /\ I.args \in Seq(Node \cup {NoNode})
  BY <1>1, <1>2, InstTypes
<1>4. Return(f) \in Node \cup {NoNode} /\ Params(f) \in Seq(Node \cup {NoNode})
  BY ProgramAssumption
<1>5. Pairs(bindings(c, f))
  <2>1. ASSUME NEW i \in 1 .. Len(Params(f)), i <= Len(I.args), I.args[i] # NoNode,
               Params(f)[i] # NoNode
        PROVE  <<I.args[i], Params(f)[i]>> \in Node \X Node
    <3>1. i \in 1 .. Len(I.args)
      BY <1>3, <1>4, <2>1
    <3>2. I.args[i] \in Node \cup {NoNode} /\ Params(f)[i] \in Node \cup {NoNode}
      BY <1>3, <1>4, <3>1
    <3> QED
      BY <2>1, <3>2
  <2> QED
    BY <1>2, <2>1 DEF bindings, Pairs
<1>6. Kept(g, bindResult(g, c, f))
  <2>1. CASE I.dst = NoNode \/ Return(f) = NoNode
    <3>1. bindResult(g, c, f) = g
      BY <1>2, <2>1 DEF bindResult
    <3> QED
      BY <3>1 DEF Kept
  <2>2. CASE ~(I.dst = NoNode \/ Return(f) = NoNode) /\ isAllocWrapper(f)
    <3>1. bindResult(g, c, f) = addPointees(g, {<<I.dst, I.object>>})
      BY <1>2, <2>2 DEF bindResult
    <3>2. Pairs({<<I.dst, I.object>>})
      BY <1>3, <2>2 DEF Pairs
    <3> QED
      BY <3>1, <3>2, PointeesKeep
  <2>3. CASE ~(I.dst = NoNode \/ Return(f) = NoNode) /\ ~isAllocWrapper(f)
    <3>1. bindResult(g, c, f) = addAssignEdges(g, {<<Return(f), I.dst>>})
      BY <1>2, <2>3 DEF bindResult
    <3>2. Pairs({<<Return(f), I.dst>>})
      BY <1>3, <1>4, <2>3 DEF Pairs
    <3> QED
      BY <3>1, <3>2, EdgesKeep
  <2> QED
    BY <2>1, <2>2, <2>3
<1>7. PICK h : h = bindResult(g, c, f)
  OBVIOUS
<1>8. Kept(h, addAssignEdges(h, bindings(c, f)))
  BY <1>5, <1>6, <1>7, EdgesKeep DEF Kept
<1> QED
  BY <1>6, <1>7, <1>8, KeptTransitive

\* The summary of a library function, applied to a call.
LEMMA SummaryKept ==
  ASSUME NEW g, GraphOK(g), NEW c \in CallInst, NEW f \in Func
  PROVE  Kept(g, applyLibrarySummary(g, c, f))
<1>1. inst(c) \in Instruction /\ inst(c).op = "call"
  BY SiteInst DEF CallInst
<1>2. PICK I : I = inst(c)
  OBVIOUS
<1>3. /\ I.dst # NoNode => I.dst \in Node
      /\ I.args \in Seq(Node \cup {NoNode})
  BY <1>1, <1>2, InstTypes
<1> DEFINE given == {i \in 1 .. Len(I.args) : I.args[i] # NoNode}
           toArgs == {e \in LibFacts(f) : e[1] \in given /\ e[2] \in given}
           toResult == {e \in LibFacts(f) : e[1] \in given /\ e[2] = 0 /\ I.dst # NoNode}
           stores == {<<I.args[e[2]], I.args[e[1]]>> : e \in toArgs}
           results == {<<I.args[e[1]], I.dst>> : e \in toResult}
<1>4. applyLibrarySummary(g, c, f) = addAssignEdges(addStores(g, stores), results)
  BY <1>2 DEF applyLibrarySummary
<1>5. \A i \in given : I.args[i] \in Node
  BY <1>3
<1> HIDE DEF given
<1>6. Pairs(stores)
  BY <1>5 DEF Pairs
<1>7. Pairs(results)
  BY <1>3, <1>5 DEF Pairs
<1> HIDE DEF stores, results
<1>8. PICK h : h = addStores(g, stores)
  OBVIOUS
<1>9. Kept(g, h)
  BY <1>6, <1>8, StoresKept
<1>10. Kept(h, addAssignEdges(h, results))
  BY <1>7, <1>9, EdgesKeep DEF Kept
<1> QED
  BY <1>4, <1>8, <1>9, <1>10, KeptTransitive

-----------------------------------------------------------------------------
\* A function on 1 .. n is a sequence.
LEMMA FunctionIsSeq ==
  ASSUME NEW S, NEW n \in Nat, NEW s \in [1 .. n -> S]
  PROVE  s \in Seq(S)
OBVIOUS

\* Sequences concatenate.
LEMMA ConcatSeq ==
  ASSUME NEW S, NEW s \in Seq(S), NEW t \in Seq(S)
  PROVE  s \o t \in Seq(S)
OBVIOUS

\* The orders of a finite set are sequences of its elements.
LEMMA OrderTypes ==
  ASSUME NEW S, NEW T \in SUBSET S, IsFiniteSet(T), NEW q \in SetToSeqs(T)
  PROVE  q \in Seq(S)
<1>1. Cardinality(T) \in Nat
  BY FS_CardinalityType
<1>2. q \in [1 .. Cardinality(T) -> T]
  BY DEF SetToSeqs
<1>3. q \in [1 .. Cardinality(T) -> S]
  BY <1>2
<1> QED
  BY <1>1, <1>3, FunctionIsSeq

\* enqueue adds functions to the worklist.
LEMMA EnqueueTypes ==
  ASSUME StepsOK, NEW fs \in SUBSET Func, enqueue(fs)
  PROVE  FunctionWorklist' \in Seq(Func) /\ Queued' \subseteq Func
<1>1. IsFiniteSet(fs)
  BY ProgramAssumption, FS_Subset
<1>2. PICK q \in SetToSeqs(fs) : FunctionWorklist' = FunctionWorklist \o q
  BY DEF enqueue
<1>3. q \in Seq(Func)
  BY <1>1, OrderTypes
<1>4. FunctionWorklist' \in Seq(Func)
  BY <1>2, <1>3, ConcatSeq DEF StepsOK
<1> QED
  BY <1>4 DEF enqueue, StepsOK

\* A sequence of places as one of steps.
LEMMA MapSteps ==
  ASSUME NEW s \in Seq(CallInst)
  PROVE  mapSeq(resolve, s) \in Seq(Step) /\ mapSeq(callbacks, s) \in Seq(Step)
<1>1. Len(s) \in Nat /\ \A i \in 1 .. Len(s) : s[i] \in CallInst
  OBVIOUS
<1>2. [i \in 1 .. Len(s) |-> resolve(s[i])] \in [1 .. Len(s) -> Step]
  BY <1>1 DEF Step
<1>3. [i \in 1 .. Len(s) |-> callbacks(s[i])] \in [1 .. Len(s) -> Step]
  BY <1>1 DEF Step
<1> QED
  BY <1>1, <1>2, <1>3, FunctionIsSeq DEF mapSeq

\* The steps of a body.
LEMMA BodyOnly ==
  ASSUME NEW f \in Func \cup {Globals}
  PROVE  bodyOf(f) \in Seq(Step)
<1>1. Len(Body(f)) \in Nat
  BY ProgramAssumption
<1>2. \A i \in 1 .. Len(Body(f)) : <<f, i>> \in Site
  BY DEF Site
<1>3. \A i \in 1 .. Len(Body(f)) : translate(<<f, i>>) \in Step
  BY <1>2 DEF Step
<1>4. bodyOf(f) \in [1 .. Len(Body(f)) -> Step]
  BY <1>3 DEF bodyOf
<1> QED
  BY <1>1, <1>4, FunctionIsSeq

\* The steps of a function, its propagation included.
LEMMA BodySteps ==
  ASSUME NEW f \in Func \cup {Globals}
  PROVE  bodyOf(f) \o <<drain>> \in Seq(Step)
<1>1. bodyOf(f) \in Seq(Step)
  BY BodyOnly
<1>2. <<drain>> \in Seq(Step)
  BY DEF Step
<1> QED
  BY <1>1, <1>2, ConcatSeq

\* Outside propagate() no wave is under way.
LEMMA Calm ==
  ASSUME AndersenInv, ~next("propagate")
  PROVE  wave.dsts = {} /\ Quiet(graph)
<1>1. wave.dsts = {}
  BY DEF AndersenInv, WaveOK
<1>2. Delivered(graph, wave.u, wave.pending, {})
  BY <1>1 DEF AndersenInv
<1>3. Delivered(graph, NoNode, {}, {})
  BY <1>2, NoWave
<1> QED
  BY <1>1, <1>3 DEF Quiet, AndersenInv

\* A step outside propagate() has only the graph and the steps to keep.
LEMMA CalmStep ==
  ASSUME AndersenInv, wave.dsts = {}, UNCHANGED wave, Quiet(graph'), StepsOK'
  PROVE  AndersenInv'
<1>1. WaveOK'
  BY DEF AndersenInv, WaveOK
<1>2. PICK h, u, P : h = graph' /\ u = wave.u /\ P = wave.pending
  OBVIOUS
<1>3. GraphOK(h) /\ Delivered(h, u, P, {})
  BY <1>2, NoWave DEF Quiet
<1>4. GraphOK(graph') /\ Delivered(graph', wave'.u, wave'.pending, wave'.dsts)
  BY <1>2, <1>3
<1> QED
  BY <1>1, <1>4 DEF AndersenInv

\* Initially the graph holds the arguments of the entry functions.
LEMMA InitInv == Init => AndersenInv
<1> SUFFICES ASSUME Init PROVE AndersenInv
  OBVIOUS
<1> DEFINE args == (UNION {ToSet(Params(f)) : f \in ToSet(Entries)}) \ {NoNode}
           ps == {<<p, ArgObject(p)>> : p \in args}
<1>1. graph = addPointees(emptyGraph, ps)
  BY DEF Init
<1>2. \A f \in ToSet(Entries) : f \in Func
  BY ProgramAssumption DEF ToSet
<1>3. Pairs(ps)
  <2>1. ASSUME NEW p \in args
        PROVE  p \in Node /\ ArgObject(p) \in Node
    <3>1. PICK f \in ToSet(Entries) : p \in ToSet(Params(f))
      OBVIOUS
    <3>2. Params(f) \in Seq(Node \cup {NoNode})
      BY <1>2, ProgramAssumption
    <3>3. PICK i \in 1 .. Len(Params(f)) : p = Params(f)[i]
      BY <3>1, <3>2 DEF ToSet
    <3>4. p \in Node
      BY <3>2, <3>3
    <3>5. p # NoNode
      BY <3>4, ProgramAssumption
    <3> QED
      BY <1>2, <3>3, <3>4, <3>5, ProgramAssumption
  <2> HIDE DEF args
  <2> QED
    BY <2>1 DEF Pairs
<1> HIDE DEF ps
<1>4. GraphOK(emptyGraph) /\ Delivered(emptyGraph, NoNode, {}, {})
  <2>1. emptyGraph \in Graph
    BY DEF emptyGraph, Graph
  <2>2. /\ Idempotent(emptyGraph) /\ OnReps(emptyGraph, emptyGraph.pts)
        /\ OnReps(emptyGraph, emptyGraph.assign) /\ Waiting(emptyGraph)
    BY DEF emptyGraph, Idempotent, OnReps, Waiting
  <2>3. ConstraintsOnReps(emptyGraph)
    BY DEF emptyGraph, ConstraintsOnReps, OnReps
  <2>4. Delivered(emptyGraph, NoNode, {}, {})
    BY DEF emptyGraph, Delivered
  <2> QED
    BY <2>1, <2>2, <2>3, <2>4 DEF GraphOK
<1>5. GraphOK(graph) /\ Delivered(graph, NoNode, {}, {})
  BY <1>1, <1>3, <1>4, PointeesKeep DEF Kept
<1>6. WaveOK /\ wave.u = NoNode /\ wave.pending = {} /\ wave.dsts = {}
  BY DEF Init, idle, WaveOK
<1>7. StepsOK
  <2>1. Todo \in Seq(Step)
    BY BodySteps DEF Init
  <2>2. FunctionWorklist \in Seq(Func) /\ Queued \subseteq Func
    BY <1>2, ProgramAssumption DEF Init
  <2> QED
    BY <2>1, <2>2 DEF Init, StepsOK
<1> QED
  BY <1>5, <1>6, <1>7 DEF AndersenInv

-----------------------------------------------------------------------------
(***************************************************************************)
(* Each action keeps the invariant.                                        *)
(***************************************************************************)

\* Any instruction but a call.
LEMMA ProcessInstructionKeeps ==
  ASSUME AndersenInv, processInstruction
  PROVE  AndersenInv'
<1>1. next("translate") /\ inst(Todo[1].call).op # "call" /\ ~next("propagate")
  BY DEF processInstruction, next
<1>2. StepsOK
  BY DEF AndersenInv
<1>3. Todo[1] \in Step /\ rest \in Seq(Step) /\ Todo[1].call \in Site
  BY <1>1, <1>2, FirstStep, StepTypes DEF next
<1>4. PICK I : I = inst(Todo[1].call)
  OBVIOUS
<1>5. I \in Instruction /\ I.op # "call"
  BY <1>1, <1>3, <1>4, SiteInst
<1>6. PICK g, h : g = addGlobalPointee(graph, I) /\ h = graph'
  OBVIOUS
<1>7. Quiet(g)
  <2>1. PICK f : f = graph
    OBVIOUS
  <2>2. Quiet(f) /\ GraphOK(f)
    BY <1>1, <2>1, Calm DEF Quiet
  <2> QED
    BY <1>6, <2>1, <2>2, GlobalPointeeKept, QuietKept
<1>8. h \in constrain(g, I)
  BY <1>4, <1>6 DEF processInstruction
<1>9. Quiet(graph')
  BY <1>5, <1>6, <1>7, <1>8, ConstrainKeeps
<1>10. StepsOK'
  BY <1>2, <1>3 DEF StepsOK, processInstruction
<1> QED
  BY <1>1, <1>9, <1>10, Calm, CalmStep DEF processInstruction

\* A call: its callee, or the resolution of the pointer to it, comes next.
LEMMA HandleCallKeeps ==
  ASSUME AndersenInv, handleCall
  PROVE  AndersenInv'
<1>1. next("translate") /\ inst(Todo[1].call).op = "call" /\ ~next("propagate")
  BY DEF handleCall, next
<1>2. StepsOK
  BY DEF AndersenInv
<1>3. Todo[1] \in Step /\ rest \in Seq(Step) /\ Todo[1].call \in Site
  BY <1>1, <1>2, FirstStep, StepTypes DEF next
<1>4. PICK c, I : c = Todo[1].call /\ I = inst(c)
  OBVIOUS
<1>5. c \in CallInst /\ I \in Instruction /\ I.op = "call"
  BY <1>1, <1>3, <1>4, SiteInst DEF CallInst
<1>6. PICK f, g : f = graph /\ g = addGlobalPointee(graph, [I EXCEPT !.src = NoNode])
  OBVIOUS
<1>7. Quiet(f) /\ Kept(f, g) /\ Quiet(g) /\ GraphOK(g)
  <2>1. Quiet(f) /\ GraphOK(f)
    BY <1>1, <1>6, Calm DEF Quiet
  <2>2. Kept(f, g)
    BY <1>6, <2>1, GlobalPointeeKept
  <2> QED
    BY <2>1, <2>2, QuietKept DEF Kept
<1>8. graph' = IF isHeapAllocatingFunction(I.src) THEN addPointees(g, {<<I.dst, I.object>>})
               ELSE g
  BY <1>4, <1>6 DEF handleCall
<1>9. Quiet(graph')
  <2>1. CASE isHeapAllocatingFunction(I.src)
    <3>1. I.dst \in Node /\ I.object \in Node
      BY <1>5, <2>1, InstTypes
    <3>2. Pairs({<<I.dst, I.object>>})
      BY <3>1 DEF Pairs
    <3>3. PICK h : h = addPointees(g, {<<I.dst, I.object>>})
      OBVIOUS
    <3>4. Quiet(h)
      BY <1>7, <3>2, <3>3, PointeesKeep, QuietKept
    <3> QED
      BY <1>8, <2>1, <3>3, <3>4
  <2>2. CASE ~isHeapAllocatingFunction(I.src)
    BY <1>7, <1>8, <2>2
  <2> QED
    BY <2>1, <2>2
<1>10. StepsOK'
  <2>1. CASE I.src \in Func
    <3>1. Todo' = <<connect(c, I.src)>> \o rest /\ UNCHANGED UnresolvedFPCalls
      BY <1>4, <2>1 DEF handleCall
    <3>2. connect(c, I.src) \in Step
      BY <1>5, <2>1 DEF Step
    <3>3. Todo' \in Seq(Step)
      BY <1>3, <3>1, <3>2, ConcatSeq
    <3> QED
      BY <1>2, <3>1, <3>3 DEF StepsOK, handleCall
  <2>2. CASE I.src \notin Func
    <3>1. /\ Todo' = <<resolve(c)>> \o rest
          /\ UnresolvedFPCalls' = Append(UnresolvedFPCalls, c)
      BY <1>4, <2>2 DEF handleCall
    <3>2. resolve(c) \in Step
      BY <1>5 DEF Step
    <3>3. Todo' \in Seq(Step)
      BY <1>3, <3>1, <3>2, ConcatSeq
    <3>4. UnresolvedFPCalls' \in Seq(CallInst)
      BY <1>2, <1>5, <3>1 DEF StepsOK
    <3> QED
      BY <1>2, <3>3, <3>4 DEF StepsOK, handleCall
  <2> QED
    BY <2>1, <2>2
<1> QED
  BY <1>1, <1>9, <1>10, Calm, CalmStep DEF handleCall

\* The functions that the pointees of the called pointer yield.
LEMMA ResolveKeeps ==
  ASSUME AndersenInv, resolveFPCall
  PROVE  AndersenInv'
<1>1. next("resolve") /\ ~next("propagate")
  BY DEF resolveFPCall, next
<1>2. StepsOK
  BY DEF AndersenInv
<1>3. Todo[1] \in Step /\ rest \in Seq(Step) /\ Todo[1].call \in CallInst
  BY <1>1, <1>2, FirstStep, StepTypes DEF next
<1>4. PICK c, fs : /\ c = Todo[1].call
                   /\ fs = UNION {targetsAt(o, c) : o \in pts(inst(c).src)}
  OBVIOUS
<1>5. \A o \in pts(inst(c).src) : o \in Node
  BY ImageNodes DEF pts, AndersenInv, GraphOK, Graph, Pairs
<1>6. \A o \in Node : targetsAt(o, c) \subseteq Func
  <2>1. PICK f \in Func \cup {Globals} : \E i \in 1 .. Len(Body(f)) : c = <<f, i>>
    BY <1>3, <1>4 DEF CallInst, Site
  <2>2. PICK i \in 1 .. Len(Body(f)) : c = <<f, i>>
    BY <2>1
  <2> QED
    BY <2>2, ProgramAssumption
<1>7. fs \subseteq Func /\ IsFiniteSet(fs)
  <2>1. fs \subseteq Func
    BY <1>4, <1>5, <1>6
  <2> QED
    BY <2>1, ProgramAssumption, FS_Subset
<1>8. PICK q \in SetToSeqs(UNION {targetsAt(o, Todo[1].call) :
                                 o \in pts(inst(Todo[1].call).src)}) :
        Todo' = [i \in 1 .. Len(q) |-> connect(Todo[1].call, q[i])] \o rest
  BY DEF resolveFPCall, mapSeq
<1>9. q \in Seq(Func)
  <2>1. q \in SetToSeqs(fs)
    BY <1>4, <1>8
  <2> QED
    BY <1>7, <2>1, OrderTypes
<1>10. [i \in 1 .. Len(q) |-> connect(Todo[1].call, q[i])] \in Seq(Step)
  <2>1. Len(q) \in Nat /\ \A i \in 1 .. Len(q) : q[i] \in Func
    BY <1>9
  <2>2. \A i \in 1 .. Len(q) : connect(Todo[1].call, q[i]) \in Step
    BY <1>3, <2>1 DEF Step
  <2>3. PICK s : s = [i \in 1 .. Len(q) |-> connect(Todo[1].call, q[i])]
    OBVIOUS
  <2>4. s \in [1 .. Len(q) -> Step]
    BY <2>2, <2>3
  <2> QED
    BY <2>1, <2>3, <2>4, FunctionIsSeq
<1>11. Todo' \in Seq(Step)
  <2>1. PICK s, t : /\ s = [i \in 1 .. Len(q) |-> connect(Todo[1].call, q[i])]
                    /\ t = rest
    OBVIOUS
  <2>2. s \in Seq(Step) /\ t \in Seq(Step) /\ Todo' = s \o t
    BY <1>3, <1>8, <1>10, <2>1
  <2> QED
    BY <2>2, ConcatSeq
<1>12. StepsOK'
  BY <1>2, <1>11 DEF StepsOK, resolveFPCall
<1> QED
  BY <1>1, <1>12, Calm, CalmStep DEF resolveFPCall

\* The functions that arguments of a call may be.
LEMMA EntriesAreFunctions ==
  ASSUME NEW c
  PROVE  entriesOf(c) \subseteq Func
BY DEF entriesOf

\* A callee is connected to a call.
LEMMA ConnectKeeps ==
  ASSUME AndersenInv, connectCallee
  PROVE  AndersenInv'
<1>1. next("connect") /\ ~next("propagate")
  BY DEF connectCallee, next
<1>2. StepsOK
  BY DEF AndersenInv
<1>3. /\ Todo[1] \in Step /\ rest \in Seq(Step) /\ Todo[1].call \in CallInst
      /\ Todo[1].f \in Func
  BY <1>1, <1>2, FirstStep, StepTypes DEF next
<1>4. PICK c \in CallInst, f \in Func : c = Todo[1].call /\ f = Todo[1].f
  BY <1>3
<1>5. PICK g : g = graph
  OBVIOUS
<1>6. Quiet(g) /\ GraphOK(g)
  BY <1>1, <1>5, Calm DEF Quiet
<1>7. CASE /\ Todo' = rest
           /\ UNCHANGED <<graph, FunctionWorklist, Queued, UnresolvedCallbacks, Changed>>
  <2>1. StepsOK'
    BY <1>2, <1>3, <1>7 DEF StepsOK, connectCallee
  <2> QED
    BY <1>1, <1>5, <1>6, <1>7, <2>1, Calm, CalmStep DEF connectCallee
<1>8. CASE /\ Todo' = rest /\ graph' = applyLibrarySummary(graph, c, f)
           /\ UNCHANGED <<FunctionWorklist, Queued, UnresolvedCallbacks, Changed>>
  <2>1. StepsOK'
    BY <1>2, <1>3, <1>8 DEF StepsOK, connectCallee
  <2>2. PICK h : h = graph'
    OBVIOUS
  <2>3. Quiet(h)
    BY <1>5, <1>6, <1>8, <2>2, SummaryKept, QuietKept
  <2> QED
    BY <1>1, <2>1, <2>2, <2>3, Calm, CalmStep DEF connectCallee
<1>9. CASE /\ Todo' = rest /\ enqueue(entriesOf(c)) /\ UNCHANGED <<graph, Changed>>
           /\ UnresolvedCallbacks' = Append(UnresolvedCallbacks, c)
  <2>1. FunctionWorklist' \in Seq(Func) /\ Queued' \subseteq Func
    BY <1>2, <1>9, EnqueueTypes, EntriesAreFunctions
  <2>2. UnresolvedCallbacks' \in Seq(CallInst)
    BY <1>2, <1>9 DEF StepsOK
  <2>3. StepsOK'
    BY <1>2, <1>3, <1>9, <2>1, <2>2 DEF StepsOK, connectCallee
  <2> QED
    BY <1>1, <1>5, <1>6, <1>9, <2>3, Calm, CalmStep DEF connectCallee
<1>10. CASE /\ enqueue({f} \ Queued)
            /\ graph' = addAssignEdges(bindResult(graph, c, f), bindings(c, f))
            /\ Todo' = <<drain>> \o rest /\ Changed' = TRUE
            /\ UNCHANGED UnresolvedCallbacks
  <2>1. FunctionWorklist' \in Seq(Func) /\ Queued' \subseteq Func
    <3>1. {f} \ Queued \in SUBSET Func
      OBVIOUS
    <3> QED
      BY <1>2, <1>10, <3>1, EnqueueTypes
  <2>2. Todo' \in Seq(Step)
    <3>1. <<drain>> \in Seq(Step)
      BY DEF Step
    <3> QED
      BY <1>3, <1>10, <3>1, ConcatSeq
  <2>3. StepsOK'
    BY <1>2, <1>10, <2>1, <2>2 DEF StepsOK, connectCallee
  <2>4. PICK h : h = graph'
    OBVIOUS
  <2>5. Quiet(h)
    BY <1>5, <1>6, <1>10, <2>4, BindKept, QuietKept
  <2> QED
    BY <1>1, <2>3, <2>4, <2>5, Calm, CalmStep DEF connectCallee
<1>11. \/ /\ Todo' = rest
          /\ UNCHANGED <<graph, FunctionWorklist, Queued, UnresolvedCallbacks, Changed>>
       \/ /\ Todo' = rest /\ graph' = applyLibrarySummary(graph, c, f)
          /\ UNCHANGED <<FunctionWorklist, Queued, UnresolvedCallbacks, Changed>>
       \/ /\ Todo' = rest /\ UNCHANGED <<graph, Changed>>
          /\ \/ /\ enqueue(entriesOf(c))
                /\ UnresolvedCallbacks' = Append(UnresolvedCallbacks, c)
             \/ UNCHANGED <<FunctionWorklist, Queued, UnresolvedCallbacks>>
       \/ /\ enqueue({f} \ Queued)
          /\ graph' = addAssignEdges(bindResult(graph, c, f), bindings(c, f))
          /\ Todo' = <<drain>> \o rest /\ Changed' = TRUE
          /\ UNCHANGED UnresolvedCallbacks
  <2>1. \/ /\ Todo' = rest
           /\ UNCHANGED <<graph, FunctionWorklist, Queued, UnresolvedCallbacks, Changed>>
        \/ /\ Todo' = rest /\ graph' = applyLibrarySummary(graph, Todo[1].call, Todo[1].f)
           /\ UNCHANGED <<FunctionWorklist, Queued, UnresolvedCallbacks, Changed>>
        \/ /\ Todo' = rest /\ UNCHANGED <<graph, Changed>>
           /\ \/ /\ enqueue(entriesOf(Todo[1].call))
                 /\ UnresolvedCallbacks' = Append(UnresolvedCallbacks, Todo[1].call)
              \/ UNCHANGED <<FunctionWorklist, Queued, UnresolvedCallbacks>>
        \/ /\ enqueue({Todo[1].f} \ Queued)
           /\ graph' = addAssignEdges(bindResult(graph, Todo[1].call, Todo[1].f),
                                      bindings(Todo[1].call, Todo[1].f))
           /\ Todo' = <<drain>> \o rest /\ Changed' = TRUE
           /\ UNCHANGED UnresolvedCallbacks
    BY Zenon DEF connectCallee
  <2> QED
    BY <1>4, <2>1
<1> QED
  BY <1>7, <1>8, <1>9, <1>10, <1>11

\* The pointees of the arguments of an unresolved callback are looked at
\* again.
LEMMA CallbackKeeps ==
  ASSUME AndersenInv, checkUnresolvedCallback
  PROVE  AndersenInv'
<1>1. next("callbacks") /\ ~next("propagate")
  BY DEF checkUnresolvedCallback, next
<1>2. StepsOK
  BY DEF AndersenInv
<1>3. rest \in Seq(Step)
  BY <1>1, <1>2, FirstStep DEF next
<1>4. FunctionWorklist' \in Seq(Func) /\ Queued' \subseteq Func
  BY <1>2, EnqueueTypes, EntriesAreFunctions DEF checkUnresolvedCallback
<1>5. StepsOK'
  BY <1>2, <1>3, <1>4 DEF StepsOK, checkUnresolvedCallback
<1> QED
  BY <1>1, <1>5, Calm, CalmStep DEF checkUnresolvedCallback

-----------------------------------------------------------------------------
\* A node is taken off the worklist: what was pending there is the wave.
LEMMA PopNodeKeeps ==
  ASSUME AndersenInv, popNode
  PROVE  AndersenInv'
<1>1. PICK g : g = graph
  OBVIOUS
<1>2. /\ GraphOK(g) /\ g \in Graph /\ Pairs(g.pending) /\ Pairs(g.assign)
  BY <1>1 DEF AndersenInv, GraphOK, Graph, Pairs
<1>3. PICK w \in graph.wl :
        /\ graph' = [graph EXCEPT !.wl = @ \ {w}, !.pending = {p \in @ : p[1] # graph.rep[w]}]
        /\ wave' = IF image(graph.pending, graph.rep[w]) = {} THEN idle
                   ELSE [u |-> graph.rep[w], pending |-> image(graph.pending, graph.rep[w]),
                         dsts |-> {graph.rep[v] : v \in image(graph.assign, graph.rep[w])}]
  BY Zenon DEF popNode, rep
<1>4. PICK u : u = g.rep[w]
  OBVIOUS
<1>5. u \in Node
  BY <1>1, <1>2, <1>3, <1>4 DEF Graph
<1>6. PICK h : h = graph'
  OBVIOUS
<1>7. /\ h \in Graph /\ h.rep = g.rep /\ h.pts = g.pts /\ h.assign = g.assign
      /\ h.load = g.load /\ h.store = g.store /\ h.copySrc = g.copySrc
      /\ h.copyDst = g.copyDst /\ h.wl = g.wl \ {w}
      /\ h.pending = {p \in g.pending : p[1] # u}
  BY <1>1, <1>2, <1>3, <1>4, <1>6 DEF Graph
<1>8. GraphOK(h)
  <2>1. /\ Idempotent(h) /\ ConstraintsOnReps(h) /\ OnReps(h, h.pts)
        /\ OnReps(h, h.assign)
    BY <1>2, <1>7 DEF GraphOK, Idempotent, ConstraintsOnReps, OnReps
  <2>2. Waiting(h)
    <3>1. ASSUME NEW p \in h.pending
          PROVE  p \in h.pts /\ \E x \in h.wl : h.rep[x] = p[1]
      <4>1. p \in g.pending /\ p[1] # u
        BY <1>7
      <4>2. PICK x \in g.wl : p \in g.pts /\ g.rep[x] = p[1]
        BY <1>2, <4>1 DEF GraphOK, Waiting
      <4>3. x # w
        BY <1>4, <4>1, <4>2
      <4> QED
        BY <1>7, <4>2, <4>3
    <3> QED
      BY <3>1 DEF Waiting
  <2> QED
    BY <1>7, <2>1, <2>2 DEF GraphOK
<1>9. /\ StepsOK' /\ Todo' = Todo /\ next("propagate")
  BY DEF AndersenInv, StepsOK, popNode, propagating
<1>10. \A e \in g.assign, o \in Node :
         <<e[1], o>> \in g.pts => \/ <<g.rep[e[2]], o>> \in g.pts
                                  \/ <<e[1], o>> \in g.pending
  <2>1. Delivered(g, wave.u, wave.pending, {})
    BY <1>1 DEF AndersenInv, popNode
  <2> QED
    BY <2>1 DEF Delivered
<1>11. CASE image(g.pending, u) = {}
  <2>1. \A o : <<u, o>> \notin g.pending
    BY <1>2, <1>11, ImageDef
  <2>2. Delivered(h, NoNode, {}, {})
    BY <1>7, <1>10, <2>1 DEF Delivered
  <2>3. wave' = idle
    BY <1>1, <1>3, <1>4, <1>11
  <2>4. wave'.u = NoNode /\ wave'.pending = {} /\ wave'.dsts = {} /\ WaveOK'
    BY <2>3 DEF idle, WaveOK
  <2> QED
    BY <1>6, <1>8, <1>9, <2>2, <2>4 DEF AndersenInv
<1>12. CASE image(g.pending, u) # {}
  <2>1. PICK P, D : /\ P = image(graph.pending, graph.rep[w])
                    /\ D = {graph.rep[v] : v \in image(graph.assign, graph.rep[w])}
    OBVIOUS
  <2>2. P = image(g.pending, u) /\ \A x : x \in D <=> \E v \in image(g.assign, u) : x = g.rep[v]
    BY <1>1, <1>4, <2>1
  <2>3. P \subseteq Node /\ D \subseteq Node
    BY <1>2, <2>2, ImageNodes DEF Graph
  <2>4. wave' = [u |-> u, pending |-> P, dsts |-> D]
    BY <1>1, <1>3, <1>4, <1>12, <2>1
  <2>5. Delivered(h, u, P, D)
    <3> SUFFICES ASSUME NEW e \in h.assign, NEW o \in Node, <<e[1], o>> \in h.pts,
                        <<e[1], o>> \notin h.pending, <<h.rep[e[2]], o>> \notin h.pts
                 PROVE  u = e[1] /\ o \in P /\ \E x \in D : h.rep[x] = h.rep[e[2]]
      BY DEF Delivered
    <3>1. <<e[1], o>> \in g.pending /\ u = e[1]
      BY <1>7, <1>10
    <3>2. o \in P
      BY <1>2, <2>2, <3>1, ImageDef
    <3>3. e = <<u, e[2]>> /\ e[2] \in Node
      BY <1>2, <1>7, <3>1 DEF Pairs
    <3>4. e[2] \in image(g.assign, u)
      BY <1>2, <1>7, <3>3, ImageDef
    <3>5. g.rep[e[2]] \in D /\ g.rep[g.rep[e[2]]] = g.rep[e[2]]
      BY <1>2, <2>2, <3>3, <3>4 DEF GraphOK, Idempotent
    <3> QED
      BY <1>7, <3>1, <3>2, <3>5
  <2>6. WaveOK'
    BY <1>5, <1>9, <2>3, <2>4 DEF WaveOK, next
  <2>7. wave'.u = u /\ wave'.pending = P /\ wave'.dsts = D
    BY <2>4
  <2> QED
    BY <1>6, <1>8, <1>9, <2>5, <2>6, <2>7 DEF AndersenInv
<1> QED
  BY <1>11, <1>12

\* A successor that has the whole wave can be taken off it.
LEMMA Visited ==
  ASSUME NEW g, GraphOK(g), NEW u, NEW P, NEW D, NEW d, Delivered(g, u, P, D),
         \A o \in P : <<g.rep[d], o>> \in g.pts
  PROVE  Delivered(g, u, P, D \ {d})
BY DEF Delivered

(***************************************************************************)
(* The wave visits a successor d: the successor gets what it lacks, or is  *)
(* merged with the node of the wave, or has all of it.                     *)
(***************************************************************************)
LEMMA VisitSuccessorKeeps ==
  ASSUME AndersenInv, visitSuccessor
  PROVE  AndersenInv'
<1>1. PICK g, h, u, P, D : /\ g = graph /\ h = graph' /\ u = wave.u
                           /\ P = wave.pending /\ D = wave.dsts
  OBVIOUS
<1>2. /\ GraphOK(g) /\ g \in Graph /\ Pairs(g.pts) /\ Delivered(g, u, P, D)
      /\ P \subseteq Node /\ D \subseteq Node
  BY <1>1 DEF AndersenInv, GraphOK, Graph, Pairs, WaveOK
<1>3. PICK d \in D :
        /\ \/ /\ P \ image(g.pts, g.rep[g.rep[d]]) # {} /\ g.rep[d] # u
              /\ h = onNewPointee(g, g.rep[d], P \ image(g.pts, g.rep[g.rep[d]]))
           \/ /\ P \ image(g.pts, g.rep[g.rep[d]]) = {} /\ g.rep[d] # u
              /\ <<g.rep[d], u>> \in g.assign
              /\ h \in merged(g, u, g.rep[d])
           \/ /\ \/ g.rep[d] = u
                 \/ /\ P \ image(g.pts, g.rep[g.rep[d]]) = {}
                    /\ <<g.rep[d], u>> \notin g.assign
              /\ h = g
        /\ wave' = [wave EXCEPT !.dsts = @ \ {d}, !.u = h.rep[u]]
  BY <1>1 DEF visitSuccessor, rep, pts
<1>4. PICK v : v = g.rep[d]
  OBVIOUS
<1>5. v \in Node /\ d \in Node /\ g.rep[v] = v
  BY <1>2, <1>4 DEF GraphOK, Graph, Idempotent
<1>6. PICK new : new = P \ image(g.pts, v)
  OBVIOUS
<1>7. u \in Node
  BY <1>1, <1>3 DEF AndersenInv, WaveOK
<1>8. GraphOK(h) /\ Delivered(h, h.rep[u], P, D \ {d})
  <2>0. ASSUME NEW f, GraphOK(f), f.rep = g.rep, NEW Q, Delivered(f, u, P, Q)
        PROVE  Delivered(f, f.rep[u], P, Q)
    <3>1. \A e \in f.assign : u = e[1] => f.rep[u] = e[1]
      BY <2>0 DEF GraphOK, OnReps
    <3> QED
      BY <2>0, <3>1 DEF Delivered
  <2>1. CASE h = onNewPointee(g, v, new)
    <3>1. new \in SUBSET Node
      BY <1>2, <1>6
    <3>2. PICK f : f = addPointees(g, {v} \X new)
      OBVIOUS
    <3>3. Kept(g, f) /\ Kept(f, h)
      BY <1>2, <1>5, <2>1, <3>1, <3>2, NewPointeeKept
    <3>4. GraphOK(f) /\ f.rep = g.rep /\ Delivered(f, u, P, D)
      BY <1>2, <3>3 DEF Kept
    <3>5. \A o \in P : <<f.rep[d], o>> \in f.pts
      <4>1. Pairs({v} \X new)
        BY <1>5, <3>1 DEF Pairs
      <4>2. f.pts = g.pts \cup ({<<g.rep[p[1]], p[2]>> : p \in {v} \X new} \ g.pts)
        BY <1>2, <3>2, <4>1, PointeeFields
      <4>3. ASSUME NEW o \in new
            PROVE  <<v, o>> \in f.pts
        <5>1. <<v, o>> \in {v} \X new
          OBVIOUS
        <5>2. <<v, o>> \in {<<g.rep[p[1]], p[2]>> : p \in {v} \X new}
          BY <1>5, <5>1
        <5> QED
          BY <4>2, <5>2
      <4>4. ASSUME NEW o \in P, o \notin new
            PROVE  <<v, o>> \in f.pts
        BY <1>2, <1>6, <4>2, <4>4, ImageDef
      <4> QED
        BY <1>4, <3>4, <4>3, <4>4
    <3>6. Delivered(f, u, P, D \ {d})
      BY <3>4, <3>5, Visited
    <3>7. GraphOK(h) /\ h.rep = g.rep /\ Delivered(h, u, P, D \ {d})
      BY <3>3, <3>4, <3>6 DEF Kept
    <3> QED
      BY <2>0, <3>7
  <2>2. ASSUME new = {}
        PROVE  Delivered(g, u, P, D \ {d})
    <3>1. \A o \in P : <<g.rep[d], o>> \in g.pts
      BY <1>2, <1>4, <1>6, <2>2, ImageDef
    <3> QED
      BY <1>2, <3>1, Visited
  <2>3. CASE new = {} /\ h \in merged(g, u, v)
    BY <1>2, <1>5, <1>7, <2>2, <2>3, MergeKeeps
  <2>4. CASE h = g /\ new = {}
    BY <1>2, <2>0, <2>2, <2>4
  <2>5. CASE h = g /\ v = u
    <3>1. Delivered(g, u, P, D \ {d})
      <4> SUFFICES ASSUME NEW e \in g.assign, NEW o \in Node, <<e[1], o>> \in g.pts,
                          <<g.rep[e[2]], o>> \notin g.pts, <<e[1], o>> \notin g.pending
                   PROVE  /\ u = e[1] /\ o \in P
                          /\ \E x \in D \ {d} : g.rep[x] = g.rep[e[2]]
        BY DEF Delivered
      <4>1. PICK x \in D : u = e[1] /\ o \in P /\ g.rep[x] = g.rep[e[2]]
        BY <1>2 DEF Delivered
      <4>2. x # d
        BY <1>4, <2>5, <4>1
      <4> QED
        BY <4>1, <4>2
    <3> QED
      BY <1>2, <2>0, <2>5, <3>1
  <2> QED
    BY <1>3, <1>4, <1>5, <1>6, <2>1, <2>3, <2>4, <2>5
<1>9. StepsOK' /\ Todo' = Todo /\ next("propagate")
  BY DEF AndersenInv, StepsOK, visitSuccessor, propagating
<1>10. h.rep[u] \in Node
  BY <1>7, <1>8 DEF GraphOK, Graph
<1>11. /\ wave'.u = h.rep[u] /\ wave'.pending = P /\ wave'.dsts = D \ {d}
       /\ WaveOK'
  BY <1>1, <1>3, <1>9, <1>10 DEF AndersenInv, WaveOK, next
<1> QED
  BY <1>1, <1>8, <1>9, <1>11 DEF AndersenInv

\* propagate() ends.
LEMMA EndPropagateKeeps ==
  ASSUME AndersenInv, endPropagate
  PROVE  AndersenInv'
<1>1. next("propagate") /\ Todo' = rest /\ wave' = idle /\ UNCHANGED graph /\ wave.dsts = {}
  BY DEF endPropagate, propagating
<1>2. rest \in Seq(Step)
  BY <1>1, FirstStep DEF AndersenInv, next
<1>3. StepsOK'
  BY <1>1, <1>2 DEF AndersenInv, StepsOK, endPropagate, propagating
<1>4. PICK g : g = graph
  OBVIOUS
<1>5. Delivered(g, wave.u, wave.pending, {})
  BY <1>1, <1>4 DEF AndersenInv
<1>6. Delivered(g, NoNode, {}, {})
  BY <1>5, NoWave
<1>7. wave'.u = NoNode /\ wave'.pending = {} /\ wave'.dsts = {} /\ WaveOK'
  BY <1>1 DEF idle, WaveOK
<1> QED
  BY <1>1, <1>3, <1>4, <1>6, <1>7 DEF AndersenInv

\* The body of the next function is translated.
LEMMA ProcessFunctionKeeps ==
  ASSUME AndersenInv, processFunction
  PROVE  AndersenInv'
<1>1. ~next("propagate")
  BY DEF processFunction, next
<1>2. StepsOK
  BY DEF AndersenInv
<1>3. PICK s : s = FunctionWorklist
  OBVIOUS
<1>4. s \in Seq(Func) /\ s # <<>>
  BY <1>2, <1>3 DEF StepsOK, processFunction
<1>5. Last(s) \in Func /\ Front(s) \in Seq(Func)
  BY <1>4 DEF Last, Front
<1>6. Todo' \in Seq(Step)
  BY <1>3, <1>5, BodySteps DEF processFunction
<1>7. FunctionWorklist' \in Seq(Func)
  BY <1>3, <1>5 DEF processFunction
<1>8. StepsOK'
  BY <1>2, <1>6, <1>7 DEF StepsOK, processFunction
<1> QED
  BY <1>1, <1>8, Calm, CalmStep DEF processFunction

\* A round of checks begins.
LEMMA CheckUnresolvedKeeps ==
  ASSUME AndersenInv, checkUnresolved
  PROVE  AndersenInv'
<1>1. ~next("propagate")
  BY DEF checkUnresolved, next
<1>2. StepsOK
  BY DEF AndersenInv
<1>3. PICK s, t : s = mapSeq(resolve, UnresolvedFPCalls)
                  /\ t = mapSeq(callbacks, UnresolvedCallbacks)
  OBVIOUS
<1>4. s \in Seq(Step) /\ t \in Seq(Step)
  BY <1>2, <1>3, MapSteps DEF StepsOK
<1>5. Todo' \in Seq(Step)
  <2>1. Todo' = s \o t
    BY <1>3 DEF checkUnresolved
  <2> QED
    BY <1>4, <2>1, ConcatSeq
<1>6. StepsOK'
  BY <1>2, <1>5 DEF StepsOK, checkUnresolved
<1> QED
  BY <1>1, <1>6, Calm, CalmStep DEF checkUnresolved

\* A round of checks ends.
LEMMA EndRoundKeeps ==
  ASSUME AndersenInv, endRound
  PROVE  AndersenInv'
<1>1. ~next("propagate")
  BY DEF endRound, next
<1>2. StepsOK'
  BY DEF AndersenInv, StepsOK, endRound
<1> QED
  BY <1>1, <1>2, Calm, CalmStep DEF endRound

\* The invariant is inductive.
LEMMA NextKeeps == AndersenInv /\ [Next]_vars => AndersenInv'
<1> SUFFICES ASSUME AndersenInv, [Next]_vars PROVE AndersenInv'
  OBVIOUS
<1>1. CASE UNCHANGED vars
  BY <1>1 DEF vars, AndersenInv, WaveOK, StepsOK, next
<1> QED
  BY <1>1, ProcessInstructionKeeps, HandleCallKeeps, ResolveKeeps, ConnectKeeps,
     CallbackKeeps, PopNodeKeeps, VisitSuccessorKeeps, EndPropagateKeeps,
     ProcessFunctionKeeps, CheckUnresolvedKeeps, EndRoundKeeps DEF Next

\* The invariant holds of every reachable state, whatever the program.
THEOREM AndersenInvariant == Spec => []AndersenInv
BY InitInv, NextKeeps, PTL DEF Spec

(***************************************************************************)
(* Type correctness of the solver: representatives are idempotent, and a   *)
(* node that merge() took away keeps no information (SCCUf and Nodes).     *)
(***************************************************************************)
THEOREM AndersenTypes == Spec => []TypeOK
<1>1. AndersenInv => TypeOK
  <2> SUFFICES ASSUME AndersenInv PROVE TypeOK
    OBVIOUS
  <2>1. PICK g : g = graph
    OBVIOUS
  <2>2. GraphOK(g) /\ g \in Graph
    BY <2>1 DEF AndersenInv, GraphOK
  <2>3. \A v \in Node : g.rep[v] \in Node /\ g.rep[g.rep[v]] = g.rep[v]
    BY <2>2 DEF GraphOK, Graph, Idempotent
  <2>4. \A R \in {g.pts, g.assign, g.load, g.store, g.copySrc, g.copyDst} :
          \A p \in R : p[1] \in Node /\ g.rep[p[1]] = p[1] /\ p[2] \in Node
    <3>1. \A R \in {g.pts, g.assign, g.load, g.store, g.copySrc, g.copyDst} :
            R \in SUBSET (Node \X Node) /\ OnReps(g, R)
      BY <2>2 DEF GraphOK, Graph, ConstraintsOnReps
    <3> QED
      BY <3>1 DEF OnReps
  <2>5. g.pending \subseteq g.pts /\ g.wl \subseteq Node
    BY <2>2 DEF GraphOK, Graph, Waiting
  <2>6. wave.u \in Node \cup {NoNode} /\ wave.dsts \subseteq Node /\ wave.pending \subseteq Node
    BY DEF AndersenInv, WaveOK
  <2>7. /\ Queued \subseteq Func /\ FunctionWorklist \in Seq(Func)
        /\ pc \in {"functions", "recheck", "done"}
    BY DEF AndersenInv, StepsOK
  <2> QED
    BY <2>1, <2>3, <2>4, <2>5, <2>6, <2>7 DEF TypeOK, rep
<1> QED
  BY <1>1, AndersenInvariant, PTL

(***************************************************************************)
(* Difference propagation loses nothing (propagate(), addAssignEdge,       *)
(* onNewPointee, merge()), in whatever order the worklist is emptied, ids  *)
(* are compared and nodes are merged, also in the middle of a wave.        *)
(***************************************************************************)
THEOREM PropagationLosesNothing == Spec => []NoLostWave
<1>1. AndersenInv => NoLostWave
  <2> SUFFICES ASSUME AndersenInv PROVE NoLostWave
    OBVIOUS
  <2>1. PICK g : g = graph
    OBVIOUS
  <2>2. /\ GraphOK(g) /\ g \in Graph /\ Pairs(g.pts)
        /\ Delivered(g, wave.u, wave.pending, wave.dsts)
    BY <2>1 DEF AndersenInv, GraphOK, Graph, Pairs
  <2>3. \A p \in g.pending : \E w \in g.wl : g.rep[w] = p[1]
    BY <2>2 DEF GraphOK, Waiting
  <2>4. ASSUME NEW e \in g.assign, NEW o \in image(g.pts, e[1])
        PROVE  \/ o \in image(g.pts, g.rep[e[2]])
               \/ <<e[1], o>> \in g.pending
               \/ /\ wave.u = e[1] /\ o \in wave.pending
                  /\ \E x \in wave.dsts : g.rep[x] = g.rep[e[2]]
    <3>1. <<e[1], o>> \in g.pts /\ o \in Node
      BY <2>2, ImageDef, ImageNodes
    <3>2. <<g.rep[e[2]], o>> \in g.pts => o \in image(g.pts, g.rep[e[2]])
      BY <2>2, ImageDef
    <3> QED
      BY <2>2, <3>1, <3>2 DEF Delivered
  <2> QED
    BY <2>1, <2>3, <2>4 DEF NoLostWave, rep, pts
<1> QED
  BY <1>1, AndersenInvariant, PTL

-----------------------------------------------------------------------------
(***************************************************************************)
(* That nothing is lost does not yet mean that everything arrives:         *)
(* propagate() must run after the last insertion.  It does after each      *)
(* function, but in the checks of run() only connectCallee calls it, and   *)
(* not for a callee with a library summary.  If no pointer leads to such a *)
(* callee, the worklist is empty in the end.                               *)
(***************************************************************************)
SummariesCalledDirectly ==
  \A c \in Site, o \in Node : \A f \in targetsAt(o, c) : isDeclaration(f) => ~hasLibFacts(f)

\* "... co-refines the call graph and points-to sets in a single fixpoint"
\* (AndersenOTFAA.h): when run() ends, each inclusion found is satisfied.
InclusionsSatisfied ==
  pc = "done" => \A e \in graph.assign : image(graph.pts, e[1]) \subseteq pts(e[2])

\* The steps of the checks: all but translations, and no summary.
CheckStep == {s \in Step : /\ s.op # "translate"
                           /\ s.op = "connect" => ~(isDeclaration(s.f) /\ hasLibFacts(s.f))}

EndsInDrain(s) == s # <<>> /\ s[Len(s)] = drain

DrainInv ==
  /\ graph.wl = {} \/ next("propagate") \/ (pc = "functions" /\ Todo # <<>>)
  /\ pc = "functions" => Todo = <<>> \/ EndsInDrain(Todo)
  /\ pc # "functions" => Todo \in Seq(CheckStep)
  /\ pc = "done" => Todo = <<>>

\* The last of a sequence of at least two is the last of its tail.
LEMMA TailLast ==
  ASSUME NEW S, NEW s \in Seq(S), Len(s) >= 2
  PROVE  Tail(s) # <<>> /\ Tail(s)[Len(Tail(s))] = s[Len(s)]
<1>1. PICK n \in Nat : n = Len(s)
  OBVIOUS
<1>2. s # <<>>
  OBVIOUS
<1>3. PICK m \in 1 .. n : m = n - 1
  BY <1>1
<1>4. /\ Len(Tail(s)) = m
      /\ \A i \in 1 .. Len(Tail(s)) : Tail(s)[i] = s[i + 1]
  BY <1>1, <1>2, <1>3, HeadTailProperties
<1>5. Tail(s)[m] = s[n]
  BY <1>1, <1>3, <1>4
<1>6. Tail(s) # <<>>
  <2>1. Len(<<>>) = 0
    BY EmptySeq
  <2>2. m # 0
    BY <1>3
  <2> QED
    BY <1>4, <2>1, <2>2, Zenon
<1> QED
  BY <1>1, <1>4, <1>5, <1>6, Zenon

\* After a step that is not propagate() the last step is still to come.
LEMMA TailEnds ==
  ASSUME NEW S, NEW s \in Seq(S), EndsInDrain(s), s[1].op # "propagate"
  PROVE  EndsInDrain(Tail(s))
<1>1. drain.op = "propagate"
  BY DEF drain
<1>2. Len(s) >= 2
  BY <1>1 DEF EndsInDrain
<1> QED
  BY <1>2, TailLast DEF EndsInDrain

\* The steps after the first, should there be more.
LEMMA TailEndsOrNot ==
  ASSUME NEW S, NEW s \in Seq(S), EndsInDrain(s)
  PROVE  Tail(s) = <<>> \/ EndsInDrain(Tail(s))
<1>1. Len(s) >= 1
  BY DEF EndsInDrain
<1>2. CASE Len(s) = 1
  <2>1. Tail(s) \in Seq(S) /\ Len(Tail(s)) = 0
    BY <1>2, HeadTailProperties DEF EndsInDrain
  <2>2. PICK t \in Seq(S) : t = Tail(s)
    BY <2>1
  <2>3. t = <<>>
    BY <2>1, <2>2, EmptySeq
  <2> QED
    BY <2>2, <2>3, Zenon
<1>3. CASE Len(s) >= 2
  BY <1>3, TailLast DEF EndsInDrain
<1> QED
  BY <1>1, <1>2, <1>3

\* New steps come before those that are left.
LEMMA ConcatEnds ==
  ASSUME NEW S, NEW s \in Seq(S), NEW t \in Seq(S), EndsInDrain(t)
  PROVE  EndsInDrain(s \o t)
<1>1. PICK m \in Nat, n \in Nat : m = Len(s) /\ n = Len(t)
  OBVIOUS
<1>2. n >= 1
  BY <1>1 DEF EndsInDrain
<1>3. Len(s \o t) = m + n /\ (s \o t)[m + n] = t[n]
  BY <1>1, <1>2
<1>4. s \o t # <<>>
  BY <1>1, <1>2, <1>3
<1> QED
  BY <1>1, <1>3, <1>4 DEF EndsInDrain

\* What is left of Todo after its first step.
LEMMA RestDrains ==
  ASSUME StepsOK, DrainInv, Todo # <<>>
  PROVE  /\ pc = "functions" /\ ~next("propagate") => EndsInDrain(rest)
         /\ pc = "functions" => rest = <<>> \/ EndsInDrain(rest)
         /\ pc # "functions" => Todo[1] \in CheckStep /\ rest \in Seq(CheckStep)
<1>1. PICK s : s = Todo
  OBVIOUS
<1>2. s \in Seq(Step) /\ s # <<>>
  BY <1>1 DEF StepsOK
<1>3. ASSUME pc = "functions" PROVE EndsInDrain(s)
  BY <1>1, <1>2, <1>3 DEF DrainInv
<1>4. ASSUME pc = "functions", ~next("propagate") PROVE EndsInDrain(rest)
  BY <1>1, <1>2, <1>3, <1>4, TailEnds DEF next, rest
<1>5. ASSUME pc = "functions" PROVE rest = <<>> \/ EndsInDrain(rest)
  BY <1>1, <1>2, <1>3, <1>5, TailEndsOrNot DEF rest
<1>6. ASSUME pc # "functions" PROVE Todo[1] \in CheckStep /\ rest \in Seq(CheckStep)
  <2>1. s \in Seq(CheckStep)
    BY <1>1, <1>6 DEF DrainInv
  <2> QED
    BY <1>1, <1>2, <2>1 DEF rest
<1> QED
  BY <1>4, <1>5, <1>6

\* A step that is not propagate() and leaves rest, and in the checks the graph.
LEMMA RestStep ==
  ASSUME StepsOK, DrainInv, Todo # <<>>, ~next("propagate"), Todo' = rest, pc' = pc,
         pc # "functions" => graph'.wl = graph.wl
  PROVE  DrainInv'
<1>0. pc # "done"
  BY DEF DrainInv
<1>1. CASE pc = "functions"
  <2>1. EndsInDrain(Todo') /\ Todo' # <<>>
    BY <1>1, RestDrains DEF EndsInDrain
  <2> QED
    BY <1>1, <2>1 DEF DrainInv
<1>2. CASE pc # "functions"
  <2>1. Todo' \in Seq(CheckStep)
    BY <1>2, RestDrains
  <2>2. graph'.wl = {}
    BY <1>2 DEF DrainInv
  <2> QED
    BY <1>0, <1>2, <2>1, <2>2 DEF DrainInv
<1> QED
  BY <1>1, <1>2

\* Initially the body of the global initialisers is to be translated.
LEMMA InitDrains == Init => DrainInv
<1> SUFFICES ASSUME Init PROVE DrainInv
  OBVIOUS
<1>1. bodyOf(Globals) \in Seq(Step) /\ <<drain>> \in Seq(Step) /\ EndsInDrain(<<drain>>)
  BY BodyOnly DEF EndsInDrain, Step
<1>2. EndsInDrain(bodyOf(Globals) \o <<drain>>)
  BY <1>1, ConcatEnds
<1> QED
  BY <1>2 DEF Init, DrainInv, EndsInDrain

\* The callees that a check connects have no summary.
LEMMA ResolveDrains ==
  ASSUME SummariesCalledDirectly, AndersenInv, DrainInv, resolveFPCall
  PROVE  DrainInv'
<1>1. next("resolve") /\ ~next("propagate") /\ Todo # <<>> /\ UNCHANGED <<graph, pc>>
  BY DEF resolveFPCall, next
<1>2. StepsOK
  BY DEF AndersenInv
<1>3. Todo[1] \in Step /\ rest \in Seq(Step) /\ Todo[1].call \in CallInst
  BY <1>1, <1>2, FirstStep, StepTypes DEF next
<1>4. PICK c, fs : /\ c = Todo[1].call
                   /\ fs = UNION {targetsAt(o, c) : o \in pts(inst(c).src)}
  OBVIOUS
<1>5. \A o \in pts(inst(c).src) : o \in Node
  BY ImageNodes DEF pts, AndersenInv, GraphOK, Graph, Pairs
<1>6. c \in Site /\ c \in CallInst
  BY <1>3, <1>4 DEF CallInst
<1>7. \A f \in fs : f \in Func /\ (isDeclaration(f) => ~hasLibFacts(f))
  <2>1. \A o \in Node : targetsAt(o, c) \subseteq Func
    <3>1. PICK f \in Func \cup {Globals} : \E i \in 1 .. Len(Body(f)) : c = <<f, i>>
      BY <1>6 DEF Site
    <3>2. PICK i \in 1 .. Len(Body(f)) : c = <<f, i>>
      BY <3>1
    <3> QED
      BY <3>2, ProgramAssumption
  <2>2. ASSUME NEW f \in fs
        PROVE  f \in Func /\ (isDeclaration(f) => ~hasLibFacts(f))
    <3>1. PICK o \in Node : f \in targetsAt(o, c)
      BY <1>4, <1>5
    <3> QED
      BY <1>6, <2>1, <3>1 DEF SummariesCalledDirectly
  <2> QED
    BY <2>2
<1>8. PICK q \in SetToSeqs(UNION {targetsAt(o, Todo[1].call) :
                                 o \in pts(inst(Todo[1].call).src)}) :
        Todo' = [i \in 1 .. Len(q) |-> connect(Todo[1].call, q[i])] \o rest
  BY DEF resolveFPCall, mapSeq
<1>9. q \in Seq(fs)
  <2>1. q \in SetToSeqs(fs) /\ fs \subseteq Func
    BY <1>4, <1>7, <1>8
  <2>2. IsFiniteSet(fs)
    BY <2>1, ProgramAssumption, FS_Subset
  <2> QED
    BY <2>1, <2>2, OrderTypes
<1>10. PICK s, t : /\ s = [i \in 1 .. Len(q) |-> connect(Todo[1].call, q[i])]
                   /\ t = rest
  OBVIOUS
<1>11. s \in Seq(CheckStep) /\ s \in Seq(Step) /\ Todo' = s \o t
  <2>1. Len(q) \in Nat /\ \A i \in 1 .. Len(q) : q[i] \in fs
    BY <1>9
  <2>2. \A f \in fs : connect(c, f) \in CheckStep /\ connect(c, f) \in Step
    <3>1. \A f \in fs : connect(c, f) \in Step
      BY <1>6, <1>7 DEF Step
    <3>2. \A f \in fs : connect(c, f).op = "connect" /\ connect(c, f).f = f
      BY DEF connect
    <3> QED
      BY <1>7, <3>1, <3>2 DEF CheckStep
  <2>3. s \in [1 .. Len(q) -> CheckStep] /\ s \in [1 .. Len(q) -> Step]
    BY <1>4, <1>10, <2>1, <2>2
  <2> QED
    BY <1>8, <1>10, <2>1, <2>3, FunctionIsSeq
<1>12. CASE pc = "functions"
  <2>1. EndsInDrain(t) /\ t \in Seq(Step)
    BY <1>1, <1>2, <1>3, <1>10, <1>12, RestDrains
  <2>2. EndsInDrain(s \o t)
    BY <1>11, <2>1, ConcatEnds
  <2>3. EndsInDrain(Todo') /\ Todo' # <<>>
    BY <1>11, <2>2 DEF EndsInDrain
  <2> QED
    BY <1>1, <1>12, <2>3 DEF DrainInv
<1>13. CASE pc # "functions"
  <2>1. t \in Seq(CheckStep)
    BY <1>1, <1>2, <1>10, <1>13, RestDrains
  <2>2. s \o t \in Seq(CheckStep)
    BY <1>11, <2>1, ConcatSeq
  <2>3. Todo' \in Seq(CheckStep)
    BY <1>11, <2>2
  <2>4. graph.wl = {} /\ pc # "done"
    BY <1>1, <1>13 DEF DrainInv
  <2> QED
    BY <1>1, <1>13, <2>3, <2>4 DEF DrainInv
<1> QED
  BY <1>12, <1>13

\* In a check a callee either adds nothing or is followed by propagate().
LEMMA ConnectDrains ==
  ASSUME AndersenInv, DrainInv, connectCallee
  PROVE  DrainInv'
<1>1. next("connect") /\ ~next("propagate") /\ Todo # <<>> /\ pc' = pc
  BY DEF connectCallee, next
<1>2. StepsOK
  BY DEF AndersenInv
<1>3. rest \in Seq(Step)
  BY <1>1, <1>2, FirstStep
<1>4. \/ Todo' = rest /\ (graph' = graph \/ (isDeclaration(Todo[1].f) /\ hasLibFacts(Todo[1].f)))
      \/ Todo' = <<drain>> \o rest
  BY Zenon DEF connectCallee
<1>5. CASE Todo' = rest /\ (graph' = graph \/ (isDeclaration(Todo[1].f) /\ hasLibFacts(Todo[1].f)))
  <2>1. pc # "functions" => graph' = graph
    BY <1>1, <1>2, <1>5, RestDrains DEF CheckStep, next
  <2> QED
    BY <1>1, <1>2, <1>5, <2>1, RestStep
<1>6. CASE Todo' = <<drain>> \o rest
  <2>1. PICK s, t : s = <<drain>> /\ t = rest
    OBVIOUS
  <2>2. s \in Seq(Step) /\ t \in Seq(Step) /\ Todo' = s \o t
    BY <1>3, <1>6, <2>1 DEF Step
  <2>3. next("propagate")'
    <3>1. (s \o t)[1] = drain /\ s \o t # <<>>
      BY <2>1, <2>2
    <3>2. Todo' # <<>> /\ Todo'[1] = drain
      BY <2>2, <3>1
    <3> QED
      BY <3>2 DEF next, drain
  <2>4. CASE pc = "functions"
    <3>1. EndsInDrain(t)
      BY <1>1, <1>2, <2>1, <2>4, RestDrains
    <3>2. EndsInDrain(s \o t)
      BY <2>2, <3>1, ConcatEnds
    <3>3. EndsInDrain(Todo')
      BY <2>2, <3>2
    <3> QED
      BY <1>1, <2>3, <2>4, <3>3 DEF DrainInv
  <2>5. CASE pc # "functions"
    <3>1. s \in Seq(CheckStep)
      <4>1. drain \in CheckStep
        BY DEF CheckStep, Step, drain
      <4> QED
        BY <2>1, <4>1
    <3>2. t \in Seq(CheckStep)
      BY <1>1, <1>2, <2>1, <2>5, RestDrains
    <3>3. Todo' \in Seq(CheckStep)
      BY <2>2, <3>1, <3>2, ConcatSeq
    <3>4. pc # "done"
      BY <1>1 DEF DrainInv
    <3> QED
      BY <1>1, <2>3, <2>5, <3>3, <3>4 DEF DrainInv
  <2> QED
    BY <2>4, <2>5
<1> QED
  BY <1>4, <1>5, <1>6

\* A call in a body is followed by its callee or the resolution of it.
LEMMA HandleCallDrains ==
  ASSUME AndersenInv, DrainInv, handleCall
  PROVE  DrainInv'
<1>1. next("translate") /\ ~next("propagate") /\ Todo # <<>> /\ pc' = pc
  BY DEF handleCall, next
<1>2. StepsOK
  BY DEF AndersenInv
<1>3. /\ Todo[1] \in Step /\ rest \in Seq(Step) /\ Todo[1].call \in CallInst
  BY <1>1, <1>2, FirstStep, StepTypes DEF next, handleCall, CallInst
<1>4. pc = "functions"
  BY <1>1, <1>2, RestDrains DEF CheckStep, next
<1>5. PICK x \in Step : Todo' = <<x>> \o rest
  <2>1. CASE inst(Todo[1].call).src \in Func
    <3>1. Todo' = <<connect(Todo[1].call, inst(Todo[1].call).src)>> \o rest
      BY <2>1 DEF handleCall
    <3>2. connect(Todo[1].call, inst(Todo[1].call).src) \in Step
      BY <1>3, <2>1 DEF Step
    <3> QED
      BY <3>1, <3>2
  <2>2. CASE inst(Todo[1].call).src \notin Func
    <3>1. Todo' = <<resolve(Todo[1].call)>> \o rest
      BY <2>2 DEF handleCall
    <3>2. resolve(Todo[1].call) \in Step
      BY <1>3 DEF Step
    <3> QED
      BY <3>1, <3>2
  <2> QED
    BY <2>1, <2>2
<1>6. PICK s, t : s = <<x>> /\ t = rest
  OBVIOUS
<1>7. s \in Seq(Step) /\ t \in Seq(Step) /\ Todo' = s \o t /\ EndsInDrain(t)
  BY <1>1, <1>2, <1>3, <1>4, <1>5, <1>6, RestDrains
<1>8. EndsInDrain(s \o t)
  BY <1>7, ConcatEnds
<1>9. EndsInDrain(Todo') /\ Todo' # <<>>
  BY <1>7, <1>8 DEF EndsInDrain
<1> QED
  BY <1>1, <1>4, <1>9 DEF DrainInv

\* The other instructions are translated in the same phase.
LEMMA ProcessInstructionDrains ==
  ASSUME AndersenInv, DrainInv, processInstruction
  PROVE  DrainInv'
<1>1. next("translate") /\ ~next("propagate") /\ Todo # <<>> /\ pc' = pc /\ Todo' = rest
  BY DEF processInstruction, next
<1>2. StepsOK
  BY DEF AndersenInv
<1>3. pc = "functions"
  BY <1>1, <1>2, RestDrains DEF CheckStep, next
<1> QED
  BY <1>1, <1>2, <1>3, RestStep

\* A check for callbacks leaves the graph alone.
LEMMA CallbackDrains ==
  ASSUME AndersenInv, DrainInv, checkUnresolvedCallback
  PROVE  DrainInv'
<1>1. /\ next("callbacks") /\ ~next("propagate") /\ Todo # <<>> /\ pc' = pc /\ Todo' = rest
      /\ graph' = graph
  BY DEF checkUnresolvedCallback, next
<1> QED
  BY <1>1, RestStep DEF AndersenInv

\* propagate() goes on, or ends with an empty worklist.
LEMMA PropagateDrains ==
  ASSUME AndersenInv, DrainInv, popNode \/ visitSuccessor \/ endPropagate
  PROVE  DrainInv'
<1>1. next("propagate") /\ Todo # <<>> /\ pc' = pc
  BY DEF popNode, visitSuccessor, endPropagate, propagating, next
<1>2. CASE popNode \/ visitSuccessor
  <2>1. Todo' = Todo
    BY <1>2 DEF popNode, visitSuccessor
  <2>2. next("propagate")'
    BY <1>1, <2>1 DEF next
  <2> QED
    BY <1>1, <2>1, <2>2 DEF DrainInv
<1>3. CASE endPropagate
  <2>1. graph'.wl = {} /\ Todo' = rest
    BY <1>3 DEF endPropagate
  <2>2. /\ pc = "functions" => rest = <<>> \/ EndsInDrain(rest)
        /\ pc # "functions" => rest \in Seq(CheckStep)
    BY <1>1, RestDrains DEF AndersenInv
  <2>3. pc # "done"
    BY <1>1 DEF DrainInv
  <2> QED
    BY <1>1, <2>1, <2>2, <2>3 DEF DrainInv
<1> QED
  BY <1>2, <1>3

\* The loop of run() itself.
LEMMA LoopDrains ==
  ASSUME AndersenInv, DrainInv, processFunction \/ checkUnresolved \/ endRound
  PROVE  DrainInv'
<1>1. Todo = <<>> /\ graph' = graph /\ ~next("propagate")
  BY DEF processFunction, checkUnresolved, endRound, next
<1>2. graph'.wl = {}
  BY <1>1 DEF DrainInv
<1>3. CASE processFunction
  <2>1. PICK f : f = Last(FunctionWorklist)
    OBVIOUS
  <2>2. PICK w : w = FunctionWorklist
    OBVIOUS
  <2>3. w \in Seq(Func) /\ w # <<>>
    BY <1>3, <2>2 DEF AndersenInv, StepsOK, processFunction
  <2>4. f \in Func
    BY <2>1, <2>2, <2>3 DEF Last
  <2>5. bodyOf(f) \in Seq(Step) /\ <<drain>> \in Seq(Step) /\ EndsInDrain(<<drain>>)
    BY <2>4, BodyOnly DEF EndsInDrain, Step
  <2>6. EndsInDrain(bodyOf(f) \o <<drain>>)
    BY <2>5, ConcatEnds
  <2>7. EndsInDrain(Todo')
    BY <1>3, <2>1, <2>6 DEF processFunction
  <2> QED
    BY <1>2, <1>3, <2>7 DEF DrainInv, processFunction
<1>4. CASE checkUnresolved
  <2>1. PICK s, t : s = UnresolvedFPCalls /\ t = UnresolvedCallbacks
    OBVIOUS
  <2>2. s \in Seq(CallInst) /\ t \in Seq(CallInst)
    BY <2>1 DEF AndersenInv, StepsOK
  <2>3. /\ Len(s) \in Nat /\ \A i \in 1 .. Len(s) : s[i] \in CallInst
        /\ Len(t) \in Nat /\ \A i \in 1 .. Len(t) : t[i] \in CallInst
    BY <2>2
  <2>4. \A c \in CallInst : resolve(c) \in CheckStep /\ callbacks(c) \in CheckStep
    BY DEF CheckStep, Step, resolve, callbacks
  <2>5. /\ [i \in 1 .. Len(s) |-> resolve(s[i])] \in [1 .. Len(s) -> CheckStep]
        /\ [i \in 1 .. Len(t) |-> callbacks(t[i])] \in [1 .. Len(t) -> CheckStep]
    BY <2>3, <2>4
  <2>6. mapSeq(resolve, s) \in Seq(CheckStep) /\ mapSeq(callbacks, t) \in Seq(CheckStep)
    BY <2>3, <2>5, FunctionIsSeq DEF mapSeq
  <2>7. mapSeq(resolve, s) \o mapSeq(callbacks, t) \in Seq(CheckStep)
    BY <2>6, ConcatSeq
  <2>8. Todo' \in Seq(CheckStep)
    BY <1>4, <2>1, <2>7 DEF checkUnresolved
  <2> QED
    BY <1>2, <1>4, <2>8 DEF DrainInv, checkUnresolved
<1>5. CASE endRound
  <2>1. Todo' = <<>> /\ pc' \in {"functions", "done"}
    BY <1>1, <1>5 DEF endRound
  <2>2. Todo' \in Seq(CheckStep)
    BY <2>1
  <2> QED
    BY <1>2, <2>1, <2>2 DEF DrainInv
<1> QED
  BY <1>3, <1>4, <1>5

(***************************************************************************)
(* When run() ends the inclusions are satisfied (run(), propagate(),       *)
(* connectCallee), unless a pointer led to a function with a summary.      *)
(***************************************************************************)
THEOREM ResultIsClosed ==
  ASSUME SummariesCalledDirectly
  PROVE  Spec => []InclusionsSatisfied
<1>1. AndersenInv /\ DrainInv /\ [Next]_vars => DrainInv'
  <2> SUFFICES ASSUME AndersenInv, DrainInv, [Next]_vars PROVE DrainInv'
    OBVIOUS
  <2>1. CASE UNCHANGED vars
    BY <2>1 DEF vars, DrainInv, next
  <2> QED
    BY <2>1, ProcessInstructionDrains, HandleCallDrains, ResolveDrains, ConnectDrains,
       CallbackDrains, PropagateDrains, LoopDrains DEF Next
<1>2. AndersenInv /\ DrainInv => InclusionsSatisfied
  <2> SUFFICES ASSUME AndersenInv, DrainInv, pc = "done", NEW e \in graph.assign,
                      NEW o \in image(graph.pts, e[1])
               PROVE  o \in pts(e[2])
    BY DEF InclusionsSatisfied
  <2>1. Todo = <<>> /\ graph.wl = {}
    BY DEF DrainInv, next
  <2>2. graph.pending = {}
    BY <2>1 DEF AndersenInv, GraphOK, Waiting
  <2>3. wave.dsts = {}
    BY <2>1 DEF AndersenInv, WaveOK, next
  <2>4. PICK g : g = graph
    OBVIOUS
  <2>5. Pairs(g.pts) /\ Delivered(g, wave.u, wave.pending, {})
    BY <2>3, <2>4 DEF AndersenInv, GraphOK, Graph, Pairs
  <2>6. <<e[1], o>> \in g.pts /\ o \in Node
    BY <2>4, <2>5, ImageDef, ImageNodes
  <2>7. <<g.rep[e[2]], o>> \in g.pts
    BY <2>2, <2>4, <2>5, <2>6 DEF Delivered
  <2>8. o \in image(g.pts, g.rep[e[2]])
    BY <2>5, <2>7, ImageDef
  <2> QED
    BY <2>4, <2>8 DEF pts, rep
<1>3. Init => DrainInv
  BY InitDrains
<1> QED
  BY <1>1, <1>2, <1>3, AndersenInvariant, PTL DEF Spec
=============================================================================
