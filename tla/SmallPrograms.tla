---------------------------- MODULE SmallPrograms ----------------------------
(***************************************************************************)
(* Small programs for the IDE solvers, and a reference solution for them:  *)
(* the join over all valid paths, found by running every path with an      *)
(* explicit call stack (bounded by MaxDepth) and without jump functions.   *)
(***************************************************************************)
EXTENDS Integers, Sequences, FiniteSetsExt, TLC

CONSTANTS Programs,  \* which of the programs below; the seeds pick one of them
          MaxDepth,  \* bound on the call stack of the reference solution
          TOP, BOTTOM, NO_NODE

E == INSTANCE EdgeFunctions WITH MinInt <- 1, MaxInt <- 2, Top <- TOP, Bottom <- BOTTOM

Id == E!EdgeIdentity
Const(v) == E!ConstantEdgeFunction(v)

MCallTop == E!AllTop
MCIdentityEdge == Id
MCEF == {E!AllTop, E!AllBottom, Id, Const(1), Const(2)}
MCValue == E!LatticeDomain
MCextend(f, g) == E!compose(f, g)
MCcombine(f, g) == E!joinWith(f, g)
MCapplyFunction(f, v) == E!computeTarget(f, v)
MCjoin(v, w) == E!joinLattice(v, w)

-----------------------------------------------------------------------------
(***************************************************************************)
(* A program: succ gives the intra-procedural successors of each node,     *)
(* calls the callees of each call, flows the rows <<at, from, to, ef>>.  A *)
(* statement without a row in normal is the identity on facts, and the     *)
(* facts in hide are not returned by an exit.                              *)
(***************************************************************************)
\* main: a = 1; a = p(a); (p | q)(2 | a);   p: if (*) { p(b); b = 2; } return b;
\* q is a declaration with a special summary that sets a to 2.
Calls ==
  [fun   |-> [m1 |-> "main", m2 |-> "main", m3 |-> "main", m4 |-> "main",
              p1 |-> "p", p2 |-> "p", p3 |-> "p"],
   start |-> [main |-> <<"m1">>, p |-> <<"p1">>, q |-> <<>>],
   exit  |-> {"m4", "p3"},
   calls |-> [m2 |-> {"p"}, m3 |-> {"p", "q"}, p2 |-> {"p"}],
   succ  |-> [m1 |-> {"m2"}, m2 |-> {"m3"}, m3 |-> {"m4"}, m4 |-> {},
              p1 |-> {"p2", "p3"}, p2 |-> {"p3"}, p3 |-> {}],
   fact  |-> {"0", "a", "b"},
   normal |-> {<<"m1", "0", "a", Const(1)>>},
   call  |-> {<<"m2", "p", "a", "b", Id>>, <<"m3", "p", "0", "b", Const(2)>>,
              <<"p2", "p", "b", "b", Id>>},
   ret   |-> {<<"m2", "p", "b", "a", Id>>, <<"p2", "p", "b", "b", Const(2)>>},
   c2r   |-> {<<"m3", "a", "a", Id>>},
   sum   |-> {<<"m3", "q", "a", "a", Const(2)>>},
   next  |-> {}, skip |-> {}, hide |-> {},
   eval  |-> {"m4", "p3"},
   seeds |-> <<"m1", "0">> :> BOTTOM]

\* LLVMBasedBackwardICFG of  main: m1; m2: p(); m3   p: p1; if (*) p2 else p3.
\* Both exits of p are start points.  The nodes to evaluate are those of the
\* forward ICFG, which leaves out its start points m1 and p1.
Backward ==
  [fun   |-> [bm1 |-> "bmain", bm2 |-> "bmain", bm3 |-> "bmain",
              bp1 |-> "bp", bp2 |-> "bp", bp3 |-> "bp"],
   start |-> [bmain |-> <<"bm3">>, bp |-> <<"bp2", "bp3">>],
   exit  |-> {"bm1", "bp1"},
   calls |-> [bm2 |-> {"bp"}],
   succ  |-> [bm3 |-> {"bm2"}, bm2 |-> {"bm1"}, bm1 |-> {},
              bp2 |-> {"bp1"}, bp3 |-> {"bp1"}, bp1 |-> {}],
   fact  |-> {"0", "a", "b"},
   normal |-> {<<"bm3", "0", "a", Const(1)>>, <<"bm3", "0", "b", Const(2)>>,
               <<"bp2", "b", "b", Const(2)>>, <<"bp2", "a", "a", Id>>},
   call  |-> {<<"bm2", "bp", "a", "b", Id>>, <<"bm2", "bp", "b", "b", Id>>},
   ret   |-> {<<"bm2", "bp", "b", "a", Id>>},
   c2r   |-> {},
   sum   |-> {},
   next  |-> {}, skip |-> {}, hide |-> {},
   eval  |-> {"bm3", "bp2", "bp3"},
   seeds |-> <<"bm3", "0">> :> BOTTOM]

\* main: s1: a = 1; s2: b = p(2); s3; s4: use a; s5   p: p1; p2; p3 return b.
\* A sparse ICFG that moves a past s2 and s3, and b past p2 and past s3, s4.
Sparse ==
  [fun   |-> [s1 |-> "smain", s2 |-> "smain", s3 |-> "smain", s4 |-> "smain",
              s5 |-> "smain", t1 |-> "t", t2 |-> "t", t3 |-> "t"],
   start |-> [smain |-> <<"s1">>, t |-> <<"t1">>],
   exit  |-> {"s5", "t3"},
   calls |-> [s2 |-> {"t"}],
   succ  |-> [s1 |-> {"s2"}, s2 |-> {"s3"}, s3 |-> {"s4"}, s4 |-> {"s5"},
              s5 |-> {}, t1 |-> {"t2"}, t2 |-> {"t3"}, t3 |-> {}],
   fact  |-> {"0", "a", "b"},
   normal |-> {<<"s1", "0", "a", Const(1)>>},
   call  |-> {<<"s2", "t", "0", "b", Const(2)>>},
   ret   |-> {<<"s2", "t", "b", "b", Id>>},
   c2r   |-> {<<"s2", "a", "a", Id>>},
   sum   |-> {},
   next  |-> {<<"s1", "a", "s4">>, <<"s4", "a", "s5">>, <<"s2", "b", "s5">>,
              <<"t1", "b", "t3">>},
   skip  |-> {<<"s2", "a">>, <<"s3", "a">>, <<"s3", "b">>, <<"s4", "b">>,
              <<"t2", "b">>}, hide |-> {},
   eval  |-> {"s3", "s4", "s5", "t2", "t3"},
   seeds |-> <<"s1", "0">> :> BOTTOM]

\* Only p is seeded; its callers are entered past the seed:
\* main: m1; m2: a = p(); m3: q(a); m4   p: p1: b = 1; p2   q: q1; q2.
Unbalanced ==
  [fun   |-> [u1 |-> "umain", u2 |-> "umain", u3 |-> "umain", u4 |-> "umain",
              v1 |-> "v", v2 |-> "v", w1 |-> "w", w2 |-> "w"],
   start |-> [umain |-> <<"u1">>, v |-> <<"v1">>, w |-> <<"w1">>],
   exit  |-> {"u4", "v2", "w2"},
   calls |-> [u2 |-> {"v"}, u3 |-> {"w"}],
   succ  |-> [u1 |-> {"u2"}, u2 |-> {"u3"}, u3 |-> {"u4"}, u4 |-> {},
              v1 |-> {"v2"}, v2 |-> {}, w1 |-> {"w2"}, w2 |-> {}],
   fact  |-> {"0", "a", "b"},
   normal |-> {<<"v1", "0", "b", Const(1)>>, <<"v1", "a", "a", Id>>},
   call  |-> {<<"u3", "w", "a", "a", Id>>},
   ret   |-> {<<"u2", "v", "b", "a", Id>>, <<"u2", "v", "a", "b", Id>>,
              <<"u3", "w", "a", "a", Id>>},
   c2r   |-> {<<"u3", "b", "b", Id>>},
   sum   |-> {},
   next  |-> {}, skip |-> {}, hide |-> {},
   eval  |-> {"u4", "v2", "w2"},
   seeds |-> <<"v1", "a">> :> 2]

\* main: n1: a = f(1); n2: a = f(a); n3: b = h(2); n4
\* f: f1; do f2; a = h(a); f4 while (*); f5   h: h1: k(); h2   k: k1; k2.
\* h learns of k's summary, and f of h's, long after the call that waits for
\* f; the second call of f comes when its summary exists.
Collect ==
  [fun   |-> [n1 |-> "nmain", n2 |-> "nmain", n3 |-> "nmain", n4 |-> "nmain",
              f1 |-> "f", f2 |-> "f", f3 |-> "f", f4 |-> "f", f5 |-> "f",
              h1 |-> "h", h2 |-> "h", k1 |-> "k", k2 |-> "k"],
   start |-> [nmain |-> <<"n1">>, f |-> <<"f1">>, h |-> <<"h1">>, k |-> <<"k1">>],
   exit  |-> {"n4", "f5", "h2", "k2"},
   calls |-> [n1 |-> {"f"}, n2 |-> {"f"}, n3 |-> {"h"}, f3 |-> {"h"}, h1 |-> {"k"}],
   succ  |-> [n1 |-> {"n2"}, n2 |-> {"n3"}, n3 |-> {"n4"}, n4 |-> {},
              f1 |-> {"f2"}, f2 |-> {"f3"}, f3 |-> {"f4"}, f4 |-> {"f2", "f5"},
              f5 |-> {}, h1 |-> {"h2"}, h2 |-> {}, k1 |-> {"k2"}, k2 |-> {}],
   fact  |-> {"0", "a", "b"},
   normal |-> {},
   call  |-> {<<"n1", "f", "0", "a", Const(1)>>, <<"n2", "f", "a", "a", Id>>,
              <<"f3", "h", "a", "a", Id>>, <<"h1", "k", "a", "a", Id>>,
              <<"n3", "h", "a", "b", Const(2)>>, <<"h1", "k", "b", "b", Id>>},
   ret   |-> {<<"n1", "f", "a", "a", Id>>, <<"n2", "f", "a", "a", Id>>,
              <<"f3", "h", "a", "a", Id>>, <<"h1", "k", "a", "a", Id>>,
              <<"n3", "h", "b", "b", Id>>, <<"h1", "k", "b", "b", Id>>},
   c2r   |-> {},
   sum   |-> {}, next |-> {}, skip |-> {}, hide |-> {},
   eval  |-> {"n4", "f2", "f4", "f5", "h2", "k2"},
   seeds |-> <<"n1", "0">> :> BOTTOM]

\* main: x1: r = g(); x2   g: y1; if (*) y2: return v; else { y3: v = 1;
\* y4: return 0 }.  v does not reach the exit that returns it.
TwoExits ==
  [fun   |-> [x1 |-> "xmain", x2 |-> "xmain", y1 |-> "y", y2 |-> "y",
              y3 |-> "y", y4 |-> "y"],
   start |-> [xmain |-> <<"x1">>, y |-> <<"y1">>],
   exit  |-> {"x2", "y2", "y4"},
   calls |-> [x1 |-> {"y"}],
   succ  |-> [x1 |-> {"x2"}, x2 |-> {}, y1 |-> {"y2", "y3"}, y2 |-> {},
              y3 |-> {"y4"}, y4 |-> {}],
   fact  |-> {"0", "a", "b"},
   normal |-> {<<"y3", "0", "a", Const(1)>>},
   call  |-> {},
   ret   |-> {<<"x1", "y", "a", "b", Id>>},
   c2r   |-> {}, sum |-> {}, next |-> {}, skip |-> {},
   hide  |-> {<<"y4", "a">>},
   eval  |-> {"x2", "y2", "y3", "y4"},
   seeds |-> <<"x1", "0">> :> BOTTOM]

Program(name) == CASE name = "Calls" -> Calls
                   [] name = "Backward" -> Backward
                   [] name = "Sparse" -> Sparse
                   [] name = "Unbalanced" -> Unbalanced
                   [] name = "Collect" -> Collect
                   [] name = "TwoExits" -> TwoExits

\* The programs as one ICFG, table by table: their nodes and functions are
\* disjoint.
All == {Program(name) : name \in Programs}
Merge(f(_)) == FoldSet(LAMBDA p, g : f(p) @@ g, <<>>, All)
Union(f(_)) == UNION {f(p) : p \in All}
Pfun == Merge(LAMBDA p : p.fun)
Pstart == Merge(LAMBDA p : p.start)
Pcalls == Merge(LAMBDA p : p.calls)
Psucc == Merge(LAMBDA p : p.succ)
Pexit == Union(LAMBDA p : p.exit)
Pfact == Union(LAMBDA p : p.fact)
Pnormal == Union(LAMBDA p : p.normal)
Pcall == Union(LAMBDA p : p.call)
Pret == Union(LAMBDA p : p.ret)
Pc2r == Union(LAMBDA p : p.c2r)
Psum == Union(LAMBDA p : p.sum)
Pnext == Union(LAMBDA p : p.next)
Pskip == Union(LAMBDA p : p.skip)
Phide == Union(LAMBDA p : p.hide)
Peval == Union(LAMBDA p : p.eval)

-----------------------------------------------------------------------------
MCNode == DOMAIN Pfun
MCFun == DOMAIN Pstart
MCFunOf(n) == Pfun[n]
MCStartPointsOf(f) == Pstart[f]
MCExitInst == Pexit
MCCallSite == DOMAIN Pcalls
MCSuccsOf(n) == Psucc[n]
MCReturnSitesOf(n) == Psucc[n]
MCCalleesOf(n) == IF n \in DOMAIN Pcalls THEN Pcalls[n] ELSE {}
MCNonCallStartNodes == Peval
MCNextUser(n, d) ==
  IF \E t \in Pnext : t[1] = n /\ t[2] = d
  THEN (CHOOSE t \in Pnext : t[1] = n /\ t[2] = d)[3] ELSE NO_NODE
MCFact == Pfact

MCNormalFF(n, m, d) ==
  IF \E t \in Pnormal : t[1] = n
  THEN {t[3] : t \in {x \in Pnormal : x[1] = n /\ x[2] = d}} ELSE {d}
MCCallFF(n, f, d) ==
  {t[4] : t \in {x \in Pcall : x[1] = n /\ x[2] = f /\ x[3] = d}}
MCRetFF(n, f, e, r, d) == IF <<e, d>> \in Phide THEN {} ELSE
  {t[4] : t \in {x \in Pret : x[1] = n /\ x[2] = f /\ x[3] = d}}
MCCallToRetFF(n, r, d) ==
  {t[3] : t \in {x \in Pc2r : x[1] = n /\ x[2] = d}}
MCHasSummaryFF(n, f) == \E t \in Psum : t[1] = n /\ t[2] = f
MCSummaryFF(n, f, d) ==
  {t[4] : t \in {x \in Psum : x[1] = n /\ x[2] = f /\ x[3] = d}}

\* The edge function of the row with these first fields, if there is one.
Row(S, key) ==
  LET R == {t \in S : SubSeq(t, 1, Len(key)) = key}
  IN IF R = {} THEN Id ELSE LET t == CHOOSE x \in R : TRUE IN t[Len(t)]

MCNormalEF(n, d, m, e) == Row(Pnormal, <<n, d, e>>)
MCCallEF(n, d, f, e) == Row(Pcall, <<n, f, d, e>>)
MCReturnEF(n, f, x, d, r, e) == Row(Pret, <<n, f, d, e>>)
MCCallToRetEF(n, d, r, e) == Row(Pc2r, <<n, d, e>>)
MCSummaryEF(n, d, r, e) ==
  LET R == {t \in Psum : t[1] = n /\ t[3] = d /\ t[4] = e}
  IN IF R = {} THEN Id ELSE (CHOOSE t \in R : TRUE)[5]

\* The flow functions as the cache returns them: zero is never killed.
Zeroed(S, d) == IF d = "0" THEN S \cup {"0"} ELSE S
MCNormalFlow(n, m, d) == Zeroed(MCNormalFF(n, m, d), d)
MCCallFlow(n, f, d) == Zeroed(MCCallFF(n, f, d), d)
MCRetFlow(n, f, e, r, d) == Zeroed(MCRetFF(n, f, e, r, d), d)
MCCallToRetFlow(n, r, d) == Zeroed(MCCallToRetFF(n, r, d), d)
MCStartPoints(f) == {Pstart[f][i] : i \in 1 .. Len(Pstart[f])}

MCInitialSeeds == {Program(name).seeds : name \in Programs}

-----------------------------------------------------------------------------
(***************************************************************************)
(* The reference: configurations <<stack, n, d, v>> of valid paths.        *)
(***************************************************************************)
Along(stack, m, e, f, v) == <<stack, m, e, MCapplyFunction(f, v)>>

RefSteps(x) ==
  LET stack == x[1]  n == x[2]  d == x[3]  v == x[4]
      Normal == UNION {{Along(stack, m, e, MCNormalEF(n, d, m, e), v) :
                          e \in MCNormalFlow(n, m, d)} : m \in MCSuccsOf(n)}
      Return(c) == UNION {{Along(Tail(stack), r, e,
                                 MCReturnEF(c, MCFunOf(n), n, d, r, e), v) :
                             e \in MCRetFlow(c, MCFunOf(n), n, r, d)} :
                            r \in MCReturnSitesOf(c)}
      Call(g) == UNION {{Along(<<n>> \o stack, sp, e, MCCallEF(n, d, g, e), v) :
                           e \in MCCallFlow(n, g, d)} : sp \in MCStartPoints(g)}
      Skip == UNION {{Along(stack, r, e, MCCallToRetEF(n, d, r, e), v) :
                        e \in MCCallToRetFlow(n, r, d)} : r \in MCReturnSitesOf(n)}
      Summary(g) == UNION {{Along(stack, r, e, MCSummaryEF(n, d, r, e), v) :
                              e \in MCSummaryFF(n, g, d)} :
                             r \in MCReturnSitesOf(n)}
  IN IF n \in MCCallSite
     THEN Skip \cup UNION {IF MCHasSummaryFF(n, g) THEN Summary(g)
                           ELSE IF Len(stack) < MaxDepth THEN Call(g) ELSE {} :
                             g \in MCCalleesOf(n)}
     ELSE Normal \cup (IF n \in MCExitInst /\ stack # <<>>
                       THEN Return(Head(stack)) ELSE {})

RECURSIVE RefClosure(_, _)
RefClosure(frontier, seen) ==
  IF frontier = {} THEN seen
  ELSE LET new == UNION {RefSteps(x) : x \in frontier} \ seen
       IN RefClosure(new, seen \cup new)

Reference(seeds) ==
  LET S == {<<k[1], "0">> : k \in DOMAIN seeds}
      all == seeds @@ [k \in S |-> BOTTOM]
      start == {<<<<>>, k[1], k[2], all[k]>> : k \in DOMAIN all}
  IN RefClosure(start, start)

RefResults(seeds) ==
  LET R == Reference(seeds)
      facts == {<<x[2], x[3]>> : x \in R} \ Pskip
  IN [k \in facts |->
        FoldSet(MCjoin, TOP, {x[4] : x \in {y \in R : <<y[2], y[3]>> = k}})]

\* The reference solution of each program whose paths return only to calls
\* they came from.
RefOf == [name \in Programs \ {"Unbalanced"} |->
            RefResults(Program(name).seeds)]
=============================================================================
