----------------------------- MODULE MCSparseCFG -----------------------------
EXTENDS SparseCFG

\* if (*) { 2 } else { 3 } 4; 5; return.
Diamond ==
  [entry |-> 1, exits |-> {6}, terms |-> {1, 2, 3, 6},
   succs |-> <<<<2, 3>>, <<4>>, <<4>>, <<5>>, <<6>>, <<>>>>]

\* 1; while (*) { 3; 4 } 5; return.
Loop ==
  [entry |-> 1, exits |-> {6}, terms |-> {1, 2, 4, 6},
   succs |-> <<<<2>>, <<3, 5>>, <<4>>, <<2>>, <<6>>, <<>>>>]

\* if (*) goto 5; 2; 3: if (*) goto 5; 4: return;  5; 6: return.
Goto ==
  [entry |-> 1, exits |-> {4, 6}, terms |-> {1, 3, 4, 6},
   succs |-> <<<<2, 5>>, <<3>>, <<5, 4>>, <<>>, <<6>>, <<>>>>]

\* 1; 2 -> 3; 3 -> 4; switch (4) { 5; 6; 7 }
Chain ==
  [entry |-> 1, exits |-> {5, 7}, terms |-> {2, 3, 4, 5, 6, 7},
   succs |-> <<<<2>>, <<3>>, <<4>>, <<5, 6, 7>>, <<>>, <<7>>, <<>>>>]

\* 1; for (;;) { 2; 3 -> 4; 4; 5 }
Endless ==
  [entry |-> 1, exits |-> {}, terms |-> {1, 3, 5},
   succs |-> <<<<2>>, <<3>>, <<4>>, <<5>>, <<2>>>>]

MCCFGs == {Diamond, Loop, Goto, Chain, Endless}
=============================================================================
