------------------------- MODULE MCEdgeFunctionPaths -------------------------
EXTENDS EdgeFunctionPaths

MCMinInt == -2

\* x + 1, x * -1, 2 / x, x rem 2, -2 rem x and a constant, over -2 .. 2.
MCGenerators ==
  {EdgeIdentity, AllBottom, ConstantEdgeFunction(1),
   EdgeFunctionComposer(<<[op |-> "Add", c |-> 1, left |-> FALSE]>>),
   EdgeFunctionComposer(<<[op |-> "Mul", c |-> -1, left |-> FALSE]>>),
   EdgeFunctionComposer(<<[op |-> "Div", c |-> 2, left |-> TRUE]>>),
   EdgeFunctionComposer(<<[op |-> "Rem", c |-> 2, left |-> FALSE]>>),
   EdgeFunctionComposer(<<[op |-> "Rem", c |-> -2, left |-> TRUE]>>)}
=============================================================================
