------------------------ MODULE MCIterativeIDESolver ------------------------
(***************************************************************************)
(* IterativeIDESolver on the small programs, with and without garbage      *)
(* collection and end summary table, compared with the join over all valid *)
(* paths.                                                                  *)
(***************************************************************************)
EXTENDS IterativeIDESolver, SmallPrograms

MCadvanceToNextUser(n, d) == n

\* isInteresting of the problem: one statement in the loop of f.
MCisInteresting(n) == n = "f4"

ResultsAt(n) == {d \in Fact : <<n, d>> \in DOMAIN ValTab}

(***************************************************************************)
(* The results are the join over all valid paths.  Collecting jump         *)
(* functions in mode Enabled loses no fact, and a value only where neither *)
(* the solver's own tables nor isInteresting keep the jump function (there *)
(* it is the exact one or Top); in mode EnabledAggressively the facts stay *)
(* exact at the kept nodes and the values at start points and interesting  *)
(* nodes (StaticIDESolverConfig.h).  EndSummaryTab, which does not know at *)
(* which exit a summary was found, is exact for one exit per function.     *)
(***************************************************************************)
IterativeResults ==
  pc = "done" =>
    \A name \in DOMAIN RefOf :
      (/\ DOMAIN Program(name).seeds \subseteq DOMAIN Seeds
       /\ name = "TwoExits" => ~UseEndSummaryTab) =>
        \A n \in Node :
          LET facts == {d \in Fact : <<n, d>> \in DOMAIN RefOf[name]}
              keep == keepAnalysisInformationAt(n)
              exact == CASE GCMode = "Disabled" -> TRUE
                         [] GCMode = "Enabled" -> keep
                         [] OTHER -> n \in StartPoints(FunOf(n)) \/ isInteresting(n)
          IN /\ ResultsAt(n) = IF GCMode = "EnabledAggressively" /\ ~keep
                               THEN {} ELSE facts
             /\ \A d \in ResultsAt(n) :
                  \/ get(n, d) = RefOf[name][<<n, d>>]
                  \/ ~exact /\ get(n, d) = Top
=============================================================================
