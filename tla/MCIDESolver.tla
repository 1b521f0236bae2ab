----------------------------- MODULE MCIDESolver -----------------------------
(***************************************************************************)
(* IDESolver with its table on the small programs, compared with the join  *)
(* over all valid paths.                                                   *)
(***************************************************************************)
EXTENDS IDESolverTables, SmallPrograms

(***************************************************************************)
(* The results are the join over all valid paths: context-sensitive (a     *)
(* path returns to the call it came from), no fact missing, no fact        *)
(* invented, each with exactly the joined value, at every node that        *)
(* Phase II visits (calls, start points, allNonCallStartNodes).  With a    *)
(* sparse ICFG the same holds at the statements not skipped for a fact.    *)
(***************************************************************************)
ValidPathResults ==
  phase = "done" =>
    \A name \in DOMAIN RefOf :
      DOMAIN Program(name).seeds \subseteq DOMAIN Seeds =>
        \A n \in {m \in Node : m \in CallSite \cup NonCallStartNodes
                                \/ isStartPoint(m)} :
          resultsAt(n, FALSE) =
            [d \in {e \in Fact : <<n, e>> \in DOMAIN RefOf[name]} |->
               RefOf[name][<<n, d>>]]

=============================================================================
