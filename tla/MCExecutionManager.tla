------------------------- MODULE MCExecutionManager -------------------------
(***************************************************************************)
(* Instances of ExecutionManager for TLC.                                  *)
(***************************************************************************)
EXTENDS ExecutionManager, TLC

\* Tasks and sessions are interchangeable: no action orders their ids.
\* A third task only when all of them are prefills, and then a session is given up
\* or a task cancelled, not both.
OneMoreOfPrefills ==
    \/ Cardinality(issued) <= 2
    \/ /\ \A t \in issued : kind[t] = "prefill"
       /\ live = registered \/ cancelled = {}

Symmetry == Permutations(Tasks) \cup Permutations(Sessions)
=============================================================================
