------------------------- MODULE OrchestratorClaims -------------------------
(***************************************************************************)
(* A statement of docs/orchestrator-algorithm.md about the whole loop      *)
(* which the code does not keep.                                           *)
(***************************************************************************)
EXTENDS Orchestrator

\* The loop with objects that nobody else scales.
Undisturbed == LoopNext /\ \A w \in Registered : replicas'[w] # replicas[w] => call' # call

UndisturbedSpec == LoopInit /\ [][Undisturbed]_loopVars

\* docs/orchestrator-algorithm.md:463: when the deferral of a workload ends it
\* is resumed "to original replica count".  Nobody has scaled it, and it was
\* not throttled, so that is the count of its object.
ResumesToOriginalCount ==
    \A d \in todo : d.reason = "resume" /\ d.id \in Registered =>
        d.newReplicas = replicas[d.id]
=============================================================================
