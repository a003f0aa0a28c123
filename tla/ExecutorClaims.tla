--------------------------- MODULE ExecutorClaims ---------------------------
(***************************************************************************)
(* Statements of the repository about the executor that the code does not  *)
(* keep, each checked by a run in which TLC finds a counterexample.        *)
(***************************************************************************)
EXTENDS Executor

\* The executor on its own: every request is answered, nobody else touches
\* the objects, and the context is never cancelled.
Undisturbed ==
    \/ \E c \in Callers :
          \/ \E d \in Directives : Call(c, d)
          \/ Acquire(c) \/ Local(c)
          \/ Get(c) \/ Update(c)
          \/ GetFails(c) /\ ~Present(Target(info[c]))
    \/ \E w \in Workloads, i \in Infos : RegisterWorkload(w, i)

UndisturbedSpec == Init /\ [][Undisturbed]_vars

\* docs/orchestrator-algorithm.md:13: the loop "applies each directive in
\* priority order via the Kubernetes API".  No code calls RegisterWorkload,
\* so Execute takes the ID, "namespace/name", for the name of a Deployment,
\* and no Deployment can have that name: every scale directive fails.
DirectivesAreApplied ==
    (\A o \in Objects : objects[o] # None) =>
        \A c \in Callers :
            pc[c] = "release" /\ Executable(directive[c], info[c]) => success[c]
=============================================================================
