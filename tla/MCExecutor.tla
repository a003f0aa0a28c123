----------------------------- MODULE MCExecutor -----------------------------
(***************************************************************************)
(* Instances of Executor for TLC: one workload, registered as a Deployment *)
(* or a StatefulSet of which one of the two containers is in scope.        *)
(***************************************************************************)
EXTENDS ExecutorClaims

MCWorkloads  == {"ran/du"}
MCNames      == {"ran/du", "du"}
MCKinds      == {"Deployment", "StatefulSet", "DaemonSet"}
MCContainers == {"main", "sidecar"}

Deployment  == [kind |-> "Deployment", name |-> "du"]
StatefulSet == [kind |-> "StatefulSet", name |-> "du"]

MCObjects == {Deployment}

Template(main) ==
    [k \in MCContainers |-> [size |-> IF k = "main" THEN main ELSE 1, gpu |-> 1]]

MCContents == {[replicas |-> 1, template |-> Template(1)]}

Sized(r) ==
    [id |-> "ran/du", action |-> "scale-up", type |-> "vertical",
     newResources |-> [size |-> r, gpu |-> 1], newReplicas |-> None]
Counted(n) ==
    [id |-> "ran/du", action |-> "scale-down", type |-> "horizontal",
     newResources |-> None, newReplicas |-> n]
Postponed ==
    [id |-> "ran/du", action |-> "postpone", type |-> "horizontal",
     newResources |-> None, newReplicas |-> None]
Malformed == [Postponed EXCEPT !.action = "scale-up"]

MCDirectives == {Sized(2), Counted(2), Postponed, Malformed}

MCInfos == {[name |-> "du", kind |-> "Deployment", containers |-> {"main"}]}

(***************************************************************************)
(* A StatefulSet of the same name, and a registration of no use.           *)
(***************************************************************************)
KindObjects == {Deployment, StatefulSet}

KindDirectives == {Sized(2), Postponed}

KindInfos ==
    {[name |-> "du", kind |-> kind, containers |-> {}] : kind \in {"StatefulSet", "DaemonSet"}}
=============================================================================
