--------------------------- MODULE ScalingTargets ---------------------------
(***************************************************************************)
(* What pkg/executor/executor.go acts on: the workload objects of the      *)
(* cluster, the directives of the allocator and the registry that tells    *)
(* which object a workload ID stands for; and what one well-formed         *)
(* directive makes of an object.                                           *)
(*                                                                         *)
(* An object is its replica count and its pod template; the template is    *)
(* the resources of each container, an opaque size (CPU and memory) and a  *)
(* GPU limit.  The namespace of a name is left implicit.                   *)
(***************************************************************************)
EXTENDS Integers, FiniteSets

CONSTANTS
    None,
    Callers,                    \* goroutines that call Execute
    Names,                      \* names of objects, possible or not
    Workloads,                  \* workload IDs, which also serve as names
    Kinds,                      \* kinds a workload may be registered with
    Objects,                    \* the objects that may exist, [kind, name]
    Containers,                 \* the container names of a template
    Contents,                   \* what others may make of an object
    Directives,                 \* the directives Execute may be given
    Infos,                      \* what RegisterWorkload may be given
    MaxConcurrentExecutions,
    RetryAttempts

Pods    == [size : Nat, gpu : Nat]
Content == [replicas : Int, template : [Containers -> Pods]]

Directive ==
    [id : Workloads, action : STRING, type : STRING,
     newResources : {None} \cup Pods, newReplicas : {None} \cup Int]

WorkloadInfo ==
    [name : Names, kind : Kinds, containers : SUBSET Containers]

\* A directive at work, with the attempts left.
Work == [directive : Directives, info : WorkloadInfo, left : Nat]

ASSUME TargetsAssumption ==
    /\ IsFiniteSet(Callers)
    /\ Workloads \subseteq Names
    /\ "Deployment" \in Kinds
    /\ Objects \subseteq [kind : Kinds, name : Names]
    /\ Contents \subseteq Content
    /\ Directives \subseteq Directive
    /\ Infos \subseteq WorkloadInfo
    /\ None \notin Content \cup Work \cup WorkloadInfo \cup Directives

ASSUME LimitsAssumption ==
    MaxConcurrentExecutions \in Nat \ {0} /\ RetryAttempts \in Nat

\* The object an ID stands for: as registered, else the Deployment that has
\* the ID for a name, with every container in scope.
Lookup(registry, id) ==
    IF id \in DOMAIN registry THEN registry[id]
    ELSE [name |-> id, kind |-> "Deployment", containers |-> {}]

Target(info) == [kind |-> info.kind, name |-> info.name]

Scales(d) == d.action \in {"scale-up", "scale-down"}

\* Directives that succeed without a request: preemption is only logged.
Silent(d) == d.action \in {"postpone", "preempt"}

\* The scale directives executeDirective can carry out.
Executable(d, info) ==
    /\ Scales(d)
    /\ info.kind \in {"Deployment", "StatefulSet"}
    /\ \/ d.type = "vertical"   /\ d.newResources # None
       \/ d.type = "horizontal" /\ d.newReplicas # None

\* The requirements of a container are replaced as a whole; only for a
\* Deployment is the GPU limit set again.
ContainerResources(info, resources) ==
    [size |-> resources.size,
     gpu  |-> IF info.kind = "Deployment" THEN resources.gpu ELSE 0]

InScope(info, k) == info.containers = {} \/ k \in info.containers

Scaled(object, info, d) ==
    IF d.type = "horizontal"
    THEN [replicas |-> d.newReplicas, template |-> object.template]
    ELSE [replicas |-> object.replicas,
          template |-> [k \in Containers |->
              IF InScope(info, k) THEN ContainerResources(info, d.newResources)
              ELSE object.template[k]]]
=============================================================================
