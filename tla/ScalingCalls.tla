---------------------------- MODULE ScalingCalls ----------------------------
(***************************************************************************)
(* What Execute promises its callers: a directive changes only what it is  *)
(* about, in an object as it is at that instant; a call that succeeds has  *)
(* just changed it; a call makes a bounded number of attempts, of which a  *)
(* failed one may have changed the object all the same; no more than       *)
(* MaxConcurrentExecutions calls are at work; a dry run changes nothing.   *)
(***************************************************************************)
EXTENDS ScalingTargets

VARIABLES
    objects,    \* the objects of the cluster, None when absent
    registry,   \* workload ID -> WorkloadInfo
    dryRun,     \* Config.DryRun
    doing       \* per caller, the directive at work and the attempts left

vars == <<objects, registry, dryRun, doing>>

Init ==
    /\ objects \in [Objects -> Contents \cup {None}]
    /\ registry = [w \in {} |-> None]
    /\ dryRun \in BOOLEAN
    /\ doing = [c \in Callers |-> None]

Busy == {c \in Callers : doing[c] # None}

Begin(c, d) ==
    /\ doing[c] = None
    /\ Cardinality(Busy) < MaxConcurrentExecutions
    /\ doing' = [doing EXCEPT ![c] =
                   [directive |-> d, info |-> Lookup(registry, d.id),
                    left |-> RetryAttempts + 1]]
    /\ UNCHANGED <<objects, registry, dryRun>>

\* The change a caller is to make, made.
Write(c) ==
    LET d    == doing[c].directive
        info == doing[c].info
        o    == Target(info)
    IN  /\ ~dryRun
        /\ Executable(d, info)
        /\ o \in Objects /\ objects[o] # None
        /\ objects' = [objects EXCEPT ![o] = Scaled(objects[o], info, d)]

Succeed(c) ==
    /\ doing[c] # None
    /\ \/ Write(c)
       \/ (dryRun \/ Silent(doing[c].directive)) /\ UNCHANGED objects
    /\ doing' = [doing EXCEPT ![c] = None]
    /\ UNCHANGED <<registry, dryRun>>

FailAttempt(c) ==
    /\ doing[c] # None
    /\ Write(c) \/ UNCHANGED objects
    /\ doing' = [doing EXCEPT ![c] =
                   IF doing[c].left = 1 THEN None
                   ELSE [directive |-> doing[c].directive, info |-> doing[c].info,
                         left |-> doing[c].left - 1]]
    /\ UNCHANGED <<registry, dryRun>>

\* Somebody else changes an object: a user, a controller, an autoscaler.
Edit(o, content) ==
    /\ objects' = [objects EXCEPT ![o] = content]
    /\ UNCHANGED <<registry, dryRun, doing>>

RegisterWorkload(w, info) ==
    /\ registry' = [v \in DOMAIN registry \cup {w} |-> IF v = w THEN info ELSE registry[v]]
    /\ UNCHANGED <<objects, dryRun, doing>>

Next ==
    \/ \E c \in Callers :
          \/ \E d \in Directives : Begin(c, d)
          \/ Succeed(c)
          \/ FailAttempt(c)
    \/ \E o \in Objects, content \in Contents \cup {None} : Edit(o, content)
    \/ \E w \in Workloads, info \in Infos : RegisterWorkload(w, info)

Spec == Init /\ [][Next]_vars
=============================================================================
