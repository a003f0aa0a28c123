-------------------------- MODULE AllocatorClaims ---------------------------
(***************************************************************************)
(* What the comments and docs/orchestrator-algorithm.md claim of a batch,  *)
(* where the code does something else.  Each of these is the property of a *)
(* run that finds it violated.                                             *)
(***************************************************************************)
EXTENDS Allocator

Low(w)      == w \in Observed(obs) /\ obs.spec[w].qosLevel = QoSLow
RANGrant(d) == d.action = "scale-up" /\ d.type = "vertical"

\* docs 9: when RAN degradation is detected, all non-RAN workloads above their
\* minimum are immediately scaled down; no directive executed later in the
\* same batch takes the freed resources back.
ReductionStands ==
    \A d, e \in batch :
        d.reason = "reduction" /\ e.id = d.id /\ e.action = "scale-up" =>
            e.priority < d.priority

\* docs 7 and processNonRANWorkload: the traffic prediction is checked first,
\* and a workload on a GPU node is migrated to a computing node when high load
\* is predicted.  So what a call decides about such a workload, apart from the
\* resumption or reduction it may come with, is that migration.
GPUWorkloadsMigrate ==
    \A w \in Observed(obs) :
        LET spec == obs.spec[w]
            node == findComputingNode(obs.nodes, spec)
        IN  /\ Low(w) /\ HighTraffic(obs.prediction)
            /\ spec.requiresGPU /\ spec.currentNode # None
            /\ node \notin {None, spec.currentNode}
            => \A d \in batch :
                  d.id = w /\ d.reason \notin {"resume", "reduction"} =>
                      d.reason = "migrate" /\ d.targetNode = node

\* processRANWorkload: both upper tiers always get the resources they need; so
\* two grants of one batch do not count on the same room of one node.  A
\* workload that already runs on the node brings what it has.
Extra(d) ==
    LET spec == obs.spec[d.id]
        here == spec.currentNode = d.targetNode
    IN  [cpu |-> d.newResources.cpu - (IF here THEN spec.curRes.cpu ELSE 0),
         mem |-> d.newResources.mem - (IF here THEN spec.curRes.mem ELSE 0)]

RoomIsGrantedOnce ==
    \A d, e \in batch :
        d # e /\ RANGrant(d) /\ RANGrant(e) /\ d.targetNode = e.targetNode =>
            \E i \in DOMAIN obs.nodes :
                /\ obs.nodes[i].name = d.targetNode
                /\ Extra(d).cpu + Extra(e).cpu <= obs.nodes[i].cpu
                /\ Extra(d).mem + Extra(e).mem <= obs.nodes[i].mem
=============================================================================
