----------------------------- MODULE Placement ------------------------------
(***************************************************************************)
(* Node selection and placement validation of pkg/allocation/allocator.go. *)
(* A cluster is the sequence of its nodes, in the order the provider lists *)
(* them: every search returns the first node that fits.                    *)
(***************************************************************************)
EXTENDS QoSTypes, Sequences, FiniteSetsExt

FirstNode(nodes, fitting) ==
    IF fitting = {} THEN None ELSE nodes[Min(fitting)].name

findRANNode(nodes, needed) ==
    FirstNode(nodes, {i \in DOMAIN nodes : /\ IsRANNode(nodes[i])
                                           /\ nodes[i].cpu >= needed.cpu
                                           /\ nodes[i].mem >= needed.mem})

findGPUNode(nodes) ==
    FirstNode(nodes, {i \in DOMAIN nodes : IsGPUNode(nodes[i]) /\ nodes[i].gpuAvailable})

findComputingNode(nodes, w) ==
    FirstNode(nodes, {i \in DOMAIN nodes : /\ IsComputingNode(nodes[i])
                                           /\ ~IsRANNode(nodes[i])
                                           /\ nodes[i].cpu >= w.minRes.cpu
                                           /\ nodes[i].mem >= w.minRes.mem})

selectNonRANNode(nodes, w, p) ==
    IF w.requiresGPU /\ ~HighTraffic(p) /\ (findGPUNode(nodes) # None \/ ~w.gpuFallbackCPU)
    THEN findGPUNode(nodes)
    ELSE findComputingNode(nodes, w)

\* Node names are unique, so "the node of that name" is the first one found.
validateRANPlacement(d, nodes) ==
    \/ d.targetNode = None
    \/ \E i \in DOMAIN nodes : nodes[i].name = d.targetNode /\ IsRANNode(nodes[i])

\* No directive of the allocator sets FallbackToNode.
validateNonRANPlacement(d, w, nodes) ==
    \/ d.targetNode = None
    \/ \E i \in DOMAIN nodes : /\ nodes[i].name = d.targetNode
                               /\ IsRANNode(nodes[i]) => IsComputingNode(nodes[i])
                               /\ CanRunOnNode(w, nodes[i])
=============================================================================
