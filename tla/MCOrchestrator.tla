--------------------------- MODULE MCOrchestrator ---------------------------
(***************************************************************************)
(* A small instance of the loop: one low-tier workload, registered with    *)
(* the executor, and one RAN workload.                                     *)
(***************************************************************************)
EXTENDS OrchestratorClaims

MCWorkloads  == {"ai", "ran"}
MCNamespace  == [w \in MCWorkloads |-> IF w = "ai" THEN "ai-workloads" ELSE "srsran"]
MCRegistered == {"ai"}
MCHorizons   == 1..2

\* A resource without an override of its tier, and defaults for the counts.
PlainResource ==
    [qosLevel |-> None, minReplicas |-> 0, maxReplicas |-> 0, requiredNodeLabels |-> {},
     gpuCount |-> 0, gpuFallbackToCPU |-> FALSE, postponeDuringPeak |-> TRUE]

MCCustomResources == {PlainResource}

Reply(preds) == [preds |-> preds, rmse |-> 1]

\* High traffic followed by low traffic, low traffic, an error.
MCReplies == {Reply(<<60, 20>>), Reply(<<20>>), None}

MCSamples   == {[latency |-> 8, cpu |-> 90, gpu |-> None]}
\* A result with both labels and one with neither.
MCNodeResponses ==
    {<<[node |-> "node", instance |-> "address"], [node |-> None, instance |-> None]>>}

\* Every observation of this instance, and a few it never makes.
MCPredictions == UNION {GetPrediction(h) : h \in MCHorizons}

MCObservations ==
    [spec : {Specs(listed) : listed \in Listings \ {<<>>}},
     metrics : UNION {[ids -> {getWorkloadMetrics(s) : s \in MCSamples}] :
                         ids \in SUBSET MCWorkloads},
     prediction : NextPredictions,
     ahead : [MCHorizons -> MCPredictions],
     nodes : GetState]
=============================================================================
