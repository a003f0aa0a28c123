---------------------------- MODULE MCAllocator -----------------------------
(***************************************************************************)
(* Small instances of Allocator.  One tick of the clock is ten minutes:    *)
(* the step of the look-ahead, a third of the postponement window.         *)
(***************************************************************************)
EXTENDS AllocatorClaims

MCHorizons == 1..3

Res(c, m) == [cpu |-> c, mem |-> m]

AISpec ==
    [namespace |-> "ai-workloads", qosLevel |-> QoSLow,
     minRes |-> Res(10, 10), maxRes |-> Res(40, 40), curRes |-> Res(10, 10),
     minReplicas |-> 1, maxReplicas |-> 4, currentReplicas |-> 1,
     currentNode |-> None, requiredNodeLabels |-> {},
     requiresGPU |-> FALSE, gpuFallbackCPU |-> FALSE, postponeDuringPeak |-> TRUE]

RANSpec ==
    [AISpec EXCEPT !.namespace = "srsran", !.qosLevel = QoSHigh, !.currentReplicas = 2,
                   !.currentNode = "ran1", !.postponeDuringPeak = FALSE]

Metrics(cur, tgt, cpu) ==
    [currentLatency |-> cur, targetLatency |-> tgt, cpu |-> cpu, gpu |-> cpu]

Quiet    == Metrics(4, 4, 50)
Violated == Metrics(8, 4, 50)
Slack    == Metrics(2, 4, 50)

Prediction(load, conf) == [NoPrediction EXCEPT !.load = load, !.conf = conf]
Peak(start, end) ==
    [load |-> 20, conf |-> 90, peakExpected |-> TRUE, peakStart |-> start, peakEnd |-> end]

Node(name, labels, room) ==
    [name |-> name, labels |-> labels, hasGPU |-> FALSE, gpuAvailable |-> TRUE,
     cpu |-> room, mem |-> room]

-----------------------------------------------------------------------------
(***************************************************************************)
(* Deferral.  ai1 postpones during peaks, ai2 does not; either may be      *)
(* missing from the list (its resource was deleted) or from the metrics.   *)
(* The RAN workload is degraded whenever its metrics are there.            *)
(***************************************************************************)
DeferralWorkloads == {"ai1", "ai2", "ran"}

DeferralSpec(w, n) ==
    CASE w = "ai1" -> [AISpec EXCEPT !.currentReplicas = n]
      [] w = "ai2" -> [AISpec EXCEPT !.currentReplicas = 3, !.postponeDuringPeak = FALSE]
      [] w = "ran" -> RANSpec

DeferralSpecs ==
    {[w \in S \cup {"ran"} |-> DeferralSpec(w, n)] :
        S \in SUBSET DeferralWorkloads, n \in {1, 3}}

NoAhead == [h \in MCHorizons |-> None]

DeferralObservation(spec, metrics, prediction, ahead) ==
    [spec |-> spec, metrics |-> metrics, prediction |-> prediction,
     ahead |-> ahead, nodes |-> <<>>]

\* Without the gate: no prediction, an untrusted one, a low one, three peaks.
\* With it: a peak and no low-traffic window ahead, or a window at the second
\* step.
DeferralObservations ==
    LET mets == {[w \in S |-> Violated] : S \in {DeferralWorkloads, {"ai1"}}}
        late == [h \in MCHorizons |-> IF h = 1 THEN Prediction(60, 90) ELSE Prediction(20, 90)]
    IN  {DeferralObservation(s, m, p, NoAhead) :
            s \in DeferralSpecs, m \in mets,
            p \in {NoPrediction, Prediction(60, 40), Prediction(20, 90),
                   Peak(1, 2), Peak(-1, 2), Peak(3, None)}}
        \cup
        {DeferralObservation(s, m, gate[1], gate[2]) :
            s \in DeferralSpecs, m \in mets,
            gate \in {<<[Peak(1, 2) EXCEPT !.load = 60], NoAhead>>, <<Prediction(60, 90), late>>}}

-----------------------------------------------------------------------------
(***************************************************************************)
(* Vertical scaling: one RAN workload, every phase of its processing.      *)
(***************************************************************************)
Tier(spec, ns) ==
    [spec EXCEPT !.namespace = ns, !.qosLevel = GetQoSLevelFromNamespace(ns)]

VerticalSpecs ==
    {[Tier(RANSpec, ns) EXCEPT !.curRes = Res(c, m), !.currentNode = n] :
        ns \in {"srsran", "ricplt"}, c \in {10, 13, 40}, m \in {10, 11, 40},
        n \in {None, "ran1"}}

VerticalMetrics ==
    {Metrics(cur, tgt, cpu) : cur \in {1, 3, 4, 5, 8}, tgt \in {0, 4}, cpu \in {10, 90}}

RANNode(name, room) == Node(name, {"ran"}, room)
CPUNode             == Node("cpu1", {"computing"}, 60)
GPUNode(available)  ==
    [Node("gpu1", {"gpu", "computing"}, 60) EXCEPT !.gpuAvailable = available]

VerticalClusters ==
    {<<>>, <<CPUNode, RANNode("ran1", 12)>>, <<RANNode("ran1", 12), RANNode("ran2", 60)>>}

VerticalObservations ==
    [spec : {"ran"} \X VerticalSpecs, metrics : VerticalMetrics,
     prediction : {Prediction(20, 90), Prediction(90, 40), Prediction(90, 90)},
     nodes : VerticalClusters]

\* One workload's observation from its specification and its metrics.
OneWorkload(x) ==
    [spec |-> [w \in {x.spec[1]} |-> x.spec[2]],
     metrics |-> [w \in {x.spec[1]} |-> x.metrics],
     prediction |-> x.prediction, ahead |-> NoAhead, nodes |-> x.nodes]

MCVerticalObservations == {OneWorkload(x) : x \in VerticalObservations}

-----------------------------------------------------------------------------
(***************************************************************************)
(* Horizontal scaling: one low-tier workload over its replica counts, GPU  *)
(* needs and latencies, next to a RAN workload that may be degraded.       *)
(***************************************************************************)
HorizontalWorkloads == {"ai", "ran"}

HorizontalSpecs ==
    {[AISpec EXCEPT !.currentReplicas = n, !.minReplicas = lo,
                    !.requiresGPU = gpu, !.gpuFallbackCPU = fallback,
                    !.requiredNodeLabels = labels,
                    !.currentNode = "gpu1", !.postponeDuringPeak = FALSE] :
        n \in 0..6, lo \in {0, 2}, gpu \in BOOLEAN, fallback \in BOOLEAN,
        labels \in {{}, {"computing"}}}

HorizontalClusters == {<<CPUNode>>, <<GPUNode(TRUE), CPUNode>>, <<GPUNode(FALSE), CPUNode>>}

Pair(spec, m, ranMetrics, p, nodes) ==
    [spec |-> [w \in HorizontalWorkloads |-> IF w = "ai" THEN spec ELSE RANSpec],
     metrics |-> [w \in HorizontalWorkloads |-> IF w = "ai" THEN m ELSE ranMetrics],
     prediction |-> p, ahead |-> NoAhead, nodes |-> nodes]

MCHorizontalObservations ==
    {Pair(spec, m, r, Prediction(20, 90), nodes) :
        spec \in HorizontalSpecs, m \in {Slack, Quiet, Metrics(5, 4, 50), Violated},
        r \in {Quiet, Violated}, nodes \in HorizontalClusters}
    \cup
    {Pair(spec, Quiet, r, Prediction(90, 90), <<CPUNode, GPUNode(TRUE)>>) :
        spec \in {s \in HorizontalSpecs : s.requiresGPU /\ s.currentReplicas \in {2, 5}},
        r \in {Quiet, Violated}}

DecisionObservations == MCVerticalObservations \cup MCHorizontalObservations

-----------------------------------------------------------------------------
(***************************************************************************)
(* Two RAN workloads on one RAN node.                                      *)
(***************************************************************************)
SharedWorkloads == {"ran", "ric"}

SharedObservations ==
    {[spec |-> [w \in SharedWorkloads |-> IF w = "ran" THEN RANSpec ELSE Tier(RANSpec, "ricplt")],
      metrics |-> [w \in SharedWorkloads |-> m],
      prediction |-> p, ahead |-> NoAhead, nodes |-> <<RANNode("ran1", room)>>] :
        m \in {Quiet, Violated}, p \in {Prediction(20, 90), Prediction(90, 90)},
        room \in 10..40}
=============================================================================
