------------------------------ MODULE QoSTypes ------------------------------
(***************************************************************************)
(* The types of pkg/allocation/types.go that the allocation function       *)
(* decides on: namespaces and QoS tiers, workloads, nodes, metrics and      *)
(* traffic predictions.                                                     *)
(*                                                                         *)
(* A WorkloadSpec is a record                                              *)
(*   [namespace, qosLevel, minRes, maxRes, curRes, minReplicas,            *)
(*    maxReplicas, currentReplicas, currentNode, requiredNodeLabels,       *)
(*    requiresGPU, gpuFallbackCPU, postponeDuringPeak]                     *)
(* a NodeState      [name, labels, hasGPU, gpuAvailable, cpu, mem]          *)
(* a WorkloadMetrics [currentLatency, targetLatency, cpu, gpu]              *)
(* a TrafficPrediction [load, conf, peakExpected, peakStart, peakEnd].      *)
(* CPU and memory are integers (milli-units); loads, confidences and       *)
(* utilisations are percentages; the instants of a prediction are relative *)
(* to now, in ticks of the model's clock.                                  *)
(***************************************************************************)
EXTENDS Integers

CONSTANTS
    None,                   \* a nil pointer, and the empty node name
    CPUSaturationThreshold, \* percent
    MinConfidenceThreshold, \* percent
    TrafficHighLoadThreshold \* percent

(***************************************************************************)
(* QoS tiers.                                                              *)
(***************************************************************************)
QoSHigh   == 1
QoSMedium == 2
QoSLow    == 3
QoSLevels == {QoSHigh, QoSMedium, QoSLow}

IsRANNamespace(ns) == ns \in {"srsran", "ricplt", "ricxapp"}

GetQoSLevelFromNamespace(ns) ==
    CASE ns = "srsran"                -> QoSHigh
      [] ns \in {"ricplt", "ricxapp"} -> QoSMedium
      [] OTHER                        -> QoSLow

GetAllowedScalingType(ns) ==
    IF IsRANNamespace(ns) THEN "vertical" ELSE "horizontal"

IsRAN(w) == IsRANNamespace(w.namespace)

(***************************************************************************)
(* Nodes.                                                                  *)
(***************************************************************************)
IsGPUNode(n)       == "gpu" \in n.labels \/ n.hasGPU
IsRANNode(n)       == "ran" \in n.labels
IsComputingNode(n) == "computing" \in n.labels

GetRequiredNodeLabels(w) ==
    CASE w.requiredNodeLabels # {} -> w.requiredNodeLabels
      [] w.requiredNodeLabels = {} /\ IsRAN(w) -> {"ran"}
      [] w.requiredNodeLabels = {} /\ ~IsRAN(w) /\ w.requiresGPU -> {"gpu", "computing"}
      [] OTHER -> {"computing"}

CanRunOnNode(w, n) ==
    /\ GetRequiredNodeLabels(w) \subseteq n.labels
    /\ w.requiresGPU /\ ~w.gpuFallbackCPU => IsGPUNode(n) /\ n.gpuAvailable
    /\ n.cpu >= w.minRes.cpu
    /\ n.mem >= w.minRes.mem

(***************************************************************************)
(* Metrics and predictions.                                                *)
(***************************************************************************)
IsDegraded(m) ==
    \/ m.targetLatency > 0 /\ m.currentLatency > m.targetLatency
    \/ m.cpu > CPUSaturationThreshold

IsTrafficPeakImminent(p, threshold) ==
    p.peakExpected /\ p.peakStart # None /\ p.peakStart <= threshold

IsInTrafficPeak(p) ==
    /\ p.peakExpected /\ p.peakStart # None /\ p.peakEnd # None
    /\ p.peakStart < 0 /\ p.peakEnd > 0

Trusted(p) == p.conf >= MinConfidenceThreshold

\* The same test guards the scheduler gate, GPU withholding, the migration
\* off a GPU node and the RAN scale-down guard.
HighTraffic(p) == Trusted(p) /\ p.load >= TrafficHighLoadThreshold

\* What Allocate uses when the Digital Twin does not answer.
NoPrediction ==
    [load |-> 0, conf |-> 0, peakExpected |-> FALSE, peakStart |-> None, peakEnd |-> None]
=============================================================================
