------------------------------- MODULE Sizing -------------------------------
(***************************************************************************)
(* The computation functions of pkg/allocation/allocator.go, with the      *)
(* default scaling sensitivity (alpha = 1) and exact rational arithmetic   *)
(* in place of float64: a deviation or a ratio is a record [num, den] with *)
(* den > 0.  Truncation, ceiling, floor and clamping are those of the code.*)
(***************************************************************************)
EXTENDS QoSTypes

CONSTANTS
    PredictionWeight,   \* beta, percent
    ScaleUpThreshold,   \* percent
    ScaleDownThreshold  \* percent

ASSUME WeightsAssumption ==
    /\ PredictionWeight \in Nat
    /\ ScaleUpThreshold \in Nat /\ ScaleDownThreshold \in Nat
    /\ MinConfidenceThreshold \in Nat \ {0}

Floor(num, den) == num \div den
Ceil(num, den)  == -((-num) \div den)

Clamp(x, lo, hi) == IF x < lo THEN lo ELSE IF x > hi THEN hi ELSE x

\* The replica counts clamp to the maximum first: with minReplicas above
\* maxReplicas the scale-up yields the minimum, the scale-down the maximum.
ClampUp(x, lo, hi) ==
    LET y == IF x > hi THEN hi ELSE x IN IF y < lo THEN lo ELSE y
ClampDown(x, lo, hi) ==
    LET y == IF x < lo THEN lo ELSE x IN IF y > hi THEN hi ELSE y

computeDeviation(m) ==
    IF m.targetLatency = 0
    THEN [num |-> 0, den |-> 1]
    ELSE [num |-> m.currentLatency - m.targetLatency, den |-> m.targetLatency]

Above(dev) == 100 * dev.num > ScaleUpThreshold * dev.den
Below(dev) == 100 * dev.num < -(ScaleDownThreshold * dev.den)

\* Twice the predicted increase over the mean of CPU and GPU utilisation.
LoadIncrease(m, p) ==
    LET inc == 2 * p.load - (m.cpu + m.gpu)
    IN  IF Trusted(p) /\ inc > 0 THEN inc ELSE 0

\* Mutation: the ratio follows the prediction only, not the latency.
computeScalingRatioNoLatency(m, p) ==
    [num |-> 20000 + PredictionWeight * LoadIncrease(m, p), den |-> 20000]

computeScalingRatio(m, p) ==
    IF m.targetLatency = 0
    THEN [num |-> 1, den |-> 1]
    ELSE [num |-> m.currentLatency * (20000 + PredictionWeight * LoadIncrease(m, p)),
          den |-> m.targetLatency * 20000]

multiplyQuantity(q, ratio) == Floor(q * ratio.num, ratio.den)

Rescaled(w, ratio) ==
    [cpu |-> Clamp(multiplyQuantity(w.curRes.cpu, ratio), w.minRes.cpu, w.maxRes.cpu),
     mem |-> Clamp(multiplyQuantity(w.curRes.mem, ratio), w.minRes.mem, w.maxRes.mem)]

\* Mutation: the deviation is used.
computeVerticalScaleUpByDeviation(w, m, deviation, p) ==
    Rescaled(w, [num |-> deviation.den + deviation.num, den |-> deviation.den])

\* The deviation is a parameter of the code's function too, which ignores it.
computeVerticalScaleUp(w, m, deviation, p) == Rescaled(w, computeScalingRatio(m, p))

\* Mutation: the sign of the deviation is lost.
OnePlusAbsolute(dev) ==
    [num |-> dev.den + (IF dev.num < 0 THEN -dev.num ELSE dev.num), den |-> dev.den]

OnePlus(dev) == [num |-> dev.den + dev.num, den |-> dev.den]

computeVerticalScaleDown(w, dev) == Rescaled(w, OnePlus(dev))

computeHorizontalScaleUp(w, dev) ==
    ClampUp(Ceil(w.currentReplicas * (dev.den + dev.num), dev.den),
            w.minReplicas, w.maxReplicas)

computeHorizontalScaleDown(w, dev) ==
    ClampDown(Floor(w.currentReplicas * (dev.den + dev.num), dev.den),
              w.minReplicas, w.maxReplicas)

Exceeds(a, b) == a.cpu > b.cpu \/ a.mem > b.mem
=============================================================================
