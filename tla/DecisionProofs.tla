--------------------------- MODULE DecisionProofs ---------------------------
(***************************************************************************)
(* Theorems about the decisions of a batch (Allocator), for every set of   *)
(* workloads and observations and every value of the thresholds: replica   *)
(* steps stay in bounds, resizes go one way, violated latencies are        *)
(* answered, and the map and the announcements agree.                      *)
(***************************************************************************)
EXTENDS AllocatorProofs

-----------------------------------------------------------------------------
(***************************************************************************)
(* Scaling, truncating and clamping a quantity.                            *)
(***************************************************************************)
LEMMA ProductMonotone ==
    ASSUME NEW q \in Nat, NEW a \in Int, NEW b \in Int, a <= b
    PROVE  q * a <= q * b
  OBVIOUS

LEMMA FloorBounds ==
    ASSUME NEW n \in Int, NEW d \in Nat \ {0}
    PROVE  /\ Floor(n, d) \in Int
           /\ d * Floor(n, d) <= n
           /\ n < d * Floor(n, d) + d
  BY DEF Floor

\* The quotient is the greatest whose product is below.
LEMMA FloorLeast ==
    ASSUME NEW n \in Int, NEW d \in Nat \ {0}, NEW q \in Int
    PROVE  /\ d * q <= n => q <= Floor(n, d)
           /\ n < d * q + d => Floor(n, d) <= q
<1> DEFINE f == Floor(n, d)
<1>1. f \in Int /\ d * f <= n /\ n < d * f + d
  BY FloorBounds
<1> HIDE DEF f
<1>2. ASSUME d * q <= n, f + 1 <= q PROVE FALSE
  <2>1. d * (f + 1) <= d * q
    BY <1>1, <1>2, ProductMonotone
  <2>2. d * (f + 1) = d * f + d
    BY <1>1
  <2> QED
    BY <1>1, <1>2, <2>1, <2>2
<1>3. ASSUME n < d * q + d, q + 1 <= f PROVE FALSE
  <2>1. d * (q + 1) <= d * f
    BY <1>1, <1>3, ProductMonotone
  <2>2. d * (q + 1) = d * q + d
    OBVIOUS
  <2> QED
    BY <1>1, <1>3, <2>1, <2>2
<1> QED
  BY <1>1, <1>2, <1>3 DEF f

LEMMA FloorScaled ==
    ASSUME NEW q \in Nat, NEW n \in Int, NEW d \in Nat \ {0}
    PROVE  /\ d <= n => q <= Floor(q * n, d)
           /\ n <= d => Floor(q * n, d) <= q
<1>1. q * n \in Int /\ q * d \in Int /\ d * q = q * d
  OBVIOUS
<1>2. d <= n => q * d <= q * n
  BY ProductMonotone
<1>3. n <= d => q * n <= q * d
  BY ProductMonotone
<1> QED
  BY <1>1, <1>2, <1>3, FloorLeast

Scalable(q, lo, hi) == q \in Nat /\ lo \in Nat /\ hi \in Nat

\* A quantity above its minimum is not raised by a ratio of at most one; one
\* below its maximum is not lowered by a ratio of at least one.
LEMMA ClampedScaling ==
    ASSUME NEW q, NEW lo, NEW hi, Scalable(q, lo, hi), NEW r \in Rationals
    PROVE  LET new == Clamp(multiplyQuantity(q, r), lo, hi)
           IN  /\ new \in Int
               /\ r.num <= r.den /\ lo <= q => new <= q
               /\ r.den <= r.num /\ q <= hi => q <= new
<1> DEFINE f == Floor(q * r.num, r.den)
<1>1. q \in Nat /\ r.num \in Int /\ r.den \in Nat \ {0} /\ q * r.num \in Int
  BY DEF Scalable, Rationals
<1>2. /\ f \in Int
      /\ r.den <= r.num => q <= f
      /\ r.num <= r.den => f <= q
  BY <1>1, FloorScaled, FloorBounds
<1> HIDE DEF f
<1>3. multiplyQuantity(q, r) = f
  BY DEF multiplyQuantity, f
<1> QED
  BY <1>1, <1>2, <1>3 DEF Clamp, Scalable

\* A quantity that a ratio of at least that of the latencies, itself more than
\* one, does not raise cannot grow.
LEMMA StuckQuantity ==
    ASSUME NEW q \in Nat, NEW lo \in Nat, NEW hi \in Nat,
           NEW m \in WorkloadMetrics, NEW r \in Rationals,
           m.targetLatency > 0, m.currentLatency > m.targetLatency,
           r.den = m.targetLatency * 20000, m.currentLatency * 20000 <= r.num,
           Clamp(multiplyQuantity(q, r), lo, hi) <= q
    PROVE  CannotGrow(q, hi, m)
<1>a. PICK lat \in Nat : lat = m.currentLatency
  BY DEF WorkloadMetrics
<1>b. PICK tgt \in Nat \ {0} : tgt = m.targetLatency
  BY DEF WorkloadMetrics
<1>c. PICK num \in Nat : num = r.num
  BY <1>a DEF Rationals
<1>d. tgt < lat /\ lat * 20000 <= num
  BY <1>a, <1>b, <1>c
<1>1. PICK U \in Nat \ {0} : U = tgt * 20000
  OBVIOUS
<1>2. PICK n \in Int : n = q * num
  OBVIOUS
<1>3. PICK l \in Int : l = q * lat
  OBVIOUS
<1>4. PICK f \in Int : f = Floor(n, U)
  BY FloorInt
<1>5. PICK g \in Int : g = Floor(l, tgt)
  BY FloorInt
<1>6. q <= g /\ tgt * g <= l
  <2>1. tgt * q <= l
    <3>1. q * tgt <= q * lat
      BY <1>d, ProductMonotone
    <3> QED
      BY <1>3, <3>1
  <2>2. q <= g
    BY <1>5, <2>1, FloorLeast
  <2>3. tgt * g <= l
    BY <1>5, FloorBounds
  <2> QED
    BY <2>2, <2>3
<1>7. U * g <= n
  <2>1. U * g = 20000 * (tgt * g) /\ 20000 * l = q * (lat * 20000)
    BY <1>1, <1>3
  <2>2. 20000 * (tgt * g) <= 20000 * l
    BY <1>6
  <2>3. q * (lat * 20000) <= n
    BY <1>2, <1>d, ProductMonotone
  <2> QED
    BY <2>1, <2>2, <2>3
<1>8. g <= f
  BY <1>4, <1>7, FloorLeast
<1>9. Clamp(f, lo, hi) <= q
  BY <1>1, <1>2, <1>4, <1>b, <1>c DEF multiplyQuantity
<1>10. q >= hi \/ g = q
  BY <1>6, <1>8, <1>9 DEF Clamp
<1> QED
  BY <1>3, <1>5, <1>10, <1>a, <1>b DEF CannotGrow

LEMMA RescaledMonotone ==
    ASSUME NEW spec \in WorkloadSpecs, NEW r \in Rationals, InBounds(spec)
    PROVE  /\ r.num <= r.den => ~Exceeds(Rescaled(spec, r), spec.curRes)
           /\ r.den <= r.num => ~Exceeds(spec.curRes, Rescaled(spec, r))
<1>1. /\ Scalable(spec.curRes.cpu, spec.minRes.cpu, spec.maxRes.cpu)
      /\ Scalable(spec.curRes.mem, spec.minRes.mem, spec.maxRes.mem)
  BY DEF WorkloadSpecs, Quantities, Scalable
<1> DEFINE cpu == Clamp(multiplyQuantity(spec.curRes.cpu, r), spec.minRes.cpu, spec.maxRes.cpu)
           mem == Clamp(multiplyQuantity(spec.curRes.mem, r), spec.minRes.mem, spec.maxRes.mem)
<1>2. /\ cpu \in Int /\ mem \in Int
      /\ r.num <= r.den => cpu <= spec.curRes.cpu /\ mem <= spec.curRes.mem
      /\ r.den <= r.num => spec.curRes.cpu <= cpu /\ spec.curRes.mem <= mem
  BY <1>1, ClampedScaling DEF InBounds
<1>3. Rescaled(spec, r).cpu = cpu /\ Rescaled(spec, r).mem = mem
  BY DEF Rescaled
<1> HIDE DEF cpu, mem
<1> QED
  BY <1>1, <1>2, <1>3 DEF Exceeds, Scalable

-----------------------------------------------------------------------------
(***************************************************************************)
(* The directives of each phase.                                           *)
(***************************************************************************)
Grant(d, spec, m, p) ==
    /\ d.action \in {"scale-up", "preempt"}
    /\ d.newResources = Rescaled(spec, computeScalingRatio(m, p))
    /\ d.reason = "prescale" => Exceeds(d.newResources, spec.curRes)
    /\ d.reason = "reactive" => Above(computeDeviation(m))

Release(d, spec, m) ==
    /\ d.action = "scale-down"
    /\ d.newResources = Rescaled(spec, OnePlus(computeDeviation(m)))
    /\ Below(computeDeviation(m))

LEMMA RANShape ==
    ASSUME NEW o \in Observations, NEW w \in Observed(o), NEW d \in processRANWorkload(w, o)
    PROVE  /\ d.id = w /\ d.type = "vertical" /\ d.newReplicas = None /\ d.postponeUntil = None
           /\ d.reason \in {"initial", "prescale", "reactive", "release"}
           /\ IF d.reason = "release" THEN Release(d, o.spec[w], o.metrics[w])
              ELSE Grant(d, o.spec[w], o.metrics[w], o.prediction)
<1> DEFINE spec      == o.spec[w]
           m         == o.metrics[w]
           dev       == computeDeviation(m)
           proactive == computeVerticalScaleUp(spec, m, [num |-> 0, den |-> 1], o.prediction)
           prescale  == IF Exceeds(proactive, spec.curRes)
                        THEN GrantOrPreempt(w, o, proactive, "prescale") ELSE {}
           needed    == computeVerticalScaleUp(spec, m, dev, o.prediction)
           Common(e) == /\ e.id = w /\ e.type = "vertical"
                        /\ e.newReplicas = None /\ e.postponeUntil = None
<1>1. ASSUME NEW size, NEW reason, NEW e \in GrantOrPreempt(w, o, size, reason)
      PROVE  /\ Common(e) /\ e.reason = reason /\ e.newResources = size
             /\ e.action \in {"scale-up", "preempt"}
  BY <1>1 DEF GrantOrPreempt, Vertical
<1>2. ASSUME NEW e \in VerticalRelease(w, o, dev)
      PROVE  /\ Common(e) /\ e.reason = "release" /\ e.action = "scale-down"
             /\ e.newResources = Rescaled(spec, OnePlus(dev))
  BY <1>2 DEF VerticalRelease, Vertical, computeVerticalScaleDown
<1>3. /\ proactive = Rescaled(spec, computeScalingRatio(m, o.prediction))
      /\ needed = proactive
  BY DEF computeVerticalScaleUp
<1>4. \/ d \in GrantOrPreempt(w, o, proactive, "initial")
      \/ d \in GrantOrPreempt(w, o, proactive, "prescale") /\ Exceeds(proactive, spec.curRes)
      \/ d \in GrantOrPreempt(w, o, needed, "reactive") /\ Above(dev)
      \/ d \in VerticalRelease(w, o, dev) /\ Below(dev)
  BY DEF processRANWorkload
<1> HIDE DEF proactive, needed, prescale, dev
<1>5. CASE d \in GrantOrPreempt(w, o, proactive, "initial")
  BY <1>1, <1>3, <1>5 DEF Grant
<1>6. CASE d \in GrantOrPreempt(w, o, proactive, "prescale") /\ Exceeds(proactive, spec.curRes)
  BY <1>1, <1>3, <1>6 DEF Grant
<1>7. CASE d \in GrantOrPreempt(w, o, needed, "reactive") /\ Above(dev)
  BY <1>1, <1>3, <1>7 DEF Grant, dev
<1>8. CASE d \in VerticalRelease(w, o, dev) /\ Below(dev)
  BY <1>2, <1>8 DEF Release, dev
<1> QED
  BY <1>4, <1>5, <1>6, <1>7, <1>8

\* A directive of a batch comes from one of the phases.
LEMMA BatchPhases ==
    ASSUME NEW o \in Observations, Allocate(o), NEW d \in batch'
    PROVE  \/ d \in checkDeferredWorkloads(o)
           \/ d \in reactiveNonRANReduction(o)
           \/ \E w \in Observed(o) : /\ o.spec[w].qosLevel \in {QoSHigh, QoSMedium}
                                     /\ d \in processRANWorkload(w, o)
           \/ /\ HighTraffic(o.prediction)
              /\ \E w \in Eligible(o) : d = GateDirective(w, o)
           \/ /\ ~HighTraffic(o.prediction)
              /\ \E w \in Eligible(o) : d \in processNonRANWorkload(w, o)
  BY DEF Allocate, RANDirectives, NonRANDirectives

\* Outside the gate a workload is postponed for a peak or scaled horizontally.
LEMMA NonRANShape ==
    ASSUME NEW o \in Observations, ~HighTraffic(o.prediction), NEW w \in Eligible(o),
           NEW d \in processNonRANWorkload(w, o)
    PROVE  \/ /\ PeakDefers(w, o)
              /\ d = Horizontal(w, "postpone", o.spec[w].qosLevel, "peak", None, None, PeakUntil(o))
           \/ ~PeakDefers(w, o) /\ d \in HorizontalDirectives(w, o)
  BY DEF processNonRANWorkload, Migrates

LEMMA EligibleObserved ==
    ASSUME NEW o \in Observations, NEW w \in Eligible(o)
    PROVE  /\ w \in Observed(o) /\ w \in DOMAIN o.spec /\ o.spec[w] \in WorkloadSpecs
           /\ o.metrics[w] \in WorkloadMetrics
           /\ o.spec[w].qosLevel = QoSLow /\ w \notin DOMAIN deferred \ Resumed(o)
  BY Observation DEF Eligible, Observed

-----------------------------------------------------------------------------
(***************************************************************************)
(* Each decision of a call.                                                *)
(***************************************************************************)
LEMMA ReplicaSteps ==
    ASSUME NEW o \in Observations, Allocate(o)
    PROVE  ReplicaStepsInBounds'
<1> DEFINE Step(d) == LET spec == o.spec[d.id]
                      IN  IF d.action = "scale-up"
                          THEN /\ spec.currentReplicas < d.newReplicas
                               /\ d.newReplicas <= spec.maxReplicas
                          ELSE /\ spec.minReplicas <= d.newReplicas
                               /\ d.newReplicas < spec.currentReplicas
<1> SUFFICES ASSUME NEW d \in batch', d.newReplicas # None, d.reason # "resume"
             PROVE  Step(d)
  BY DEF Allocate, ReplicaStepsInBounds
<1>1. CASE d \in checkDeferredWorkloads(o)
  BY <1>1 DEF checkDeferredWorkloads, ResumeDirective, Horizontal
<1>2. CASE d \in reactiveNonRANReduction(o)
  <2>1. PICK w \in DOMAIN o.spec : /\ Reducible(w, o)
                                   /\ d.id = w /\ d.action = "scale-down"
                                   /\ d.newReplicas = Halved(o.spec[w])
    BY <1>2 DEF reactiveNonRANReduction, Horizontal
  <2>2. o.spec[w].currentReplicas \in Nat /\ o.spec[w].minReplicas \in Nat
    BY Observation DEF WorkloadSpecs
  <2> QED
    BY <2>1, <2>2 DEF Reducible, Halved, Floor
<1>3. CASE \E w \in Observed(o) : d \in processRANWorkload(w, o)
  BY <1>3, RANShape
<1>4. ASSUME NEW w \in Eligible(o), d = GateDirective(w, o)
      PROVE  Step(d)
  <2>1. o.spec[w].currentReplicas \in Nat /\ o.spec[w].minReplicas \in Nat
    BY EligibleObserved DEF WorkloadSpecs
  <2> QED
    BY <1>4, <2>1 DEF GateDirective, Horizontal
<1>5. ASSUME NEW w \in Eligible(o), d \in processNonRANWorkload(w, o), ~HighTraffic(o.prediction)
      PROVE  Step(d)
  <2>1. d \in HorizontalDirectives(w, o)
    BY <1>5, NonRANShape DEF Horizontal
  <2> DEFINE up   == computeHorizontalScaleUp(o.spec[w], computeDeviation(o.metrics[w]))
             down == computeHorizontalScaleDown(o.spec[w], computeDeviation(o.metrics[w]))
  <2>2. /\ up \in Int /\ down \in Int
        /\ o.spec[w].currentReplicas \in Nat /\ o.spec[w].minReplicas \in Nat
        /\ o.spec[w].maxReplicas \in Nat
    BY EligibleObserved, DeviationType, HorizontalTypes DEF WorkloadSpecs
  <2>3. \/ /\ d.id = w /\ d.action = "scale-up" /\ d.newReplicas = up
           /\ up > o.spec[w].currentReplicas /\ up <= o.spec[w].maxReplicas
        \/ /\ d.id = w /\ d.action = "scale-down" /\ d.newReplicas = down
           /\ down < o.spec[w].currentReplicas /\ down >= o.spec[w].minReplicas
    BY <2>1 DEF HorizontalDirectives, Horizontal
  <2> HIDE DEF up, down
  <2> QED
    BY <2>2, <2>3
<1> QED
  BY <1>1, <1>2, <1>3, <1>4, <1>5, BatchPhases

\* The deviation decides on which side of one the ratio of a resize is.
LEMMA RatioSides ==
    ASSUME NEW m \in WorkloadMetrics, NEW p \in TrafficPredictions
    PROVE  /\ OnePlus(computeDeviation(m)) \in Rationals
           /\ Below(computeDeviation(m)) =>
                OnePlus(computeDeviation(m)).num <= OnePlus(computeDeviation(m)).den
           /\ Above(computeDeviation(m)) => /\ m.targetLatency > 0
                                            /\ m.currentLatency > m.targetLatency
           /\ m.targetLatency > 0 /\ m.currentLatency > m.targetLatency =>
                /\ ~Below(computeDeviation(m))
                /\ computeScalingRatio(m, p).den <= computeScalingRatio(m, p).num
<1> DEFINE dev == computeDeviation(m)
           cur == m.currentLatency
           tgt == m.targetLatency
<1>1. dev \in Rationals /\ cur \in Nat /\ tgt \in Nat
  BY DeviationType DEF WorkloadMetrics
<1>2. /\ tgt # 0 => dev.num = cur - tgt /\ dev.den = tgt
      /\ tgt = 0 => dev.num = 0 /\ dev.den = 1
  BY DEF computeDeviation
<1> HIDE DEF dev, cur, tgt
<1>3. ScaleUpThreshold * dev.den \in Nat /\ ScaleDownThreshold * dev.den \in Nat
  BY <1>1, WeightsAssumption DEF Rationals
<1>4. Above(dev) => dev.num > 0
  BY <1>1, <1>3 DEF Above, Rationals
<1>5. Below(dev) => dev.num < 0
  BY <1>1, <1>3 DEF Below, Rationals
<1>6. OnePlus(dev) \in Rationals /\ (dev.num < 0 => OnePlus(dev).num <= OnePlus(dev).den)
  BY <1>1 DEF OnePlus, Rationals
<1>7. ASSUME tgt > 0, cur > tgt
      PROVE  computeScalingRatio(m, p).den <= computeScalingRatio(m, p).num
  <2>1. PICK x \in Nat : x = PredictionWeight * LoadIncrease(m, p)
    <3>1. LoadIncrease(m, p) \in Nat
      BY DEF LoadIncrease, WorkloadMetrics, TrafficPredictions
    <3> QED
      BY <3>1, WeightsAssumption
  <2>2. /\ computeScalingRatio(m, p).num = cur * (20000 + x)
        /\ computeScalingRatio(m, p).den = tgt * 20000
    BY <1>1, <1>7, <2>1 DEF computeScalingRatio, cur, tgt
  <2>3. cur * 20000 <= cur * (20000 + x)
    BY <1>1, ProductMonotone
  <2>4. tgt * 20000 <= cur * 20000
    BY <1>1, <1>7
  <2>5. cur * (20000 + x) \in Nat
    BY <1>1
  <2> QED
    BY <1>1, <2>2, <2>3, <2>4, <2>5
<1> QED
  BY <1>1, <1>2, <1>4, <1>5, <1>6, <1>7 DEF dev, cur, tgt

\* Resizes come from the processing of RAN workloads only.
LEMMA VerticalPhase ==
    ASSUME NEW o \in Observations, TypeInv, Allocate(o), NEW d \in batch', d.type = "vertical"
    PROVE  \E w \in Observed(o) : /\ o.spec[w].qosLevel \in {QoSHigh, QoSMedium}
                                  /\ d \in processRANWorkload(w, o)
<1>1. d \notin checkDeferredWorkloads(o) /\ d \notin reactiveNonRANReduction(o)
  BY DEF checkDeferredWorkloads, ResumeDirective, reactiveNonRANReduction, Horizontal
<1>2. \A w \in Eligible(o) : d # GateDirective(w, o)
  BY DEF GateDirective, Horizontal
<1>3. ASSUME ~HighTraffic(o.prediction), NEW w \in Eligible(o)
      PROVE  d \notin processNonRANWorkload(w, o)
  <2>1. d \notin HorizontalDirectives(w, o)
    BY DEF HorizontalDirectives, Horizontal
  <2> QED
    BY <1>3, <2>1, NonRANShape DEF Horizontal
<1> QED
  BY <1>1, <1>2, <1>3, BatchPhases

LEMMA Resizes ==
    ASSUME NEW o \in Observations, TypeInv, Allocate(o)
    PROVE  ResizesAreMonotone'
<1> SUFFICES ASSUME NEW d \in batch', d.type = "vertical", InBounds(o.spec[d.id])
             PROVE  IF d.action = "scale-down"
                    THEN ~Exceeds(d.newResources, o.spec[d.id].curRes)
                    ELSE d.reason # "initial" => ~Exceeds(o.spec[d.id].curRes, d.newResources)
  BY DEF Allocate, ResizesAreMonotone
<1>1. PICK w \in Observed(o) : d \in processRANWorkload(w, o)
  BY VerticalPhase
<1> DEFINE spec == o.spec[w]
           m    == o.metrics[w]
           p    == o.prediction
<1>2. d.id = w /\ spec \in WorkloadSpecs /\ m \in WorkloadMetrics /\ p \in TrafficPredictions
  BY <1>1, RANShape, Observation DEF Observed
<1> HIDE DEF spec, m, p
<1>3. CASE d.reason = "release"
  <2>1. Release(d, spec, m)
    BY <1>1, <1>3, RANShape DEF spec, m
  <2>2. /\ OnePlus(computeDeviation(m)) \in Rationals
        /\ OnePlus(computeDeviation(m)).num <= OnePlus(computeDeviation(m)).den
    BY <1>2, <2>1, RatioSides DEF Release
  <2>3. ~Exceeds(d.newResources, spec.curRes)
    BY <1>2, <2>1, <2>2, RescaledMonotone DEF Release, spec
  <2> QED
    BY <1>2, <2>1, <2>3 DEF Release, spec
<1>4. CASE d.reason # "release"
  <2> DEFINE r == computeScalingRatio(m, p)
  <2>1. Grant(d, spec, m, p)
    BY <1>1, <1>4, RANShape DEF spec, m, p
  <2>2. r \in Rationals
    BY <1>2, RatioType
  <2>3. ASSUME d.reason = "prescale" PROVE r.den <= r.num
    <3>1. Exceeds(Rescaled(spec, r), spec.curRes)
      BY <2>1, <2>3 DEF Grant
    <3>2. ~(r.num <= r.den)
      BY <1>2, <2>2, <3>1, RescaledMonotone DEF spec
    <3> HIDE DEF r
    <3> QED
      BY <2>2, <3>2 DEF Rationals
  <2>4. ASSUME d.reason = "reactive" PROVE r.den <= r.num
    BY <1>2, <2>1, <2>4, RatioSides DEF Grant
  <2>5. r.den <= r.num => ~Exceeds(spec.curRes, d.newResources)
    BY <1>2, <2>1, <2>2, RescaledMonotone DEF Grant, spec
  <2>6. d.reason \in {"initial", "prescale", "reactive"}
    BY <1>1, <1>4, RANShape
  <2> QED
    BY <1>2, <2>1, <2>3, <2>4, <2>5, <2>6 DEF Grant, spec
<1> QED
  BY <1>3, <1>4

\* A search returns no node or the name of one that fits.
LEMMA FoundNodeFits ==
    ASSUME NEW nodes \in Seq(NodeStates), NEW needed, findRANNode(nodes, needed) # None
    PROVE  \E i \in DOMAIN nodes : /\ nodes[i].name = findRANNode(nodes, needed)
                                   /\ IsRANNode(nodes[i])
<1> DEFINE fitting == {i \in DOMAIN nodes : /\ IsRANNode(nodes[i])
                                            /\ nodes[i].cpu >= needed.cpu
                                            /\ nodes[i].mem >= needed.mem}
<1>1. findRANNode(nodes, needed) = FirstNode(nodes, fitting)
  BY DEF findRANNode
<1>2. fitting \in SUBSET Nat
  OBVIOUS
<1>3. \A i \in fitting : i \in DOMAIN nodes /\ IsRANNode(nodes[i])
  OBVIOUS
<1> HIDE DEF fitting
<1>4. fitting # {}
  BY <1>1 DEF FirstNode
<1>5. Min(fitting) \in fitting
  BY <1>2, <1>4, MinIsMember
<1>6. findRANNode(nodes, needed) = nodes[Min(fitting)].name
  BY <1>1, <1>4 DEF FirstNode
<1> QED
  BY <1>3, <1>5, <1>6

\* A violated RAN workload with something to gain gets its directive, and the
\* validation of placements does not drop it.
LEMMA GrantReachesBatch ==
    ASSUME NEW o \in Observations, Allocate(o), NEW w \in Observed(o),
           IsRAN(o.spec[w]), o.spec[w].qosLevel \in {QoSHigh, QoSMedium},
           Exceeds(Rescaled(o.spec[w], computeScalingRatio(o.metrics[w], o.prediction)),
                   o.spec[w].curRes)
    PROVE  \E d \in batch' : /\ d.id = w /\ d.action \in {"scale-up", "preempt"}
                             /\ Exceeds(d.newResources, o.spec[w].curRes)
<1> DEFINE spec      == o.spec[w]
           proactive == Rescaled(spec, computeScalingRatio(o.metrics[w], o.prediction))
           node      == findRANNode(o.nodes, proactive)
<1>1. \A any : computeVerticalScaleUp(spec, o.metrics[w], any, o.prediction) = proactive
  BY DEF computeVerticalScaleUp
<1>2. o.nodes \in Seq(NodeStates)
  BY Observation DEF Observed
<1> DEFINE Good(d) == /\ d.id = w /\ d.action \in {"scale-up", "preempt"}
                      /\ d.newResources = proactive /\ d.targetNode = node
<1>3. \A reason : \E d \in GrantOrPreempt(w, o, proactive, reason) : Good(d)
  <2> SUFFICES ASSUME NEW reason
               PROVE  \E d \in GrantOrPreempt(w, o, proactive, reason) : Good(d)
    OBVIOUS
  <2> HIDE DEF proactive
  <2>1. CASE node # None
    BY <2>1 DEF GrantOrPreempt, Vertical
  <2>2. CASE node = None
    BY <2>2 DEF GrantOrPreempt, Vertical
  <2> QED
    BY <2>1, <2>2
<1>4. \E d \in processRANWorkload(w, o) : Good(d)
  <2> DEFINE initial  == GrantOrPreempt(w, o, proactive, "initial")
             prescale == GrantOrPreempt(w, o, proactive, "prescale")
  <2>1. processRANWorkload(w, o) = IF spec.currentNode = None THEN initial ELSE prescale
    <3>1. prescale # {}
      BY <1>3
    <3> QED
      BY <1>1, <3>1 DEF processRANWorkload
  <2> HIDE DEF Good
  <2> QED
    BY <1>3, <2>1
<1>5. ASSUME NEW d, Good(d) PROVE validateRANPlacement(d, o.nodes)
  <2> HIDE DEF proactive
  <2> QED
    BY <1>2, <1>5, FoundNodeFits DEF validateRANPlacement
<1>6. \E d \in batch' : Good(d)
  <2>1. PICK d \in processRANWorkload(w, o) : Good(d)
    BY <1>4
  <2> HIDE DEF Good
  <2>2. d \in RANDirectives(o)
    BY <1>5, <2>1 DEF RANDirectives
  <2> QED
    BY <2>1, <2>2 DEF Allocate
<1> QED
  BY <1>6

LEMMA StuckResource ==
    ASSUME NEW o \in Observations, NEW w \in Observed(o),
           o.metrics[w].targetLatency > 0,
           o.metrics[w].currentLatency > o.metrics[w].targetLatency,
           ~Exceeds(Rescaled(o.spec[w], computeScalingRatio(o.metrics[w], o.prediction)),
                    o.spec[w].curRes)
    PROVE  /\ CannotGrow(o.spec[w].curRes.cpu, o.spec[w].maxRes.cpu, o.metrics[w])
           /\ CannotGrow(o.spec[w].curRes.mem, o.spec[w].maxRes.mem, o.metrics[w])
<1> DEFINE spec == o.spec[w]
           m    == o.metrics[w]
           p    == o.prediction
<1>1. spec \in WorkloadSpecs /\ m \in WorkloadMetrics /\ p \in TrafficPredictions
  BY Observation DEF Observed
<1>2. PICK lat \in Nat : lat = m.currentLatency
  BY <1>1 DEF WorkloadMetrics
<1>3. PICK tgt \in Nat \ {0} : tgt = m.targetLatency
  BY <1>1 DEF WorkloadMetrics
<1>4. PICK x \in Nat : x = PredictionWeight * LoadIncrease(m, p)
  <2>1. LoadIncrease(m, p) \in Nat
    BY <1>1 DEF LoadIncrease, WorkloadMetrics, TrafficPredictions
  <2> QED
    BY <2>1, WeightsAssumption
<1> DEFINE r == computeScalingRatio(m, p)
<1>5. r \in Rationals
  BY <1>1, RatioType
<1>6. r.num = lat * (20000 + x) /\ r.den = tgt * 20000
  BY <1>2, <1>3, <1>4 DEF computeScalingRatio
<1>7. m.currentLatency * 20000 <= r.num /\ r.den = m.targetLatency * 20000
  BY <1>2, <1>3, <1>6, ProductMonotone
<1>8. /\ spec.curRes.cpu \in Nat /\ spec.minRes.cpu \in Nat /\ spec.maxRes.cpu \in Nat
      /\ spec.curRes.mem \in Nat /\ spec.minRes.mem \in Nat /\ spec.maxRes.mem \in Nat
  BY <1>1 DEF WorkloadSpecs, Quantities
<1>9. Rescaled(spec, r) \in Resources
  BY <1>1, <1>5, RescaledType
<1> HIDE DEF r, spec, m
<1>10. Rescaled(spec, r).cpu <= spec.curRes.cpu /\ Rescaled(spec, r).mem <= spec.curRes.mem
  BY <1>8, <1>9 DEF Exceeds, Resources, r, spec, m
<1>11. /\ Clamp(multiplyQuantity(spec.curRes.cpu, r), spec.minRes.cpu, spec.maxRes.cpu)
            <= spec.curRes.cpu
       /\ Clamp(multiplyQuantity(spec.curRes.mem, r), spec.minRes.mem, spec.maxRes.mem)
            <= spec.curRes.mem
  BY <1>10 DEF Rescaled
<1>12. m.targetLatency > 0 /\ m.currentLatency > m.targetLatency
  BY DEF m
<1>13. /\ CannotGrow(spec.curRes.cpu, spec.maxRes.cpu, m)
       /\ CannotGrow(spec.curRes.mem, spec.maxRes.mem, m)
  <2>1. ASSUME NEW q \in Nat, NEW lo \in Nat, NEW hi \in Nat,
               Clamp(multiplyQuantity(q, r), lo, hi) <= q
        PROVE  CannotGrow(q, hi, m)
    BY <1>1, <1>5, <1>7, <1>12, <2>1, StuckQuantity
  <2> QED
    BY <1>8, <1>11, <2>1
<1> QED
  BY <1>13 DEF spec, m

\* No phase asks a violated RAN workload of an upper tier to release anything.
LEMMA ViolatedNeverReleases ==
    ASSUME NEW o \in Observations, TypeInv, Allocate(o), NEW w \in Observed(o),
           IsRAN(o.spec[w]), o.spec[w].qosLevel # QoSLow,
           o.metrics[w].targetLatency > 0,
           o.metrics[w].currentLatency > o.metrics[w].targetLatency,
           NEW d \in batch', d.id = w
    PROVE  d.action # "scale-down"
<1>1. CASE d \in checkDeferredWorkloads(o)
  <2>1. PICK v \in DOMAIN deferred : d = ResumeDirective(v, deferred[v])
    BY <1>1 DEF checkDeferredWorkloads, Resumed
  <2>2. deferred[v].originalAction = "scale-up"
    BY DEF TypeInv, TypeOK, Entries
  <2> QED
    BY <2>1, <2>2 DEF ResumeDirective, Horizontal
<1>2. d \notin reactiveNonRANReduction(o)
  BY DEF reactiveNonRANReduction, Reducible, Horizontal
<1>3. ASSUME NEW v \in Observed(o), d \in processRANWorkload(v, o)
      PROVE  d.action # "scale-down"
  <2>1. o.metrics[w] \in WorkloadMetrics /\ o.prediction \in TrafficPredictions
    BY Observation DEF Observed
  <2>2. ~Below(computeDeviation(o.metrics[w]))
    BY <2>1, RatioSides
  <2>3. v = w /\ d.reason # "release"
    BY <1>3, <2>2, RANShape DEF Release
  <2> QED
    BY <1>3, <2>3, RANShape DEF Grant
<1>4. ASSUME NEW v \in Eligible(o), d = GateDirective(v, o) \/ d \in processNonRANWorkload(v, o),
             d = GateDirective(v, o) \/ ~HighTraffic(o.prediction)
      PROVE  FALSE
  <2>1. d.id = v
    <3>1. CASE d = GateDirective(v, o)
      BY <3>1 DEF GateDirective, Horizontal
    <3>2. CASE d \in processNonRANWorkload(v, o)
      BY <3>2 DEF processNonRANWorkload, HorizontalDirectives, Horizontal
    <3> QED
      BY <1>4, <3>1, <3>2
  <2> QED
    BY <2>1, EligibleObserved
<1> QED
  BY <1>1, <1>2, <1>3, <1>4, BatchPhases

LEMMA Answers ==
    ASSUME NEW o \in Observations, TypeInv, Allocate(o)
    PROVE  ViolationAnswered'
<1> SUFFICES ASSUME NEW w \in Observed(o), IsRAN(o.spec[w]), o.spec[w].qosLevel # QoSLow,
                    o.metrics[w].targetLatency > 0,
                    o.metrics[w].currentLatency > o.metrics[w].targetLatency
             PROVE  /\ \/ \E d \in batch' : /\ d.id = w
                                             /\ d.action \in {"scale-up", "preempt"}
                                             /\ Exceeds(d.newResources, o.spec[w].curRes)
                       \/ /\ CannotGrow(o.spec[w].curRes.cpu, o.spec[w].maxRes.cpu, o.metrics[w])
                          /\ CannotGrow(o.spec[w].curRes.mem, o.spec[w].maxRes.mem, o.metrics[w])
                    /\ \A d \in batch' : d.id = w => d.action # "scale-down"
  BY DEF Allocate, ViolationAnswered
<1>1. o.spec[w].qosLevel \in {QoSHigh, QoSMedium}
  BY Observation DEF Observed, WorkloadSpecs, QoSLevels
<1>2. \A d \in batch' : d.id = w => d.action # "scale-down"
  BY ViolatedNeverReleases
<1> DEFINE new == Rescaled(o.spec[w], computeScalingRatio(o.metrics[w], o.prediction))
<1>3. CASE Exceeds(new, o.spec[w].curRes)
  BY <1>1, <1>2, <1>3, GrantReachesBatch
<1>4. CASE ~Exceeds(new, o.spec[w].curRes)
  BY <1>2, <1>4, StuckResource
<1> QED
  BY <1>3, <1>4

-----------------------------------------------------------------------------
DecisionInv == ReplicaStepsInBounds /\ ResizesAreMonotone /\ ViolationAnswered

LEMMA NothingDecided == batch = {} /\ Idle => DecisionInv
  BY DEF Idle, NoObservation, DecisionInv, ReplicaStepsInBounds, ResizesAreMonotone,
         ViolationAnswered, Observed

LEMMA DecisionNext == TypeInv /\ BatchInv /\ DecisionInv /\ [Next]_vars => DecisionInv'
<1> SUFFICES ASSUME TypeInv, BatchInv, DecisionInv, [Next]_vars PROVE DecisionInv'
  OBVIOUS
<1>1. ASSUME NEW o \in Observations, Allocate(o) PROVE DecisionInv'
  BY <1>1, ReplicaSteps, Resizes, Answers DEF DecisionInv
<1>2. CASE AllocateFails \/ UNCHANGED vars
  BY <1>2 DEF AllocateFails, vars, DecisionInv, ReplicaStepsInBounds, ResizesAreMonotone,
              ViolationAnswered
<1>3. CASE Discard \/ Tick
  <2>1. batch' = {} /\ obs' = NoObservation
    BY <1>3 DEF Discard, Tick, BatchInv, Idle
  <2> QED
    BY <2>1 DEF NoObservation, DecisionInv, ReplicaStepsInBounds, ResizesAreMonotone,
                ViolationAnswered, Observed
<1> QED
  BY <1>1, <1>2, <1>3 DEF Next

LEMMA DecisionAlways == Spec => []DecisionInv
<1>1. Init => DecisionInv
  BY NothingDecided DEF Init, Idle
<1> QED
  BY <1>1, TypeInit, TypeNext, BatchAlways, DecisionNext, PTL DEF Spec

\* Apart from resumptions every change of a replica count goes in the direction
\* of its directive and ends within the bounds, whatever counts, bounds and
\* latencies a call is given.
THEOREM ReplicaStepsStayInBounds == Spec => []ReplicaStepsInBounds
<1>1. DecisionInv => ReplicaStepsInBounds
  BY DEF DecisionInv
<1> QED
  BY <1>1, DecisionAlways, PTL

\* No grant shrinks and no release grows either resource of a workload that is
\* within its bounds, whatever the ratio, its truncation and the clamps.
THEOREM ResizesStayMonotone == Spec => []ResizesAreMonotone
<1>1. DecisionInv => ResizesAreMonotone
  BY DEF DecisionInv
<1> QED
  BY <1>1, DecisionAlways, PTL

\* A RAN workload above its latency target gets more in the cycle that sees
\* it, whatever the prediction and the nodes, unless nothing of it can grow.
THEOREM ViolationsAreAnswered == Spec => []ViolationAnswered
<1>1. DecisionInv => ViolationAnswered
  BY DEF DecisionInv
<1> QED
  BY <1>1, DecisionAlways, PTL

-----------------------------------------------------------------------------
(***************************************************************************)
(* The map and the announcements of a call agree.                          *)
(***************************************************************************)
Announced ==
    /\ \A w \in DOMAIN deferred' \ DOMAIN deferred :
          \E d \in batch' : d.id = w /\ d.postponeUntil = deferred'[w].deferUntil
    /\ \A d \in batch' : d.postponeUntil # None =>
          d.id \in DOMAIN deferred' /\ deferred'[d.id].deferUntil = d.postponeUntil

LEMMA NewEntry ==
    ASSUME NEW o \in Observations, Allocate(o), NEW w \in DOMAIN NewlyDeferred(o)
    PROVE  /\ w \in Eligible(o) /\ w \in DOMAIN deferred'
           /\ HighTraffic(o.prediction) => deferred'[w].deferUntil = GateUntil(o)
           /\ ~HighTraffic(o.prediction) => PeakDefers(w, o) /\ deferred'[w].deferUntil = PeakUntil(o)
<1>1. w \in Eligible(o) /\ (~HighTraffic(o.prediction) => PeakDefers(w, o))
  BY DEF NewlyDeferred
<1>2. w \in DOMAIN deferred' /\ deferred'[w] = NewlyDeferred(o)[w]
  BY DEF Allocate
<1>3. NewlyDeferred(o)[w] = IF HighTraffic(o.prediction) THEN GateEntry(w, o) ELSE PeakEntry(w, o)
  BY <1>1 DEF NewlyDeferred
<1> QED
  BY <1>1, <1>2, <1>3 DEF GateEntry, PeakEntry, Entry

LEMMA EntriesAreAnnounced ==
    ASSUME NEW o \in Observations, Allocate(o), NEW w \in DOMAIN deferred' \ DOMAIN deferred
    PROVE  \E d \in batch' : d.id = w /\ d.postponeUntil = deferred'[w].deferUntil
<1>1. w \in DOMAIN NewlyDeferred(o)
  BY DEF Allocate
<1>2. CASE HighTraffic(o.prediction)
  <2>1. GateDirective(w, o) \in batch'
    BY <1>1, <1>2, NewEntry DEF Allocate, NonRANDirectives
  <2>2. GateDirective(w, o).id = w /\ GateDirective(w, o).postponeUntil = GateUntil(o)
    BY DEF GateDirective, Horizontal
  <2> QED
    BY <1>1, <1>2, <2>1, <2>2, NewEntry
<1>3. CASE ~HighTraffic(o.prediction)
  <2> DEFINE d == Horizontal(w, "postpone", o.spec[w].qosLevel, "peak", None, None, PeakUntil(o))
  <2>1. w \in Eligible(o) /\ PeakDefers(w, o)
    BY <1>1, <1>3, NewEntry
  <2>2. d \in processNonRANWorkload(w, o)
    BY <2>1 DEF processNonRANWorkload, PeakDefers
  <2>3. validateNonRANPlacement(d, o.spec[w], o.nodes)
    BY DEF validateNonRANPlacement, Horizontal
  <2>4. d.id = w /\ d.postponeUntil = PeakUntil(o)
    BY DEF Horizontal
  <2> HIDE DEF d
  <2>5. d \in batch'
    BY <1>3, <2>1, <2>2, <2>3 DEF Allocate, NonRANDirectives
  <2> QED
    BY <1>1, <1>3, <2>4, <2>5, NewEntry
<1> QED
  BY <1>2, <1>3

LEMMA AnnouncementsAreTracked ==
    ASSUME NEW o \in Observations, Allocate(o), NEW d \in batch', d.postponeUntil # None
    PROVE  d.id \in DOMAIN deferred' /\ deferred'[d.id].deferUntil = d.postponeUntil
<1>1. d \notin checkDeferredWorkloads(o) /\ d \notin reactiveNonRANReduction(o)
  BY DEF checkDeferredWorkloads, ResumeDirective, reactiveNonRANReduction, Horizontal
<1>2. ~ \E w \in Observed(o) : d \in processRANWorkload(w, o)
  BY RANShape
<1>3. ASSUME NEW w \in Eligible(o), HighTraffic(o.prediction), d = GateDirective(w, o)
      PROVE  d.id \in DOMAIN deferred' /\ deferred'[d.id].deferUntil = d.postponeUntil
  <2>1. w \in DOMAIN NewlyDeferred(o)
    BY <1>3 DEF NewlyDeferred
  <2>2. d.id = w /\ d.postponeUntil = GateUntil(o)
    BY <1>3 DEF GateDirective, Horizontal
  <2> QED
    BY <1>3, <2>1, <2>2, NewEntry
<1>4. ASSUME NEW w \in Eligible(o), ~HighTraffic(o.prediction), d \in processNonRANWorkload(w, o)
      PROVE  d.id \in DOMAIN deferred' /\ deferred'[d.id].deferUntil = d.postponeUntil
  <2>1. d \notin HorizontalDirectives(w, o)
    BY DEF HorizontalDirectives, Horizontal
  <2>2. PeakDefers(w, o) /\ d.id = w /\ d.postponeUntil = PeakUntil(o)
    BY <1>4, <2>1, NonRANShape DEF Horizontal
  <2>3. w \in DOMAIN NewlyDeferred(o)
    BY <1>4, <2>2 DEF NewlyDeferred
  <2> QED
    BY <1>4, <2>2, <2>3, NewEntry
<1> QED
  BY <1>1, <1>2, <1>3, <1>4, BatchPhases

LEMMA AnnouncedNext == BatchInv /\ [Next]_vars => [Announced]_vars
<1> SUFFICES ASSUME BatchInv, [Next]_vars PROVE [Announced]_vars
  OBVIOUS
<1>1. ASSUME NEW o \in Observations, Allocate(o) PROVE Announced
  BY <1>1, EntriesAreAnnounced, AnnouncementsAreTracked DEF Announced
<1>2. CASE Discard \/ Tick
  <2>1. batch' = {} /\ DOMAIN deferred' = DOMAIN deferred
    BY <1>2 DEF Discard, Tick, BatchInv
  <2> QED
    BY <2>1 DEF Announced
<1> QED
  BY <1>1, <1>2 DEF Next, AllocateFails

\* A workload enters the map exactly when the batch announces its deadline,
\* whatever the phase that defers it.
THEOREM DeferralsAreAnnounced == Spec => DeferralAnnounced
<1>1. [][Announced]_vars <=> DeferralAnnounced
  BY DEF Announced, DeferralAnnounced
<1> QED
  BY <1>1, AnnouncedNext, BatchAlways, PTL DEF Spec

-----------------------------------------------------------------------------
(***************************************************************************)
(* What a directive is about, whatever tiers the resources are given: the  *)
(* tier that the observation gives a workload decides which phases may     *)
(* touch it.                                                               *)
(***************************************************************************)
Protective == {"resume", "reduction"}

LEMMA DirectivePhase ==
    ASSUME NEW o \in Observations, Allocate(o), NEW d \in batch'
    PROVE  \/ d.type = "horizontal" /\ d.reason = "resume" /\ d.id \in DOMAIN deferred
           \/ /\ d.type = "horizontal" /\ d.reason = "reduction"
              /\ d.id \in DOMAIN o.spec /\ ~IsRAN(o.spec[d.id])
           \/ /\ d.type = "vertical" /\ d.reason \notin Protective
              /\ d.id \in DOMAIN o.spec /\ o.spec[d.id].qosLevel # QoSLow
           \/ /\ d.type = "horizontal" /\ d.reason \notin Protective
              /\ d.id \in Eligible(o) /\ d.id \in DOMAIN o.spec
              /\ o.spec[d.id].qosLevel = QoSLow
<1>1. CASE d \in checkDeferredWorkloads(o)
  BY <1>1 DEF checkDeferredWorkloads, Resumed, ResumeDirective, Horizontal
<1>2. CASE d \in reactiveNonRANReduction(o)
  BY <1>2 DEF reactiveNonRANReduction, Reducible, Horizontal
<1>3. ASSUME NEW w \in Observed(o), o.spec[w].qosLevel \in {QoSHigh, QoSMedium},
             d \in processRANWorkload(w, o)
      PROVE  /\ d.type = "vertical" /\ d.reason \notin Protective
             /\ d.id \in DOMAIN o.spec /\ o.spec[d.id].qosLevel # QoSLow
  BY <1>3, RANShape DEF Observed, QoSHigh, QoSMedium, QoSLow, Protective
<1>4. ASSUME NEW w \in Eligible(o), d.id = w
      PROVE  /\ d.id \in Eligible(o) /\ d.id \in DOMAIN o.spec
             /\ o.spec[d.id].qosLevel = QoSLow
  BY <1>4, EligibleObserved
<1>5. ASSUME NEW w \in Eligible(o), d = GateDirective(w, o)
      PROVE  d.id = w /\ d.type = "horizontal" /\ d.reason \notin Protective
  BY <1>5 DEF GateDirective, Horizontal, Protective
<1>6. ASSUME NEW w \in Eligible(o), ~HighTraffic(o.prediction), d \in processNonRANWorkload(w, o)
      PROVE  d.id = w /\ d.type = "horizontal" /\ d.reason \notin Protective
  BY <1>6, NonRANShape DEF HorizontalDirectives, Horizontal, Protective
<1> QED
  BY <1>1, <1>2, <1>3, <1>4, <1>5, <1>6, BatchPhases

\* A directive of no protective phase scales as the tier of its workload asks.
TypeFollowsTier ==
    \A d \in batch :
        IF d.reason \in Protective THEN d.type = "horizontal"
        ELSE /\ d.id \in DOMAIN obs.spec
             /\ d.type = IF obs.spec[d.id].qosLevel = QoSLow THEN "horizontal" ELSE "vertical"

LEMMA TypeFollowsTierNext == BatchInv /\ TypeFollowsTier /\ [Next]_vars => TypeFollowsTier'
<1> SUFFICES ASSUME BatchInv, TypeFollowsTier, [Next]_vars PROVE TypeFollowsTier'
  OBVIOUS
<1>1. ASSUME NEW o \in Observations, Allocate(o) PROVE TypeFollowsTier'
  <2> SUFFICES ASSUME NEW d \in batch'
               PROVE  IF d.reason \in Protective THEN d.type = "horizontal"
                      ELSE /\ d.id \in DOMAIN o.spec
                           /\ d.type = IF o.spec[d.id].qosLevel = QoSLow THEN "horizontal"
                                       ELSE "vertical"
    BY <1>1 DEF TypeFollowsTier, Allocate
  <2> QED
    BY <1>1, DirectivePhase DEF Protective
<1>2. CASE Discard \/ Tick
  BY <1>2 DEF Discard, Tick, BatchInv, TypeFollowsTier
<1>3. CASE AllocateFails \/ UNCHANGED vars
  BY <1>3 DEF AllocateFails, vars, TypeFollowsTier
<1> QED
  BY <1>1, <1>2, <1>3 DEF Next

\* Whatever tiers users give, also where they differ from those of the
\* namespaces, a workload is scaled vertically exactly in the upper tiers,
\* apart from reductions and resumptions (Allocate, allocator.go).
THEOREM TypesFollowTiers == Spec => []TypeFollowsTier
<1>1. Init => TypeFollowsTier
  BY DEF Init, TypeFollowsTier
<1> QED
  BY <1>1, TypeFollowsTierNext, BatchAlways, PTL DEF Spec

\* A deferred workload is left alone in a step unless it is resumed, reduced,
\* or has meanwhile been given an upper tier.
LeftAlone ==
    \A d \in batch' :
        d.id \in DOMAIN deferred /\ d.reason # "reduction" =>
            \/ \E e \in batch' : e.id = d.id /\ e.reason = "resume"
            \/ d.type = "vertical" /\ obs'.spec[d.id].qosLevel # QoSLow

LEMMA LeftAloneNext == BatchInv /\ [Next]_vars => [LeftAlone]_vars
<1> SUFFICES ASSUME BatchInv, [Next]_vars PROVE [LeftAlone]_vars
  OBVIOUS
<1>1. ASSUME NEW o \in Observations, Allocate(o) PROVE LeftAlone
  <2> SUFFICES ASSUME NEW d \in batch', d.id \in DOMAIN deferred, d.reason # "reduction"
               PROVE  \/ \E e \in batch' : e.id = d.id /\ e.reason = "resume"
                      \/ d.type = "vertical" /\ o.spec[d.id].qosLevel # QoSLow
    BY <1>1 DEF LeftAlone, Allocate
  <2>1. CASE d.reason = "resume"
    BY <2>1
  <2>2. CASE d.id \in Eligible(o)
    <3>1. d.id \in Resumed(o)
      BY <2>2, EligibleObserved
    <3>2. ResumeDirective(d.id, deferred[d.id]) \in batch'
      BY <1>1, <3>1 DEF Allocate, checkDeferredWorkloads
    <3> QED
      BY <3>2 DEF ResumeDirective, Horizontal
  <2> QED
    BY <1>1, <2>1, <2>2, DirectivePhase
<1>2. CASE Discard \/ Tick
  BY <1>2 DEF Discard, Tick, BatchInv, LeftAlone
<1> QED
  BY <1>1, <1>2 DEF Next, AllocateFails

\* Whatever tiers users give, the only way past a deferral is to raise the
\* tier of the workload: no phase for the low tier touches it before it is
\* resumed, except the reduction that protects the RAN (allocator.go).
THEOREM OnlyTiersPassDeferral == Spec => [][LeftAlone]_vars
  BY LeftAloneNext, BatchAlways, PTL DEF Spec

-----------------------------------------------------------------------------
(***************************************************************************)
(* What holds as long as no resource overrides the tier of its namespace:  *)
(* a workload is for ever of the low tier and outside the RAN, or for ever *)
(* of an upper tier and in the RAN.                                        *)
(***************************************************************************)
LowForEver(w) ==
    \A o \in Observations : w \in DOMAIN o.spec =>
        o.spec[w].qosLevel = QoSLow /\ ~IsRAN(o.spec[w])

UpperForEver(w) ==
    \A o \in Observations : w \in DOMAIN o.spec =>
        o.spec[w].qosLevel # QoSLow /\ IsRAN(o.spec[w])

TiersAgree == \A w \in Workloads : LowForEver(w) \/ UpperForEver(w)

OnlyLowDeferred == \A w \in DOMAIN deferred : LowForEver(w)

LEMMA DeferredLowAllocate ==
    ASSUME TiersAgree, TypeInv, OnlyLowDeferred, NEW o \in Observations, Allocate(o)
    PROVE  OnlyLowDeferred'
<1> SUFFICES ASSUME NEW w \in DOMAIN deferred' PROVE LowForEver(w)
  BY DEF OnlyLowDeferred, LowForEver
<1>1. CASE w \in DOMAIN NewlyDeferred(o)
  <2>1. w \in Workloads /\ w \in Eligible(o)
    BY <1>1, NewEntriesType, NewEntry DEF TypeInv
  <2>2. w \in DOMAIN o.spec /\ o.spec[w].qosLevel = QoSLow
    BY <2>1, EligibleObserved
  <2> QED
    BY <2>1, <2>2 DEF TiersAgree, UpperForEver
<1>2. CASE w \notin DOMAIN NewlyDeferred(o)
  BY <1>2 DEF Allocate, OnlyLowDeferred
<1> QED
  BY <1>1, <1>2

LEMMA DeferredLowNext ==
    ASSUME TiersAgree
    PROVE  TypeInv /\ OnlyLowDeferred /\ [Next]_vars => OnlyLowDeferred'
<1> SUFFICES ASSUME TypeInv, OnlyLowDeferred, [Next]_vars PROVE OnlyLowDeferred'
  OBVIOUS
<1>1. ASSUME NEW o \in Observations, Allocate(o) PROVE OnlyLowDeferred'
  BY <1>1, DeferredLowAllocate
<1>2. CASE UNCHANGED deferred \/ Tick
  BY <1>2 DEF OnlyLowDeferred, Tick
<1> QED
  BY <1>1, <1>2 DEF Next, AllocateFails, Discard, vars

\* Which workloads a directive may be about.
LEMMA DirectiveSubject ==
    ASSUME TiersAgree, OnlyLowDeferred,
           NEW o \in Observations, Allocate(o), NEW d \in batch', d.id \in DOMAIN o.spec
    PROVE  \/ d.type = "horizontal" /\ ~IsRAN(o.spec[d.id])
           \/ d.type = "vertical" /\ UpperForEver(d.id) /\ IsRAN(o.spec[d.id])
<1>1. LowForEver(d.id) \/ UpperForEver(d.id)
  BY Observation DEF TiersAgree
<1> QED
  BY <1>1, DirectivePhase DEF OnlyLowDeferred, LowForEver, UpperForEver

Suspended ==
    \A d \in batch' :
        d.id \in DOMAIN deferred /\ d.reason # "reduction" =>
            \E e \in batch' : e.id = d.id /\ e.reason = "resume"

LEMMA SuspendedAllocate ==
    ASSUME TiersAgree, OnlyLowDeferred, NEW o \in Observations, Allocate(o)
    PROVE  Suspended
<1> SUFFICES ASSUME NEW d \in batch', d.id \in DOMAIN deferred, d.reason # "reduction"
             PROVE  \E e \in batch' : e.id = d.id /\ e.reason = "resume"
  BY DEF Suspended
<1>1. \/ d.reason = "resume"
      \/ d.id \in DOMAIN o.spec /\ o.spec[d.id].qosLevel # QoSLow
      \/ d.id \in Eligible(o)
  BY DirectivePhase
<1>2. CASE d.id \in DOMAIN o.spec /\ o.spec[d.id].qosLevel # QoSLow
  BY <1>2 DEF OnlyLowDeferred, LowForEver
<1>3. CASE d.id \in Eligible(o)
  <2>1. ResumeDirective(d.id, deferred[d.id]) \in batch'
    BY <1>3, EligibleObserved DEF Allocate, checkDeferredWorkloads
  <2> QED
    BY <2>1 DEF ResumeDirective, Horizontal
<1> QED
  BY <1>1, <1>2, <1>3

LEMMA SuspendedNext ==
    ASSUME TiersAgree
    PROVE  BatchInv /\ TypeInv /\ OnlyLowDeferred /\ [Next]_vars => [Suspended]_vars
<1> SUFFICES ASSUME BatchInv, TypeInv, OnlyLowDeferred, [Next]_vars PROVE [Suspended]_vars
  OBVIOUS
<1>1. ASSUME NEW o \in Observations, Allocate(o) PROVE Suspended
  BY <1>1, SuspendedAllocate
<1>2. CASE Discard \/ Tick
  BY <1>2 DEF Discard, Tick, BatchInv, Suspended
<1> QED
  BY <1>1, <1>2 DEF Next, AllocateFails

\* No phase scales a deferred workload before it is resumed, except the
\* reduction that protects the RAN.
THEOREM DeferredAreLeftAlone ==
    ASSUME TiersAgree
    PROVE  Spec => DeferredStaysSuspended
<1>1. Init => OnlyLowDeferred
  BY DEF Init, OnlyLowDeferred
<1>2. BatchInv /\ TypeInv /\ OnlyLowDeferred /\ [Next]_vars => [Suspended]_vars
  BY SuspendedNext
<1>3. TypeInv /\ OnlyLowDeferred /\ [Next]_vars => OnlyLowDeferred'
  BY DeferredLowNext
<1>4. [][Suspended]_vars <=> DeferredStaysSuspended
  BY DEF Suspended, DeferredStaysSuspended
<1> QED
  BY <1>1, <1>2, <1>3, <1>4, TypeInit, TypeNext, BatchAlways, PTL DEF Spec

\* Every directive scales in the way the namespace of its workload allows.
THEOREM ScalingTypesAreAllowed ==
    ASSUME TiersAgree
    PROVE  Spec => []ScalingTypeAllowed
<1>1. Init => OnlyLowDeferred /\ ScalingTypeAllowed
  BY DEF Init, OnlyLowDeferred, ScalingTypeAllowed
<1>2. ASSUME TypeInv, BatchInv, OnlyLowDeferred, ScalingTypeAllowed, [Next]_vars
      PROVE  ScalingTypeAllowed'
  <2>1. ASSUME NEW o \in Observations, Allocate(o) PROVE ScalingTypeAllowed'
    <3> SUFFICES ASSUME NEW d \in batch', d.id \in DOMAIN o.spec
                 PROVE  d.type = GetAllowedScalingType(o.spec[d.id].namespace)
      BY <2>1 DEF Allocate, ScalingTypeAllowed
    <3> QED
      BY <1>2, <2>1, DirectiveSubject
      DEF LowForEver, UpperForEver, IsRAN, GetAllowedScalingType
  <2>2. CASE Discard \/ Tick
    BY <1>2, <2>2 DEF Discard, Tick, BatchInv, ScalingTypeAllowed
  <2>3. CASE AllocateFails \/ UNCHANGED vars
    BY <1>2, <2>3 DEF AllocateFails, vars, ScalingTypeAllowed
  <2> QED
    BY <1>2, <2>1, <2>2, <2>3 DEF Next
<1>3. TypeInv /\ BatchInv /\ OnlyLowDeferred /\ ScalingTypeAllowed /\ [Next]_vars
        => ScalingTypeAllowed'
  BY <1>2
<1>4. TypeInv /\ OnlyLowDeferred /\ [Next]_vars => OnlyLowDeferred'
  BY DeferredLowNext
<1> QED
  BY <1>1, <1>3, <1>4, TypeInit, TypeNext, BatchAlways, PTL DEF Spec
=============================================================================
