-------------------------- MODULE AllocatorProofs ---------------------------
(***************************************************************************)
(* Theorems of Allocator, for every set of workloads and observations and  *)
(* every value of the thresholds and windows.                              *)
(***************************************************************************)
EXTENDS Allocator, TLAPS, WellFoundedInduction

-----------------------------------------------------------------------------
(***************************************************************************)
(* Sizes.                                                                  *)
(***************************************************************************)
Rationals == [num : Int, den : Nat \ {0}]

LEMMA FloorInt ==
    ASSUME NEW n \in Int, NEW d \in Nat \ {0}
    PROVE  Floor(n, d) \in Int
  BY DEF Floor

LEMMA DeviationType ==
    ASSUME NEW m \in WorkloadMetrics
    PROVE  computeDeviation(m) \in Rationals
  BY DEF computeDeviation, WorkloadMetrics, Rationals

LEMMA RatioType ==
    ASSUME NEW m \in WorkloadMetrics, NEW p \in TrafficPredictions
    PROVE  computeScalingRatio(m, p) \in Rationals
<1>1. LoadIncrease(m, p) \in Nat
  BY DEF LoadIncrease, WorkloadMetrics, TrafficPredictions
<1>2. PredictionWeight * LoadIncrease(m, p) \in Nat
  BY <1>1, WeightsAssumption
<1> QED
  BY <1>2 DEF computeScalingRatio, WorkloadMetrics, Rationals

LEMMA RescaledType ==
    ASSUME NEW w \in WorkloadSpecs, NEW r \in Rationals
    PROVE  Rescaled(w, r) \in Resources
<1> DEFINE cpu == multiplyQuantity(w.curRes.cpu, r)
           mem == multiplyQuantity(w.curRes.mem, r)
<1>1. w.curRes \in Resources /\ w.minRes \in Resources /\ w.maxRes \in Resources
  BY DEF WorkloadSpecs, Quantities, Resources
<1>2. cpu \in Int /\ mem \in Int
  <2>1. w.curRes.cpu * r.num \in Int /\ w.curRes.mem * r.num \in Int /\ r.den \in Nat \ {0}
    BY <1>1 DEF Resources, Rationals
  <2> QED
    BY <2>1, FloorInt DEF multiplyQuantity
<1> HIDE DEF cpu, mem
<1>3. Clamp(cpu, w.minRes.cpu, w.maxRes.cpu) \in Int
  BY <1>1, <1>2 DEF Clamp, Resources
<1>4. Clamp(mem, w.minRes.mem, w.maxRes.mem) \in Int
  BY <1>1, <1>2 DEF Clamp, Resources
<1> QED
  BY <1>3, <1>4 DEF Rescaled, Resources, cpu, mem

LEMMA VerticalTypes ==
    ASSUME NEW w \in WorkloadSpecs, NEW m \in WorkloadMetrics,
           NEW p \in TrafficPredictions, NEW dev \in Rationals, NEW any
    PROVE  /\ computeVerticalScaleUp(w, m, any, p) \in Resources
           /\ dev.den + dev.num \in Int
           /\ computeVerticalScaleDown(w, dev) \in Resources
<1>1. OnePlus(dev) \in Rationals
  BY DEF OnePlus, Rationals
<1> QED
  BY <1>1, RatioType, RescaledType
  DEF computeVerticalScaleUp, computeVerticalScaleDown, Rationals

LEMMA HorizontalTypes ==
    ASSUME NEW w \in WorkloadSpecs, NEW dev \in Rationals
    PROVE  /\ computeHorizontalScaleUp(w, dev) \in Int
           /\ computeHorizontalScaleDown(w, dev) \in Int
<1> DEFINE n == w.currentReplicas * (dev.den + dev.num)
<1>1. n \in Int /\ dev.den \in Nat \ {0}
  BY DEF WorkloadSpecs, Rationals
<1> HIDE DEF n
<1>2. Ceil(n, dev.den) \in Int /\ Floor(n, dev.den) \in Int
  BY <1>1 DEF Ceil, Floor
<1>3. w.minReplicas \in Int /\ w.maxReplicas \in Int
  BY DEF WorkloadSpecs
<1> QED
  BY <1>2, <1>3 DEF computeHorizontalScaleUp, computeHorizontalScaleDown,
                    ClampUp, ClampDown, n

-----------------------------------------------------------------------------
(***************************************************************************)
(* Choices of a least element: the first node that fits, the first low     *)
(* hour ahead.                                                             *)
(***************************************************************************)
LEMMA MinIsMember ==
    ASSUME NEW T \in SUBSET Nat, T # {}
    PROVE  Min(T) \in T /\ \A y \in T : Min(T) <= y
<1>1. PICK x \in T : \A y \in T : <<y, x>> \notin OpToRel(<, Nat)
  BY NatLessThanWellFounded, WFMin, Zenon
<1>2. \A y \in T : ~(y < x)
  BY <1>1 DEF OpToRel
<1>3. \A y \in T : x <= y
  BY <1>2
<1> QED
  BY <1>3 DEF Min

LEMMA FirstNodeType ==
    ASSUME NEW nodes \in Seq(NodeStates), NEW fitting \in SUBSET DOMAIN nodes
    PROVE  FirstNode(nodes, fitting) \in STRING \cup {None}
<1>1. CASE fitting = {}
  BY <1>1 DEF FirstNode
<1>2. CASE fitting # {}
  <2>1. fitting \in SUBSET Nat
    OBVIOUS
  <2>2. Min(fitting) \in DOMAIN nodes
    BY <1>2, <2>1, MinIsMember
  <2>3. nodes[Min(fitting)] \in NodeStates
    BY <2>2
  <2> QED
    BY <1>2, <2>3 DEF FirstNode, NodeStates
<1> QED
  BY <1>1, <1>2

LEMMA NodeTypes ==
    ASSUME NEW nodes \in Seq(NodeStates), NEW needed, NEW w, NEW p
    PROVE  /\ findRANNode(nodes, needed) \in STRING \cup {None}
           /\ findComputingNode(nodes, w) \in STRING \cup {None}
           /\ selectNonRANNode(nodes, w, p) \in STRING \cup {None}
<1>1. findRANNode(nodes, needed) \in STRING \cup {None}
  BY FirstNodeType DEF findRANNode
<1>2. findComputingNode(nodes, w) \in STRING \cup {None}
  BY FirstNodeType DEF findComputingNode
<1>3. findGPUNode(nodes) \in STRING \cup {None}
  BY FirstNodeType DEF findGPUNode
<1> QED
  BY <1>1, <1>2, <1>3 DEF selectNonRANNode

-----------------------------------------------------------------------------
(***************************************************************************)
(* Directives.                                                             *)
(***************************************************************************)
LEMMA Observation ==
    ASSUME NEW o \in Observations, NEW w \in DOMAIN o.spec
    PROVE  /\ w \in Workloads /\ o.spec[w] \in WorkloadSpecs
           /\ o.prediction \in TrafficPredictions
           /\ o.nodes \in Seq(NodeStates)
           /\ w \in DOMAIN o.metrics => o.metrics[w] \in WorkloadMetrics
  BY ObservationsAssumption DEF WellFormed

LEMMA TierIsInt ==
    ASSUME NEW spec \in WorkloadSpecs
    PROVE  spec.qosLevel \in Int
  BY DEF WorkloadSpecs, QoSLevels, QoSHigh, QoSMedium, QoSLow

LEMMA GrantType ==
    ASSUME NEW o \in Observations, NEW w \in DOMAIN o.spec,
           NEW needed \in Resources, NEW reason \in {"initial", "prescale", "reactive"}
    PROVE  GrantOrPreempt(w, o, needed, reason) \subseteq Directives
<1> DEFINE node == findRANNode(o.nodes, needed)
<1>1. w \in Workloads /\ o.spec[w] \in WorkloadSpecs /\ o.nodes \in Seq(NodeStates)
  BY Observation
<1>2. node \in STRING \cup {None}
  BY <1>1, NodeTypes
<1>3. o.spec[w].qosLevel \in Int
  BY <1>1, TierIsInt
<1> HIDE DEF node
<1> QED
  BY <1>1, <1>2, <1>3 DEF GrantOrPreempt, node, Vertical, Horizontal, Directives, Instants

LEMMA RANType ==
    ASSUME NEW o \in Observations, NEW w \in Observed(o)
    PROVE  processRANWorkload(w, o) \subseteq Directives
<1> DEFINE spec == o.spec[w]
           m    == o.metrics[w]
           zero == [num |-> 0, den |-> 1]
           dev  == computeDeviation(m)
<1>1. w \in DOMAIN o.spec /\ w \in DOMAIN o.metrics
  BY DEF Observed
<1>2. spec \in WorkloadSpecs /\ m \in WorkloadMetrics /\ o.prediction \in TrafficPredictions
  BY <1>1, Observation
<1>3. dev \in Rationals
  BY <1>2, DeviationType
<1>4. /\ computeVerticalScaleUp(spec, m, zero, o.prediction) \in Resources
      /\ computeVerticalScaleUp(spec, m, dev, o.prediction) \in Resources
      /\ computeVerticalScaleDown(spec, dev) \in Resources
  BY <1>2, <1>3, VerticalTypes
<1>5. \A needed \in Resources, reason \in {"initial", "prescale", "reactive"} :
         GrantOrPreempt(w, o, needed, reason) \subseteq Directives
  BY <1>1, GrantType
<1>6. VerticalRelease(w, o, dev) \subseteq Directives
  <2>1. w \in Workloads /\ spec.qosLevel \in Int
    BY <1>1, <1>2, Observation, TierIsInt
  <2> HIDE DEF dev
  <2> QED
    BY <1>4, <2>1 DEF VerticalRelease, Vertical, Horizontal, Directives, Instants
<1> HIDE DEF dev, m, spec
<1> QED
  BY <1>4, <1>5, <1>6 DEF processRANWorkload, dev, m, spec

LEMMA NonRANType ==
    ASSUME NEW o \in Observations, NEW w \in Observed(o)
    PROVE  processNonRANWorkload(w, o) \subseteq Directives
<1> DEFINE spec == o.spec[w]
           dev  == computeDeviation(o.metrics[w])
           node == selectNonRANNode(o.nodes, spec, o.prediction)
           cpu  == findComputingNode(o.nodes, spec)
           up   == computeHorizontalScaleUp(spec, dev)
           down == computeHorizontalScaleDown(spec, dev)
<1>1. w \in DOMAIN o.spec /\ w \in DOMAIN o.metrics
  BY DEF Observed
<1>2. /\ spec \in WorkloadSpecs /\ o.metrics[w] \in WorkloadMetrics
      /\ o.prediction \in TrafficPredictions /\ w \in Workloads
  BY <1>1, Observation
<1>3. up \in Int /\ down \in Int
  BY <1>2, DeviationType, HorizontalTypes
<1>4. node \in STRING \cup {None} /\ cpu \in STRING \cup {None}
  BY <1>1, Observation, NodeTypes
<1>5. spec.qosLevel \in Int
  BY <1>2, TierIsInt
<1>6. PeakUntil(o) \in Instants
  BY <1>2, TimesAssumption DEF PeakUntil, TrafficPredictions, Instants
<1>7. HorizontalDirectives(w, o) \subseteq Directives
  <2> HIDE DEF spec, dev, node, up, down
  <2> QED
    BY <1>2, <1>3, <1>4, <1>5
    DEF HorizontalDirectives, Vertical, Horizontal, Directives, Instants, spec, dev, node, up, down
<1> HIDE DEF spec, cpu
<1> QED
  BY <1>2, <1>4, <1>5, <1>6, <1>7
  DEF processNonRANWorkload, Vertical, Horizontal, Directives, Instants, spec, cpu

LEMMA OtherTypes ==
    ASSUME NEW o \in Observations, TypeOK
    PROVE  /\ reactiveNonRANReduction(o) \subseteq Directives
           /\ checkDeferredWorkloads(o) \subseteq Directives
           /\ GateUntil(o) \in Nat
           /\ \A w \in Observed(o) : GateDirective(w, o) \in Directives
<1>1. \A w \in DOMAIN o.spec : w \in Workloads /\ o.spec[w] \in WorkloadSpecs
  BY Observation
<1>2. ASSUME NEW w \in DOMAIN o.spec
      PROVE  /\ Halved(o.spec[w]) \in Int
             /\ o.spec[w].minReplicas \in Int
             /\ o.spec[w].qosLevel \in Int
  BY <1>1, TierIsInt, FloorInt DEF Halved, WorkloadSpecs
<1>3. reactiveNonRANReduction(o) \subseteq Directives
  BY <1>1, <1>2 DEF reactiveNonRANReduction, Horizontal, Directives, Instants
<1>4. checkDeferredWorkloads(o) \subseteq Directives
  BY DEF TypeOK, Entries, checkDeferredWorkloads, Resumed, ResumeDirective,
         Horizontal, Directives, Instants, QoSLow
<1>5. GateUntil(o) \in Nat
  <2> DEFINE low == {h \in Horizons : LowTraffic(o.ahead[h])}
  <2> low \subseteq Horizons
    OBVIOUS
  <2> HIDE DEF low
  <2>1. low \in SUBSET Nat /\ None \notin Nat /\ PostponeWindow \in Nat
    BY TimesAssumption
  <2>2. low # {} => Min(low) \in Nat
    BY <2>1, MinIsMember
  <2>3. CASE low = {}
    BY <2>1, <2>3 DEF GateUntil, findNextLowTrafficTime, low
  <2>4. CASE low # {}
    BY <2>1, <2>2, <2>4 DEF GateUntil, findNextLowTrafficTime, low
  <2> QED
    BY <2>3, <2>4
<1>6. ASSUME NEW w \in Observed(o)
      PROVE  GateDirective(w, o) \in Directives
  <2>1. w \in DOMAIN o.spec
    BY DEF Observed
  <2> QED
    BY <1>1, <1>2, <1>5, <2>1 DEF GateDirective, Horizontal, Directives, Instants
<1> QED
  BY <1>3, <1>4, <1>5, <1>6

LEMMA NewEntriesType ==
    ASSUME NEW o \in Observations, NEW w \in DOMAIN NewlyDeferred(o), TypeOK
    PROVE  /\ w \in Workloads
           /\ NewlyDeferred(o)[w] \in Entries
           /\ NewlyDeferred(o)[w].predictedPeakEnd \in {None, NewlyDeferred(o)[w].deferUntil}
<1>1. w \in Eligible(o)
  BY DEF NewlyDeferred
<1>2. w \in DOMAIN o.spec /\ w \in DOMAIN o.metrics
  BY <1>1 DEF Eligible, Observed
<1>3. /\ w \in Workloads /\ o.spec[w] \in WorkloadSpecs /\ o.metrics[w] \in WorkloadMetrics
      /\ o.prediction \in TrafficPredictions
  BY <1>2, Observation
<1>4. CASE HighTraffic(o.prediction)
  <2>1. NewlyDeferred(o)[w] = GateEntry(w, o)
    BY <1>1, <1>4 DEF NewlyDeferred
  <2>2. GateUntil(o) \in Nat
    BY OtherTypes
  <2>3. findNextLowTrafficTime(o) \in {None, GateUntil(o)}
    BY DEF GateUntil
  <2>4. o.spec[w].currentReplicas \in Int
    BY <1>3 DEF WorkloadSpecs
  <2> QED
    BY <1>3, <2>1, <2>2, <2>3, <2>4, TimesAssumption DEF GateEntry, Entry, Entries, Instants
<1>5. CASE ~HighTraffic(o.prediction)
  <2>1. NewlyDeferred(o)[w] = PeakEntry(w, o)
    BY <1>1, <1>5 DEF NewlyDeferred
  <2>2. PeakUntil(o) \in Instants \ {None} /\ o.prediction.peakEnd \in {None, PeakUntil(o)}
    BY <1>3, TimesAssumption DEF PeakUntil, TrafficPredictions, Instants
  <2>3. computeHorizontalScaleUp(o.spec[w], computeDeviation(o.metrics[w])) \in Int
    BY <1>3, DeviationType, HorizontalTypes
  <2> QED
    BY <1>3, <2>1, <2>2, <2>3 DEF PeakEntry, Entry, Entries, Instants
<1> QED
  BY <1>4, <1>5

-----------------------------------------------------------------------------
(***************************************************************************)
(* Type correctness and the single deadline of an entry.  The conjunction  *)
(* is inductive.                                                           *)
(***************************************************************************)
TypeInv == TypeOK /\ OneDeadline

LEMMA TypeInit == Init => TypeInv
  BY DEF Init, TypeInv, TypeOK, OneDeadline

LEMMA TypeAllocate ==
    ASSUME NEW o \in Observations, TypeInv, Allocate(o)
    PROVE  TypeInv'
<1>1. batch' \subseteq Directives
  <2>1. RANDirectives(o) \subseteq Directives
    BY RANType DEF RANDirectives
  <2>2. NonRANDirectives(o) \subseteq Directives
    BY NonRANType, OtherTypes DEF NonRANDirectives, Eligible, TypeInv
  <2> QED
    BY <2>1, <2>2, OtherTypes DEF Allocate, TypeInv
<1>2. ASSUME NEW w \in DOMAIN deferred'
      PROVE  /\ w \in Workloads
             /\ deferred'[w] \in Entries
             /\ deferred'[w].predictedPeakEnd \in {None, deferred'[w].deferUntil}
  <2>1. CASE w \in DOMAIN NewlyDeferred(o)
    <3>1. deferred'[w] = NewlyDeferred(o)[w]
      BY <2>1 DEF Allocate
    <3> QED
      BY <2>1, <3>1, NewEntriesType DEF TypeInv
  <2>2. CASE w \notin DOMAIN NewlyDeferred(o)
    <3>1. w \in DOMAIN deferred /\ deferred'[w] = deferred[w]
      BY <2>2 DEF Allocate
    <3> QED
      BY <3>1 DEF TypeInv, TypeOK, OneDeadline
  <2> QED
    BY <2>1, <2>2
<1> QED
  BY <1>1, <1>2 DEF TypeInv, TypeOK, OneDeadline

LEMMA ElapseType ==
    ASSUME NEW left \in Instants
    PROVE  /\ Elapse(left) \in Instants
           /\ Elapse(left) = None <=> left = None
           /\ left # None => Elapse(left) <= left
  BY TimesAssumption DEF Elapse, Instants

LEMMA TypeTick == TypeInv /\ Tick => TypeInv'
<1> SUFFICES ASSUME TypeInv, Tick PROVE TypeInv'
  OBVIOUS
<1>1. ASSUME NEW w \in DOMAIN deferred
      PROVE  /\ deferred'[w] \in Entries
             /\ deferred'[w].predictedPeakEnd \in {None, deferred'[w].deferUntil}
  <2>1. /\ deferred[w] \in Entries
        /\ deferred[w].predictedPeakEnd \in {None, deferred[w].deferUntil}
    BY DEF TypeInv, TypeOK, OneDeadline
  <2>2. /\ Elapse(deferred[w].deferUntil) \in Instants \ {None}
        /\ Elapse(deferred[w].predictedPeakEnd) \in Instants
    BY <2>1, ElapseType DEF Entries
  <2>3. Elapse(None) = None
    BY DEF Elapse
  <2> QED
    BY <2>1, <2>2, <2>3 DEF Tick, Entries
<1> QED
  BY <1>1 DEF Tick, TypeInv, TypeOK, OneDeadline

LEMMA TypeNext == TypeInv /\ [Next]_vars => TypeInv'
<1> SUFFICES ASSUME TypeInv, [Next]_vars PROVE TypeInv'
  OBVIOUS
<1>1. CASE \E o \in Observations : Allocate(o)
  BY <1>1, TypeAllocate
<1>2. CASE AllocateFails
  BY <1>2 DEF AllocateFails, vars, TypeInv, TypeOK, OneDeadline
<1>3. CASE Discard
  BY <1>3 DEF Discard, TypeInv, TypeOK, OneDeadline
<1>4. CASE Tick
  BY <1>4, TypeTick
<1>5. CASE UNCHANGED vars
  BY <1>5 DEF vars, TypeInv, TypeOK, OneDeadline
<1> QED
  BY <1>1, <1>2, <1>3, <1>4, <1>5 DEF Next

\* The map of deferred workloads and every batch keep their types.
THEOREM TypeCorrect == Spec => []TypeOK
<1>1. TypeInv => TypeOK
  BY DEF TypeInv
<1> QED
  BY <1>1, TypeInit, TypeNext, PTL DEF Spec

\* The predicted end of the peak of an entry is its deadline or is unknown.
THEOREM SingleDeadline == Spec => []OneDeadline
<1>1. TypeInv => OneDeadline
  BY DEF TypeInv
<1> QED
  BY <1>1, TypeInit, TypeNext, PTL DEF Spec

-----------------------------------------------------------------------------
(***************************************************************************)
(* No deferral is lost or pushed away.                                     *)
(***************************************************************************)
LEMMA KeptByAllocate ==
    ASSUME NEW o \in Observations, TypeInv, Allocate(o), NEW w \in DOMAIN deferred
    PROVE  KeptOrResumed(w)
<1>1. CASE w \in Resumed(o)
  <2>1. ResumeDirective(w, deferred[w]) \in batch'
    BY <1>1 DEF Allocate, checkDeferredWorkloads
  <2> QED
    BY <2>1 DEF KeptOrResumed, ResumeDirective, Horizontal
<1>2. CASE w \notin Resumed(o)
  <2>1. w \notin DOMAIN NewlyDeferred(o)
    BY <1>2 DEF NewlyDeferred, Eligible
  <2>2. w \in DOMAIN deferred' /\ deferred'[w] = deferred[w]
    BY <1>2, <2>1 DEF Allocate
  <2>3. ~Past(deferred[w].deferUntil)
    BY <1>2 DEF Resumed, CanResume
  <2>4. ~Idle'
    <3>1. obs' = o /\ DOMAIN o.spec # {}
      BY ObservationsAssumption DEF Allocate, WellFormed
    <3> QED
      BY <3>1 DEF Idle, NoObservation
  <2> QED
    BY <2>2, <2>3, <2>4 DEF KeptOrResumed, ClosesIn, Overdue
<1> QED
  BY <1>1, <1>2

LEMMA KeptByTick ==
    ASSUME TypeInv, Tick, NEW w \in DOMAIN deferred
    PROVE  KeptOrResumed(w)
<1>1. deferred[w] \in Entries /\ deferred[w].deferUntil \in {-1} \cup Nat
  BY TimesAssumption DEF TypeInv, TypeOK, Entries, Instants
<1>2. /\ w \in DOMAIN deferred'
      /\ deferred'[w].originalReplicas = deferred[w].originalReplicas
      /\ deferred'[w].deferUntil = Elapse(deferred[w].deferUntil)
  BY <1>1 DEF Tick, Entries
<1>3. \/ Elapse(deferred[w].deferUntil) < deferred[w].deferUntil
      \/ Past(Elapse(deferred[w].deferUntil))
  BY <1>1, TimesAssumption DEF Elapse, Past
<1>4. Idle /\ Idle'
  BY DEF Tick, Idle
<1> QED
  BY <1>2, <1>3, <1>4 DEF KeptOrResumed, ClosesIn, Overdue

LEMMA KeptNext ==
    TypeInv /\ [Next]_vars => [\A w \in DOMAIN deferred : KeptOrResumed(w)]_vars
<1> SUFFICES ASSUME TypeInv, Next, ~UNCHANGED vars, NEW w \in DOMAIN deferred
             PROVE  KeptOrResumed(w)
  OBVIOUS
<1>1. ASSUME NEW o \in Observations, Allocate(o) PROVE KeptOrResumed(w)
  BY <1>1, KeptByAllocate
<1>2. CASE Tick
  BY <1>2, KeptByTick
<1>3. CASE Discard
  BY <1>3 DEF Discard, KeptOrResumed, ClosesIn, Overdue
<1> QED
  BY <1>1, <1>2, <1>3 DEF Next, AllocateFails

\* Every step keeps the target of a deferred workload and brings its deadline
\* closer, or resumes the workload with that very target, at the latest when
\* a call finds the deadline past (checkDeferredWorkloads, allocator.go).
THEOREM DeferralsAreKept == Spec => DeferralKept
  BY KeptNext, TypeInit, TypeNext, PTL DEF Spec, DeferralKept

-----------------------------------------------------------------------------
(***************************************************************************)
(* What every batch says.                                                  *)
(***************************************************************************)
LEMMA RANReasons ==
    ASSUME NEW o \in Observations, NEW w \in Observed(o), NEW d \in processRANWorkload(w, o)
    PROVE  d.id = w /\ d.reason \in {"initial", "prescale", "reactive", "release"}
<1>1. ASSUME NEW needed, NEW reason, NEW e \in GrantOrPreempt(w, o, needed, reason)
      PROVE  e.id = w /\ e.reason = reason
  BY <1>1 DEF GrantOrPreempt, Vertical
<1>2. ASSUME NEW dev, NEW e \in VerticalRelease(w, o, dev)
      PROVE  e.id = w /\ e.reason = "release"
  BY <1>2 DEF VerticalRelease, Vertical
<1> QED
  BY <1>1, <1>2 DEF processRANWorkload

LEMMA OtherReasons ==
    ASSUME NEW o \in Observations,
           NEW d \in checkDeferredWorkloads(o) \cup reactiveNonRANReduction(o)
                       \cup NonRANDirectives(o)
    PROVE  d.reason \in {"resume", "reduction", "throttle", "gate", "peak", "scale"}
<1>1. CASE d \in checkDeferredWorkloads(o)
  BY <1>1 DEF checkDeferredWorkloads, ResumeDirective, Horizontal
<1>2. CASE d \in reactiveNonRANReduction(o)
  BY <1>2 DEF reactiveNonRANReduction, Horizontal
<1>3. CASE d \in NonRANDirectives(o)
  <2>1. CASE HighTraffic(o.prediction)
    BY <1>3, <2>1 DEF NonRANDirectives, GateDirective, Horizontal
  <2>2. CASE ~HighTraffic(o.prediction)
    <3>1. PICK w \in Eligible(o) : d \in processNonRANWorkload(w, o)
      BY <1>3, <2>2 DEF NonRANDirectives
    <3>2. ~Migrates(w, o)
      BY <2>2 DEF Migrates
    <3> QED
      BY <3>1, <3>2 DEF processNonRANWorkload, HorizontalDirectives, Horizontal
  <2> QED
    BY <2>1, <2>2
<1> QED
  BY <1>1, <1>2, <1>3

\* Outside a call that returned a batch there is nothing to say of one.
BatchInv == (Idle => batch = {}) /\ ReactiveAddsNothing /\ GateDefersAll

LEMMA NoTraffic == ~HighTraffic(NoPrediction)
  BY WeightsAssumption DEF HighTraffic, Trusted, NoPrediction

\* For a RAN workload the proactive phase answers whenever its sizing exceeds
\* the current resources, and the reactive phase has the same sizing.
LEMMA ReactiveOfRAN ==
    ASSUME NEW o \in Observations, NEW w \in Observed(o), NEW d \in processRANWorkload(w, o),
           d.reason = "reactive", IsRAN(o.spec[w])
    PROVE  ~Exceeds(d.newResources, o.spec[w].curRes)
<1> DEFINE spec      == o.spec[w]
           m         == o.metrics[w]
           dev       == computeDeviation(m)
           proactive == computeVerticalScaleUp(spec, m, [num |-> 0, den |-> 1], o.prediction)
           prescale  == IF Exceeds(proactive, spec.curRes)
                        THEN GrantOrPreempt(w, o, proactive, "prescale") ELSE {}
           needed    == computeVerticalScaleUp(spec, m, dev, o.prediction)
<1>1. needed = proactive
  BY DEF computeVerticalScaleUp
<1>2. \A size, reason : GrantOrPreempt(w, o, size, reason) # {}
  BY DEF GrantOrPreempt
<1>3. \A size, reason : \A e \in GrantOrPreempt(w, o, size, reason) :
         e.reason = reason /\ e.newResources = size
  BY DEF GrantOrPreempt, Vertical
<1>4. \A e \in VerticalRelease(w, o, dev) : e.reason = "release"
  BY DEF VerticalRelease, Vertical
<1>5. \A e \in prescale : e.reason = "prescale"
  BY <1>3
<1>6. processRANWorkload(w, o) =
        IF spec.currentNode = None THEN GrantOrPreempt(w, o, proactive, "initial")
        ELSE IF prescale # {}      THEN prescale
        ELSE IF Above(dev)         THEN GrantOrPreempt(w, o, needed, "reactive")
        ELSE IF Below(dev) /\ ~HighTraffic(o.prediction) THEN VerticalRelease(w, o, dev)
        ELSE {}
  BY DEF processRANWorkload
<1>7. prescale = {} => ~Exceeds(proactive, spec.curRes)
  BY <1>2
<1> HIDE DEF spec, m, dev, proactive, prescale, needed
<1>8. prescale = {} /\ d.newResources = needed
  BY <1>3, <1>4, <1>5, <1>6
<1> QED
  BY <1>1, <1>7, <1>8 DEF spec

LEMMA BatchAllocate ==
    ASSUME NEW o \in Observations, TypeInv, Allocate(o)
    PROVE  ReactiveAddsNothing' /\ GateDefersAll'
<1> DEFINE others == checkDeferredWorkloads(o) \cup reactiveNonRANReduction(o)
                       \cup NonRANDirectives(o)
<1>1. batch' = others \cup RANDirectives(o) /\ obs' = o
  BY DEF Allocate
<1>2. \A d \in others :
         d.reason \in {"resume", "reduction", "throttle", "gate", "peak", "scale"}
  BY OtherReasons
<1>3. ASSUME NEW d \in RANDirectives(o)
      PROVE  \E w \in Observed(o) : /\ d \in processRANWorkload(w, o) /\ d.id = w
                                    /\ d.reason \in {"initial", "prescale", "reactive", "release"}
  BY RANReasons DEF RANDirectives
<1> HIDE DEF others
<1>4. ReactiveAddsNothing'
  <2> SUFFICES ASSUME NEW d \in batch', d.reason = "reactive", IsRAN(o.spec[d.id])
               PROVE  ~Exceeds(d.newResources, o.spec[d.id].curRes)
    BY <1>1 DEF ReactiveAddsNothing
  <2>1. d \in RANDirectives(o)
    BY <1>1, <1>2
  <2>2. PICK w \in Observed(o) : d \in processRANWorkload(w, o) /\ d.id = w
    BY <2>1, <1>3
  <2> QED
    BY <2>2, ReactiveOfRAN
<1>5. GateDefersAll'
  <2> SUFFICES ASSUME HighTraffic(o.prediction), NEW w \in Observed(o),
                      o.spec[w].qosLevel = QoSLow
               PROVE  w \in DOMAIN deferred'
    BY <1>1 DEF GateDefersAll
  <2>1. DOMAIN NewlyDeferred(o) = Eligible(o)
    BY DEF NewlyDeferred
  <2>2. w \in Eligible(o) \/ w \in DOMAIN deferred \ Resumed(o)
    BY DEF Eligible
  <2> QED
    BY <2>1, <2>2 DEF Allocate
<1> QED
  BY <1>4, <1>5

LEMMA BatchNext == TypeInv /\ BatchInv /\ [Next]_vars => BatchInv'
<1> SUFFICES ASSUME TypeInv, BatchInv, [Next]_vars PROVE BatchInv'
  OBVIOUS
<1>1. ASSUME NEW o \in Observations, Allocate(o)
      PROVE  BatchInv'
  <2>1. DOMAIN o.spec # {} /\ DOMAIN NoObservation.spec = {}
    BY ObservationsAssumption DEF WellFormed, NoObservation
  <2>2. ~Idle'
    BY <1>1, <2>1 DEF Allocate, Idle
  <2> QED
    BY <1>1, <2>2, BatchAllocate DEF BatchInv
<1>2. CASE AllocateFails \/ UNCHANGED vars
  BY <1>2 DEF AllocateFails, vars, BatchInv, Idle, ReactiveAddsNothing, GateDefersAll
<1>3. CASE Discard \/ Tick
  <2>1. Idle' /\ batch' = {}
    BY <1>3 DEF Discard, Tick, Idle, BatchInv
  <2> QED
    BY <2>1, NoTraffic DEF Idle, NoObservation, BatchInv, ReactiveAddsNothing, GateDefersAll
<1> QED
  BY <1>1, <1>2, <1>3 DEF Next

LEMMA BatchAlways == Spec => []BatchInv
<1>1. Init => BatchInv
  BY NoTraffic DEF Init, Idle, NoObservation, BatchInv, ReactiveAddsNothing, GateDefersAll
<1> QED
  BY <1>1, TypeInit, TypeNext, BatchNext, PTL DEF Spec

\* The reactive phase never asks for more than a RAN workload already has.
THEOREM ReactiveIsVoid == Spec => []ReactiveAddsNothing
<1>1. BatchInv => ReactiveAddsNothing
  BY DEF BatchInv
<1> QED
  BY <1>1, BatchAlways, PTL

\* An active gate leaves no low-tier workload with metrics undeferred.
THEOREM GateIsComplete == Spec => []GateDefersAll
<1>1. BatchInv => GateDefersAll
  BY DEF BatchInv
<1> QED
  BY <1>1, BatchAlways, PTL
=============================================================================
