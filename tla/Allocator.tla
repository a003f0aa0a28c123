------------------------------ MODULE Allocator -----------------------------
(***************************************************************************)
(* The QoS-aware allocation function (pkg/allocation/allocator.go): its    *)
(* only persistent state is the map of deferred workloads; each call of    *)
(* Allocate reads the workloads, their metrics, the traffic prediction and *)
(* the nodes, updates that map and returns a batch of scaling directives.  *)
(*                                                                         *)
(* One goroutine calls Allocate, so a call is one atomic step; everything  *)
(* it observes is a record chosen from Observations.                       *)
(*                                                                         *)
(* A batch is a set of directives.  sort.Slice orders it by priority only  *)
(* and promises nothing about equal priorities, so whoever executes a      *)
(* batch may take any directive of least priority next.  The field reason  *)
(* names the code path, as Reason does, and keeps two directives for one   *)
(* workload apart.                                                         *)
(*                                                                         *)
(* An instant kept in the map is the number of ticks from now to it; an    *)
(* instant in the past is -1, which is all the code can tell of it.        *)
(***************************************************************************)
EXTENDS Sizing, Placement

CONSTANTS
    Workloads,                  \* workload IDs
    Observations,               \* what a call of Allocate may be given
    PostponeWindow,             \* TrafficPeakPostponeWindow, in ticks
    ResumeImminence,            \* the 15 minutes of checkDeferredWorkloads, in ticks
    Horizons                    \* look-ahead steps up to MaxScheduleLookAheadMinutes, in ticks

ASSUME TimesAssumption ==
    /\ PostponeWindow \in Nat
    /\ Horizons \subseteq Nat
    /\ None \notin Int

(***************************************************************************)
(* What a call of Allocate may be given (types.go and interfaces.go).      *)
(***************************************************************************)
Resources  == [cpu : Int, mem : Int]
Quantities == [cpu : Nat, mem : Nat]

WorkloadSpecs ==
    [namespace : STRING, qosLevel : QoSLevels,
     minRes : Quantities, maxRes : Quantities, curRes : Quantities,
     minReplicas : Nat, maxReplicas : Nat, currentReplicas : Nat,
     currentNode : STRING \cup {None}, requiredNodeLabels : SUBSET STRING,
     requiresGPU : BOOLEAN, gpuFallbackCPU : BOOLEAN, postponeDuringPeak : BOOLEAN]

WorkloadMetrics == [currentLatency : Nat, targetLatency : Nat, cpu : Nat, gpu : Nat]

TrafficPredictions ==
    [load : Nat, conf : Nat, peakExpected : BOOLEAN,
     peakStart : Int \cup {None}, peakEnd : {None, -1} \cup Nat]

NodeStates ==
    [name : STRING, labels : SUBSET STRING, hasGPU : BOOLEAN, gpuAvailable : BOOLEAN,
     cpu : Int, mem : Int]

\* cmd/orchestrator/main.go does not call Allocate without workloads.
WellFormed(o) ==
    /\ DOMAIN o.spec \subseteq Workloads /\ DOMAIN o.spec # {}
    /\ \A w \in DOMAIN o.spec : o.spec[w] \in WorkloadSpecs
    /\ \A w \in DOMAIN o.metrics : o.metrics[w] \in WorkloadMetrics
    /\ o.prediction \in TrafficPredictions
    /\ o.ahead \in [Horizons -> TrafficPredictions \cup {None}]
    /\ o.nodes \in Seq(NodeStates)

ASSUME ObservationsAssumption == \A o \in Observations : WellFormed(o)

VARIABLES
    deferred,   \* Allocator.deferredWorkloads, a function from IDs
    obs,        \* the observation of the call whose batch is in use
    batch       \* the directives that call returned

vars == <<deferred, obs, batch>>

NoObservation ==
    [spec |-> [w \in {} |-> None], metrics |-> [w \in {} |-> None],
     prediction |-> NoPrediction, ahead |-> [h \in Horizons |-> None], nodes |-> <<>>]

-----------------------------------------------------------------------------
(***************************************************************************)
(* Directives.                                                             *)
(***************************************************************************)
Vertical(w, action, prio, reason, node, resources) ==
    [id |-> w, action |-> action, type |-> "vertical", priority |-> prio, reason |-> reason,
     targetNode |-> node, newResources |-> resources, newReplicas |-> None,
     postponeUntil |-> None]

Horizontal(w, action, prio, reason, node, replicas, until) ==
    [id |-> w, action |-> action, type |-> "horizontal", priority |-> prio, reason |-> reason,
     targetNode |-> node, newResources |-> None, newReplicas |-> replicas,
     postponeUntil |-> until]

-----------------------------------------------------------------------------
(***************************************************************************)
(* RAN workloads, and every workload of the two upper tiers: vertical.     *)
(***************************************************************************)

\* A grant on the first RAN node with room; without room, preemption.
GrantOrPreempt(w, o, needed, reason) ==
    LET spec == o.spec[w]
        node == findRANNode(o.nodes, needed)
    IN  IF node # None
        THEN {Vertical(w, "scale-up", spec.qosLevel, reason, node, needed)}
        ELSE IF IsRAN(spec)
        THEN {Vertical(w, "preempt", spec.qosLevel - 1, reason, None, needed)}
        ELSE {}

VerticalRelease(w, o, dev) ==
    LET spec == o.spec[w]
        less == computeVerticalScaleDown(spec, dev)
    IN  IF less = spec.curRes THEN {}
        ELSE {Vertical(w, "scale-down", spec.qosLevel + 10, "release", None, less)}

\* A non-RAN workload of an upper tier falls through when no node has room.
processRANWorkload(w, o) ==
    LET spec      == o.spec[w]
        m         == o.metrics[w]
        proactive == computeVerticalScaleUp(spec, m, [num |-> 0, den |-> 1], o.prediction)
        prescale  == IF Exceeds(proactive, spec.curRes)
                     THEN GrantOrPreempt(w, o, proactive, "prescale") ELSE {}
        dev       == computeDeviation(m)
        needed    == computeVerticalScaleUp(spec, m, dev, o.prediction)
    IN  IF spec.currentNode = None THEN GrantOrPreempt(w, o, proactive, "initial")
        ELSE IF prescale # {}      THEN prescale
        ELSE IF Above(dev)         THEN GrantOrPreempt(w, o, needed, "reactive")
        ELSE IF Below(dev) /\ ~HighTraffic(o.prediction) THEN VerticalRelease(w, o, dev)
        ELSE {}

Observed(o) == DOMAIN o.spec \cap DOMAIN o.metrics

RANDirectives(o) ==
    UNION {{d \in processRANWorkload(w, o) : validateRANPlacement(d, o.nodes)} :
             w \in {v \in Observed(o) : o.spec[v].qosLevel \in {QoSHigh, QoSMedium}}}

-----------------------------------------------------------------------------
(***************************************************************************)
(* Reactive reduction of non-RAN workloads when a RAN workload degrades.   *)
(***************************************************************************)
detectRANDegradation(o) ==
    \E w \in Observed(o) : IsRAN(o.spec[w]) /\ IsDegraded(o.metrics[w])

\* Mutation: RAN workloads are reduced as well.
ReducibleRAN(w, o) == o.spec[w].currentReplicas > o.spec[w].minReplicas

Reducible(w, o) ==
    ~IsRAN(o.spec[w]) /\ o.spec[w].currentReplicas > o.spec[w].minReplicas

\* Mutation: the minimum is not respected.
HalvedBelowMin(spec) == Floor(spec.currentReplicas, 2)

\* int32(max(min, current * 0.5))
Halved(spec) ==
    LET half == Floor(spec.currentReplicas, 2)
    IN  IF half < spec.minReplicas THEN spec.minReplicas ELSE half

reactiveNonRANReduction(o) ==
    IF ~detectRANDegradation(o) THEN {}
    ELSE {Horizontal(w, "scale-down", 1, "reduction", None, Halved(o.spec[w]), None) :
             w \in {v \in DOMAIN o.spec : Reducible(v, o)}}

-----------------------------------------------------------------------------
(***************************************************************************)
(* Deferral.                                                               *)
(***************************************************************************)
Past(left) == left < 0

\* Mutation: a deadline in the past does not resume by itself.
CanResumeNoDeadline(entry, p) ==
    /\ p.conf >= 50
    /\ ~p.peakExpected
    /\ ~HighTraffic(p)

CanResume(entry, p) ==
    \/ Past(entry.deferUntil)
    \/ /\ ~IsInTrafficPeak(p)
       /\ entry.predictedPeakEnd # None
       /\ Past(entry.predictedPeakEnd)
    \/ /\ p.conf >= 50
       /\ ~p.peakExpected
       /\ ~IsTrafficPeakImminent(p, ResumeImminence)

Resumed(o) == {w \in DOMAIN deferred : CanResume(deferred[w], o.prediction)}

\* Mutation: the target of the postponed scale-up is lost.
ResumeDirectiveNoTarget(w, entry) ==
    Horizontal(w, entry.originalAction, QoSLow, "resume", None, None, None)

ResumeDirective(w, entry) ==
    Horizontal(w, entry.originalAction, QoSLow, "resume", None, entry.originalReplicas, None)

checkDeferredWorkloads(o) == {ResumeDirective(w, deferred[w]) : w \in Resumed(o)}

Entry(until, peakEnd, replicas) ==
    [deferUntil |-> until, predictedPeakEnd |-> peakEnd,
     originalAction |-> "scale-up", originalReplicas |-> replicas]

\* Mutation: workloads that are still deferred are not skipped.
EligibleDeferred(o) == {w \in Observed(o) : o.spec[w].qosLevel = QoSLow}

\* The low-tier workloads that reach the body of Phase 3.
Eligible(o) ==
    {w \in Observed(o) : /\ o.spec[w].qosLevel = QoSLow
                         /\ w \notin DOMAIN deferred \ Resumed(o)}

-----------------------------------------------------------------------------
(***************************************************************************)
(* The scheduler gate.                                                     *)
(***************************************************************************)
LowTraffic(p) == p # None /\ Trusted(p) /\ p.load < TrafficHighLoadThreshold

findNextLowTrafficTime(o) ==
    LET low == {h \in Horizons : LowTraffic(o.ahead[h])}
    IN  IF low = {} THEN None ELSE Min(low)

GateUntil(o) ==
    LET next == findNextLowTrafficTime(o) IN IF next = None THEN PostponeWindow ELSE next

\* Mutation: the end of the peak taken from the prediction, the deadline not.
GateEntryTwoSources(w, o) ==
    Entry(GateUntil(o), o.prediction.peakEnd, o.spec[w].currentReplicas)

GateEntry(w, o) ==
    Entry(GateUntil(o), findNextLowTrafficTime(o), o.spec[w].currentReplicas)

\* Mutation: the directive announces the fallback window in every case.
GateDirectiveFixedWindow(w, o) ==
    Horizontal(w, "postpone", o.spec[w].qosLevel, "gate", None, None, PostponeWindow)

GateDirective(w, o) ==
    LET spec == o.spec[w]
    IN  IF spec.currentReplicas > spec.minReplicas
        THEN Horizontal(w, "scale-down", spec.qosLevel, "throttle", None,
                        spec.minReplicas, GateUntil(o))
        ELSE Horizontal(w, "postpone", spec.qosLevel, "gate", None, None, GateUntil(o))

-----------------------------------------------------------------------------
(***************************************************************************)
(* Non-RAN workloads outside the gate: horizontal.                         *)
(***************************************************************************)
Migrates(w, o) ==
    /\ HighTraffic(o.prediction)
    /\ o.spec[w].requiresGPU
    /\ o.spec[w].currentNode # None
    /\ findComputingNode(o.nodes, o.spec[w]) \notin {None, o.spec[w].currentNode}

PeakDefers(w, o) ==
    LET p == o.prediction
    IN  /\ ~Migrates(w, o)
        /\ o.spec[w].postponeDuringPeak
        /\ Trusted(p)
        /\ IsTrafficPeakImminent(p, PostponeWindow) \/ IsInTrafficPeak(p)
        /\ Above(computeDeviation(o.metrics[w]))

\* Mutation: no fallback window for a peak without a predicted end.
PeakUntilNoFallback(o) == o.prediction.peakEnd

PeakUntil(o) ==
    IF o.prediction.peakEnd = None THEN PostponeWindow ELSE o.prediction.peakEnd

PeakEntry(w, o) ==
    Entry(PeakUntil(o), o.prediction.peakEnd,
          computeHorizontalScaleUp(o.spec[w], computeDeviation(o.metrics[w])))

HorizontalDirectives(w, o) ==
    LET spec == o.spec[w]
        dev  == computeDeviation(o.metrics[w])
        up   == computeHorizontalScaleUp(spec, dev)
        down == computeHorizontalScaleDown(spec, dev)
        node == selectNonRANNode(o.nodes, spec, o.prediction)
    IN  IF Above(dev)
        THEN IF /\ up > spec.currentReplicas /\ up <= spec.maxReplicas
                /\ ~(node = None /\ spec.requiresGPU /\ ~spec.gpuFallbackCPU)
             THEN {Horizontal(w, "scale-up", spec.qosLevel, "scale", node, up, None)} ELSE {}
        ELSE IF Below(dev) /\ down < spec.currentReplicas /\ down >= spec.minReplicas
             THEN {Horizontal(w, "scale-down", spec.qosLevel + 10, "scale", None, down, None)}
             ELSE {}

processNonRANWorkload(w, o) ==
    LET qos == o.spec[w].qosLevel
    IN  IF Migrates(w, o)
        THEN {Horizontal(w, "scale-up", qos, "migrate",
                         findComputingNode(o.nodes, o.spec[w]), None, None)}
        ELSE IF PeakDefers(w, o)
        THEN {Horizontal(w, "postpone", qos, "peak", None, None, PeakUntil(o))}
        ELSE HorizontalDirectives(w, o)

NonRANDirectives(o) ==
    IF HighTraffic(o.prediction)
    THEN {GateDirective(w, o) : w \in Eligible(o)}
    ELSE UNION {{d \in processNonRANWorkload(w, o) :
                    validateNonRANPlacement(d, o.spec[w], o.nodes)} : w \in Eligible(o)}

\* Mutation: a workload that is throttled is not deferred.
NewlyDeferredIdle(o) ==
    IF HighTraffic(o.prediction)
    THEN [w \in {v \in Eligible(o) : o.spec[v].currentReplicas = o.spec[v].minReplicas} |->
            GateEntry(w, o)]
    ELSE [w \in {v \in Eligible(o) : PeakDefers(v, o)} |-> PeakEntry(w, o)]

\* The workloads this call defers, with their entries.
NewlyDeferred(o) ==
    IF HighTraffic(o.prediction)
    THEN [w \in Eligible(o) |-> GateEntry(w, o)]
    ELSE [w \in {v \in Eligible(o) : PeakDefers(v, o)} |-> PeakEntry(w, o)]

-----------------------------------------------------------------------------
Init ==
    /\ deferred = [w \in {} |-> None]
    /\ obs = NoObservation
    /\ batch = {}

\* The caller executes a batch to its end before it calls again.
Idle == obs = NoObservation

\* A call that returns a batch.
Allocate(o) ==
    /\ Idle
    /\ obs' = o
    /\ LET fresh == NewlyDeferred(o)
           kept  == DOMAIN deferred \ Resumed(o)
       IN  deferred' = [w \in kept \cup DOMAIN fresh |->
                          IF w \in DOMAIN fresh THEN fresh[w] ELSE deferred[w]]
    /\ batch' = checkDeferredWorkloads(o) \cup reactiveNonRANReduction(o)
                  \cup RANDirectives(o) \cup NonRANDirectives(o)

\* A call that fails before it decides anything, because the metrics or the
\* cluster state could not be fetched: the deferred workloads stay.
AllocateFails == Idle /\ UNCHANGED vars

\* The caller is done with the batch.
Discard ==
    /\ ~Idle
    /\ obs' = NoObservation
    /\ batch' = {}
    /\ UNCHANGED deferred

\* One tick of the clock.
Elapse(left) == IF left = None THEN None ELSE IF left < 0 THEN -1 ELSE left - 1

Tick ==
    /\ Idle
    /\ deferred' = [w \in DOMAIN deferred |->
                      [deferred[w] EXCEPT !.deferUntil = Elapse(@),
                                          !.predictedPeakEnd = Elapse(@)]]
    /\ UNCHANGED <<obs, batch>>

Next ==
    \/ \E o \in Observations : Allocate(o)
    \/ AllocateFails
    \/ Discard
    \/ Tick

Spec == Init /\ [][Next]_vars

\* The loop of cmd/orchestrator/main.go calls Allocate on every period of its
\* timer and executes what it returns; not every call of an infinite run
\* fails, and time passes whatever the loop does.
FairSpec ==
    /\ Spec
    /\ SF_vars(\E o \in Observations : Allocate(o))
    /\ WF_vars(Discard)
    /\ SF_vars(Tick)
-----------------------------------------------------------------------------
(***************************************************************************)
(* Types.                                                                  *)
(***************************************************************************)
Instants == {None, -1} \cup Nat

Entries ==
    [deferUntil : Instants \ {None}, predictedPeakEnd : Instants,
     originalAction : {"scale-up"}, originalReplicas : Int]

Directives ==
    [id : Workloads,
     action : {"scale-up", "scale-down", "preempt", "postpone"},
     type : {"vertical", "horizontal"}, priority : Int,
     reason : {"initial", "prescale", "reactive", "release", "reduction", "resume",
               "throttle", "gate", "migrate", "peak", "scale"},
     targetNode : STRING \cup {None}, newResources : Resources \cup {None},
     newReplicas : Int \cup {None}, postponeUntil : Instants]

\* The map and the batch have the shapes of DeferredWorkload and
\* ScalingDirective.
TypeOK ==
    /\ DOMAIN deferred \subseteq Workloads
    /\ \A w \in DOMAIN deferred : deferred[w] \in Entries
    /\ batch \subseteq Directives

-----------------------------------------------------------------------------
(***************************************************************************)
(* Deferral.                                                               *)
(***************************************************************************)

\* Both instants of an entry come from one source, so the predicted end of
\* the peak, when there is one, is the deadline itself: the second resume
\* condition of checkDeferredWorkloads can never hold before the first.
OneDeadline ==
    \A w \in DOMAIN deferred :
        deferred[w].predictedPeakEnd \in {None, deferred[w].deferUntil}

\* A deferred workload keeps its target, until a directive that carries
\* exactly that target resumes it, and its deadline, which no call sets back,
\* however high traffic stays, and every tick brings closer.  The call that
\* finds the deadline past resumes it, with the gate active, without metrics,
\* and also when it is no longer listed: a deferral ends with the first call
\* that follows its deadline, if not before.
ClosesIn(w) ==
    IF Idle /\ Idle'
    THEN deferred'[w].deferUntil < deferred[w].deferUntil \/ Past(deferred'[w].deferUntil)
    ELSE deferred'[w].deferUntil = deferred[w].deferUntil

Overdue(w) == Idle /\ ~Idle' /\ Past(deferred[w].deferUntil)

KeptOrResumed(w) ==
    \/ /\ w \in DOMAIN deferred'
       /\ deferred'[w].originalReplicas = deferred[w].originalReplicas
       /\ ClosesIn(w)
       /\ ~Overdue(w)
    \/ \E d \in batch' : /\ d.id = w /\ d.reason = "resume"
                         /\ d.newReplicas = deferred[w].originalReplicas

DeferralKept == [][\A w \in DOMAIN deferred : KeptOrResumed(w)]_vars

\* A workload enters the map exactly when the batch says until when it is
\* postponed, with that same deadline: nothing is deferred silently, and
\* nothing is announced as postponed without being tracked.
DeferralAnnounced ==
    [][/\ \A w \in DOMAIN deferred' \ DOMAIN deferred :
            \E d \in batch' : d.id = w /\ d.postponeUntil = deferred'[w].deferUntil
       /\ \A d \in batch' : d.postponeUntil # None =>
            d.id \in DOMAIN deferred' /\ deferred'[d.id].deferUntil = d.postponeUntil
      ]_vars

\* While the gate is active every low-tier workload with metrics is in the
\* map after the call, also one that the same call has just resumed.
GateDefersAll ==
    HighTraffic(obs.prediction) =>
        \A w \in Observed(obs) : obs.spec[w].qosLevel = QoSLow => w \in DOMAIN deferred

\* Being in the map really suspends a workload's scaling: until it is resumed
\* the only directive it may get is the reduction that protects the RAN.
DeferredStaysSuspended ==
    [][\A d \in batch' :
         d.id \in DOMAIN deferred /\ d.reason # "reduction" =>
             \E e \in batch' : e.id = d.id /\ e.reason = "resume"]_vars

\* Every deferred workload is resumed in the end: its deadline passes and a
\* later call resumes it whatever the prediction says.
DeferredResumed ==
    \A w \in Workloads :
        w \in DOMAIN deferred ~> \E d \in batch : d.id = w /\ d.reason = "resume"
-----------------------------------------------------------------------------
(***************************************************************************)
(* Decisions: a batch against the observation it was computed from.        *)
(***************************************************************************)
InBounds(w) == /\ w.minRes.cpu <= w.curRes.cpu /\ w.curRes.cpu <= w.maxRes.cpu
               /\ w.minRes.mem <= w.curRes.mem /\ w.curRes.mem <= w.maxRes.mem

\* The resource q of a workload whose latency is above target cannot grow:
\* it is at its maximum, or the growth is below the resolution of a quantity.
CannotGrow(q, max, m) ==
    q >= max \/ Floor(q * m.currentLatency, m.targetLatency) = q

\* A RAN workload above its latency target is asked more resources for, by a
\* grant or a preemption, in the very cycle that sees it, unless neither of
\* its resources can grow; and it is never asked to release any.
ViolationAnswered ==
    \A w \in Observed(obs) :
        LET spec == obs.spec[w]
            m    == obs.metrics[w]
        IN  /\ IsRAN(spec) /\ spec.qosLevel # QoSLow
            /\ m.targetLatency > 0 /\ m.currentLatency > m.targetLatency
            => /\ \/ \E d \in batch : /\ d.id = w /\ d.action \in {"scale-up", "preempt"}
                                      /\ Exceeds(d.newResources, spec.curRes)
                  \/ /\ CannotGrow(spec.curRes.cpu, spec.maxRes.cpu, m)
                     /\ CannotGrow(spec.curRes.mem, spec.maxRes.mem, m)
               /\ \A d \in batch : d.id = w => d.action # "scale-down"

\* A vertical grant or preemption shrinks neither resource of a workload that
\* is within its bounds, and a vertical release grows neither, although each
\* resource is scaled, truncated and clamped on its own.
ResizesAreMonotone ==
    \A d \in batch :
        d.type = "vertical" /\ InBounds(obs.spec[d.id]) =>
            IF d.action = "scale-down"
            THEN ~Exceeds(d.newResources, obs.spec[d.id].curRes)
            ELSE d.reason # "initial" => ~Exceeds(obs.spec[d.id].curRes, d.newResources)

\* Apart from resumptions, a replica count is only raised up to the maximum
\* and only lowered down to the minimum, whatever the count observed.
ReplicaStepsInBounds ==
    \A d \in batch :
        d.newReplicas # None /\ d.reason # "resume" =>
            LET spec == obs.spec[d.id]
            IN  IF d.action = "scale-up"
                THEN spec.currentReplicas < d.newReplicas /\ d.newReplicas <= spec.maxReplicas
                ELSE spec.minReplicas <= d.newReplicas /\ d.newReplicas < spec.currentReplicas

\* A directive scales in the only way its namespace allows
\* (GetAllowedScalingType), also those of reductions and resumptions.
ScalingTypeAllowed ==
    \A d \in batch : d.id \in DOMAIN obs.spec =>
        d.type = GetAllowedScalingType(obs.spec[d.id].namespace)

\* The reactive phase for a RAN workload recomputes the very resources that
\* the proactive phase found no larger than the current ones: it never asks
\* for more than the workload already has.
ReactiveAddsNothing ==
    \A d \in batch :
        d.reason = "reactive" /\ IsRAN(obs.spec[d.id]) =>
            ~Exceeds(d.newResources, obs.spec[d.id].curRes)
=============================================================================
