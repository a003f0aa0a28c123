------------------------- MODULE OrchestratorProofs -------------------------
(***************************************************************************)
(* Theorems of Orchestrator.  All that the deployed loop ever does to an   *)
(* object is to set its replica count to one: whatever the resources say,  *)
(* the clients answer, the users do and the executor fails at.  And the    *)
(* loop is an allocator, to which the theorems about deferral apply.       *)
(***************************************************************************)
EXTENDS Orchestrator, DecisionProofs

\* Metrics without a target, as the metrics client makes them.
Untargeted(metrics) == \A w \in DOMAIN metrics : metrics[w].targetLatency = 0

\* Nodes without labels, as the cluster state provider makes them.
Bare(nodes) == \A i \in DOMAIN nodes : nodes[i].labels = {}

\* A specification as convertToWorkloadSpec makes it.
Converted(spec) ==
    /\ spec.currentReplicas = 1 /\ spec.currentNode = None
    /\ spec.minReplicas \in Nat /\ spec.minReplicas >= 1

\* An observation the loop makes.
Made(o) ==
    /\ \A w \in DOMAIN o.spec : Converted(o.spec[w])
    /\ Untargeted(o.metrics)
    /\ Bare(o.nodes)

Harmless(d) ==
    d.action \in {"scale-up", "scale-down"} => d.reason = "resume" /\ d.newReplicas = 1

\* An entry with the count one.
SingleEntry(entry) == "originalReplicas" \in DOMAIN entry /\ entry.originalReplicas = 1

Single == \A w \in DOMAIN deferred : SingleEntry(deferred[w])

-----------------------------------------------------------------------------
(***************************************************************************)
(* What each phase makes of such an observation.                           *)
(***************************************************************************)

\* No RAN node is ever found: a RAN workload preempts, others get nothing.
LEMMA RANHarmless ==
    ASSUME NEW o, Made(o), NEW d \in RANDirectives(o)
    PROVE  Harmless(d)
<1>1. PICK w \in Observed(o) : d \in processRANWorkload(w, o)
  BY DEF RANDirectives
<1>2. o.spec[w].currentNode = None
  BY DEF Made, Converted, Observed
<1> DEFINE needed == computeVerticalScaleUp(o.spec[w], o.metrics[w], [num |-> 0, den |-> 1],
                                            o.prediction)
<1>3. d \in GrantOrPreempt(w, o, needed, "initial")
  BY <1>1, <1>2 DEF processRANWorkload
<1>4. findRANNode(o.nodes, needed) = None
  <2>1. {i \in DOMAIN o.nodes : /\ IsRANNode(o.nodes[i])
                                /\ o.nodes[i].cpu >= needed.cpu
                                /\ o.nodes[i].mem >= needed.mem} = {}
    BY DEF Made, Bare, IsRANNode
  <2> QED
    BY <2>1 DEF findRANNode, FirstNode
<1>5. d.action = "preempt"
  BY <1>3, <1>4 DEF GrantOrPreempt, Vertical
<1> QED
  BY <1>5 DEF Harmless

\* Without a target there is no deviation, so nothing is scaled or deferred
\* for its latency.
LEMMA NoDeviation ==
    ASSUME NEW o, Made(o), NEW w \in Observed(o)
    PROVE  ~Above(computeDeviation(o.metrics[w])) /\ ~Below(computeDeviation(o.metrics[w]))
<1>1. computeDeviation(o.metrics[w]) = [num |-> 0, den |-> 1]
  BY DEF Made, Untargeted, Observed, computeDeviation
<1> QED
  BY <1>1, WeightsAssumption DEF Above, Below

LEMMA NonRANHarmless ==
    ASSUME NEW o, Made(o), NEW d \in NonRANDirectives(o)
    PROVE  Harmless(d)
<1>1. CASE HighTraffic(o.prediction)
  <2>1. PICK w \in Eligible(o) : d = GateDirective(w, o)
    BY <1>1 DEF NonRANDirectives
  <2>2. ~(o.spec[w].currentReplicas > o.spec[w].minReplicas)
    BY DEF Eligible, Observed, Made, Converted
  <2> QED
    BY <2>1, <2>2 DEF GateDirective, Horizontal, Harmless
<1>2. CASE ~HighTraffic(o.prediction)
  <2>1. PICK w \in Eligible(o) : d \in processNonRANWorkload(w, o)
    BY <1>2 DEF NonRANDirectives
  <2>2. w \in Observed(o)
    BY DEF Eligible
  <2>3. ~Migrates(w, o) /\ ~PeakDefers(w, o)
    BY <2>2, <1>2, NoDeviation DEF Migrates, PeakDefers
  <2>4. d \in HorizontalDirectives(w, o)
    BY <2>1, <2>3 DEF processNonRANWorkload
  <2> QED
    BY <2>2, <2>4, NoDeviation DEF HorizontalDirectives
<1> QED
  BY <1>1, <1>2

\* No count is above its minimum, so the reduction has nothing to take.
LEMMA NoReduction ==
    ASSUME NEW o, Made(o)
    PROVE  reactiveNonRANReduction(o) = {}
<1>1. \A v \in DOMAIN o.spec : ~Reducible(v, o)
  BY DEF Made, Converted, Reducible
<1> QED
  BY <1>1 DEF reactiveNonRANReduction

LEMMA ResumeHarmless ==
    ASSUME NEW o, Single, NEW d \in checkDeferredWorkloads(o)
    PROVE  Harmless(d)
  BY DEF checkDeferredWorkloads, Resumed, ResumeDirective, Horizontal, Harmless,
     Single, SingleEntry

LEMMA AllocateHarmless ==
    ASSUME NEW o, Made(o), Single, Allocate(o)
    PROVE  Single' /\ \A d \in batch' : Harmless(d)
<1>1. \A d \in batch' : Harmless(d)
  BY RANHarmless, NonRANHarmless, NoReduction, ResumeHarmless DEF Allocate
<1>2. \A w \in DOMAIN NewlyDeferred(o) : SingleEntry(NewlyDeferred(o)[w])
  <2>1. CASE HighTraffic(o.prediction)
    BY <2>1 DEF NewlyDeferred, GateEntry, Entry, SingleEntry, Eligible, Observed, Made,
                Converted
  <2>2. CASE ~HighTraffic(o.prediction)
    <3>1. \A v \in Eligible(o) : ~PeakDefers(v, o)
      BY NoDeviation DEF PeakDefers, Eligible
    <3> QED
      BY <2>2, <3>1 DEF NewlyDeferred
  <2> QED
    BY <2>1, <2>2
<1>3. Single'
  BY <1>2 DEF Single, Allocate
<1> QED
  BY <1>1, <1>3

-----------------------------------------------------------------------------
(***************************************************************************)
(* The loop.                                                               *)
(***************************************************************************)

\* What is executed, or still to be, is of the batch of this cycle: nothing is
\* executed between two cycles.
InBatch ==
    /\ todo \subseteq batch
    /\ call \in [directive : batch, left : 1..(RetryAttempts + 1)] \cup {None}
    /\ Idle => todo = {} /\ call = None

\* A batch is harmless because every entry of the map carries the count one,
\* and the next entries do because what the cache holds has no target.
LoopInv ==
    /\ DOMAIN crs \subseteq Workloads
    /\ \A w \in DOMAIN crs : crs[w] \in CustomResource
    /\ cache # None => Untargeted(cache.metrics)
    /\ Single
    /\ OnlyResumptionsAct
    /\ InBatch

LEMMA LoopInvInit == LoopInit => LoopInv
  BY DEF LoopInit, Init, LoopInv, Single, OnlyResumptionsAct, InBatch

LEMMA Conversion ==
    ASSUME LoopInv, NEW w \in DOMAIN crs
    PROVE  Converted(convertToWorkloadSpec(w, crs[w]))
<1>1. crs[w].minReplicas \in Nat
  BY DEF LoopInv, CustomResource
<1> QED
  BY <1>1 DEF convertToWorkloadSpec, Converted, NonZero

LEMMA ReconcileKeeps == LoopInv /\ Reconcile => LoopInv'
<1> SUFFICES ASSUME LoopInv, Reconcile PROVE LoopInv'
  OBVIOUS
<1>1. PICK m \in GetMetrics(cache, DOMAIN crs), p \in NextPredictions, nodes \in GetState :
          \E a \in LookAheads(p) : /\ Allocate(ObservationOf(fetchWorkloads, m, p, a, nodes))
                                    /\ cache' = CacheAfter(cache, m)
  BY DEF Reconcile
<1>2. PICK a \in LookAheads(p) : /\ Allocate(ObservationOf(fetchWorkloads, m, p, a, nodes))
                                 /\ cache' = CacheAfter(cache, m)
  BY <1>1
<1> DEFINE o == ObservationOf(fetchWorkloads, m, p, a, nodes)
<1>3. Untargeted(m)
  <2>1. CASE Fresh(cache)
    BY <2>1 DEF GetMetrics, LoopInv, Fresh
  <2>2. CASE ~Fresh(cache)
    <3>1. m \in [DOMAIN crs -> {getWorkloadMetrics(s) : s \in Samples}]
      BY <2>2 DEF GetMetrics
    <3>2. \A s \in Samples : getWorkloadMetrics(s).targetLatency = 0
      BY DEF getWorkloadMetrics
    <3> QED
      BY <3>1, <3>2 DEF Untargeted
  <2> QED
    BY <2>1, <2>2
<1>4. Bare(nodes)
  BY DEF GetState, State, Unlabelled, Bare
<1>5. Made(o)
  BY <1>3, <1>4, Conversion DEF Made, ObservationOf, fetchWorkloads, Specs
<1>6. Single' /\ \A d \in batch' : Harmless(d)
  <2>1. Allocate(o)
    BY <1>2
  <2> QED
    BY <1>5, <2>1, AllocateHarmless DEF LoopInv
<1>7. cache' # None => Untargeted(cache'.metrics)
  BY <1>2, <1>3 DEF CacheAfter, putInCache, LoopInv
<1> QED
  <2>1. InBatch'
    <3>1. DOMAIN o.spec # {} /\ obs' = o
      BY <1>2 DEF Reconcile, AnythingListed, Allocate, ObservationOf, fetchWorkloads, Specs
    <3>2. ~Idle'
      BY <3>1 DEF Idle, NoObservation
    <3> QED
      BY <3>2, <1>2 DEF Reconcile, Allocate, LoopInv, InBatch
  <2> QED
    BY <1>6, <1>7, <2>1 DEF Reconcile, LoopInv, OnlyResumptionsAct, Harmless

LEMMA ExecuteKeeps == LoopInv /\ (\E d \in todo : Execute(d)) => LoopInv'
<1> SUFFICES ASSUME LoopInv, NEW d \in todo, Execute(d) PROVE LoopInv'
  OBVIOUS
<1>1. d \in batch /\ RetryAttempts + 1 \in 1..(RetryAttempts + 1) /\ ~Idle
  BY LoopAssumption DEF LoopInv, InBatch, Execute
<1>2. UNCHANGED <<crs, deferred, obs, batch, cache>>
  BY DEF Execute
<1>3. InBatch'
  BY <1>1, <1>2 DEF LoopInv, InBatch, Execute, Idle
<1> QED
  BY <1>2, <1>3 DEF LoopInv, Single, OnlyResumptionsAct

LEMMA AttemptKeeps == LoopInv /\ Attempt => LoopInv'
<1> SUFFICES ASSUME LoopInv, Attempt PROVE LoopInv'
  OBVIOUS
<1>1. UNCHANGED <<crs, deferred, obs, batch, todo, cache>> /\ call # None
  BY DEF Attempt, AttemptSucceeds, AttemptFails, GivenUp
<1>2. call' \in [directive : batch, left : 1..(RetryAttempts + 1)] \cup {None}
  BY LoopAssumption DEF Attempt, AttemptSucceeds, AttemptFails, GivenUp, Retried, LoopInv, InBatch
<1>3. InBatch'
  BY <1>1, <1>2 DEF LoopInv, InBatch, Idle
<1> QED
  BY <1>1, <1>3 DEF LoopInv, Single, OnlyResumptionsAct

\* A tick moves instants only.
LEMMA ElapsedKeeps == LoopInv /\ Elapsed => LoopInv'
<1> SUFFICES ASSUME LoopInv, Elapsed PROVE LoopInv'
  OBVIOUS
<1>1. Single'
  BY DEF Elapsed, Tick, Single, SingleEntry, LoopInv
<1>2. cache' # None => Untargeted(cache'.metrics)
  BY DEF Elapsed, Aged, Fresh, LoopInv
<1> QED
  BY <1>1, <1>2 DEF Elapsed, Tick, LoopInv, OnlyResumptionsAct, InBatch, Idle

LEMMA LoopInvNext == LoopInv /\ [LoopNext]_loopVars => LoopInv'
<1> SUFFICES ASSUME LoopInv, [LoopNext]_loopVars PROVE LoopInv'
  OBVIOUS
<1> USE DEF LoopInv, Single, OnlyResumptionsAct, InBatch, Idle
<1>1. CASE Reconcile
  BY <1>1, ReconcileKeeps
<1>2. CASE Elapsed
  BY <1>2, ElapsedKeeps
<1>3. CASE (\E d \in todo : Execute(d)) \/ Attempt
  BY <1>3, ExecuteKeeps, AttemptKeeps
<1>4. CASE Finish
  BY <1>4 DEF Finish, Discard
<1>5. CASE Stop \/ Crash
  BY <1>5 DEF Stop, Crash, Gone
<1>6. CASE Start \/ Cancel
  BY <1>6 DEF Start, Cancel, memory
<1>7. ASSUME NEW w \in Workloads, NEW cr \in CustomResources, Apply(w, cr) PROVE LoopInv'
  BY <1>7, LoopAssumption DEF Apply, memory
<1>8. ASSUME NEW w \in Workloads, Delete(w) PROVE LoopInv'
  BY <1>8 DEF Delete, memory
<1>9. ASSUME NEW w \in Registered, NEW n \in Counts, SetCount(w, n) PROVE LoopInv'
  BY <1>9 DEF SetCount, memory
<1>10. CASE UNCHANGED loopVars
  BY <1>10 DEF loopVars, memory
<1> QED
  BY <1>1, <1>2, <1>3, <1>4, <1>5, <1>6, <1>7, <1>8, <1>9, <1>10
  DEF LoopNext, Loop, Users

\* For every set of resources, answers and users: the deployed loop only ever
\* asks for one replica, at the end of a deferral (Orchestrator).
THEOREM LoopOnlyResumes == LoopSpec => []OnlyResumptionsAct
<1>1. LoopInv => OnlyResumptionsAct
  BY DEF LoopInv
<1> QED
  BY <1>1, LoopInvInit, LoopInvNext, PTL DEF LoopSpec

\* What a cancelled loop has to do only becomes less: directives to execute,
\* then attempts of the call under way.
Dwindles ==
    \/ UNCHANGED <<todo, call>>
    \/ todo' \subseteq todo /\ todo' # todo
    \/ todo' = todo /\ call # None /\ (call' = None \/ call'.left < call.left)

LEMMA AttemptDwindles ==
    ASSUME LoopInv, Attempt
    PROVE  todo' = todo /\ call # None /\ (call' = None \/ call'.left < call.left)
<1>1. todo' = todo /\ call # None /\ (call' = None \/ call' = Retried)
  BY DEF Attempt, AttemptSucceeds, AttemptFails, GivenUp
<1>2. call \in [directive : batch, left : 1..(RetryAttempts + 1)]
  BY <1>1 DEF LoopInv, InBatch
<1>3. CASE call' = Retried /\ call' # None
  <2>1. call' = [call EXCEPT !.left = call.left - 1]
    BY <1>3 DEF Retried
  <2>2. call'.left = call.left - 1 /\ call.left \in Int
    BY <1>2, <2>1, LoopAssumption
  <2> QED
    BY <1>1, <2>2
<1> QED
  BY <1>1, <1>3

\* After the signal no cycle begins, no directive is added to the batch, and
\* every step of the executor uses up an attempt: what is left until the
\* process ends is bounded by the batch and the retries (runReconciliation).
THEOREM CancelledLoopDwindles == LoopSpec => [][cancelled => Dwindles]_loopVars
<1>1. LoopInv /\ [LoopNext]_loopVars => [cancelled => Dwindles]_loopVars
  <2> SUFFICES ASSUME LoopInv, LoopNext, cancelled PROVE Dwindles
    OBVIOUS
  <2>1. CASE Attempt
    BY <2>1, AttemptDwindles DEF Dwindles
  <2>2. ASSUME NEW d \in todo, Execute(d) PROVE Dwindles
    BY <2>2 DEF Execute, Dwindles
  <2>3. ASSUME Stop \/ Crash PROVE Dwindles
    <3>1. todo' = {} /\ call' = None
      BY <2>3 DEF Stop, Crash, Gone
    <3> QED
      BY <3>1 DEF Dwindles
  <2>4. CASE Finish \/ Start \/ Elapsed \/ Cancel \/ Users
    BY <2>4 DEF Finish, Start, Elapsed, Cancel, Users, Apply, Delete, SetCount, memory, Dwindles
  <2>5. ~Reconcile
    BY DEF Reconcile
  <2> QED
    BY <2>1, <2>2, <2>3, <2>4, <2>5 DEF LoopNext, Loop
<1> QED
  BY <1>1, LoopInvInit, LoopInvNext, PTL DEF LoopSpec

\* An answer that is kept only gets older: no cycle that is served it renews it.
KeptAnswerAges ==
    cache # None => \/ cache' = None
                    \/ /\ cache'.metrics = cache.metrics
                       /\ cache'.left <= cache.left
                       /\ Elapsed => cache'.left < cache.left

\* Without one a cycle observes every workload it has listed.
NewcomersSeen == cache = None /\ Reconcile => DOMAIN crs \subseteq Observed(obs')

CacheInv == cache # None => cache.left \in 0..CacheTTL

LEMMA CacheNext == CacheInv /\ [LoopNext]_loopVars => CacheInv' /\ [KeptAnswerAges]_loopVars
<1> SUFFICES ASSUME CacheInv, [LoopNext]_loopVars
             PROVE  CacheInv' /\ (KeptAnswerAges \/ UNCHANGED loopVars)
  OBVIOUS
<1>1. CASE Reconcile
  <2>1. PICK m : cache' = CacheAfter(cache, m)
    BY <1>1 DEF Reconcile
  <2>2. ~Elapsed
    <3>1. obs = NoObservation /\ DOMAIN obs'.spec # {}
      BY <1>1 DEF Reconcile, Allocate, Idle, AnythingListed, ObservationOf, fetchWorkloads, Specs
    <3>2. obs' # obs
      BY <3>1 DEF NoObservation
    <3> QED
      BY <3>2 DEF Elapsed, Tick
  <2> QED
    BY <2>1, <2>2, TTLAssumption DEF CacheAfter, putInCache, Fresh, CacheInv, KeptAnswerAges
<1>2. CASE Elapsed
  BY <1>2, TTLAssumption DEF Elapsed, Aged, Fresh, CacheInv, KeptAnswerAges
<1>3. CASE Stop \/ Crash
  BY <1>3 DEF Stop, Crash, Gone, CacheInv, KeptAnswerAges
<1>4. CASE ~(Reconcile \/ Elapsed \/ Stop \/ Crash)
  <2>1. cache' = cache /\ ~Elapsed
    BY <1>4 DEF LoopNext, Loop, Execute, Attempt, AttemptSucceeds, AttemptFails, GivenUp,
                Finish, Start, Cancel, Users, Apply, Delete, SetCount, memory, loopVars
  <2> QED
    BY <2>1, TTLAssumption DEF CacheInv, KeptAnswerAges
<1> QED
  BY <1>1, <1>2, <1>3, <1>4

LEMMA AnswerForAllListed == NewcomersSeen
<1> SUFFICES ASSUME cache = None, Reconcile PROVE DOMAIN crs \subseteq Observed(obs')
  BY DEF NewcomersSeen
<1>1. PICK m \in GetMetrics(cache, DOMAIN crs) :
          \E p, a, nodes : obs' = ObservationOf(fetchWorkloads, m, p, a, nodes)
  BY DEF Reconcile, Allocate
<1>2. DOMAIN m = DOMAIN crs
  BY DEF GetMetrics, Fresh
<1> QED
  BY <1>1, <1>2 DEF ObservationOf, fetchWorkloads, Specs, Observed

\* An answer of before a workload was created keeps it from being observed for
\* no longer than the cache's time to live: until then the answer ages with
\* every tick, and the first cycle without it observes all that is listed
\* (GetMetrics, metrics/client.go).
THEOREM NewcomersWaitForExpiry ==
    LoopSpec => [][KeptAnswerAges /\ NewcomersSeen]_loopVars /\ []CacheInv
<1>1. LoopInit => CacheInv
  BY DEF LoopInit, CacheInv
<1>2. CacheInv /\ [LoopNext]_loopVars => [KeptAnswerAges /\ NewcomersSeen]_loopVars
  BY CacheNext, AnswerForAllListed
<1> QED
  BY <1>1, <1>2, CacheNext, PTL DEF LoopSpec

\* A change that is not the users' is made by an attempt.
Resumption(w) == replicas'[w] = 1 /\ \E d \in batch : d.id = w /\ d.reason = "resume"

LEMMA AttemptResumes ==
    ASSUME LoopInv, Attempt, NEW w \in Registered, replicas'[w] # replicas[w]
    PROVE  Resumption(w)
<1> DEFINE d == call.directive
<1>1. d \in batch
  BY DEF Attempt, AttemptSucceeds, AttemptFails, GivenUp, LoopInv, InBatch
<1>2. replicas' = Effect(d) /\ replicas' # replicas
  BY DEF Attempt, AttemptSucceeds, AttemptFails, GivenUp
<1>3. Requests(d) /\ replicas' = [replicas EXCEPT ![d.id] = d.newReplicas]
  BY <1>2 DEF Effect
<1>4. d.reason = "resume" /\ d.newReplicas = 1
  BY <1>1, <1>3 DEF Requests, LoopInv, OnlyResumptionsAct
<1>5. d.id = w /\ replicas'[w] = d.newReplicas
  BY <1>3
<1> QED
  BY <1>1, <1>4, <1>5 DEF Resumption

\* And only ever makes that change: whatever is retried, lost, cancelled or
\* edited meanwhile, a count that the users do not set becomes one, in the
\* cycle that resumes its workload (Orchestrator).
THEOREM LoopOnlyChangesToResume == LoopSpec => ChangesAreResumptions
<1> DEFINE Changed == \A w \in Registered : replicas'[w] # replicas[w] =>
                         \/ Users
                         \/ replicas'[w] = 1 /\ \E d \in batch : d.id = w /\ d.reason = "resume"
<1>1. LoopInv /\ [LoopNext]_loopVars => [Changed]_loopVars
  <2> SUFFICES ASSUME LoopInv, LoopNext, ~Users PROVE Changed
    BY DEF LoopNext
  <2>1. CASE Attempt
    BY <2>1, AttemptResumes DEF Resumption
  <2>2. CASE ~Attempt
    <3>1. replicas' = replicas
      BY <2>2 DEF LoopNext, Loop, Reconcile, Execute, Finish, Stop, Start, Elapsed, Cancel,
                  Crash, Gone
    <3> QED
      BY <3>1
  <2> QED
    BY <2>1, <2>2
<1> QED
  BY <1>1, LoopInvInit, LoopInvNext, PTL DEF LoopSpec, ChangesAreResumptions

-----------------------------------------------------------------------------
(***************************************************************************)
(* The loop as an allocator.  What it observes is among the allocator's    *)
(* observations because the cache only ever holds an answer of the metrics *)
(* client, if of other workloads than those listed now.                    *)
(***************************************************************************)
SeenInv ==
    /\ crs \in Listings
    /\ cache # None =>
          \E asked \in Listings : cache.metrics \in GetMetrics(None, DOMAIN asked)

LEMMA SeenMetrics ==
    ASSUME SeenInv, NEW m \in GetMetrics(cache, DOMAIN crs)
    PROVE  \E asked \in Listings : m \in GetMetrics(None, DOMAIN asked)
  BY DEF SeenInv, GetMetrics, Fresh

\* A cycle is a call of the allocator.
LEMMA ReconcileAllocates ==
    ASSUME SeenInv, Reconcile
    PROVE  (\E o \in Observations : Allocate(o)) /\ SeenInv'
<1>1. PICK m \in GetMetrics(cache, DOMAIN crs), p \in NextPredictions, nodes \in GetState :
          \E a \in LookAheads(p) : /\ Allocate(ObservationOf(fetchWorkloads, m, p, a, nodes))
                                    /\ cache' = CacheAfter(cache, m)
  BY DEF Reconcile
<1>2. PICK a \in LookAheads(p) : /\ Allocate(ObservationOf(fetchWorkloads, m, p, a, nodes))
                                 /\ cache' = CacheAfter(cache, m)
  BY <1>1
<1>3. PICK asked \in Listings : m \in GetMetrics(None, DOMAIN asked)
  BY SeenMetrics
<1>4. ObservationOf(fetchWorkloads, m, p, a, nodes) \in Observations
  BY <1>3, DeploymentAssumption DEF Reconcile, AnythingListed, SeenInv, fetchWorkloads
<1>5. SeenInv'
  BY <1>2, <1>3 DEF SeenInv, CacheAfter, putInCache, Reconcile
<1> QED
  BY <1>2, <1>4, <1>5

LEMMA SeenInit == LoopInit => SeenInv
<1>1. [w \in {} |-> None] \in Listings
  <2>1. [w \in {} |-> None] \in [{} -> CustomResources]
    OBVIOUS
  <2> QED
    BY <2>1 DEF Listings
<1> QED
  BY <1>1 DEF LoopInit, SeenInv

LEMMA SeenByUsers == SeenInv /\ Users => SeenInv'
<1> SUFFICES ASSUME SeenInv, Users PROVE crs' \in Listings /\ cache' = cache
  BY DEF SeenInv
<1>1. PICK ids \in SUBSET Workloads : crs \in [ids -> CustomResources]
  BY DEF SeenInv, Listings
<1>2. ASSUME NEW w \in Workloads, NEW cr \in CustomResources, Apply(w, cr)
      PROVE  crs' \in Listings /\ cache' = cache
  <2>1. crs' \in [ids \cup {w} -> CustomResources]
    BY <1>1, <1>2 DEF Apply
  <2> QED
    BY <1>2, <2>1 DEF Listings, Apply, memory
<1>3. ASSUME NEW w \in Workloads, Delete(w)
      PROVE  crs' \in Listings /\ cache' = cache
  <2>1. crs' \in [ids \ {w} -> CustomResources]
    BY <1>1, <1>3 DEF Delete
  <2> QED
    BY <1>3, <2>1 DEF Listings, Delete, memory
<1>4. ASSUME NEW w \in Registered, NEW n \in Counts, SetCount(w, n)
      PROVE  crs' \in Listings /\ cache' = cache
  BY <1>4 DEF SetCount, memory, SeenInv
<1> QED
  BY <1>2, <1>3, <1>4 DEF Users

\* Every other step leaves the allocator alone, is one of its own, or begins a
\* new one.
LEMMA LoopStep == SeenInv /\ [LoopNext]_loopVars => SeenInv' /\ [Next \/ Renewed]_vars
<1> SUFFICES ASSUME SeenInv, [LoopNext]_loopVars PROVE SeenInv' /\ [Next \/ Renewed]_vars
  OBVIOUS
<1>1. CASE Reconcile
  BY <1>1, ReconcileAllocates DEF Next
<1>2. CASE Elapsed
  BY <1>2 DEF Elapsed, Aged, Fresh, SeenInv, Next
<1>3. CASE (\E d \in todo : Execute(d)) \/ Attempt
  BY <1>3 DEF Execute, Attempt, AttemptSucceeds, AttemptFails, GivenUp, SeenInv, vars
<1>4. CASE Finish
  BY <1>4 DEF Finish, SeenInv, Next
<1>5. CASE Stop \/ Crash
  BY <1>5 DEF Stop, Crash, Gone, SeenInv, Init, Renewed
<1>6. CASE Start \/ Cancel
  BY <1>6 DEF Start, Cancel, memory, SeenInv, vars
<1>7. CASE Users
  <2>1. UNCHANGED vars
    BY <1>7 DEF Users, Apply, Delete, SetCount, memory, vars
  <2> QED
    BY <1>7, <2>1, SeenByUsers
<1>8. CASE UNCHANGED loopVars
  BY <1>8 DEF loopVars, memory, SeenInv, vars
<1> QED
  BY <1>1, <1>2, <1>3, <1>4, <1>5, <1>6, <1>7, <1>8 DEF LoopNext, Loop

\* Between two starts of its process the loop, with its clients, its cache and
\* its users, is an allocator (Orchestrator).
THEOREM LoopIsAnAllocator == LoopSpec => AllocatorSpecified
<1>1. LoopInit => Init
  BY DEF LoopInit
<1> QED
  BY <1>1, SeenInit, LoopStep, PTL DEF LoopSpec, AllocatorSpecified

\* A new allocator has the invariants of Allocator, too.
LEMMA BegunAnew == Renewed => (TypeInv /\ BatchInv)'
  BY NoTraffic DEF Renewed, Init, Idle, NoObservation, TypeInv, TypeOK, OneDeadline, BatchInv,
                   ReactiveAddsNothing, GateDefersAll

LEMMA SpecifiedInv == AllocatorSpecified => [](TypeInv /\ BatchInv)
<1>1. Init => TypeInv /\ BatchInv
  BY TypeInit, NoTraffic DEF Init, Idle, NoObservation, BatchInv,
                             ReactiveAddsNothing, GateDefersAll
<1>2. TypeInv /\ BatchInv /\ [Next \/ Renewed]_vars => (TypeInv /\ BatchInv)'
  BY TypeNext, BatchNext, BegunAnew
<1> QED
  BY <1>1, <1>2, PTL DEF AllocatorSpecified

\* In the loop, too, an active gate leaves no low-tier workload with metrics
\* undeferred, whatever the cache answers (Allocator).
THEOREM LoopDefersAll == LoopSpec => []GateDefersAll
<1>1. BatchInv => GateDefersAll
  BY DEF BatchInv
<1> QED
  BY <1>1, LoopIsAnAllocator, SpecifiedInv, PTL

DeferralProtocol == (\A w \in DOMAIN deferred : KeptOrResumed(w)) /\ Announced

\* In the loop, too, only the end of the process loses a deferral or its target, and
\* none begins without being announced (Allocator).
THEOREM LoopKeepsDeferrals == LoopSpec => [][DeferralProtocol \/ Renewed]_vars
<1>1. TypeInv /\ BatchInv /\ [Next \/ Renewed]_vars => [DeferralProtocol \/ Renewed]_vars
  BY KeptNext, AnnouncedNext DEF DeferralProtocol
<1> QED
  BY <1>1, LoopIsAnAllocator, SpecifiedInv, PTL DEF AllocatorSpecified

\* In the loop, whatever tiers users give: the only directives that pass a
\* deferral are its resumption, reductions, and those of a workload that has
\* been given an upper tier meanwhile (Allocator).
THEOREM LoopLeavesAlone == LoopSpec => [][LeftAlone \/ Renewed]_vars
<1>1. BatchInv /\ [Next \/ Renewed]_vars => [LeftAlone \/ Renewed]_vars
  BY LeftAloneNext
<1> QED
  BY <1>1, LoopIsAnAllocator, SpecifiedInv, PTL DEF AllocatorSpecified

\* In the loop, too, a deferred workload is left alone until it is resumed, as
\* long as users do not override the tier of a namespace (Allocator).
THEOREM LoopSuspendsDeferred ==
    ASSUME TiersAgree
    PROVE  LoopSpec => [][Suspended \/ Renewed]_vars
<1>1. Init => OnlyLowDeferred
  BY DEF Init, OnlyLowDeferred
<1>2. TypeInv /\ OnlyLowDeferred /\ [Next \/ Renewed]_vars => OnlyLowDeferred'
  BY DeferredLowNext DEF Renewed, Init, OnlyLowDeferred
<1>3. TypeInv /\ BatchInv /\ OnlyLowDeferred /\ [Next \/ Renewed]_vars
      => [Suspended \/ Renewed]_vars
  BY SuspendedNext
<1> QED
  BY <1>1, <1>2, <1>3, LoopIsAnAllocator, SpecifiedInv, PTL DEF AllocatorSpecified
=============================================================================
