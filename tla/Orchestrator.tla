---------------------------- MODULE Orchestrator ----------------------------
(***************************************************************************)
(* The reconciliation loop (cmd/orchestrator/main.go) around the           *)
(* allocation function, as it is deployed: what the allocator observes is  *)
(* what the loop makes of the QoSAwareWorkload resources and what the two  *)
(* clients answer, which the constant Observations has to allow.           *)
(* Directives are executed one after the other, each attempt after         *)
(* attempt, against objects that users scale meanwhile, while resources    *)
(* come and go; a signal cancels the loop, the process dies at any moment, *)
(* and a new one starts without memory.                                    *)
(*                                                                         *)
(* Of the objects only the replica counts are kept, and of Execute the     *)
(* attempts and what each may leave behind; Executor has its steps.        *)
(***************************************************************************)
EXTENDS Allocator, MetricsClient, DigitalTwinClient

CONSTANTS
    Namespace,          \* workload ID -> the namespace of its resource
    CustomResources,    \* what a resource may say
    Registered,         \* the workloads somebody has registered with the executor
    Counts,             \* the replica counts users choose
    RetryAttempts       \* the attempts of Execute after the first

\* The schema of the custom resource; an absent number reads as zero.
CustomResource ==
    [qosLevel : QoSLevels \cup {None}, minReplicas : Nat, maxReplicas : Nat,
     requiredNodeLabels : SUBSET STRING, gpuCount : Nat, gpuFallbackToCPU : BOOLEAN,
     postponeDuringPeak : BOOLEAN]

ASSUME LoopAssumption ==
    /\ Namespace \in [Workloads -> STRING]
    /\ CustomResources \subseteq CustomResource
    /\ Registered \subseteq Workloads
    /\ Counts \subseteq Nat
    /\ RetryAttempts \in Nat

VARIABLES
    crs,        \* the resources, a function from IDs
    replicas,   \* the counts of the registered workloads' objects
    todo,       \* the directives of the batch not yet executed
    call,       \* the call of Execute: its directive and the attempts left
    cache,      \* Client.cache of the metrics client
    running,    \* whether there is a process
    cancelled   \* whether its context is cancelled

memory   == <<deferred, obs, batch, todo, call, cache>>
loopVars == <<crs, replicas, memory, running, cancelled>>

LoopInit ==
    /\ Init
    /\ todo = {}
    /\ call = None
    /\ cache = None
    /\ cancelled = FALSE
    /\ running = TRUE
    /\ crs = [w \in {} |-> None]
    /\ replicas \in [Registered -> Counts]
-----------------------------------------------------------------------------
NonZero(n, default) == IF n = 0 THEN default ELSE n

NoResources == [cpu |-> 0, mem |-> 0]

\* Resources, the current count and the node are not read from anywhere.
convertToWorkloadSpec(w, cr) ==
    [namespace |-> Namespace[w],
     qosLevel |-> IF cr.qosLevel = None THEN GetQoSLevelFromNamespace(Namespace[w])
                  ELSE cr.qosLevel,
     minRes |-> NoResources, maxRes |-> NoResources, curRes |-> NoResources,
     minReplicas |-> NonZero(cr.minReplicas, 1),
     maxReplicas |-> NonZero(cr.maxReplicas, 10),
     currentReplicas |-> 1, currentNode |-> None,
     requiredNodeLabels |-> cr.requiredNodeLabels,
     requiresGPU |-> cr.gpuCount > 0, gpuFallbackCPU |-> cr.gpuFallbackToCPU,
     postponeDuringPeak |-> cr.postponeDuringPeak]

Specs(resources) == [w \in DOMAIN resources |-> convertToWorkloadSpec(w, resources[w])]

\* Mutation: the count is that of the object.
fetchWorkloadsCounting ==
    [w \in DOMAIN crs |->
        [Specs(crs)[w] EXCEPT !.currentReplicas = IF w \in Registered THEN replicas[w] ELSE 1]]

fetchWorkloads == Specs(crs)

\* The look-ahead is asked for only while the gate is active.
LookAheads(p) ==
    IF HighTraffic(p)
    THEN {a \in [Horizons -> UNION {GetPrediction(h) : h \in Horizons}] :
             \A h \in Horizons : a[h] \in GetPrediction(h)}
    ELSE {[h \in Horizons |-> None]}

\* The prediction for the next step, or the stand-in for a missing one.
NextPredictions == {IF p = None THEN NoPrediction ELSE p : p \in GetPrediction(1)}

ObservationOf(spec, m, p, a, nodes) ==
    [spec |-> spec, metrics |-> m, prediction |-> p, ahead |-> a, nodes |-> nodes]

\* What is listed, and of which workloads the metrics in the cache may be.
Listings == UNION {[ids -> CustomResources] : ids \in SUBSET Workloads}

\* The observations of the deployed loop are among those of the allocator.
ASSUME DeploymentAssumption ==
    \A listed, asked \in Listings, p \in NextPredictions, nodes \in GetState :
        \A m \in GetMetrics(None, DOMAIN asked), a \in LookAheads(p) :
            DOMAIN listed # {} => ObservationOf(Specs(listed), m, p, a, nodes) \in Observations

-----------------------------------------------------------------------------
(***************************************************************************)
(* The loop.                                                               *)
(***************************************************************************)
\* Mutation: without a low-tier workload there is nothing to reconcile.
AnythingListedLow == \E w \in DOMAIN crs : fetchWorkloads[w].qosLevel = QoSLow

AnythingListed == DOMAIN crs # {}

\* A cycle up to its batch.  Listing the resources fails once the context is
\* cancelled; without resources the cycle ends before Allocate is called.
Reconcile ==
    /\ running /\ ~cancelled
    /\ AnythingListed
    /\ \E m \in GetMetrics(cache, DOMAIN crs), p \in NextPredictions, nodes \in GetState :
          \E a \in LookAheads(p) :
              /\ Allocate(ObservationOf(fetchWorkloads, m, p, a, nodes))
              /\ cache' = CacheAfter(cache, m)
    /\ todo' = batch'
    /\ UNCHANGED <<crs, replicas, call, running, cancelled>>

Execute(d) ==
    /\ running
    /\ call = None
    /\ d \in todo
    /\ \A e \in todo : d.priority <= e.priority
    /\ todo' = todo \ {d}
    /\ call' = [directive |-> d, left |-> RetryAttempts + 1]
    /\ UNCHANGED <<crs, replicas, deferred, obs, batch, cache, running, cancelled>>

\* Everything but a scaling is only logged.
Requests(d) == d.action \in {"scale-up", "scale-down"}

\* The counts an attempt leaves behind when its update is applied.
Effect(d) ==
    IF Requests(d) /\ d.id \in Registered /\ d.newReplicas # None
    THEN [replicas EXCEPT ![d.id] = d.newReplicas] ELSE replicas

\* No object has the name an unregistered workload is given; a cancelled
\* context fails a request.
AttemptSucceeds ==
    /\ running /\ call # None
    /\ Requests(call.directive) => call.directive.id \in Registered /\ ~cancelled
    /\ replicas' = Effect(call.directive)
    /\ call' = None
    /\ UNCHANGED <<crs, deferred, obs, batch, todo, cache, running, cancelled>>

\* Mutation: after the signal an attempt that failed does not count.
RetriedForEver ==
    IF cancelled THEN call
    ELSE IF call.left = 1 THEN None ELSE [call EXCEPT !.left = call.left - 1]

Retried == IF call.left = 1 THEN None ELSE [call EXCEPT !.left = call.left - 1]

\* A request fails before its update or after it: one that was under way when
\* the context was cancelled may still be applied.
AttemptFails ==
    /\ running /\ call # None
    /\ Requests(call.directive)
    /\ replicas' \in {replicas, Effect(call.directive)}
    /\ call' = Retried
    /\ UNCHANGED <<crs, deferred, obs, batch, todo, cache, running, cancelled>>

\* Execute prefers the cancelled context to the free permit.
GivenUp ==
    /\ running /\ cancelled
    /\ call # None /\ call.left = RetryAttempts + 1
    /\ call' = None
    /\ UNCHANGED <<crs, replicas, deferred, obs, batch, todo, cache, running, cancelled>>

Attempt == AttemptSucceeds \/ AttemptFails \/ GivenUp

\* Mutation: with the batch go the deferrals of workloads no longer listed.
FinishForgetting ==
    /\ running
    /\ todo = {} /\ call = None
    /\ ~Idle
    /\ deferred' = [w \in DOMAIN deferred \cap DOMAIN crs |-> deferred[w]]
    /\ obs' = NoObservation /\ batch' = {}
    /\ UNCHANGED <<crs, replicas, todo, call, cache, running, cancelled>>

\* Mutation: the loop does not wait for the call of the last directive.
FinishEarly ==
    /\ running
    /\ todo = {}
    /\ Discard
    /\ UNCHANGED <<crs, replicas, todo, call, cache, running, cancelled>>

Finish ==
    /\ running
    /\ todo = {} /\ call = None
    /\ Discard
    /\ UNCHANGED <<crs, replicas, todo, call, cache, running, cancelled>>

Elapsed ==
    /\ Tick
    /\ cache' = Aged(cache)
    /\ UNCHANGED <<crs, replicas, todo, call, running, cancelled>>

Cancel ==
    /\ running /\ ~cancelled
    /\ cancelled' = TRUE
    /\ UNCHANGED <<crs, replicas, memory, running>>

\* Everything the process knew goes with it.
Gone ==
    /\ running' = FALSE
    /\ deferred' = [w \in {} |-> None]
    /\ obs' = NoObservation
    /\ batch' = {}
    /\ todo' = {}
    /\ call' = None
    /\ cache' = None
    /\ cancelled' = FALSE
    /\ UNCHANGED <<crs, replicas>>

\* The loop sees the cancelled context between two cycles.
Stop  == running /\ cancelled /\ Idle /\ Gone
Crash == running /\ Gone

Start ==
    /\ ~running
    /\ running' = TRUE
    /\ UNCHANGED <<crs, replicas, memory, cancelled>>

-----------------------------------------------------------------------------
(***************************************************************************)
(* Users.                                                                  *)
(***************************************************************************)
Apply(w, cr) ==
    /\ crs' = [v \in DOMAIN crs \cup {w} |-> IF v = w THEN cr ELSE crs[v]]
    /\ UNCHANGED <<replicas, memory, running, cancelled>>

Delete(w) ==
    /\ w \in DOMAIN crs
    /\ crs' = [v \in DOMAIN crs \ {w} |-> crs[v]]
    /\ UNCHANGED <<replicas, memory, running, cancelled>>

SetCount(w, n) ==
    /\ replicas' = [replicas EXCEPT ![w] = n]
    /\ UNCHANGED <<crs, memory, running, cancelled>>

Loop == Reconcile \/ (\E d \in todo : Execute(d)) \/ Attempt \/ Finish \/ Stop \/ Start
Users ==
    \/ \E w \in Workloads : (\E cr \in CustomResources : Apply(w, cr)) \/ Delete(w)
    \/ \E w \in Registered, n \in Counts : SetCount(w, n)

LoopNext == Loop \/ Elapsed \/ Cancel \/ Crash \/ Users

LoopSpec == LoopInit /\ [][LoopNext]_loopVars

\* The ticker fires again and again, also when there is something to do; every
\* request is answered or fails; the cluster restarts a process that has gone.
LoopFairSpec ==
    /\ LoopSpec
    /\ SF_loopVars(Reconcile) /\ SF_loopVars(Elapsed)
    /\ WF_loopVars(\E d \in todo : Execute(d)) /\ WF_loopVars(Attempt)
    /\ WF_loopVars(Finish)
    /\ WF_loopVars(Stop) /\ WF_loopVars(Start)
-----------------------------------------------------------------------------
(***************************************************************************)
(* Properties.                                                             *)
(***************************************************************************)

\* As long as a process lives, the loop takes no other steps than the
\* allocator's specification allows: what is shown of a single allocator for
\* all sequences of calls holds in the loop, whatever is listed, served from
\* the cache, cancelled or half executed.  Only the end of a process, and
\* nothing else, leaves a new allocator behind.
Renewed == Init' /\ ~running'
AllocatorSpecified == Init /\ [][Next \/ Renewed]_vars

\* All that the deployed loop ever asks for is one replica when a deferral
\* ends.  The loop reads no counts, resources or nodes, the metrics have no
\* targets and the nodes no labels, so no other phase of the allocator can ask
\* for a change.
OnlyResumptionsAct ==
    \A d \in batch :
        d.action \in {"scale-up", "scale-down"} => d.reason = "resume" /\ d.newReplicas = 1

\* And all that it ever does: an object nobody else is scaling changes its
\* count only to one, and only in the cycle that ends a deferral of its
\* workload.  Retries, lost answers and an attempt overtaken by the signal
\* repeat such a change, but none is left over from an earlier cycle.
ChangesAreResumptions ==
    [][\A w \in Registered : replicas'[w] # replicas[w] =>
          \/ Users
          \/ replicas'[w] = 1 /\ \E d \in batch : d.id = w /\ d.reason = "resume"]_loopVars

\* Every deferral ends in a resumption, or with the process, unless from some
\* point on no resource is left: a cycle without resources never looks at the
\* map.
DeferralEnds ==
    \A w \in Workloads :
        w \in DOMAIN deferred ~>
            \/ \E d \in batch : d.id = w /\ d.reason = "resume"
            \/ w \notin DOMAIN deferred
            \/ [](DOMAIN crs = {})

\* A resource that stays is given to the allocator with metrics in the end,
\* although an answer made before it was created is served from the cache:
\* a hit does not renew the entry.
NewcomersObserved ==
    \A w \in Workloads :
        w \in DOMAIN crs ~> (w \in Observed(obs) \/ w \notin DOMAIN crs \/ ~running)

\* A signal ends the process: the cycle under way ends, and no other begins.
ShutdownCompletes == cancelled ~> ~running
=============================================================================
