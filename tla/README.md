# A TLA+ model of the KOALA AI-and-RAN orchestrator

KOALA places AI workloads and Radio Access Network (RAN) functions on one Kubernetes
cluster. A control loop reads custom resources that describe the workloads, metrics from
Prometheus and traffic forecasts from a Network Digital Twin (NDT), decides how every
workload is to be scaled, and applies the decisions through the Kubernetes API. This
directory holds TLA+ modules of its core, TLC configurations that check them on small
instances, and proofs, checked by TLAPS, of properties for all instances. Paths below
are relative to the repository; `allocator.go` is
`src/operator/pkg/allocation/allocator.go`, `types.go` its neighbour, `executor.go` is
`src/operator/pkg/executor/executor.go`, `main.go` is
`src/operator/cmd/orchestrator/main.go`, and "the algorithm document" is
`src/operator/docs/orchestrator-algorithm.md`.

## 1. The system

| component | state it keeps | operations | interacts with |
|---|---|---|---|
| Allocation function (`allocator.go`, `types.go`, `interfaces.go`) | `deferredWorkloads`: per workload ID the deadline, the predicted end of the peak, the postponed action and its replica target | `Allocate`, `GetDeferredWorkloads` | is called by the loop; asks the metrics client, the Digital Twin client and the cluster state provider |
| Directive executor (`executor.go`) | `semaphore` (a channel of permits), `workloadRegistry`, `history` (bounded), `DryRun` | `Execute`, `ExecuteBatch`, `RegisterWorkload`, `GetHistory` | is called by the loop; reads and updates Deployments and StatefulSets |
| Reconciliation loop (`main.go`) | its context, the ticker | list resources, `convertToWorkloadSpec`, `Allocate`, `Execute` each directive; cancel on a signal | everything |
| Digital Twin client (`pkg/digitaltwin/client.go`) | connection, cache of predictions (off by default), counters | `GetPrediction` with retries; `GetHistoricalPattern`, `GetCellPredictions`, `HealthCheck` without a caller | NDT gateway by gRPC |
| Metrics client and cluster provider (`pkg/metrics/client.go`) | one-entry cache with a time to live | `GetMetrics`, `GetState` | Prometheus by HTTP |
| Prometheus exporter (`pkg/metrics/prometheus_metrics.go`) | registered metrics | setters | nothing that decides |
| Workload API (`api/v1alpha1`, `config/crd`) | the schema of `QoSAwareWorkload` | validation by the API server | read by the loop |
| NDT gateway (`network-digital-twin/docker/ndt-api/main.py`) | `RMSEMonitor`: a window of errors, behind a lock, and the last request timestamp, outside it | `make_inference`, the monitor's threads, an HTTP server | a model server, InfluxDB |
| NDT model servers, cell mock, training | none, or scripts | | InfluxDB |

What is hard about them:

* **Deferral is a protocol over many cycles.** A workload is put into the map by one
  call of `Allocate`, skipped by later ones, and resumed by another, while deadlines
  pass, predictions fail, its metrics or its resource disappear, and the very call that
  resumes it may defer it again.
* **One batch is written by five phases** (resumption, reduction, RAN, gate, non-RAN)
  that do not look at each other's directives. Batches are sorted by priority only, and
  `sort.Slice` leaves equal priorities in any order.
* **Arithmetic** on quantities and replica counts: ratios, truncation, ceiling and two
  clamps in different orders.
* **Read, modify, update.** The executor changes objects that users, autoscalers and
  other calls change as well; requests fail, their answers are lost, and what failed is
  tried again.
* **Permits and shutdown.** Permits must come back on every path through a call;
  requests carry no timeout; the sleep between attempts ignores the context.
* **Memory only.** A restart forgets the deferred workloads.
* **The twin is far away.** Attempts time out while the gateway still works on them, are
  made again, and are answered late; answers may come from a cache. In the gateway, a
  thread per request compares it with what was measured and shares a timestamp outside
  the lock; it remembers steps across restarts of its client, and forgets them at its
  own.
* **The loop sees less than the allocator can use.** Counts, resources, target latencies
  and node labels reach `Allocate` as constants or not at all, and users change
  resources and objects while a batch is executed.

What makes each component correct: a deferral is announced, kept unchanged and ended; a
deferred workload is left alone; a latency violation is answered in the cycle that sees
it; a resize or a replica step goes in the direction it says and stays in its bounds; an
update never undoes another program's change; a call that reports success has made its
change; permits are never leaked; every call returns, a prediction within the time its
timeouts and delays add up to, and is no older than the cache allows; no step is
compared twice. The list of hazards in `PROJECT.json` names each place in the code and
the properties aimed at it.

## 2. Modules

| module | models | role |
|---|---|---|
| `QoSTypes` | tiers, namespaces, nodes, metrics and predictions of `types.go` | operators |
| `Sizing` | `computeDeviation` to `computeHorizontalScaleDown`, `multiplyQuantity` | operators |
| `Placement` | the node searches and the two placement validations | operators |
| `Allocator` | `Allocate` and all it calls | the specification, properties |
| `AllocatorClaims` | statements of documents and comments the code does not keep | properties of violation runs |
| `MCAllocator` | observations for TLC | instances |
| `AllocatorProofs` | | theorems |
| `ScalingTargets` | objects, directives, the registry, what one directive does to one object | operators |
| `ScalingCalls` | what `Execute` promises its callers | abstract specification |
| `Executor` | `Execute` step by step, `RegisterWorkload` | detailed specification, properties |
| `ExecutorClaims`, `MCExecutor`, `ExecutorProofs` | | as above |
| `DecisionProofs` | | theorems about batches, extends `AllocatorProofs` |
| `DigitalTwinClient` | what `GetPrediction` of the Digital Twin client may return | operators |
| `MetricsClient` | `GetMetrics` with its cache, `GetNodeMetrics`, `GetState` | operators |
| `Orchestrator` | the loop around `Allocator`, the users, the process | the specification that composes these, properties |
| `OrchestratorClaims`, `MCOrchestrator`, `OrchestratorProofs` | | as above |
| `TwinClient` | `GetPrediction` in time: attempts, delays, context, cache | actions, properties |
| `NDTGateway` | workers, handler and monitor threads of the NDT gateway | actions, properties |
| `DigitalTwin` | the network between these two, restarts of either | the specification that composes these, properties |
| `RMSEMonitor` | what class `RMSEMonitor` of the gateway is for, without threads | abstract specification |
| `MCDigitalTwin`, `DigitalTwinProofs` | | as above |

### 2.1 Allocator

`deferred` is `Allocator.deferredWorkloads`. One goroutine calls `Allocate` and nobody
else writes the map, so a call is one action, `Allocate(o)`; all it reads (workload
specifications, metrics, the prediction, the predictions of the look-ahead, the nodes)
is one record `o` of the constant `Observations`. The specification stores it in `obs`,
and the directives returned in `batch`, so that invariants can relate a batch to what it
was computed from. `AllocateFails` is the early return when metrics or cluster state
cannot be fetched; a Digital Twin that does not answer is the observation
`NoPrediction`, as in the code. `Discard` is the loop finishing the batch, and `Tick` is
the passage of time.

The phases are operators named after the code's functions, in its order:
`checkDeferredWorkloads`, `reactiveNonRANReduction`, `processRANWorkload` (Phases A to
D), the gate (`GateEntry`, `GateDirective`), `processNonRANWorkload` (`Migrates`,
`PeakDefers`, `HorizontalDirectives`). `NewlyDeferred` is what they put into the map.
Early returns are the conditions between them: a workload without metrics is not
`Observed`, a deferred one that is not resumed is not `Eligible`, and a grant that fails
validation is dropped.

Abstractions: instants are ticks from now, and every instant in the past is -1, since
the code only compares them with the present. CPU and memory are integers, loads and
confidences percentages. Ratios are exact fractions instead of float64; the sensitivity
`alpha` has its default 1. GPUs in `Resources` are passed through by the code and left
out. A batch is a set; a workload gets at most one directive per code path, and `reason`
tells these apart. Labels a workload requires are those of the resource; the wording of
reasons, logging and `GetDeferredWorkloads` (a copy of the map) are left out.

### 2.2 Executor

`pc[c]` is where caller `c` is inside `Execute`:

| pc | code | left by |
|---|---|---|
| `wait` | the `select` on semaphore and context, executor.go:116 | `Acquire`, `GiveUp` |
| `attempt` | the head of the retry loop, and `executeDirective` up to its Get | `Skip`, `Reject`, `Get`, `GetFails` |
| `update` | object read and modified, Update not yet answered | `Update`, `UpdateLost`, `UpdateFails` |
| `sleep` | `time.Sleep(RetryDelay)` | `Wake` |
| `release`, `record` | the deferred functions | `Release`, `recordExecution` |

`UpdateLost` is an update that was applied but answered with an error. `Edit` is any
other program writing, deleting or creating an object. The API server takes an update
only of the version that was read; of versions nothing else matters, so `current` is the
set of callers whose copy still has the version of the object. The registry maps IDs to
objects as in `RegisterWorkload`, with the code's fallback (`Lookup`) for an ID that was
never registered. Namespaces are left implicit: an ID such as `ran/du` may serve as a
name, and no object has it. `ExecuteBatch` is `Execute` for each directive by one
caller, and no code calls it; `GetHistory` copies. Neither changes state of its own.

`ScalingCalls` says the same without requests, copies or versions: a call makes at most
`RetryAttempts + 1` attempts, each of which changes the object *as it is at that
instant* or does not; success means that the last one changed it.
`Executor!ImplementsCalls` is that specification under the refinement mapping `Doing`: a
caller is at work from its permit to the end of its last attempt, with the attempts it
has left.

### 2.3 Orchestrator

`Orchestrator` extends `Allocator` and puts the loop around it. Where the allocator's
own runs choose an observation from a constant, here it is what the deployed program can
observe: `Reconcile` calls `Allocate` with `fetchWorkloads` (the conversion of the
resources in `crs`, with its defaults), an answer of `GetMetrics` (from `cache` or from
new samples), predictions of the Digital Twin client for the next step and, while the
gate is active, for the look-ahead, and nodes of `GetState`. `DeploymentAssumption` says
that the constant `Observations` allows all of these, so that the loop can be compared
with the allocator's own specification: `AllocatorSpecified`, a refinement with the
identity as its mapping. Nothing fails in these calls that would make `Allocate` return
early: both clients turn errors into answers.

| action | code |
|---|---|
| `Reconcile` | one cycle up to its batch, main.go:149-186 |
| `Execute(d)` | one round of the loop over the directives, main.go:188: the call of `Execute` begins |
| `AttemptSucceeds`, `AttemptFails`, `GivenUp` | an attempt of the call under way, executor.go:152, and the `select` that finds the context cancelled, executor.go:120 |
| `Finish` | the end of the cycle |
| `Cancel`, `Stop` | the signal, main.go:66; `ctx.Done()` between two cycles, main.go:138 |
| `Crash`, `Start` | the process ends at any moment; a new one starts with nothing in memory |
| `Elapsed` | `Tick` of the allocator, which also ages the cache entry |
| `Apply`, `Delete`, `SetCount` | users: resources are created, changed and deleted, objects scaled |

Abstractions: listing and allocating is one step, since nothing the allocator keeps can
change between the two; what users do after the listing comes before the first
`Execute`. A call of `Execute` is not the composition with `Executor` but has the form
of `ScalingCalls`, which that module implements: `call` is its directive and the
attempts left; an attempt that succeeds has changed the object, one that fails may have,
and between two attempts anything may happen, an edit that the next one overwrites or
the signal. The permit is left out, since one caller never waits for it, and so are dry
runs. Directives of one priority are executed in any order. Of the objects only replica
counts are kept. No code registers workloads (`claim_applied`), so `Registered` is what
the loop would do if some were; with `{}` no object ever changes. A cache entry's
lifetime is counted in ticks. A cycle whose listing fails changes nothing and is left
out; a resource that cannot be converted, such as one without a `spec`, is logged and
skipped (main.go:211), which is as if it were not listed. Ratios of the confidence are
truncated percentages.

### 2.4 Digital Twin

`DigitalTwin` composes the client and the gateway, each with its own variables, by the
network. In `TwinClient`, `phase` is where the one caller is inside `GetPrediction`, and
`left` the time left to the attempt or the delay:

| phase | code | left by |
|---|---|---|
| `idle` | no call | `Ask` (the cache misses), `Hit` |
| `call` | `doGetPrediction`, under the timeout of client.go:212 | `Succeed`, `Fail` |
| `delay` | the `select` of client.go:188 | `Retry`, `Abandon` (the context) |
| `returned` | the result is with the caller | `Take` |

`predictions` is the cache, an entry per horizon in steps as in `getFromCache`'s key,
with the time to its expiry. `spent` is auxiliary: the time since the call began. An
answer carries its age, that of the request it answers. `Elapse` is a tick; it does not
pass the instant at which a timer of the call fires.

In `NDTGateway`, `request[r].stage` is where a request is:

| stage | code | left by |
|---|---|---|
| `queued` | waits for a worker of the gRPC server | `Accept`, `Drop` (its caller gave up) |
| `model` | waits for the model server, main.py:165 | `MakeInference`, `ModelFails` |
| `test` | its thread before the `if`, main.py:94 | `Test` |
| `mark` | before the assignment, main.py:95 | `Mark` |
| `fetch` | before the error is recorded, or is not | `Compare`, `NoActuals` |

Here main.py is `src/network-digital-twin/docker/ndt-api/main.py`. `last` and `buffer`
are fields of the class `RMSEMonitor`; the window also keeps the step of each error.
`raced` is auxiliary: two threads have been between the test and the assignment at once.

The module `RMSEMonitor` says what the class is for as if a prediction were added in one
step: a step is taken up when it is newer than all before it (`TakeUp`), and later, in
any order with others, its error is recorded (`Record`) or it is dropped because there
is nothing to compare it with (`Forget`). `NDTGateway!Monitor` is that specification
under a refinement mapping: the steps pending are those of the threads that are past the
assignment. Between the test and the assignment a step is not taken up yet, so `Test` is
a stutter and `Mark` is `TakeUp`.

The network: `Send` delivers a request and `SendLost` does not; `link` is the request
the attempt waits for and `inbox` its reply. An attempt that ends drops both, and the
gateway goes on with the request all the same. `OperatorRestart` forgets everything the
client knows and takes `now`, the step it asks for, back to the first (client.go:221);
`TwinRestart` loses every request and the monitor.

Abstractions: times are ticks, errors of the model are a choice, and a reply is computed
when it is sent. The HTTP server only reads. The client's counters decide nothing.

## 3. Runs

Passing runs:

| run | question | states |
|---|---|---|
| `allocator_deferral` | Is every deferral announced, kept, respected and ended, over any sequence of cycles? | three workloads |
| `allocator_decisions` | Is each batch right for its observation, in every branch? | one RAN workload, or one RAN and one low-tier workload |
| `executor` | Do calls that interleave with each other, with edits and with failures implement the abstract calls? | two callers, one Deployment |
| `executor_permits` | Are permits accounted for, and does every call return? | two callers, one permit, both kinds of object |
| `orchestrator` | What does the deployed loop change, is it an allocator, and does everything it starts come to an end? | two resources, one registered object |
| `digital_twin` | How long does a prediction take, how old and of what horizon is it, and what is recorded about it? | two requests, two horizons, one worker, the cache on |
| `twin_serves` | Does every prediction return, and is every step taken up by the monitor in the end? | two requests, the cache off as deployed |

* **`allocator_deferral`**, under `FairSpec`. `ai1` (one replica or three, postpones
  during peaks) and `ai2` (three replicas, does not) share the map with a RAN workload;
  the list is any subset that contains the RAN workload; metrics exist for all or for
  `ai1` only. Predictions: none, untrusted, low, an imminent peak, one under way, one
  without an end; and the gate with and without a low-traffic window ahead.
  `OneDeadline`: the two instants of an entry never disagree. `GateDefersAll`: an active
  gate leaves no observed low-tier workload out of the map, also one resumed by the same
  call. `DeferralKept`: a target is kept, a deadline is set back by no call and brought
  closer by every tick, until a directive with that target; and the call that finds a
  deadline past resumes, also a workload that is no longer listed or has no metrics.
  `DeferralAnnounced`: map and directives agree on every new deferral.
  `DeferredStaysSuspended`: no phase scales a deferred workload, except the reduction
  that protects the RAN. `DeferredResumed`: every deferral ends.
* **`allocator_decisions`**. `ViolationAnswered`: a RAN workload above its target is
  asked more for in that cycle unless nothing can grow. `ResizesAreMonotone`: no
  resource moves against the direction of its directive. `ReplicaStepsInBounds`: steps
  go in the direction announced and stay in bounds, also from counts outside them.
  `ScalingTypeAllowed`: the tier's kind of scaling only, when a resource does not
  override its namespace's tier. `ReactiveAddsNothing`: the reactive phase is void, see
  section 6.
* **`executor`**. `ImplementsCalls`: no change of another program is undone, no call
  succeeds without its change, and no more than one change is made per attempt.
  `CallsRunOut`: each step of a call takes it closer to its return (`StepsLeft`), and
  nobody else's step takes it farther away. `TypeOK` includes the bound of the history.
* **`executor_permits`**, under `UnansweredSpec`. `PermitsAccounted`: the channel's
  length is the number of calls between their send and their receive.
  `EveryCallReturns`: if the API server answers (`ServerAnswers`) every call returns.
  `CancelledCallsReturn`: without answers, the end of the context alone brings every
  call back, those that wait for the permit of an unanswered one included.
* **`orchestrator`**, under `LoopFairSpec`. `OnlyResumptionsAct`: the only change the
  loop ever asks for is one replica at the end of a deferral. `ChangesAreResumptions`:
  nor does it ever make another, and it makes that one in the cycle that asks for it,
  although attempts are repeated, overtaken by edits, lost or cut short by the signal.
  `AllocatorSpecified`: between two starts the loop takes no step the allocator's
  specification does not, whatever the cache answers and wherever a batch is cancelled.
  `DeferralEnds`: a deferral ends in a resumption or with the process, unless from some
  point on there is no resource at all. `NewcomersObserved`: a resource is given to the
  allocator with metrics in the end, although the cache may answer for others first.
  `ShutdownCompletes`: after the signal the process ends.
* **`digital_twin`**, two million states. `CallBounded`: a call takes no longer than its
  timeouts and delays together. `AnswersAreRecent`: an answer is no older than the
  timeout and the time to live. `AnswersAsAssumed`: what comes back, from the cache or
  after retries, is what `GetPrediction` of `DigitalTwinClient`, which the loop is
  modelled with, may return for that horizon. `OneErrorPerStep`: repeated, late and
  reordered requests leave one error per step in the window, unless two threads were
  between test and assignment at once; then the code does record two.
  `ImplementsMonitor`: under the same condition the threads take the steps of
  `RMSEMonitor` only, so that no step is taken up twice, also one whose comparison
  failed, and the timestamp never goes back.
* **`twin_serves`**, under `ClientSpec`. `EveryPredictionReturns`: however the twin
  behaves, by the client's timers alone. `StepsTakenUp`: a twin that serves
  (`TwinServes`) takes a lasting step up; late requests of earlier steps do not keep it
  out.

The other runs, `claim_*`, each check one sentence of the repository and find it
violated: see section 6.

### Bounds

* A tick is ten minutes, the step of the look-ahead. The window (`PostponeWindow`) is 3
  ticks, the look-ahead 1 to 3, imminence 1 tick instead of 1.5: each comparison in the
  code then has both outcomes, and a window, a low-traffic instant and the end of a peak
  can be in any order.
* Thresholds are those of `DefaultConfig` (confidence 50, load 35, saturation 85,
  scale-up 0, scale-down 30, weight 50), except that times are shortened. Utilisations,
  loads and latencies are chosen on both sides of each, and sizes at the minimum, at the
  maximum, and where truncation hides a change.
* Replica counts 0 to 6 with minimum 0 or 2 and maximum 4 reach both clamps from inside
  and outside.
* Two callers are all that a conflict needs, one permit all that waiting needs. One
  retry gives a first, a last and a repeated attempt; `HistoryCap` 1 gives an empty, a
  full and an overflowing history. Others write one content or delete the object:
  together with the executor's own writes, a copy can be outdated in every way.
* `orchestrator`: a low-tier workload that postpones during peaks and a RAN workload,
  either of which may be absent, are what the empty list, the mixed list and a newcomer
  need. Counts 1 and 3 are the constant the loop assumes and another one. The twin
  answers with high traffic followed by low, with one low step (shorter than the
  look-ahead), or not at all; look-ahead 1 to 2, window 2. An entry of the cache lives
  through one tick, so it is met fresh, and expired. One retry gives a call a first and
  a last attempt, with edits and the signal between them. Crashes and restarts are not
  bounded.
* `digital_twin`: two requests in the gateway are one that was given up and its retry;
  with one worker the second waits for the first. One retry, timeout, delay and time to
  live of one tick give every order of expiry, retry and answer. Two steps, asked for
  forwards and, after a restart, backwards; a window of two errors holds a repetition if
  there is one. Replies cover one horizon or both. `twin_serves` has the reply of three
  steps and the cache as deployed.
* The callers' symmetry is not used, since both executor runs check temporal formulas.

### Fairness

The allocator's `FairSpec` assumes that the loop keeps running: `Discard` is weakly fair
(a batch is executed to its end, which section 6 shows to rest on the API server),
`Tick` is strongly fair (time passes between cycles), and calls of `Allocate` that
return a batch are strongly fair: the ticker fires again and again and not every call of
an infinite run fails. Nothing is assumed about what a call observes: predictions may
stay high, and metrics may be missing, for ever.

The executor's `OwnFairness` gives each goroutine weak fairness for its own steps and
for requests that end because their context is cancelled, and strong fairness for
getting a permit, since senders on a Go channel queue up in order; `UnansweredSpec`
assumes no more. That each request is answered or its connection fails is not ensured by
the code (there is no timeout), so `ServerAnswers` is the hypothesis of
`EveryCallReturns`, and `CancelledCallsReturn` does without it.

The twin's `ClientSpec` assumes of the client what Go's timers and contexts give: time
passes, and an attempt or a delay that is over is left. `TwinServes` is the hypothesis
of `StepsTakenUp`: the loop takes its answers and asks again, not every request is lost,
dropped or failed, the gateway's threads run, and neither process ends again and again
for ever.

The loop's `LoopFairSpec` gives strong fairness to `Reconcile`, since the ticker fires
again and again although users may empty the list in between, and to `Elapsed`, since
time passes; weak fairness to `Execute`, to the attempts of a call (a request is
answered or fails, the assumption of `executor_permits`), `Finish`, `Stop` and, since
the Deployment of the operator restarts its pod, `Start`. Users, the signal and crashes
are not fair.

## 4. Proofs

In `AllocatorProofs`, `DecisionProofs`, `ExecutorProofs`, `DigitalTwinProofs` and
`OrchestratorProofs`, for every value of the constants that satisfies the named
assumptions: thresholds and windows are natural numbers (`WeightsAssumption`,
`TimesAssumption`), observations are well-formed (`ObservationsAssumption`: the fields
have their types, and counts and sizes are not negative; nothing is assumed of the order
of bounds, labels, latencies or predictions), the objects, directives and registrations
are what their types say (`TargetsAssumption`), and the limits are positive
(`LimitsAssumption`, `HistoryAssumption`), resources, namespaces and counts have their
types (`LoopAssumption`), what the loop observes is among the observations
(`DeploymentAssumption`), and timeouts, delays, workers and the window are positive
(`CallAssumption`, `GatewayAssumption`, `DegradedAssumption`), replies being those the
gateway can make (`RepliesAssumption`).

**Allocator.** `TypeInv == TypeOK /\ OneDeadline` is inductive: `TypeOK` alone is
preserved too, and with the two instants of an entry known to be equal or absent one
sees that `Tick` keeps them so. The lemmas before it compute the type of each sizing
function, search and phase, from `FloorInt` up. `TypeCorrect` and `SingleDeadline`
follow, and `DeferralsAreKept` from the same invariant: an entry either survives a call
(a workload still deferred is not eligible), with the deadline it had and one that is
not past, or is resumed; and `Tick` lowers a deadline until it is past. This is all of
`DeferredResumed` but the fairness: a deadline is a natural number that only ticks
change, and the first call at its end resumes. `BatchInv` is the second invariant:
`ReactiveAddsNothing`, `GateDefersAll` and `Idle => batch = {}`, which is what makes
them survive the steps that reset `obs`. From it come `GateIsComplete` (an eligible
workload is deferred now, and any other was deferred before and is kept) and
`ReactiveIsVoid` (the deviation is not used, so the reactive request is the proactive
one, which was not larger).

**Decisions.** `DecisionInv` is inductive relative to `TypeInv` and `BatchInv`, and each
part is a lemma about one call, split by the phases a directive can come from
(`BatchPhases`, `RANShape`, `NonRANShape`). `ReplicaStepsStayInBounds` is arithmetic of
clamps (`ReplicaSteps`). `ResizesStayMonotone` rests on `RescaledMonotone`: a ratio
above one, truncated and clamped, shrinks no quantity inside its bounds, and one below
one grows none. In `ViolationsAreAnswered` a violated latency makes the ratio exceed one
whatever the prediction adds (`RatioSides`); either a resource grows, and the grant fits
the node found for it and survives the validation (`FoundNodeFits`,
`GrantReachesBatch`), or it becomes a preemption, or neither resource can grow
(`StuckQuantity`). `DeferralsAreAnnounced` shows both directions of the agreement: a new
entry has its directive, and a deadline in the batch its entry.

`TypesFollowTiers` and `OnlyTiersPassDeferral` say what holds of the types of directives
and of deferred workloads without any hypothesis on tiers. Both come from
`DirectivePhase`, which tells for every directive of a batch which phase made it: a
resumption, a reduction, a directive of an eligible low-tier workload, or a vertical one
of an upper tier. So the one way past a deferral is to be given an upper tier while it
lasts.

`DeferredAreLeftAlone` and `ScalingTypesAreAllowed` have a hypothesis, `TiersAgree`:
each workload is of the low tier and outside the RAN in every observation, or of an
upper tier and in the RAN. Without it these two are false: `qosLevel` overrides the
tier, and an override that changes during a deferral lets the RAN phases at a deferred
workload. The invariant `OnlyLowDeferred` makes use of it.

**Digital Twin.** `CallsAreBounded` adds up: `CallInv` relates `spent` to the attempts
made and the time left to the present one. `AnswersStayRecent` and `AnswersAreSound`
come from `CacheInv`: age and remaining life of an entry add up to at most the limit, an
entry's prediction is one its step allows, and a reply under way is the gateway's.
`WindowHasOnePerStep` rests on `WindowInv`: as long as no race has happened, the steps
in the window and of the thread that is about to record are distinct and none is beyond
`last`, at most one thread is before the assignment, and its step is beyond `last`.
`GatewayImplementsMonitor` has the same invariant: by it `Mark` sets the timestamp
forward, and the step a thread compares or drops is no other thread's, so that it leaves
the pending steps when the thread is done.

**Executor.** The inductive invariant adds to `TypeOK` that a caller inside a call has a
directive, and from its permit on a look-up (`InCall`), and that a current copy equals
its object (`CurrentCopies`). The latter is what the refinement rests on: the update is
computed from the copy, the abstract `Write` from the object. `Spec => []Inv` gives
`TypeCorrect` and `CopiesAreCurrent`. `PermitsAreAccounted` counts: each action that
enters or leaves `Holders` changes the semaphore by one. `ExecutorImplementsCalls`
proves the refinement: `Acquire` is `Begin`, `Skip` and `Update` are `Succeed`, the
failing steps are `FailAttempt` (with a write for `UpdateLost`), and the rest are
stutters or the same steps of the environment. The abstract limit on calls at work
follows from `PermitsAccounted`. `CallsTakeBoundedSteps` is a variant: `StepsLeft` is at
most `3 * RetryAttempts + 5` and every step of the call lowers it, so a call that is
answered, or given up, cannot go on for ever. `RetriesChangeNothing`: scaling is
idempotent (`ScaledOnce`), so the retry of an update that was applied changes nothing
but what somebody else has changed since.

**Loop.** `LoopOnlyResumes` says `LoopSpec => []OnlyResumptionsAct`. The inductive
`LoopInv` adds to the property that the resources have their type, that cached metrics
have no target latency, that every deferral has the target 1, and that what is executed
or still to be is of the present batch (`InBatch`). Without the second and the third a
resumption could carry another count, and an answer kept from an earlier cycle could
report a violation. Each phase of `Allocate` is then shown to be empty or harmless for
observations of the loop: a RAN workload never has a node, and none is found among nodes
without labels, so it preempts; the reduction has no count above its minimum to take
from; without a target there is no deviation, so no horizontal step; and the gate finds
one replica and postpones.

`LoopOnlyChangesToResume` carries this from the directives to the objects, and is why
`InBatch` is in the invariant: only an attempt and the users change a count, and the
directive of an attempt, however often it was tried, is one of the batch. The safety
part of the loop's liveness is proved, too. `CancelledLoopDwindles`: after the signal,
each step of the loop uses up a directive or an attempt, and no cycle begins.
`NewcomersWaitForExpiry`: an answer in the cache ages with every tick and no hit renews
it, and the first cycle that finds none observes every workload listed. For
`DeferralEnds` it is `LoopKeepsDeferrals`.

`LoopIsAnAllocator` is the refinement: `Reconcile` is a call of the allocator because
what it observes is allowed, for which `SeenInv` says that the cache holds nothing but
an answer of the metrics client, if of workloads listed earlier; `Finish` and `Elapsed`
are its `Discard` and `Tick`, the end of the process begins a new allocator, and the
rest are stutters. `TypeInv` and `BatchInv` survive a new beginning, so the lemmas about
the allocator's steps apply, and `LoopDefersAll`, `LoopKeepsDeferrals`,
`LoopLeavesAlone` and, under `TiersAgree`, `LoopSuspendsDeferred` say of the loop what
`GateIsComplete`, `DeferralsAreKept`, `DeferralsAreAnnounced`, `OnlyTiersPassDeferral`
and `DeferredAreLeftAlone` say of the allocator.

Every invariant and action property of the passing runs is proved, two of them under
`TiersAgree`. Only model-checked: liveness (`DeferredResumed`, `EveryCallReturns`,
`CancelledCallsReturn`, `DeferralEnds`, `NewcomersObserved`, `ShutdownCompletes`,
`EveryPredictionReturns`, `StepsTakenUp`), which TLAPS does not reach. What most of them
rest on besides fairness is proved: deadlines that only come closer, calls, batches and
cached answers that run out, and predictions whose time is bounded.

## 5. Not modelled

* The Digital Twin in time inside `Orchestrator`: the loop uses only what
  `GetPrediction` may return, which `AnswersAsAssumed` ties to the client in time.
* The gateway's HTTP server, which only reads: `get_status` takes the window's mean
  under the lock and its size without it.
* Requests, copies and permits of `Executor` inside `Orchestrator`: the loop uses only
  the attempts of a call and what each leaves behind, and the product would be too large
  for TLC.
* Start-up: flags, credentials, and a Digital Twin client that cannot be built
  (main.go:106 goes on with a nil pointer that the first cycle would follow).
* Schemas, generated code, manifests, scripts, exporters, training, the cell mock and
  the stateless model servers: nothing there keeps state or decides.
* Code nobody calls: `GetHistoricalPattern`, `GetCellPredictions` and `HealthCheck` of
  the twin's client, `GetNodeState` and `GetMIGPartitions` of the provider, and helpers
  (`MatchesLabels`, `CanScaleVertically`, `workloadToJSON`).
* The precision of float64, and overflow of replica counts: the bounds of a resource
  keep counts far below 2^31.

## 6. Where the repository disagrees with itself

Each of these is a run whose property TLC violates:

| run | says | does |
|---|---|---|
| `claim_reduction` | line 426: low-tier workloads are scaled down by 50% when the RAN degrades | allocator.go:399: the reduction has priority 1 and the scale-up of the same workload priority 3, so the latter is executed last |
| `claim_migration` | the algorithm document, lines 289-296 and 456, and allocator.go:577: the traffic prediction is checked first, and when it is high a workload on a GPU node is migrated to a computing node | allocator.go:602: the gate (allocator.go:173) has tested the same prediction before and throttles or postpones the workload where it is; the migration is never reached |
| `claim_capacity` | allocator.go:414: both upper tiers always get the resources they need | allocator.go:762: two grants of one batch count on the same room |
| `claim_applied` | line 13: the loop applies each directive | executor.go:135: workloads are never registered, and an ID is no object's name |
| `claim_resume` | the algorithm document, line 463: when a deferral ends, resume to the original replica count | main.go:290: the count is the constant 1, so three replicas nobody touched become one |

Others that were met, without a run of their own:

* With the gate active all Phase 3 workloads are blocked from new scheduling (algorithm
  document, line 366), but a deferred workload resumed by that call is scaled up by it
  (allocator.go:264); `GateDefersAll` holds all the same, since the call defers it
  again.
* `ExecutionTimeout for individual operations` (executor.go:30) is never read. Hence the
  hypothesis of `EveryCallReturns`.
* types.go:186 allows CPU fallback if no GPU is available. `selectNonRANNode` falls back
  (allocator.go:752), but the validation asks for the label `gpu` of every workload that
  requires a GPU and names no labels of its own (types.go:222), and drops the directive
  on a computing node without it.
* The algorithm document disagrees with itself about high traffic: line 456 migrates a
  GPU workload, lines 458 and 459 throttle or postpone any. The code does the latter. If
  the migration were reached, the placement validation would drop it wherever the target
  lacks the labels required.
* Phase C computes what Phase B found not to be larger, so the reactive scale-up (line
  453) adds nothing: `ReactiveAddsNothing` holds.
* A resource's `qosLevel` overrides the tier of its namespace (main.go:233), so a RAN
  workload declared `low` is scaled horizontally, against line 203.
* allocator.go:329 keeps non-RAN workloads off nodes labelled `ran`; line 343 lets them
  on a node that is `ran` and `computing`.
* Line 224 falls back to the minimum resources at a first placement; allocator.go:463
  preempts instead. A preemption scales nothing down (executor.go:367).
* Vertical scaling of a StatefulSet sets no GPU limit (executor.go:282), against line
  114; `ContainerResources` models this.
* The deployed inputs never exercise parts of the algorithm: the metrics client sets no
  target latency, the cluster provider no labels, and `CurrentReplicas` is always 1
  (main.go:290). The observations of the allocator's own runs are those its types and
  interfaces allow; what is left of it in the deployed loop is `OnlyResumptionsAct`.
* The deployed Digital Twin client never fills in a peak (client.go:248), so a deferral
  ends at the first confident prediction, high or low; and the gateway reports the
  constant error 0.9 (ndt-api/main.py:186), which is a confidence of 99% whatever the
  model's error, where client.go:256 speaks of the rolling RMSE.
* client.go:83 wants a ceiling slightly above the alert at 18; the default
  `RMSEDegradedAt` is 90.
* main.py:94 tests and sets the timestamp of the last step outside the lock the monitor
  has: two threads in between record a step twice or set the timestamp back (`raced`).

## 7. Plan

Done, in this order: `Allocator` and its operators; `Executor` with its abstraction;
`Orchestrator` with both clients; the Digital Twin in time with the gateway's monitor;
the proofs of the decisions; the refinement that carries the allocator's theorems over
to the loop; the abstract monitor; attempts of calls in the loop; the variants behind
the liveness properties.

Left, in order of importance:

1. A proof that the loop's abstraction of a call covers `ScalingCalls`: for one caller
   and distinct registered objects, each of its steps is one of `Execute`,
   `AttemptSucceeds`, `AttemptFails` or `SetCount` under a mapping of objects to counts.
   It needs objects that can be deleted in `Orchestrator`.
2. The network of `DigitalTwin` as an abstract channel that loses, delays and repeats,
   so that the client's theorems do not depend on the gateway's threads.

## 8. Running

    tlc -workers 2 -config allocator_deferral.cfg MCAllocator
    tlc -workers 2 -config digital_twin.cfg MCDigitalTwin
    tlapm ExecutorProofs.tla

The module and the expected outcome of each configuration are in `PROJECT.json`, with
the correspondence of definitions and source lines, and the mutants: variants of a
definition (kept next to it, marked "Mutation") with which the named property is
violated.
