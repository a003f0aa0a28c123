---------------------------- MODULE MetricsClient ---------------------------
(***************************************************************************)
(* The Prometheus client and the cluster state provider                    *)
(* (pkg/metrics/client.go): one cache entry, under one key whatever the    *)
(* workloads asked for, and an answer that has an entry for every workload *)
(* asked for, with a zero for each query that failed.                      *)
(*                                                                         *)
(* The entry is None or [metrics, left], the answer kept and the ticks     *)
(* left to its expiry; one past its expiry is as good as none.  A sample   *)
(* is a record [latency, cpu, gpu] of what the queries for one workload    *)
(* yield, None where one fails.                                            *)
(***************************************************************************)
EXTENDS QoSTypes, Sequences

CONSTANTS
    Samples,       \* what the queries for one workload may yield
    NodeResponses, \* what the query for the nodes may yield
    CacheTTL       \* in ticks

ASSUME TTLAssumption == CacheTTL \in Nat

Measured(query) == IF query = None THEN 0 ELSE query

\* The target latency is never set.
getWorkloadMetrics(sample) ==
    [currentLatency |-> Measured(sample.latency), targetLatency |-> 0,
     cpu |-> Measured(sample.cpu), gpu |-> Measured(sample.gpu)]

Fresh(entry) == entry # None

\* The answers GetMetrics may give.
GetMetrics(entry, ids) ==
    IF Fresh(entry) THEN {entry.metrics}
    ELSE [ids -> {getWorkloadMetrics(s) : s \in Samples}]

putInCache(metrics) == [metrics |-> metrics, left |-> CacheTTL]

\* Mutation: a hit renews the entry.
CacheAfterRenewed(entry, metrics) == putInCache(metrics)

CacheAfter(entry, metrics) == IF Fresh(entry) THEN entry ELSE putInCache(metrics)

Aged(entry) ==
    IF ~Fresh(entry) \/ entry.left = 0 THEN None
    ELSE [metrics |-> entry.metrics, left |-> entry.left - 1]

\* A response is None, a query that fails, or a sequence of results
\* [node, instance], labels that may be missing.
NodeName(result) == IF result.node # None THEN result.node ELSE result.instance

\* Of every node that has a name, the name: nobody reads its utilisations.  A
\* failed query is logged and leaves the list empty.
GetNodeMetrics(response) ==
    IF response = None THEN <<>>
    ELSE SelectSeq([i \in DOMAIN response |-> NodeName(response[i])],
                   LAMBDA name : name # None)

\* GetState knows the names of the nodes and nothing else of them.
Unlabelled(name) ==
    [name |-> name, labels |-> {}, hasGPU |-> FALSE, gpuAvailable |-> FALSE,
     cpu |-> 0, mem |-> 0]

State(names) == [i \in DOMAIN names |-> Unlabelled(names[i])]

GetState == {State(GetNodeMetrics(response)) : response \in NodeResponses}
=============================================================================
