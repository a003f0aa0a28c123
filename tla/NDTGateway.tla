----------------------------- MODULE NDTGateway -----------------------------
(***************************************************************************)
(* The gateway of the Network Digital Twin                                 *)
(* (network-digital-twin/docker/ndt-api/main.py): requests wait for one of *)
(* its workers, which asks the model server and answers, and for each one  *)
(* answered a thread of its own compares the prediction with what was      *)
(* measured.  The threads share RMSEMonitor: the timestamp of the last     *)
(* step compared, tested and set without the lock, and a window of errors. *)
(***************************************************************************)
EXTENDS Integers, Sequences, FiniteSets

CONSTANTS
    Requests,       \* identities of requests; bounds those in the gateway at once
    MaxWorkers,     \* of the executor of the server
    WINDOW_SIZE,    \* RMSE_WINDOW_SIZE
    Errors          \* what comparing a prediction with the measurements may yield

ASSUME GatewayAssumption ==
    /\ MaxWorkers \in Nat \ {0}
    /\ WINDOW_SIZE \in Nat \ {0}

VARIABLES
    request,    \* what is in the gateway: request -> [step, stage]
    last,       \* last_request_timestamp, in prediction steps
    buffer,     \* the window, oldest first: [step, rmse]
    raced       \* auxiliary: two threads have been between test and set at once

gatewayVars == <<request, last, buffer, raced>>

\* An identity no request has now.
Free == [step |-> -1, stage |-> "free"]

GatewayInit ==
    /\ request = [r \in Requests |-> Free]
    /\ last = -1
    /\ buffer = <<>>
    /\ raced = FALSE

-----------------------------------------------------------------------------
At(r, stage) == request[r].stage = stage

Moves(r, stage) == request' = [request EXCEPT ![r].stage = stage]

Leaves(r) == request' = [request EXCEPT ![r] = Free]

\* request_ts is the request's time rounded down to a step.
Arrive(r, step) ==
    /\ At(r, "free")
    /\ request' = [request EXCEPT ![r] = [step |-> step, stage |-> "queued"]]
    /\ UNCHANGED <<last, buffer, raced>>

Accept(r) ==
    /\ At(r, "queued")
    /\ Cardinality({q \in Requests : At(q, "model")}) < MaxWorkers
    /\ Moves(r, "model")
    /\ UNCHANGED <<last, buffer, raced>>

\* A request its caller has given up is dropped while it waits for a worker.
Drop(r) ==
    /\ At(r, "queued")
    /\ Leaves(r)
    /\ UNCHANGED <<last, buffer, raced>>

\* The model server answers; the thread is started and the reply sent.
MakeInference(r) ==
    /\ At(r, "model")
    /\ Moves(r, "test")
    /\ UNCHANGED <<last, buffer, raced>>

\* The handler goes on without a response, and raises.
ModelFails(r) ==
    /\ At(r, "model")
    /\ Leaves(r)
    /\ UNCHANGED <<last, buffer, raced>>

\* Mutation: a step compared before is compared again.
NewerOrEqual(step) == step >= last

\* Mutation: a step is passed over.
NewerByTwo(step) == step > last + 1

Newer(step) == step > last

\* add_prediction: the test ...
Test(r) ==
    /\ At(r, "test")
    /\ \/ /\ Newer(request[r].step)
          /\ Moves(r, "mark")
          /\ raced' = (raced \/ \E q \in Requests : At(q, "mark"))
       \/ ~Newer(request[r].step) /\ Leaves(r) /\ UNCHANGED raced
    /\ UNCHANGED <<last, buffer>>

\* ... and the assignment are two steps outside the lock.
Mark(r) ==
    /\ At(r, "mark")
    /\ last' = request[r].step
    /\ Moves(r, "fetch")
    /\ UNCHANGED <<buffer, raced>>

\* A deque of WINDOW_SIZE elements.
Pushed(e) ==
    IF Len(buffer) < WINDOW_SIZE THEN Append(buffer, e) ELSE Append(Tail(buffer), e)

\* The measurements are fetched and their error recorded under the lock.
Compare(r) ==
    /\ At(r, "fetch")
    /\ \E rmse \in Errors : buffer' = Pushed([step |-> request[r].step, rmse |-> rmse])
    /\ Leaves(r)
    /\ UNCHANGED <<last, raced>>

\* Mutation: a step that could not be compared is given back.
NoActualsGivingBack(r) ==
    /\ At(r, "fetch")
    /\ last' = request[r].step - 1
    /\ Leaves(r)
    /\ UNCHANGED <<buffer, raced>>

\* Nothing was measured, or the query failed.
NoActuals(r) ==
    /\ At(r, "fetch")
    /\ Leaves(r)
    /\ UNCHANGED <<last, buffer, raced>>

GatewayRestart ==
    /\ request' = [r \in Requests |-> Free]
    /\ last' = -1
    /\ buffer' = <<>>
    /\ raced' = FALSE
-----------------------------------------------------------------------------
\* The window never holds two errors of one step, whatever requests are
\* repeated, delayed or older than others, unless two threads have been
\* between the test and the assignment at once.
OneErrorPerStep ==
    ~raced => \A i, j \in DOMAIN buffer : buffer[i].step = buffer[j].step => i = j

\* The steps taken up whose error is not in the window yet.
Pending == {request[r].step : r \in {q \in Requests : At(q, "fetch")}}

Monitor == INSTANCE RMSEMonitor WITH latest <- last, pending <- Pending, window <- buffer

\* Although a prediction is added in three steps, by as many threads as there
\* are requests, the timestamp, the comparisons under way and the window
\* change as in a monitor that adds it in one, which takes no step up twice
\* and never goes back, as long as no two threads have been between the test
\* and the assignment at once.
ImplementsMonitor == Monitor!Init /\ [][raced \/ Monitor!Next]_(Monitor!vars)
=============================================================================
