----------------------------- MODULE DigitalTwin ----------------------------
(***************************************************************************)
(* The Digital Twin client and the gateway it asks, with the network       *)
(* between them: requests and replies are delayed or lost, an attempt is   *)
(* given up while the gateway still works on it, and either process is     *)
(* restarted at any moment.                                                *)
(*                                                                         *)
(* The client asks for the step of TimeStart plus its uptime, so a restart *)
(* of the operator takes the steps asked for back to the first.            *)
(***************************************************************************)
EXTENDS TwinClient, NDTGateway

CONSTANTS
    ModelOutputs,   \* the vectors the model server may answer with
    ReportedRMSE,   \* the constant the gateway puts into the trailer
    LastStep        \* bounds the steps of requests

Reply(preds) == [preds |-> preds, rmse |-> ReportedRMSE]

ASSUME RepliesAssumption == Replies = {Reply(v) : v \in ModelOutputs} \cup {None}

VARIABLES
    now,    \* the step of a request sent now
    link,   \* the request the attempt under way waits for, None if it was lost
    inbox   \* its reply, once sent

wires == <<link, inbox>>
vars  == <<clientVars, gatewayVars, now, wires>>

Init ==
    /\ ClientInit
    /\ GatewayInit
    /\ now = 0
    /\ link = None /\ inbox = None

Unwired == link' = None /\ inbox' = None

-----------------------------------------------------------------------------
\* Nothing is sent with a cancelled context.
Delivered ==
    ~cancelled /\ \E r \in Requests : Arrive(r, now) /\ link' = r /\ inbox' = None

Lost == Unwired /\ UNCHANGED gatewayVars

\* The first attempt of a call, and a later one.
Sends == (\E h \in Horizons : Ask(h)) \/ Retry

Send     == Sends /\ Delivered /\ UNCHANGED now
SendLost == Sends /\ Lost /\ UNCHANGED now

FromCache == (\E h \in Horizons : Hit(h)) /\ UNCHANGED <<gatewayVars, now, wires>>

\* The reply, with its trailer, is of use if the attempt still waits for it.
Answers(r) ==
    /\ MakeInference(r)
    /\ \/ link = r /\ \E v \in ModelOutputs : inbox' = Reply(v)
       \/ link # r /\ UNCHANGED inbox
    /\ UNCHANGED <<clientVars, now, link>>

Receive == inbox # None /\ Succeed(inbox) /\ Unwired /\ UNCHANGED <<gatewayVars, now>>

\* Mutation: attempts have no timeout.
AttemptFailsUntimed == left > 0 /\ Fail /\ Unwired /\ UNCHANGED <<gatewayVars, now>>

\* The connection may break at any time.
AttemptFails == Fail /\ Unwired /\ UNCHANGED <<gatewayVars, now>>

Abandons == Abandon /\ UNCHANGED <<gatewayVars, now, wires>>
Takes    == Take /\ UNCHANGED <<gatewayVars, now, wires>>
Clears   == ClearCache /\ UNCHANGED <<gatewayVars, now, wires>>
Cancels  == Cancel /\ UNCHANGED <<gatewayVars, now, wires>>
Elapses  == Elapse /\ UNCHANGED <<gatewayVars, now, wires>>

\* The next prediction step begins.
Advance ==
    /\ now < LastStep
    /\ now' = now + 1
    /\ UNCHANGED <<clientVars, gatewayVars, wires>>

\* The memory of the operator is gone, its requests are not.
OperatorRestart ==
    /\ phase' = "idle" /\ horizon' = 0 /\ attempt' = 0 /\ left' = 0 /\ answer' = None
    /\ spent' = 0
    /\ predictions' = [i \in Steps |-> None]
    /\ cancelled' = FALSE
    /\ now' = 0
    /\ Unwired
    /\ UNCHANGED gatewayVars

\* Its connections break.
TwinRestart ==
    /\ GatewayRestart
    /\ link' = None
    /\ UNCHANGED <<clientVars, now, inbox>>

Handles(r) ==
    \/ Accept(r) \/ ModelFails(r) \/ (link # r /\ Drop(r))
    \/ Test(r) \/ Mark(r) \/ Compare(r) \/ NoActuals(r)
Gateway(r) == Handles(r) /\ UNCHANGED <<clientVars, now, wires>>

Next ==
    \/ Send \/ SendLost \/ FromCache \/ Receive \/ AttemptFails \/ Abandons \/ Takes
    \/ Clears \/ Cancels \/ Elapses \/ Advance
    \/ \E r \in Requests : Answers(r) \/ Gateway(r)
    \/ OperatorRestart \/ TwinRestart

Spec == Init /\ [][Next]_vars

\* Time passes, and a timer that has run out and a context that is cancelled
\* end what waits for them: the scheduling of the Go runtime.  Nothing is
\* assumed of the gateway or the network.
ClientSpec ==
    /\ Spec
    /\ WF_vars(Elapses)
    /\ WF_vars((left = 0 \/ cancelled) /\ AttemptFails)
    /\ WF_vars(phase = "delay" /\ (Send \/ SendLost))
    /\ WF_vars(Abandons)

\* The twin serves: the loop takes its answers and asks again, and not every
\* request is lost, given up before a worker is free, or failed by the model
\* server; the workers and threads of the gateway run; and neither is the
\* operator shut down for good nor the gateway restarted for ever.
TwinServes ==
    /\ WF_vars(Takes)
    /\ SF_vars(Send)
    /\ SF_vars(\E r \in Requests : Gateway(r) /\ Accept(r))
    /\ SF_vars(\E r \in Requests : Answers(r))
    /\ \A r \in Requests : WF_vars(Gateway(r))
    /\ []<>~cancelled
    /\ <>[][~TwinRestart]_vars
-----------------------------------------------------------------------------
\* Every call of GetPrediction returns, whether or not the twin ever answers.
EveryPredictionReturns ==
    phase \in {"call", "delay"} ~> phase \notin {"call", "delay"}

\* If the twin serves, a step that goes on for ever is taken up by the monitor:
\* requests of other steps, late ones of the steps before it included, do not
\* keep it out.
StepsTakenUp ==
    TwinServes => \A t \in 0..LastStep : now = t ~> (last >= t \/ now # t)
=============================================================================
