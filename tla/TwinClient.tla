----------------------------- MODULE TwinClient -----------------------------
(***************************************************************************)
(* A call of GetPrediction of the Digital Twin client                      *)
(* (pkg/digitaltwin/client.go) in time: the cache, the attempts with their *)
(* timeout, the delay between them, and the context that ends them.  There *)
(* is one caller, the reconciliation loop.                                 *)
(*                                                                         *)
(* Time passes in ticks, and not past the instant at which a timer of the  *)
(* call fires.                                                             *)
(***************************************************************************)
EXTENDS DigitalTwinClient

CONSTANTS
    Horizons,       \* what the loop asks for, in prediction steps
    RetryAttempts,
    Timeout,        \* of one attempt, in ticks
    RetryDelay,     \* in ticks
    CacheEnabled,
    PredictionTTL   \* CacheTTL of this client, in ticks

ASSUME CallAssumption ==
    /\ Horizons \subseteq Nat
    /\ RetryAttempts \in Nat
    /\ Timeout \in Nat \ {0} /\ RetryDelay \in Nat \ {0}
    /\ CacheEnabled \in BOOLEAN
    /\ PredictionTTL \in Nat

Steps == {stepIdx(h) : h \in Horizons}

VARIABLES
    phase,      \* "idle", "call" (an attempt under way), "delay" or "returned"
    horizon,    \* the argument
    attempt,    \* the loop counter
    left,       \* ticks left to the attempt or to the delay
    answer,     \* what the call returns, None being an error
    predictions,  \* Client.cache: step -> None or an answer and the ticks left to it
    cancelled,  \* whether the caller's context is cancelled
    spent       \* auxiliary: the ticks since the call began

callVars   == <<phase, horizon, attempt, left, answer, spent>>
clientVars == <<callVars, predictions, cancelled>>

\* NewClient, and nothing under way.
ClientInit ==
    /\ phase = "idle" /\ horizon = 0 /\ attempt = 0 /\ left = 0 /\ answer = None
    /\ predictions = [i \in Steps |-> None]
    /\ cancelled = FALSE
    /\ spent = 0

-----------------------------------------------------------------------------
\* A prediction with its age, the ticks since its request was sent.
Aging(p, age) == [prediction |-> p, age |-> age]

Returns(result) ==
    /\ phase' = "returned"
    /\ answer' = result
    /\ UNCHANGED <<horizon, attempt, left, spent>>

\* Mutation: one entry for all horizons.
KeyShared(h) == CHOOSE i \in Steps : TRUE

Key(h) == stepIdx(h)

\* getFromCache; an expired entry is None.
Cached(h) == CacheEnabled /\ predictions[Key(h)] # None

Hit(h) ==
    /\ phase = "idle"
    /\ Cached(h)
    /\ phase' = "returned"
    /\ horizon' = h
    /\ answer' = predictions[Key(h)].answer
    /\ UNCHANGED <<attempt, left, predictions, cancelled, spent>>

Ask(h) ==
    /\ phase = "idle"
    /\ ~Cached(h)
    /\ phase' = "call"
    /\ horizon' = h
    /\ left' = Timeout
    /\ UNCHANGED <<attempt, answer, predictions, cancelled, spent>>

\* putInCache.
Put(a) == [answer |-> a, left |-> PredictionTTL]

\* An attempt succeeds.
Succeed(reply) ==
    /\ phase = "call"
    /\ Predicts(reply)
    /\ LET a == Aging(doGetPrediction(reply, horizon), Timeout - left)
       IN  /\ Returns(a)
           /\ predictions' = IF CacheEnabled THEN [predictions EXCEPT ![Key(horizon)] = Put(a)]
                             ELSE predictions
    /\ UNCHANGED cancelled

\* Mutation: one attempt more than configured.
LastOffByOne == attempt = RetryAttempts + 1

Last == attempt = RetryAttempts

\* The request fails, its time is up, its context is cancelled, or the reply
\* is of no use.
Fail ==
    /\ phase = "call"
    /\ \/ /\ ~Last
          /\ phase' = "delay"
          /\ attempt' = attempt + 1
          /\ left' = RetryDelay
          /\ UNCHANGED <<horizon, answer, spent>>
       \/ Last /\ Returns(None)
    /\ UNCHANGED <<predictions, cancelled>>

\* The select between two attempts.
Retry ==
    /\ phase = "delay"
    /\ left = 0
    /\ phase' = "call"
    /\ left' = Timeout
    /\ UNCHANGED <<horizon, attempt, answer, predictions, cancelled, spent>>

Abandon ==
    /\ phase = "delay"
    /\ cancelled
    /\ Returns(None)
    /\ UNCHANGED <<predictions, cancelled>>

\* The caller takes the answer, and the call's variables are gone.
Take ==
    /\ phase = "returned"
    /\ phase' = "idle"
    /\ horizon' = 0 /\ attempt' = 0 /\ left' = 0 /\ answer' = None /\ spent' = 0
    /\ UNCHANGED <<predictions, cancelled>>

\* Mutation: an expired entry is served until another replaces it.
OlderKept(entry) ==
    IF entry = None THEN None
    ELSE [answer |-> Aging(entry.answer.prediction, entry.answer.age + 1),
          left |-> entry.left - 1]

Older(entry) ==
    IF entry = None \/ entry.left = 0 THEN None
    ELSE [answer |-> Aging(entry.answer.prediction, entry.answer.age + 1),
          left |-> entry.left - 1]

\* A timer that has run out fires before time goes on, and a cancelled context
\* ends an attempt or a delay at once.
Elapse ==
    /\ phase \in {"call", "delay"} => left > 0 /\ ~cancelled
    /\ predictions' = [i \in Steps |-> Older(predictions[i])]
    /\ IF phase \in {"call", "delay"} THEN left' = left - 1 /\ spent' = spent + 1
       ELSE UNCHANGED <<left, spent>>
    /\ UNCHANGED <<phase, horizon, attempt, answer, cancelled>>

ClearCache ==
    /\ predictions' = [i \in Steps |-> None]
    /\ UNCHANGED <<callVars, cancelled>>

Cancel ==
    /\ ~cancelled
    /\ cancelled' = TRUE
    /\ UNCHANGED <<callVars, predictions>>
-----------------------------------------------------------------------------
\* The longest a call may take: every attempt times out.
LongestCall == (RetryAttempts + 1) * Timeout + RetryAttempts * RetryDelay

\* However the twin behaves, a call of GetPrediction takes no longer than all
\* its timeouts and delays together.
CallBounded == spent <= LongestCall

\* An answer, from the cache or not, is of a request no longer ago than its
\* timeout and the cache's time to live.
AnswersAreRecent == answer # None => answer.age <= Timeout + PredictionTTL

\* What a call returns is what the abstract GetPrediction, which the loop is
\* modelled with, allows for its horizon: neither the cache, whose entries are
\* shared by horizons of the same step, nor a late reply changes that.
AnswersAsAssumed ==
    phase = "returned" =>
        IF answer = None THEN None \in GetPrediction(horizon)
        ELSE answer.prediction \in GetPrediction(horizon)
=============================================================================
