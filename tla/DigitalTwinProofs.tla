------------------------- MODULE DigitalTwinProofs --------------------------
(***************************************************************************)
(* The safety of a call of GetPrediction and of the window of errors of    *)
(* the gateway, for any number of requests, attempts and workers, any      *)
(* timeouts, horizons and replies, and whatever the network loses, the     *)
(* model server fails at or is restarted.                                  *)
(***************************************************************************)
EXTENDS DigitalTwin, TLAPS

PerAttempt == Timeout + RetryDelay

\* The ticks spent are those of the attempts and delays behind the call and
\* of the one under way.
CallInv ==
    /\ phase \in {"idle", "call", "delay", "returned"}
    /\ horizon \in Nat
    /\ attempt \in 0..RetryAttempts
    /\ left \in Nat
    /\ spent \in Nat
    /\ phase = "idle" => spent = 0 /\ attempt = 0
    /\ phase = "call" => left <= Timeout /\ spent <= attempt * PerAttempt + Timeout - left
    /\ phase = "delay" => left <= RetryDelay /\ spent <= attempt * PerAttempt - left
    /\ phase = "returned" => spent <= LongestCall

\* What an entry of the cache still has to live is what its answer may age.
Keeps(entry) ==
    /\ entry.left \in Nat
    /\ entry.answer.age \in Nat
    /\ entry.answer.age + entry.left <= Timeout + PredictionTTL

\* A prediction for every horizon of a step.
Predicted(p, i) == \A h \in Nat : stepIdx(h) = i => p \in GetPrediction(h)

CacheInv ==
    /\ DOMAIN predictions = Steps
    /\ \A i \in Steps : predictions[i] # None =>
          Keeps(predictions[i]) /\ Predicted(predictions[i].answer.prediction, i)
    /\ inbox # None => inbox \in Replies
    /\ phase # "returned" => answer = None
    /\ answer # None =>
          answer.age <= Timeout + PredictionTTL /\ answer.prediction \in GetPrediction(horizon)

Stages == {"free", "queued", "model", "test", "mark", "fetch"}

\* Unless two threads have raced, the step of a thread before the assignment
\* is beyond all others, and the steps after it are at most the last one and
\* all different.
WindowInv ==
    /\ request \in [Requests -> [step : Int, stage : Stages]]
    /\ last \in Int
    /\ now \in Int
    /\ buffer \in Seq([step : Int, rmse : Errors])
    /\ ~raced =>
          /\ \A r, q \in Requests : At(r, "mark") /\ At(q, "mark") => r = q
          /\ \A r \in Requests : At(r, "mark") => request[r].step > last
          /\ \A r \in Requests : At(r, "fetch") =>
                /\ request[r].step <= last
                /\ \A i \in DOMAIN buffer : buffer[i].step # request[r].step
          /\ \A r, q \in Requests :
                At(r, "fetch") /\ At(q, "fetch") /\ request[r].step = request[q].step => r = q
          /\ \A i \in DOMAIN buffer : buffer[i].step <= last
          /\ OneErrorPerStep

-----------------------------------------------------------------------------
(***************************************************************************)
(* The call.                                                               *)
(***************************************************************************)

LEMMA Products ==
    ASSUME NEW a \in Nat, NEW b \in Nat, NEW c \in Nat
    PROVE  /\ (a + 1) * c = a * c + c
           /\ a <= b => a * c <= b * c
  OBVIOUS

LEMMA Longest == LongestCall = RetryAttempts * PerAttempt + Timeout
  BY CallAssumption DEF LongestCall, PerAttempt

LEMMA WithinLongest ==
    ASSUME CallInv
    PROVE  CallBounded
<1>1. PerAttempt \in Nat /\ RetryAttempts \in Nat /\ attempt \in Nat /\ attempt <= RetryAttempts
  BY CallAssumption DEF CallInv, PerAttempt
<1>2. attempt * PerAttempt <= RetryAttempts * PerAttempt
  BY <1>1, Products
<1>3. attempt * PerAttempt \in Nat /\ RetryAttempts * PerAttempt \in Nat
  BY <1>1
<1>4. CASE phase = "idle"
  BY <1>4, <1>3, Longest, CallAssumption DEF CallInv, CallBounded
<1>5. CASE phase \in {"call", "delay"}
  BY <1>2, <1>3, <1>5, Longest, CallAssumption DEF CallInv, CallBounded
<1>6. CASE phase = "returned"
  BY <1>6 DEF CallInv, CallBounded
<1> QED
  BY <1>4, <1>5, <1>6 DEF CallInv

LEMMA CallInvNext == CallInv /\ [Next]_vars => CallInv'
<1> SUFFICES ASSUME CallInv, [Next]_vars PROVE CallInv'
  OBVIOUS
<1> USE CallAssumption
<1>0. PerAttempt \in Nat /\ attempt * PerAttempt \in Nat
  BY DEF PerAttempt, CallInv
<1>1. spent <= LongestCall
  BY WithinLongest DEF CallBounded
<1>2. ASSUME NEW h \in Horizons, Ask(h) PROVE CallInv'
  BY <1>2, <1>0 DEF Ask, CallInv
<1>3. CASE Retry
  BY <1>3, <1>0 DEF Retry, CallInv
<1>4. ASSUME NEW h \in Horizons, Hit(h) PROVE CallInv'
  BY <1>4, <1>1 DEF Hit, CallInv
<1>5. ASSUME NEW reply, Succeed(reply) PROVE CallInv'
  BY <1>5, <1>1 DEF Succeed, Returns, CallInv
<1>6. CASE Fail
  <2>1. CASE ~Last
    <3>1. (attempt + 1) * PerAttempt = attempt * PerAttempt + PerAttempt
      BY Products, <1>0 DEF CallInv
    <3>2. attempt' = attempt + 1 /\ attempt' \in 0..RetryAttempts
      BY <1>6, <2>1 DEF Fail, Last, CallInv
    <3>3. attempt' * PerAttempt = attempt * PerAttempt + Timeout + RetryDelay
      BY <3>1, <3>2, <1>0 DEF PerAttempt
    <3> QED
      BY <1>6, <2>1, <3>2, <3>3, <1>0 DEF Fail, CallInv
  <2>2. CASE Last
    BY <1>6, <2>2, <1>1 DEF Fail, Returns, CallInv
  <2> QED
    BY <2>1, <2>2
<1>7. CASE Abandon
  BY <1>7, <1>1 DEF Abandon, Returns, CallInv
<1>8. CASE Take
  BY <1>8 DEF Take, CallInv
<1>9. CASE Elapse
  BY <1>9, <1>0 DEF Elapse, CallInv
<1>10. CASE OperatorRestart
  BY <1>10 DEF OperatorRestart, CallInv
<1>11. CASE UNCHANGED callVars
  BY <1>11 DEF callVars, CallInv
<1> QED
  BY <1>2, <1>3, <1>4, <1>5, <1>6, <1>7, <1>8, <1>9, <1>10, <1>11
  DEF Next, Send, SendLost, Sends, FromCache, Receive, AttemptFails, Abandons, Takes,
      Clears, Cancels, Elapses, Advance, Answers, Gateway, TwinRestart, ClearCache, Cancel,
      vars, clientVars, callVars

\* However the twin behaves, a call of GetPrediction takes no longer than its
\* timeouts and delays together (client.go).
THEOREM CallsAreBounded == Spec => []CallBounded
<1>1. Init => CallInv
  BY CallAssumption DEF Init, ClientInit, CallInv
<1> QED
  BY <1>1, CallInvNext, WithinLongest, PTL DEF Spec

-----------------------------------------------------------------------------
(***************************************************************************)
(* Its answer.                                                             *)
(***************************************************************************)

LEMMA RequestsMayFail == \A h : None \in GetPrediction(h)
<1>1. None \in Replies /\ ~Predicts(None)
  BY RepliesAssumption DEF Predicts
<1> QED
  BY <1>1 DEF GetPrediction

\* A reply is used alike for all horizons of one step.
LEMMA RepliesPredict ==
    ASSUME NEW reply \in Replies, Predicts(reply), NEW h \in Nat
    PROVE  Predicted(doGetPrediction(reply, h), stepIdx(h))
<1> SUFFICES ASSUME NEW g \in Nat, stepIdx(g) = stepIdx(h)
             PROVE  doGetPrediction(reply, h) \in GetPrediction(g)
  BY DEF Predicted
<1>1. doGetPrediction(reply, h) = doGetPrediction(reply, g)
  BY DEF doGetPrediction
<1> QED
  BY <1>1 DEF GetPrediction

LEMMA OlderKeeps ==
    ASSUME NEW entry, NEW i, entry # None => Keeps(entry) /\ Predicted(entry.answer.prediction, i)
    PROVE  Older(entry) # None => /\ Keeps(Older(entry))
                                  /\ Predicted(Older(entry).answer.prediction, i)
<1> SUFFICES ASSUME entry # None, entry.left # 0
             PROVE  Keeps(Older(entry)) /\ Predicted(Older(entry).answer.prediction, i)
  BY DEF Older
<1>1. Older(entry) = [answer |-> Aging(entry.answer.prediction, entry.answer.age + 1),
                      left |-> entry.left - 1]
  BY DEF Older
<1>2. Older(entry).left = entry.left - 1 /\ Older(entry).answer.age = entry.answer.age + 1
  BY <1>1 DEF Aging
<1>3. Older(entry).answer.prediction = entry.answer.prediction
  BY <1>1 DEF Aging
<1>4. Keeps(Older(entry))
  BY <1>2, CallAssumption DEF Keeps
<1> QED
  BY <1>3, <1>4

LEMMA CacheInvNext == CallInv /\ CacheInv /\ [Next]_vars => CacheInv'
<1> SUFFICES ASSUME CallInv, CacheInv, [Next]_vars PROVE CacheInv'
  OBVIOUS
<1> USE CallAssumption
<1>1. ASSUME NEW h \in Horizons, Ask(h), Send \/ SendLost PROVE CacheInv'
  BY <1>1 DEF Ask, Send, SendLost, Delivered, Lost, Unwired, CacheInv
<1>2. ASSUME Retry, Send \/ SendLost PROVE CacheInv'
  BY <1>2 DEF Retry, Send, SendLost, Delivered, Lost, Unwired, CacheInv
<1>3. ASSUME NEW h \in Horizons, Hit(h), UNCHANGED wires PROVE CacheInv'
  <2>1. Key(h) \in Steps /\ predictions[Key(h)] # None /\ h \in Nat /\ stepIdx(h) = Key(h)
    BY <1>3 DEF Hit, Cached, Key, Steps
  <2>2. /\ Keeps(predictions[Key(h)])
        /\ predictions[Key(h)].answer.prediction \in GetPrediction(h)
    BY <2>1 DEF CacheInv, Predicted
  <2>3. predictions[Key(h)].answer.age <= Timeout + PredictionTTL
    BY <2>2 DEF Keeps
  <2> QED
    BY <1>3, <2>2, <2>3 DEF Hit, wires, CacheInv
<1>4. CASE Receive
  <2> DEFINE p == doGetPrediction(inbox, horizon)
             a == Aging(p, Timeout - left)
  <2>1. /\ inbox \in Replies /\ Predicts(inbox) /\ horizon \in Nat
        /\ left \in Nat /\ left <= Timeout
    BY <1>4 DEF Receive, Succeed, CacheInv, CallInv
  <2>2. Predicted(p, stepIdx(horizon)) /\ p \in GetPrediction(horizon)
    BY <2>1, RepliesPredict DEF Predicted
  <2>3. a.age = Timeout - left /\ a.prediction = p
    BY DEF Aging
  <2>4. Put(a).answer = a /\ Put(a).left = PredictionTTL
    BY DEF Put
  <2>5. Keeps(Put(a))
    BY <2>1, <2>3, <2>4 DEF Keeps
  <2>6. a.age <= Timeout + PredictionTTL
    BY <2>1, <2>3
  <2> HIDE DEF p, a
  <2>7. /\ phase' = "returned" /\ answer' = a /\ UNCHANGED horizon
        /\ inbox' = None
        /\ predictions' = IF CacheEnabled THEN [predictions EXCEPT ![Key(horizon)] = Put(a)]
                          ELSE predictions
    BY <1>4 DEF Receive, Succeed, Returns, Unwired, a, p
  <2>8. DOMAIN predictions' = Steps /\ \A i \in Steps :
           predictions'[i] # None =>
              Keeps(predictions'[i]) /\ Predicted(predictions'[i].answer.prediction, i)
    BY <2>2, <2>3, <2>4, <2>5, <2>7 DEF CacheInv, Key
  <2> QED
    BY <2>2, <2>3, <2>6, <2>7, <2>8 DEF CacheInv
<1>5. CASE AttemptFails
  BY <1>5 DEF AttemptFails, Fail, Returns, Unwired, CacheInv
<1>6. CASE Abandons
  BY <1>6 DEF Abandons, Abandon, Returns, wires, CacheInv
<1>7. CASE Takes
  BY <1>7 DEF Takes, Take, wires, CacheInv
<1>8. CASE Elapses
  <2>1. /\ DOMAIN predictions' = Steps
        /\ \A i \in Steps : predictions'[i] = Older(predictions[i])
        /\ UNCHANGED <<phase, horizon, answer, inbox>>
    BY <1>8 DEF Elapses, Elapse, wires
  <2>2. \A i \in Steps : predictions'[i] # None =>
           Keeps(predictions'[i]) /\ Predicted(predictions'[i].answer.prediction, i)
    BY <2>1, OlderKeeps DEF CacheInv
  <2> QED
    BY <2>1, <2>2 DEF CacheInv
<1>9. CASE Clears
  BY <1>9 DEF Clears, ClearCache, callVars, wires, CacheInv
<1>10. CASE OperatorRestart
  BY <1>10 DEF OperatorRestart, Unwired, CacheInv
<1>11. ASSUME NEW r \in Requests, Answers(r) PROVE CacheInv'
  <2>1. inbox' # None => inbox' \in Replies
    BY <1>11, RepliesAssumption DEF Answers, CacheInv
  <2> QED
    BY <1>11, <2>1 DEF Answers, clientVars, callVars, CacheInv
<1>12. CASE UNCHANGED <<callVars, predictions, inbox>>
  BY <1>12 DEF callVars, CacheInv
<1> QED
  BY <1>1, <1>2, <1>3, <1>4, <1>5, <1>6, <1>7, <1>8, <1>9, <1>10, <1>11, <1>12
  DEF Next, Send, SendLost, Sends, FromCache, Cancels, Cancel, Advance, Gateway, TwinRestart,
      vars, clientVars, wires

LEMMA CacheInvInit == Init => CacheInv
  BY DEF Init, ClientInit, CacheInv

\* What GetPrediction returns, from the cache or not, is no older than the
\* timeout and the time to live allow (client.go).
THEOREM AnswersStayRecent == Spec => []AnswersAreRecent
<1>1. Init => CallInv
  BY CallAssumption DEF Init, ClientInit, CallInv
<1>2. CacheInv => AnswersAreRecent
  BY DEF CacheInv, AnswersAreRecent
<1> QED
  BY <1>1, <1>2, CacheInvInit, CallInvNext, CacheInvNext, PTL DEF Spec

\* The loop may take GetPrediction for the abstract operator: the cache, the
\* attempts and the order of replies add nothing to what it may return.
THEOREM AnswersAreSound == Spec => []AnswersAsAssumed
<1>1. Init => CallInv
  BY CallAssumption DEF Init, ClientInit, CallInv
<1>2. CacheInv => AnswersAsAssumed
  BY RequestsMayFail DEF CacheInv, AnswersAsAssumed
<1> QED
  BY <1>1, <1>2, CacheInvInit, CallInvNext, CacheInvNext, PTL DEF Spec

-----------------------------------------------------------------------------
(***************************************************************************)
(* The window.                                                             *)
(***************************************************************************)

LEMMA Cancellation ==
    ASSUME NEW a \in Int, NEW b \in Int, NEW k \in 0..1, a + k = b + k
    PROVE  a = b
  OBVIOUS

LEMMA Elements ==
    ASSUME NEW S, NEW s \in Seq(S)
    PROVE  \A i \in DOMAIN s : s[i] \in S
  OBVIOUS

\* Pushing an error drops at most the oldest.
LEMMA PushedWindow ==
    ASSUME NEW e, NEW S, e \in S, buffer \in Seq(S)
    PROVE  /\ Pushed(e) \in Seq(S)
           /\ Pushed(e) # <<>> /\ Pushed(e)[Len(Pushed(e))] = e
           /\ \E k \in 0..1 : \A i \in 1..(Len(Pushed(e)) - 1) :
                 i + k \in DOMAIN buffer /\ Pushed(e)[i] = buffer[i + k]
<1>1. CASE Len(buffer) < WINDOW_SIZE
  <2>1. Pushed(e) = Append(buffer, e)
    BY <1>1 DEF Pushed
  <2>2. \A i \in 1..(Len(Pushed(e)) - 1) :
           i + 0 \in DOMAIN buffer /\ Pushed(e)[i] = buffer[i + 0]
    BY <2>1
  <2> QED
    BY <2>1, <2>2
<1>2. CASE ~(Len(buffer) < WINDOW_SIZE)
  <2>1. buffer # <<>>
    BY <1>2, GatewayAssumption
  <2>2. Pushed(e) = Append(Tail(buffer), e)
    BY <1>2 DEF Pushed
  <2>3. Tail(buffer) \in Seq(S) /\ Len(Tail(buffer)) = Len(buffer) - 1
    BY <2>1
  <2>4. \A i \in 1..(Len(Pushed(e)) - 1) :
           i + 1 \in DOMAIN buffer /\ Pushed(e)[i] = buffer[i + 1]
    BY <2>1, <2>2, <2>3
  <2> QED
    BY <2>2, <2>3, <2>4
<1> QED
  BY <1>1, <1>2

LEMMA WindowInvInit == Init => WindowInv
  BY DEF Init, GatewayInit, Free, WindowInv, At, Stages, OneErrorPerStep

\* A thread moves to a stage at which nothing is asked of it.
LEMMA QuietMoves ==
    ASSUME WindowInv, NEW r \in Requests, NEW stage \in Stages \ {"mark", "fetch"},
           NEW step \in Int, request' = [request EXCEPT ![r] = [step |-> step, stage |-> stage]],
           UNCHANGED <<last, buffer, raced>>, now' \in Int
    PROVE  WindowInv'
  BY DEF WindowInv, At, Stages, OneErrorPerStep

LEMMA MovesQuietly ==
    ASSUME WindowInv, NEW r \in Requests, NEW stage \in Stages, Moves(r, stage)
    PROVE  request' = [request EXCEPT ![r] = [step |-> request[r].step, stage |-> stage]]
<1>1. request[r] \in [step : Int, stage : Stages]
  BY DEF WindowInv
<1>2. [request[r] EXCEPT !.stage = stage] = [step |-> request[r].step, stage |-> stage]
  BY <1>1
<1>3. request' = [request EXCEPT ![r] = [request[r] EXCEPT !.stage = stage]]
  BY DEF Moves
<1> QED
  BY <1>2, <1>3

LEMMA ArriveKeeps ==
    ASSUME WindowInv, NEW r \in Requests, Arrive(r, now), UNCHANGED now
    PROVE  WindowInv'
<1>1. request' = [request EXCEPT ![r] = [step |-> now, stage |-> "queued"]]
  BY DEF Arrive
<1> QED
  BY <1>1, QuietMoves DEF Arrive, Stages, WindowInv

LEMMA LeavesKeeps ==
    ASSUME WindowInv, NEW r \in Requests, Leaves(r), UNCHANGED <<last, buffer, raced, now>>
    PROVE  WindowInv'
<1>1. request' = [request EXCEPT ![r] = [step |-> -1, stage |-> "free"]]
  BY DEF Leaves, Free
<1>2. now' \in Int /\ -1 \in Int /\ "free" \in Stages \ {"mark", "fetch"}
  BY DEF WindowInv, Stages
<1> QED
  BY <1>1, <1>2, QuietMoves

LEMMA TestKeeps ==
    ASSUME WindowInv, NEW r \in Requests, Test(r), UNCHANGED now
    PROVE  WindowInv'
<1>1. CASE Newer(request[r].step) /\ Moves(r, "mark")
  <2>1. request' = [request EXCEPT ![r] = [step |-> request[r].step, stage |-> "mark"]]
    BY <1>1, MovesQuietly DEF Stages
  <2>2. /\ raced' = (raced \/ \E q \in Requests : At(q, "mark"))
        /\ UNCHANGED <<last, buffer>>
    BY <1>1 DEF Test, Leaves, Moves, Newer
  <2>3. request[r].step > last
    BY <1>1 DEF Newer
  <2>4. request' \in [Requests -> [step : Int, stage : Stages]]
    BY <2>1 DEF WindowInv, Stages
  <2>5. CASE ~raced'
    <3>1. ~raced /\ \A q \in Requests : ~At(q, "mark")
      BY <2>2, <2>5
    <3>2. \A q \in Requests : At(q, "mark")' => q = r
      BY <2>1, <3>1 DEF At, WindowInv
    <3>3. \A q \in Requests : At(q, "fetch")' => q # r /\ At(q, "fetch") /\ request'[q] = request[q]
      BY <2>1 DEF At, WindowInv
    <3> QED
      BY <2>1, <2>2, <2>3, <2>4, <3>1, <3>2, <3>3 DEF WindowInv, OneErrorPerStep
  <2>6. CASE raced'
    BY <2>2, <2>4, <2>6 DEF WindowInv
  <2> QED
    BY <2>5, <2>6
<1>2. CASE Leaves(r) /\ UNCHANGED raced
  BY <1>2, LeavesKeeps DEF Test
<1> QED
  BY <1>1, <1>2 DEF Test

LEMMA MarkKeeps ==
    ASSUME WindowInv, NEW r \in Requests, Mark(r), UNCHANGED now
    PROVE  WindowInv'
<1>1. request' = [request EXCEPT ![r] = [step |-> request[r].step, stage |-> "fetch"]]
  BY MovesQuietly DEF Mark, Stages
<1>2. last' = request[r].step /\ UNCHANGED <<buffer, raced>> /\ At(r, "mark")
  BY DEF Mark
<1>3. request' \in [Requests -> [step : Int, stage : Stages]] /\ last' \in Int
  BY <1>1, <1>2 DEF WindowInv, Stages
<1>4. CASE ~raced
  <2>1. request[r].step > last
    BY <1>2, <1>4 DEF WindowInv
  <2>2. \A q \in Requests : ~At(q, "mark")'
    BY <1>1, <1>2, <1>4 DEF At, WindowInv
  <2>3. \A q \in Requests : At(q, "fetch")' =>
           \/ q = r /\ request'[q].step = last'
           \/ q # r /\ At(q, "fetch") /\ request'[q] = request[q] /\ request'[q].step < last'
    BY <1>1, <1>2, <1>4, <2>1 DEF At, WindowInv
  <2>4. \A i \in DOMAIN buffer : buffer[i].step < last' /\ buffer[i].step \in Int
    <3>0. buffer \in Seq([step : Int, rmse : Errors])
      BY DEF WindowInv
    <3>1. \A i \in DOMAIN buffer : buffer[i] \in [step : Int, rmse : Errors]
      BY <3>0, Elements
    <3>2. \A i \in DOMAIN buffer : buffer[i].step <= last
      BY <1>4 DEF WindowInv
    <3>3. last \in Int /\ request[r].step \in Int
      BY DEF WindowInv
    <3> QED
      BY <1>2, <2>1, <3>1, <3>2, <3>3
  <2>5. \A q \in Requests : At(q, "fetch")' =>
           /\ request'[q].step <= last'
           /\ \A i \in DOMAIN buffer : buffer[i].step # request'[q].step
    <3> SUFFICES ASSUME NEW q \in Requests, At(q, "fetch")'
                 PROVE  /\ request'[q].step <= last'
                        /\ \A i \in DOMAIN buffer : buffer[i].step # request'[q].step
      OBVIOUS
    <3>1. request'[q].step \in Int /\ last' \in Int
      BY <1>3
    <3>2. CASE q = r /\ request'[q].step = last'
      BY <2>4, <3>1, <3>2
    <3>3. CASE At(q, "fetch") /\ request'[q] = request[q] /\ request'[q].step < last'
      <4>1. \A i \in DOMAIN buffer : buffer[i].step # request[q].step
        BY <1>4, <3>3 DEF WindowInv
      <4> QED
        BY <3>1, <3>3, <4>1
    <3> QED
      BY <2>3, <3>2, <3>3
  <2>6. \A p, q \in Requests :
           At(p, "fetch")' /\ At(q, "fetch")' /\ request'[p].step = request'[q].step => p = q
    <3> SUFFICES ASSUME NEW p \in Requests, NEW q \in Requests,
                        At(p, "fetch")', At(q, "fetch")', request'[p].step = request'[q].step
                 PROVE  p = q
      OBVIOUS
    <3>1. last' \in Int
      BY <1>3
    <3>2. CASE p = r \/ q = r
      BY <2>3, <3>1, <3>2
    <3>3. CASE p # r /\ q # r
      <4>1. At(p, "fetch") /\ At(q, "fetch") /\ request[p].step = request[q].step
        BY <2>3, <3>3
      <4> QED
        BY <1>4, <4>1 DEF WindowInv
    <3> QED
      BY <3>2, <3>3
  <2> QED
    BY <1>2, <1>3, <1>4, <2>2, <2>4, <2>5, <2>6 DEF WindowInv, OneErrorPerStep
<1>5. CASE raced
  BY <1>2, <1>3, <1>5 DEF WindowInv
<1> QED
  BY <1>4, <1>5

LEMMA CompareKeeps ==
    ASSUME WindowInv, NEW r \in Requests, Compare(r), UNCHANGED now
    PROVE  WindowInv'
<1>1. PICK rmse \in Errors : buffer' = Pushed([step |-> request[r].step, rmse |-> rmse])
  BY DEF Compare
<1> DEFINE e == [step |-> request[r].step, rmse |-> rmse]
<1>2. /\ request' = [request EXCEPT ![r] = [step |-> -1, stage |-> "free"]]
      /\ UNCHANGED <<last, raced>> /\ At(r, "fetch")
  BY DEF Compare, Leaves, Free
<1>3. request' \in [Requests -> [step : Int, stage : Stages]]
  BY <1>2 DEF WindowInv, Stages
<1>4. e \in [step : Int, rmse : Errors]
  BY DEF WindowInv
<1>5. /\ buffer' \in Seq([step : Int, rmse : Errors])
      /\ buffer' # <<>> /\ buffer'[Len(buffer')] = e
      /\ \E k \in 0..1 : \A i \in 1..(Len(buffer') - 1) :
            i + k \in DOMAIN buffer /\ buffer'[i] = buffer[i + k]
  <2>1. buffer \in Seq([step : Int, rmse : Errors]) /\ buffer' = Pushed(e)
    BY <1>1 DEF WindowInv
  <2> HIDE DEF e
  <2> QED
    BY <2>1, <1>4, PushedWindow
<1>6. PICK k \in 0..1 : \A i \in 1..(Len(buffer') - 1) :
            i + k \in DOMAIN buffer /\ buffer'[i] = buffer[i + k]
  BY <1>5
<1>7. CASE ~raced
  <2>1. \A i \in DOMAIN buffer' :
           \/ i = Len(buffer') /\ buffer'[i].step = request[r].step
           \/ i + k \in DOMAIN buffer /\ buffer'[i] = buffer[i + k]
    <3>1. \A i \in DOMAIN buffer' : i = Len(buffer') \/ i \in 1..(Len(buffer') - 1)
      BY <1>5
    <3> QED
      BY <1>5, <1>6, <3>1
  <2>2. /\ request[r].step <= last
        /\ \A i \in DOMAIN buffer : buffer[i].step # request[r].step
    BY <1>2, <1>7 DEF WindowInv
  <2>3. \A i \in DOMAIN buffer' : buffer'[i].step <= last
    BY <1>7, <2>1, <2>2 DEF WindowInv
  <2>4. OneErrorPerStep'
    <3> SUFFICES ASSUME NEW i \in DOMAIN buffer', NEW j \in DOMAIN buffer',
                        buffer'[i].step = buffer'[j].step
                 PROVE  i = j
      BY DEF OneErrorPerStep
    <3>1. i \in Int /\ j \in Int
      BY <1>5
    <3>2. CASE i + k \in DOMAIN buffer /\ buffer'[i] = buffer[i + k]
               /\ j + k \in DOMAIN buffer /\ buffer'[j] = buffer[j + k]
      <4>1. i + k = j + k
        BY <1>7, <3>2 DEF WindowInv, OneErrorPerStep
      <4> QED
        BY <3>1, <4>1, Cancellation
    <3>3. \A l \in DOMAIN buffer' :
             \/ l = Len(buffer')
             \/ /\ l + k \in DOMAIN buffer /\ buffer'[l] = buffer[l + k]
                /\ buffer'[l].step # request[r].step
      BY <2>1, <2>2
    <3>4. buffer'[Len(buffer')].step = request[r].step
      BY <1>5
    <3>5. CASE i = Len(buffer')
      BY <3>3, <3>4, <3>5
    <3>6. CASE j = Len(buffer')
      BY <3>3, <3>4, <3>6
    <3> QED
      BY <3>2, <3>3, <3>5, <3>6
  <2>5. \A q \in Requests : At(q, "fetch")' =>
           q # r /\ At(q, "fetch") /\ request'[q] = request[q]
    BY <1>2 DEF At, WindowInv
  <2>6. \A q \in Requests : At(q, "mark")' =>
           At(q, "mark") /\ request'[q] = request[q]
    BY <1>2 DEF At, WindowInv
  <2>7. \A q \in Requests : At(q, "fetch")' => request[q].step # request[r].step
    BY <1>2, <1>7, <2>5 DEF WindowInv
  <2>8. \A q \in Requests : At(q, "fetch")' =>
           \A i \in DOMAIN buffer' : buffer'[i].step # request'[q].step
    BY <1>7, <2>1, <2>5, <2>7 DEF WindowInv
  <2> QED
    BY <1>2, <1>3, <1>5, <1>7, <2>3, <2>4, <2>5, <2>6, <2>8 DEF WindowInv
<1>8. CASE raced
  BY <1>2, <1>3, <1>5, <1>8 DEF WindowInv
<1> QED
  BY <1>7, <1>8

LEMMA WindowInvNext == WindowInv /\ [Next]_vars => WindowInv'
<1> SUFFICES ASSUME WindowInv, [Next]_vars PROVE WindowInv'
  OBVIOUS
<1>1. CASE Send
  BY <1>1, ArriveKeeps DEF Send, Delivered
<1>2. ASSUME NEW r \in Requests, Answers(r) PROVE WindowInv'
  <2>1. request' = [request EXCEPT ![r] = [step |-> request[r].step, stage |-> "test"]]
    BY <1>2, MovesQuietly DEF Answers, MakeInference, Stages
  <2> QED
    BY <1>2, <2>1, QuietMoves DEF Answers, MakeInference, Stages, WindowInv
<1>3. ASSUME NEW r \in Requests, Gateway(r) PROVE WindowInv'
  <2>1. CASE Accept(r)
    <3>1. request' = [request EXCEPT ![r] = [step |-> request[r].step, stage |-> "model"]]
      BY <2>1, MovesQuietly DEF Accept, Stages
    <3> QED
      BY <1>3, <2>1, <3>1, QuietMoves DEF Accept, Gateway, Stages, WindowInv
  <2>2. CASE ModelFails(r) \/ Drop(r) \/ NoActuals(r)
    BY <1>3, <2>2, LeavesKeeps DEF ModelFails, Drop, NoActuals, Gateway
  <2>3. CASE Test(r)
    BY <1>3, <2>3, TestKeeps DEF Gateway
  <2>4. CASE Mark(r)
    BY <1>3, <2>4, MarkKeeps DEF Gateway
  <2>5. CASE Compare(r)
    BY <1>3, <2>5, CompareKeeps DEF Gateway
  <2> QED
    BY <1>3, <2>1, <2>2, <2>3, <2>4, <2>5 DEF Gateway, Handles
<1>4. CASE TwinRestart
  BY <1>4 DEF TwinRestart, GatewayRestart, Free, WindowInv, At, Stages, OneErrorPerStep
<1>5. CASE UNCHANGED gatewayVars /\ now' \in Int
  BY <1>5 DEF gatewayVars, WindowInv, At, OneErrorPerStep
<1>6. CASE Advance \/ OperatorRestart
  BY <1>5, <1>6 DEF Advance, OperatorRestart, WindowInv
<1> QED
  BY <1>1, <1>2, <1>3, <1>4, <1>5, <1>6
  DEF Next, SendLost, Lost, FromCache, Receive, AttemptFails, Abandons, Takes, Clears,
      Cancels, Elapses, vars, WindowInv

\* Whatever requests are repeated, delayed or older than others, the window
\* holds one error of a step, unless two threads were between the test and
\* the assignment of last_request_timestamp at once (ndt-api/main.py).
THEOREM WindowHasOnePerStep == Spec => []OneErrorPerStep
<1>1. WindowInv => OneErrorPerStep
  BY DEF WindowInv, OneErrorPerStep
<1> QED
  BY <1>1, WindowInvInit, WindowInvNext, PTL DEF Spec

-----------------------------------------------------------------------------
(***************************************************************************)
(* Refinement: what each step of the threads is in RMSEMonitor.            *)
(***************************************************************************)
Fetching == {q \in Requests : At(q, "fetch")}

LEMMA PendingKept ==
    ASSUME Fetching' = Fetching, \A q \in Fetching : request'[q].step = request[q].step
    PROVE  UNCHANGED Pending
  BY DEF Fetching, Pending

LEMMA QuietStep ==
    ASSUME UNCHANGED <<last, buffer>>, UNCHANGED Pending
    PROVE  UNCHANGED Monitor!vars
  BY DEF Monitor!vars

\* A thread other than those that compare moves.
LEMMA MovesElsewhere ==
    ASSUME WindowInv, NEW r \in Requests, ~At(r, "fetch"),
           NEW step, NEW stage, stage # "fetch",
           request' = [request EXCEPT ![r] = [step |-> step, stage |-> stage]]
    PROVE  UNCHANGED Pending
<1>1. Fetching' = Fetching
  BY DEF Fetching, At, WindowInv
<1>2. \A q \in Fetching : request'[q].step = request[q].step
  BY DEF Fetching, At, WindowInv
<1> QED
  BY <1>1, <1>2, PendingKept

\* The assignment takes up a step newer than all before it.
LEMMA MarkTakesUp ==
    ASSUME WindowInv, ~raced, NEW r \in Requests, Mark(r)
    PROVE  Monitor!TakeUp
<1>1. request' = [request EXCEPT ![r] = [step |-> request[r].step, stage |-> "fetch"]]
  BY MovesQuietly DEF Mark, Stages
<1>2. last' = request[r].step /\ UNCHANGED buffer /\ At(r, "mark")
  BY DEF Mark
<1>3. last' > last
  BY <1>2 DEF WindowInv
<1>4. Fetching' = Fetching \cup {r} /\ r \notin Fetching
  BY <1>1, <1>2 DEF Fetching, At, WindowInv
<1>5. \A q \in Fetching : request'[q] = request[q]
  BY <1>1, <1>4 DEF Fetching, WindowInv
<1>6. request'[r].step = last'
  BY <1>1, <1>2 DEF WindowInv
<1>7. Pending' = {request'[q].step : q \in Fetching'} /\ Pending = {request[q].step : q \in Fetching}
  BY DEF Pending, Fetching
<1>8. Pending' = Pending \cup {last'}
  BY <1>4, <1>5, <1>6, <1>7
<1> QED
  BY <1>2, <1>3, <1>8 DEF Monitor!TakeUp

\* A thread that is done with a step leaves no other with that step.
LEMMA DoneWithStep ==
    ASSUME WindowInv, ~raced, NEW r \in Requests, At(r, "fetch"), Leaves(r)
    PROVE  request[r].step \in Pending /\ Pending' = Pending \ {request[r].step}
<1>1. request' = [request EXCEPT ![r] = Free]
  BY DEF Leaves
<1>2. Fetching' = Fetching \ {r} /\ r \in Fetching
  BY <1>1 DEF Fetching, At, WindowInv, Free
<1>3. \A q \in Fetching' : request'[q] = request[q]
  BY <1>1, <1>2 DEF Fetching, WindowInv
<1>4. \A q \in Fetching : request[q].step = request[r].step => q = r
  BY DEF Fetching, WindowInv
<1>5. Pending' = {request'[q].step : q \in Fetching'} /\ Pending = {request[q].step : q \in Fetching}
  BY DEF Pending, Fetching
<1> QED
  BY <1>2, <1>3, <1>4, <1>5

LEMMA PushesNewest ==
    ASSUME NEW S, buffer \in Seq(S), NEW e \in S
    PROVE  Pushed(e) = Monitor!Newest(Append(buffer, e))
<1>1. CASE Len(buffer) < WINDOW_SIZE
  BY <1>1, GatewayAssumption DEF Pushed, Monitor!Newest
<1>2. CASE ~(Len(buffer) < WINDOW_SIZE)
  <2>1. Len(buffer) > 0 /\ Len(Append(buffer, e)) > WINDOW_SIZE
    BY <1>2, GatewayAssumption
  <2>2. Tail(Append(buffer, e)) = Append(Tail(buffer), e)
    BY <2>1
  <2> QED
    BY <1>2, <2>1, <2>2 DEF Pushed, Monitor!Newest
<1> QED
  BY <1>1, <1>2

LEMMA CompareRecords ==
    ASSUME WindowInv, ~raced, NEW r \in Requests, Compare(r)
    PROVE  Monitor!Record
<1>1. PICK rmse \in Errors : buffer' = Pushed([step |-> request[r].step, rmse |-> rmse])
  BY DEF Compare
<1> DEFINE e == [step |-> request[r].step, rmse |-> rmse]
<1>2. e \in [step : Int, rmse : Errors] /\ buffer \in Seq([step : Int, rmse : Errors])
  BY DEF WindowInv
<1>3. buffer' = Monitor!Newest(Append(buffer, e))
  <2> HIDE DEF e
  <2>1. Pushed(e) = Monitor!Newest(Append(buffer, e))
    BY <1>2, PushesNewest
  <2> QED
    BY <1>1, <2>1 DEF e
<1>4. request[r].step \in Pending /\ Pending' = Pending \ {request[r].step}
  BY DoneWithStep DEF Compare
<1>5. UNCHANGED last
  BY DEF Compare
<1> QED
  BY <1>3, <1>4, <1>5 DEF Monitor!Record

LEMMA StepIsMonitors == WindowInv /\ [Next]_vars => [raced \/ Monitor!Next]_(Monitor!vars)
<1> SUFFICES ASSUME WindowInv, [Next]_vars, ~raced
             PROVE  Monitor!Next \/ UNCHANGED Monitor!vars
  OBVIOUS
<1>1. ASSUME NEW r \in Requests, Arrive(r, now) PROVE UNCHANGED Monitor!vars
  <2>1. request' = [request EXCEPT ![r] = [step |-> now, stage |-> "queued"]]
    BY <1>1 DEF Arrive
  <2> QED
    BY <1>1, <2>1, MovesElsewhere, QuietStep DEF Arrive, At
<1>2. ASSUME NEW r \in Requests, Accept(r) \/ MakeInference(r) PROVE UNCHANGED Monitor!vars
  <2>1. \E stage \in {"model", "test"} :
           request' = [request EXCEPT ![r] = [step |-> request[r].step, stage |-> stage]]
    BY <1>2, MovesQuietly DEF Accept, MakeInference, Stages
  <2>2. ~At(r, "fetch") /\ UNCHANGED <<last, buffer>>
    BY <1>2 DEF Accept, MakeInference, At
  <2> QED
    BY <2>1, <2>2, MovesElsewhere, QuietStep
<1>3. ASSUME NEW r \in Requests, Leaves(r), ~At(r, "fetch"), UNCHANGED <<last, buffer>>
      PROVE  UNCHANGED Monitor!vars
  <2>1. request' = [request EXCEPT ![r] = [step |-> -1, stage |-> "free"]]
    BY <1>3 DEF Leaves, Free
  <2> QED
    BY <1>3, <2>1, MovesElsewhere, QuietStep
<1>4. ASSUME NEW r \in Requests, Test(r) PROVE UNCHANGED Monitor!vars
  <2>1. CASE Moves(r, "mark")
    <3>1. request' = [request EXCEPT ![r] = [step |-> request[r].step, stage |-> "mark"]]
      BY <2>1, MovesQuietly DEF Stages
    <3> QED
      BY <1>4, <3>1, MovesElsewhere, QuietStep DEF Test, At
  <2>2. CASE Leaves(r)
    BY <1>3, <1>4, <2>2 DEF Test, At
  <2> QED
    BY <1>4, <2>1, <2>2 DEF Test
<1>5. ASSUME NEW r \in Requests, Mark(r) PROVE Monitor!Next
  BY <1>5, MarkTakesUp DEF Monitor!Next
<1>6. ASSUME NEW r \in Requests, Compare(r) PROVE Monitor!Next
  BY <1>6, CompareRecords DEF Monitor!Next
<1>7. ASSUME NEW r \in Requests, NoActuals(r) PROVE Monitor!Next
  BY <1>7, DoneWithStep DEF NoActuals, Monitor!Forget, Monitor!Next
<1>8. CASE TwinRestart
  <2>1. last' = -1 /\ buffer' = <<>> /\ request' = [r \in Requests |-> Free]
    BY <1>8 DEF TwinRestart, GatewayRestart
  <2>2. Pending' = {}
    BY <2>1 DEF Pending, At, Free
  <2> QED
    BY <2>1, <2>2 DEF Monitor!Next, Monitor!Restart, Monitor!Init
<1>9. ASSUME UNCHANGED gatewayVars PROVE UNCHANGED Monitor!vars
  BY <1>9 DEF gatewayVars, Pending, At, Monitor!vars
<1> QED
  BY <1>1, <1>2, <1>3, <1>4, <1>5, <1>6, <1>7, <1>8, <1>9
  DEF Next, Send, Delivered, SendLost, Lost, FromCache, Receive, AttemptFails, Abandons,
      Takes, Clears, Cancels, Elapses, Advance, Answers, Gateway, Handles, ModelFails, Drop,
      OperatorRestart, vars, At

\* Added in three steps by many threads, predictions enter the window as in a
\* monitor that adds one at a time, until two threads meet between the test
\* and the assignment of last_request_timestamp (ndt-api/main.py).
THEOREM GatewayImplementsMonitor == Spec => ImplementsMonitor
<1>1. Init => Monitor!Init
  BY DEF Init, GatewayInit, Monitor!Init, Pending, At, Free
<1> QED
  BY <1>1, WindowInvInit, WindowInvNext, StepIsMonitors, PTL DEF Spec, ImplementsMonitor
=============================================================================
