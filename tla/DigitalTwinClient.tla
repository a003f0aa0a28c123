-------------------------- MODULE DigitalTwinClient -------------------------
(***************************************************************************)
(* The Digital Twin client (pkg/digitaltwin/client.go) as it is deployed,  *)
(* without its cache: how an answer of the Network Digital Twin becomes a  *)
(* prediction.                                                             *)
(*                                                                         *)
(* A reply is None, a request that fails, or a record [preds, rmse] of the *)
(* sequence of predicted loads (percent), one per prediction step, and of  *)
(* the error reported in the trailer, None without a usable one.           *)
(***************************************************************************)
EXTENDS QoSTypes, Sequences

CONSTANTS
    Replies,        \* what one request to the twin may yield
    RMSEDegradedAt  \* the error at which nothing is left of the confidence

ASSUME DegradedAssumption == RMSEDegradedAt \in Nat \ {0}

clamp01(percent) == IF percent < 0 THEN 0 ELSE IF percent > 100 THEN 100 ELSE percent

confidenceFromTrailer(rmse) ==
    IF rmse = None THEN 85 ELSE clamp01(100 - (100 * rmse) \div RMSEDegradedAt)

stepIdx(horizon) == IF horizon < 1 THEN 1 ELSE horizon

Predicts(reply) == reply # None /\ reply.preds # <<>>

\* Beyond the last step of the vector its last load stands for all later ones.
\* The client never fills in a peak.
doGetPrediction(reply, horizon) ==
    LET idx == IF stepIdx(horizon) > Len(reply.preds) THEN Len(reply.preds)
               ELSE stepIdx(horizon)
    IN  [NoPrediction EXCEPT !.load = clamp01(reply.preds[idx]),
                             !.conf = confidenceFromTrailer(reply.rmse)]

\* What a call may return, None being an error.  The attempts of a call are
\* independent: it fails if each does, and returns what the last one yields.
GetPrediction(horizon) ==
    {doGetPrediction(reply, horizon) : reply \in {r \in Replies : Predicts(r)}}
        \cup (IF \E r \in Replies : ~Predicts(r) THEN {None} ELSE {})
=============================================================================
