----------------------------- MODULE RMSEMonitor -----------------------------
(***************************************************************************)
(* What class RMSEMonitor of the gateway is for, if adding a prediction    *)
(* were one step: each prediction step newer than all before it is taken   *)
(* up once, and its error enters the window at most once, later, in any    *)
(* order, or never when there was nothing to compare it with.              *)
(***************************************************************************)
EXTENDS Integers, Sequences

CONSTANTS
    WINDOW_SIZE,    \* of the window
    Errors          \* what a comparison may yield

VARIABLES
    latest,     \* the last step taken up
    pending,    \* the steps taken up and not compared yet
    window      \* the errors of the last comparisons, oldest first

vars == <<latest, pending, window>>

Init ==
    /\ latest = -1
    /\ pending = {}
    /\ window = <<>>

TakeUp ==
    /\ latest' > latest
    /\ pending' = pending \cup {latest'}
    /\ UNCHANGED window

Newest(seq) == IF Len(seq) > WINDOW_SIZE THEN Tail(seq) ELSE seq

Record ==
    /\ \E step \in pending, rmse \in Errors :
          /\ window' = Newest(Append(window, [step |-> step, rmse |-> rmse]))
          /\ pending' = pending \ {step}
    /\ UNCHANGED latest

Forget ==
    /\ \E step \in pending : pending' = pending \ {step}
    /\ UNCHANGED <<latest, window>>

\* The process starts again.
Restart == Init'

Next == TakeUp \/ Record \/ Forget \/ Restart

Spec == Init /\ [][Next]_vars
=============================================================================
