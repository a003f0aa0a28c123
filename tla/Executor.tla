------------------------------ MODULE Executor ------------------------------
(***************************************************************************)
(* The directive executor (pkg/executor/executor.go), step by step: a call *)
(* of Execute waits for one of MaxConcurrentExecutions permits, looks up   *)
(* the object it is about, and reads, modifies and updates that object,    *)
(* again after every failure until its attempts are used up; then it gives *)
(* the permit back, records its outcome and returns.                       *)
(*                                                                         *)
(* Meanwhile other callers do the same, other programs change, delete and  *)
(* recreate the objects, workloads are registered, requests fail, updates  *)
(* are applied whose answer is lost, and the context is cancelled.         *)
(*                                                                         *)
(* Of a resourceVersion only its being current matters: current holds the  *)
(* callers whose copy still has the version of the object they read.       *)
(***************************************************************************)
EXTENDS ScalingTargets, Sequences

CONSTANT HistoryCap             \* the 1000 records recordExecution keeps

ASSUME HistoryAssumption == HistoryCap \in Nat \ {0}

VARIABLES
    objects, registry, dryRun,
    semaphore,  \* len(e.semaphore), the permits taken
    history,    \* e.history: success or failure of each call, oldest first
    cancelled,  \* whether the callers' context is cancelled
    pc,         \* where each caller is
    directive,  \* the argument of each caller's call
    info,       \* what each caller looked up
    attempt,    \* the loop counter of each caller
    copy,       \* the object each caller read
    current,    \* the callers whose copy is of the current version
    success     \* the outcome of each caller's call

locals == <<pc, directive, info, attempt, copy, success>>
vars   == <<objects, registry, dryRun, semaphore, history, cancelled, current, locals>>

Init ==
    /\ objects \in [Objects -> Contents \cup {None}]
    /\ registry = [w \in {} |-> None]
    /\ dryRun \in BOOLEAN
    /\ semaphore = 0
    /\ history = <<>>
    /\ cancelled = FALSE
    /\ pc = [c \in Callers |-> "idle"]
    /\ directive = [c \in Callers |-> None]
    /\ info = [c \in Callers |-> None]
    /\ attempt = [c \in Callers |-> 0]
    /\ copy = [c \in Callers |-> None]
    /\ current = {}
    /\ success = [c \in Callers |-> FALSE]

-----------------------------------------------------------------------------
(***************************************************************************)
(* A call, up to its first attempt.                                        *)
(***************************************************************************)
Call(c, d) ==
    /\ pc[c] = "idle"
    /\ pc' = [pc EXCEPT ![c] = "wait"]
    /\ directive' = [directive EXCEPT ![c] = d]
    /\ UNCHANGED <<objects, registry, dryRun, semaphore, history, cancelled, current,
                   info, attempt, copy, success>>

\* A send on the semaphore and the look-up that follows it.
Acquire(c) ==
    /\ pc[c] = "wait"
    /\ semaphore < MaxConcurrentExecutions
    /\ semaphore' = semaphore + 1
    /\ info' = [info EXCEPT ![c] = Lookup(registry, directive[c].id)]
    /\ attempt' = [attempt EXCEPT ![c] = 0]
    /\ pc' = [pc EXCEPT ![c] = "attempt"]
    /\ UNCHANGED <<objects, registry, dryRun, history, cancelled, current,
                   directive, copy, success>>

\* Mutation: a call that never got a permit returns one.
GiveUpReleasing(c) ==
    /\ pc[c] = "wait"
    /\ cancelled
    /\ pc' = [pc EXCEPT ![c] = "release"]
    /\ success' = [success EXCEPT ![c] = FALSE]
    /\ UNCHANGED <<objects, registry, dryRun, semaphore, history, cancelled, current,
                   directive, info, attempt, copy>>

\* The context is done first: the call returns without a permit.
GiveUp(c) ==
    /\ pc[c] = "wait"
    /\ cancelled
    /\ pc' = [pc EXCEPT ![c] = "record"]
    /\ success' = [success EXCEPT ![c] = FALSE]
    /\ UNCHANGED <<objects, registry, dryRun, semaphore, history, cancelled, current,
                   directive, info, attempt, copy>>

-----------------------------------------------------------------------------
(***************************************************************************)
(* An attempt.                                                             *)
(***************************************************************************)
Succeeds(c) ==
    /\ pc' = [pc EXCEPT ![c] = "release"]
    /\ success' = [success EXCEPT ![c] = TRUE]
    /\ UNCHANGED attempt

\* Mutation: the loop counter is not advanced.
FailsForEver(c) ==
    /\ pc' = [pc EXCEPT ![c] = "sleep"]
    /\ UNCHANGED <<attempt, success>>

FailsOnce(c) ==
    IF attempt[c] < RetryAttempts
    THEN /\ pc' = [pc EXCEPT ![c] = "sleep"]
         /\ attempt' = [attempt EXCEPT ![c] = attempt[c] + 1]
         /\ UNCHANGED success
    ELSE /\ pc' = [pc EXCEPT ![c] = "release"]
         /\ success' = [success EXCEPT ![c] = FALSE]
         /\ UNCHANGED attempt

Requests(c) == ~dryRun /\ Executable(directive[c], info[c])

Skip(c) ==
    /\ pc[c] = "attempt"
    /\ dryRun \/ Silent(directive[c])
    /\ Succeeds(c)
    /\ UNCHANGED <<objects, registry, dryRun, semaphore, history, cancelled, current,
                   directive, info, copy>>

\* An unknown action or type, a missing payload, an unsupported kind.
Reject(c) ==
    /\ pc[c] = "attempt"
    /\ ~dryRun /\ ~Silent(directive[c]) /\ ~Executable(directive[c], info[c])
    /\ FailsOnce(c)
    /\ UNCHANGED <<objects, registry, dryRun, semaphore, history, cancelled, current,
                   directive, info, copy>>

Present(o) == o \in Objects /\ objects[o] # None

Get(c) ==
    /\ pc[c] = "attempt"
    /\ Requests(c)
    /\ Present(Target(info[c])) /\ ~cancelled
    /\ copy' = [copy EXCEPT ![c] = objects[Target(info[c])]]
    /\ current' = current \cup {c}
    /\ pc' = [pc EXCEPT ![c] = "update"]
    /\ UNCHANGED <<objects, registry, dryRun, semaphore, history, cancelled,
                   directive, info, attempt, success>>

\* No such object, the context is cancelled, or the request fails.
GetFails(c) ==
    /\ pc[c] = "attempt"
    /\ Requests(c)
    /\ FailsOnce(c)
    /\ UNCHANGED <<objects, registry, dryRun, semaphore, history, cancelled, current,
                   directive, info, copy>>

\* Mutation: the update carries no resourceVersion.
ApplyUpdateBlindly(c) ==
    LET o   == Target(info[c])
        new == Scaled(copy[c], info[c], directive[c])
    IN  /\ objects' = [objects EXCEPT ![o] = new]
        /\ current' = {b \in current \ {c} : Target(info[b]) # o \/ new = objects[o]}

\* The API server takes an update only of the current version; an update
\* that changes nothing makes no new version.
ApplyUpdate(c) ==
    LET o   == Target(info[c])
        new == Scaled(copy[c], info[c], directive[c])
    IN  /\ c \in current
        /\ objects' = [objects EXCEPT ![o] = new]
        /\ current' = {b \in current \ {c} : Target(info[b]) # o \/ new = objects[o]}

Dropped(c) == copy' = [copy EXCEPT ![c] = None]

Update(c) ==
    /\ pc[c] = "update"
    /\ ~cancelled
    /\ ApplyUpdate(c)
    /\ Succeeds(c)
    /\ Dropped(c)
    /\ UNCHANGED <<registry, dryRun, semaphore, history, cancelled, directive, info>>

\* The update is applied, but its answer never arrives.
UpdateLost(c) ==
    /\ pc[c] = "update"
    /\ ApplyUpdate(c)
    /\ FailsOnce(c)
    /\ Dropped(c)
    /\ UNCHANGED <<registry, dryRun, semaphore, history, cancelled, directive, info>>

\* Mutation: the update is sent with a context of its own.
UpdateFailsDetached(c) ==
    /\ pc[c] = "update"
    /\ ~cancelled
    /\ current' = current \ {c}
    /\ FailsOnce(c)
    /\ Dropped(c)
    /\ UNCHANGED <<objects, registry, dryRun, semaphore, history, cancelled,
                   directive, info>>

\* A conflict, a deleted object, a cancelled context or a failing request.
UpdateFails(c) ==
    /\ pc[c] = "update"
    /\ current' = current \ {c}
    /\ FailsOnce(c)
    /\ Dropped(c)
    /\ UNCHANGED <<objects, registry, dryRun, semaphore, history, cancelled,
                   directive, info>>

\* time.Sleep does not look at the context.
Wake(c) ==
    /\ pc[c] = "sleep"
    /\ pc' = [pc EXCEPT ![c] = "attempt"]
    /\ UNCHANGED <<objects, registry, dryRun, semaphore, history, cancelled, current,
                   directive, info, attempt, copy, success>>

-----------------------------------------------------------------------------
(***************************************************************************)
(* The deferred calls: last in, first out.                                 *)
(***************************************************************************)
Release(c) ==
    /\ pc[c] = "release"
    /\ semaphore > 0
    /\ semaphore' = semaphore - 1
    /\ pc' = [pc EXCEPT ![c] = "record"]
    /\ UNCHANGED <<objects, registry, dryRun, history, cancelled, current,
                   directive, info, attempt, copy, success>>

\* Mutation: one record too many is kept.
NewestOffByOne(seq) ==
    IF Len(seq) <= HistoryCap + 1 THEN seq
    ELSE SubSeq(seq, Len(seq) - HistoryCap + 1, Len(seq))

Newest(seq) ==
    IF Len(seq) <= HistoryCap THEN seq
    ELSE SubSeq(seq, Len(seq) - HistoryCap + 1, Len(seq))

\* The call returns, and its local variables with it.
recordExecution(c) ==
    /\ pc[c] = "record"
    /\ history' = Newest(Append(history, success[c]))
    /\ pc' = [pc EXCEPT ![c] = "idle"]
    /\ directive' = [directive EXCEPT ![c] = None]
    /\ info' = [info EXCEPT ![c] = None]
    /\ attempt' = [attempt EXCEPT ![c] = 0]
    /\ success' = [success EXCEPT ![c] = FALSE]
    /\ UNCHANGED <<objects, registry, dryRun, semaphore, cancelled, current, copy>>

-----------------------------------------------------------------------------
(***************************************************************************)
(* The rest of the world.                                                  *)
(***************************************************************************)
RegisterWorkload(w, i) ==
    /\ registry' = [v \in DOMAIN registry \cup {w} |-> IF v = w THEN i ELSE registry[v]]
    /\ UNCHANGED <<objects, dryRun, semaphore, history, cancelled, current, locals>>

Cancel ==
    /\ ~cancelled
    /\ cancelled' = TRUE
    /\ UNCHANGED <<objects, registry, dryRun, semaphore, history, current, locals>>

\* Every write by another program makes a new version, also one that leaves
\* replicas and template alone (a status update).
Edit(o, content) ==
    /\ objects' = [objects EXCEPT ![o] = content]
    /\ current' = {c \in current : Target(info[c]) # o}
    /\ UNCHANGED <<registry, dryRun, semaphore, history, cancelled, locals>>

\* What the executor does by itself, and what an answer makes it do.
Local(c)    == Skip(c) \/ Reject(c) \/ Wake(c) \/ Release(c) \/ recordExecution(c)
Answered(c) == Get(c) \/ GetFails(c) \/ Update(c) \/ UpdateLost(c) \/ UpdateFails(c)
Aborted(c)  == cancelled /\ (GetFails(c) \/ UpdateFails(c))
Enter(c)    == Acquire(c) \/ GiveUp(c)

Next ==
    \/ \E c \in Callers :
          \/ \E d \in Directives : Call(c, d)
          \/ Enter(c) \/ Local(c) \/ Answered(c)
    \/ \E w \in Workloads, i \in Infos : RegisterWorkload(w, i)
    \/ Cancel
    \/ \E o \in Objects, content \in Contents \cup {None} : Edit(o, content)

Spec == Init /\ [][Next]_vars

\* Goroutines run; senders on a channel are served first come, first served,
\* so one that waits is not passed over for ever; a cancelled context ends a
\* request.  Nothing else bounds the time the API server takes to answer:
\* ExecutionTimeout is never used.
OwnFairness ==
    \A c \in Callers : WF_vars(Local(c)) /\ WF_vars(Aborted(c)) /\ SF_vars(Enter(c))

UnansweredSpec == Spec /\ OwnFairness

\* An API server that answers, or a connection that fails, in the end.
ServerAnswers == \A c \in Callers : WF_vars(Answered(c))
-----------------------------------------------------------------------------
Holding == {"attempt", "update", "sleep", "release"}
Holders == {c \in Callers : pc[c] \in Holding}

\* The shapes of the executor's fields and of a call's local variables; the
\* history never outgrows its bound.
TypeOK ==
    /\ objects \in [Objects -> Content \cup {None}]
    /\ DOMAIN registry \subseteq Workloads
    /\ \A w \in DOMAIN registry : registry[w] \in WorkloadInfo
    /\ dryRun \in BOOLEAN
    /\ semaphore \in Nat
    /\ history \in Seq(BOOLEAN) /\ Len(history) <= HistoryCap
    /\ cancelled \in BOOLEAN
    /\ pc \in [Callers -> {"idle", "wait", "record"} \cup Holding]
    /\ directive \in [Callers -> Directives \cup {None}]
    /\ info \in [Callers -> WorkloadInfo \cup {None}]
    /\ attempt \in [Callers -> 0..RetryAttempts]
    /\ copy \in [Callers -> Content \cup {None}]
    /\ current \subseteq Callers
    /\ success \in [Callers -> BOOLEAN]

\* The permits taken are exactly those of the calls between their send and
\* their deferred receive, on every path through a call (success, every
\* attempt failed, context cancelled while waiting): none is leaked, none is
\* returned twice, and no more than MaxConcurrentExecutions calls execute.
PermitsAccounted ==
    /\ semaphore = Cardinality(Holders)
    /\ semaphore <= MaxConcurrentExecutions

\* Every call of Execute returns, whatever fails, if requests are answered.
EveryCallReturns ==
    ServerAnswers => \A c \in Callers : pc[c] # "idle" ~> pc[c] = "idle"

\* Once the context is cancelled every call returns, also one whose request is
\* never answered or whose permit is held by such a call.
CancelledCallsReturn ==
    \A c \in Callers : cancelled /\ pc[c] # "idle" ~> pc[c] = "idle"

\* The steps a call takes at most until it has returned: three for each
\* attempt to come, and those of its place in an attempt.
StepsLeft(c) ==
    LET more == 3 * (RetryAttempts - attempt[c])
    IN  CASE pc[c] = "idle"    -> 0
          [] pc[c] = "record"  -> 1
          [] pc[c] = "release" -> 2
          [] pc[c] = "update"  -> more + 3
          [] pc[c] = "attempt" -> more + 4
          [] pc[c] = "sleep"   -> more + 5
          [] pc[c] = "wait"    -> 3 * RetryAttempts + 5

\* Every step of a call is one of boundedly many, and no step of another call,
\* a user or the cluster gives it more to do: conflicts, lost answers and
\* cancellation cost attempts, and attempts run out.
CallsRunOut ==
    [][\A c \in Callers : pc[c] # "idle" =>
          UNCHANGED <<pc[c], attempt[c]>> \/ StepsLeft(c)' < StepsLeft(c)]_vars

-----------------------------------------------------------------------------
(***************************************************************************)
(* The read-modify-update loop implements ScalingCalls: changes made by    *)
(* others between a call's read and its update are never undone, a call    *)
(* that reports success has changed its object, and the object changes at  *)
(* most once per attempt.                                                  *)
(***************************************************************************)
AtWork == {"attempt", "update", "sleep"}

Doing(c) ==
    IF pc[c] \in AtWork
    THEN [directive |-> directive[c], info |-> info[c],
          left |-> RetryAttempts + 1 - attempt[c]]
    ELSE None

Calls == INSTANCE ScalingCalls WITH doing <- [c \in Callers |-> Doing(c)]

ImplementsCalls == Calls!Spec
=============================================================================
