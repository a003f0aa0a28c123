--------------------------- MODULE ExecutorProofs ---------------------------
(***************************************************************************)
(* Theorems of Executor, for every set of callers, objects and directives, *)
(* every number of permits and attempts, and every history bound.          *)
(***************************************************************************)
EXTENDS Executor, FiniteSetTheorems, TLAPS

-----------------------------------------------------------------------------
(***************************************************************************)
(* What a directive makes of an object, and what a look-up finds.          *)
(***************************************************************************)
LEMMA ScaledType ==
    ASSUME NEW object \in Content, NEW i \in WorkloadInfo, NEW d \in Directives,
           Executable(d, i)
    PROVE  Scaled(object, i, d) \in Content
<1>1. d \in Directive
  BY TargetsAssumption
<1>2. CASE d.type = "horizontal"
  BY <1>1, <1>2 DEF Scaled, Content, Executable, Directive
<1>3. CASE d.type # "horizontal"
  <2>1. d.newResources \in Pods
    BY <1>1, <1>3 DEF Executable, Directive
  <2>2. ContainerResources(i, d.newResources) \in Pods
    BY <2>1 DEF ContainerResources, Pods
  <2>3. object.template \in [Containers -> Pods] /\ object.replicas \in Int
    BY DEF Content
  <2> QED
    BY <1>3, <2>2, <2>3 DEF Scaled, Content
<1> QED
  BY <1>2, <1>3

LEMMA LookupType ==
    ASSUME NEW r, \A w \in DOMAIN r : r[w] \in WorkloadInfo, NEW d \in Directives
    PROVE  Lookup(r, d.id) \in WorkloadInfo
<1>1. d.id \in Names
  BY TargetsAssumption DEF Directive
<1>2. [name |-> d.id, kind |-> "Deployment", containers |-> {}] \in WorkloadInfo
  BY <1>1, TargetsAssumption DEF WorkloadInfo
<1> QED
  BY <1>2, Zenon DEF Lookup

LEMMA NewestType ==
    ASSUME NEW h \in Seq(BOOLEAN), Len(h) <= HistoryCap, NEW b \in BOOLEAN
    PROVE  /\ Newest(Append(h, b)) \in Seq(BOOLEAN)
           /\ Len(Newest(Append(h, b))) <= HistoryCap
<1> DEFINE g == Append(h, b)
<1>1. g \in Seq(BOOLEAN) /\ Len(g) = Len(h) + 1
  OBVIOUS
<1> HIDE DEF g
<1>2. Newest(g) \in Seq(BOOLEAN) /\ Len(Newest(g)) <= HistoryCap
  <2>1. CASE Len(g) <= HistoryCap
    BY <1>1, <2>1 DEF Newest
  <2>2. CASE Len(g) > HistoryCap
    <3> DEFINE m == Len(g) - HistoryCap + 1
    <3>1. m \in 1..Len(g) /\ Len(g) - m + 1 = HistoryCap
      BY <1>1, <2>2, HistoryAssumption
    <3>2. SubSeq(g, m, Len(g)) \in Seq(BOOLEAN)
      BY <1>1, <3>1
    <3>3. Len(SubSeq(g, m, Len(g))) = HistoryCap
      BY <1>1, <3>1
    <3>4. Newest(g) = SubSeq(g, m, Len(g))
      BY <1>1, <2>2, HistoryAssumption DEF Newest
    <3> HIDE DEF m
    <3> QED
      BY <3>2, <3>3, <3>4, HistoryAssumption
  <2> QED
    BY <1>1, <2>1, <2>2, HistoryAssumption
<1> QED
  BY <1>2 DEF g

-----------------------------------------------------------------------------
(***************************************************************************)
(* Types, and what a caller's place in a call says of its local variables. *)
(***************************************************************************)
InCall ==
    \A c \in Callers :
        /\ pc[c] # "idle" => directive[c] \in Directives
        /\ pc[c] \in Holding => info[c] \in WorkloadInfo
        /\ pc[c] = "update" => Requests(c)

\* A copy whose version is current is the object itself: what makes the
\* update of a copy read some steps ago safe.
CurrentCopies ==
    \A c \in current :
        /\ pc[c] = "update"
        /\ Present(Target(info[c]))
        /\ copy[c] = objects[Target(info[c])]

Inv == TypeOK /\ InCall /\ CurrentCopies

LEMMA InvInit == Init => Inv
<1> SUFFICES ASSUME Init PROVE Inv
  OBVIOUS
<1>2. TypeOK
  <2>1. history \in Seq(BOOLEAN) /\ Len(history) <= HistoryCap
    BY HistoryAssumption DEF Init
  <2>2. objects \in [Objects -> Content \cup {None}]
    BY TargetsAssumption DEF Init
  <2>3. DOMAIN registry = {}
    BY DEF Init
  <2>4. /\ pc \in [Callers -> {"idle", "wait", "record"} \cup Holding]
        /\ attempt \in [Callers -> 0..RetryAttempts]
    BY LimitsAssumption DEF Init, Holding
  <2>5. /\ directive \in [Callers -> Directives \cup {None}]
        /\ info \in [Callers -> WorkloadInfo \cup {None}]
        /\ copy \in [Callers -> Content \cup {None}]
        /\ success \in [Callers -> BOOLEAN]
    BY DEF Init
  <2>6. semaphore \in Nat /\ dryRun \in BOOLEAN /\ cancelled \in BOOLEAN /\ current \subseteq Callers
    BY DEF Init
  <2> QED
    BY <2>1, <2>2, <2>3, <2>4, <2>5, <2>6 DEF TypeOK
<1>3. InCall
  BY DEF Init, InCall, Holding
<1>4. CurrentCopies
  BY DEF Init, CurrentCopies
<1> QED
  BY <1>2, <1>3, <1>4 DEF Inv

\* A failed attempt leaves the loop counter within its range.
LEMMA FailsOnceType ==
    ASSUME TypeOK, NEW c \in Callers, pc[c] \in Holding, FailsOnce(c)
    PROVE  /\ pc' \in [Callers -> {"idle", "wait", "record"} \cup Holding]
           /\ attempt' \in [Callers -> 0..RetryAttempts]
           /\ success' \in [Callers -> BOOLEAN]
           /\ pc'[c] \in {"sleep", "release"}
           /\ \A b \in Callers \ {c} : pc'[b] = pc[b]
<1> USE DEF TypeOK, Holding
<1>1. CASE attempt[c] < RetryAttempts
  <2>1. attempt[c] + 1 \in 0..RetryAttempts
    BY <1>1, LimitsAssumption
  <2>2. /\ pc' = [pc EXCEPT ![c] = "sleep"]
        /\ attempt' = [attempt EXCEPT ![c] = attempt[c] + 1]
        /\ success' = success
    BY <1>1 DEF FailsOnce
  <2> QED
    BY <2>1, <2>2
<1>2. CASE ~(attempt[c] < RetryAttempts)
  BY <1>2 DEF FailsOnce
<1> QED
  BY <1>1, <1>2

\* A successful one ends the loop.
LEMMA SucceedsType ==
    ASSUME TypeOK, NEW c \in Callers, pc[c] \in Holding, Succeeds(c)
    PROVE  /\ pc' \in [Callers -> {"idle", "wait", "record"} \cup Holding]
           /\ attempt' \in [Callers -> 0..RetryAttempts]
           /\ success' \in [Callers -> BOOLEAN]
           /\ pc'[c] = "release"
           /\ \A b \in Callers \ {c} : pc'[b] = pc[b]
  BY DEF TypeOK, Holding, Succeeds

\* An applied update leaves an object of the right shape.
LEMMA ApplyUpdateType ==
    ASSUME Inv, NEW c \in Callers, pc[c] = "update", ApplyUpdate(c)
    PROVE  /\ Target(info[c]) \in Objects
           /\ objects[Target(info[c])] # None
           /\ objects' = [objects EXCEPT ![Target(info[c])] =
                             Scaled(objects[Target(info[c])], info[c], directive[c])]
           /\ objects' \in [Objects -> Content \cup {None}]
           /\ objects'[Target(info[c])] # None
<1> DEFINE o == Target(info[c])
<1>1. c \in current /\ objects' = [objects EXCEPT ![o] = Scaled(copy[c], info[c], directive[c])]
  BY DEF ApplyUpdate
<1>2. o \in Objects /\ objects[o] # None /\ copy[c] = objects[o]
  BY <1>1, Zenon DEF Inv, CurrentCopies, Present
<1>3. /\ info[c] \in WorkloadInfo
      /\ directive[c] \in Directives
      /\ Executable(directive[c], info[c])
  BY DEF Inv, InCall, Holding, Requests
<1>4. objects[o] \in Content
  BY <1>2 DEF Inv, TypeOK
<1>5. Scaled(objects[o], info[c], directive[c]) \in Content
  BY <1>3, <1>4, ScaledType
<1>6. objects \in [Objects -> Content \cup {None}] /\ None \notin Content
  BY TargetsAssumption DEF Inv, TypeOK
<1> HIDE DEF o
<1> QED
  BY <1>1, <1>2, <1>5, <1>6 DEF o

LEMMA TypeStep == Inv /\ [Next]_vars => TypeOK'
<1> SUFFICES ASSUME Inv, [Next]_vars PROVE TypeOK'
  OBVIOUS
<1>0. TypeOK /\ InCall
  BY DEF Inv
<1>1. ASSUME NEW c \in Callers, NEW d \in Directives, Call(c, d) PROVE TypeOK'
  BY <1>0, <1>1 DEF TypeOK, Call, Holding
<1>2. ASSUME NEW c \in Callers, Acquire(c) PROVE TypeOK'
  <2>1. Lookup(registry, directive[c].id) \in WorkloadInfo
    BY <1>0, <1>2, LookupType DEF TypeOK, InCall, Acquire
  <2> QED
    BY <1>0, <1>2, <2>1, LimitsAssumption DEF TypeOK, Acquire, Holding
<1>3. ASSUME NEW c \in Callers, GiveUp(c) PROVE TypeOK'
  BY <1>0, <1>3 DEF TypeOK, GiveUp, Holding
<1>4. ASSUME NEW c \in Callers, Skip(c) PROVE TypeOK'
  <2>1. pc[c] \in Holding /\ Succeeds(c)
    BY <1>4 DEF Skip, Holding
  <2> QED
    BY <1>0, <1>4, <2>1, SucceedsType DEF TypeOK, Skip
<1>5. ASSUME NEW c \in Callers, Reject(c) PROVE TypeOK'
  <2>1. pc[c] \in Holding /\ FailsOnce(c)
    BY <1>5 DEF Reject, Holding
  <2> QED
    BY <1>0, <1>5, <2>1, FailsOnceType DEF TypeOK, Reject
<1>6. ASSUME NEW c \in Callers, Get(c) PROVE TypeOK'
  <2>1. objects[Target(info[c])] \in Content
    BY <1>0, <1>6 DEF TypeOK, Get, Present
  <2> QED
    BY <1>0, <1>6, <2>1 DEF TypeOK, Get, Holding
<1>7. ASSUME NEW c \in Callers, GetFails(c) PROVE TypeOK'
  <2>1. pc[c] \in Holding /\ FailsOnce(c)
    BY <1>7 DEF GetFails, Holding
  <2> QED
    BY <1>0, <1>7, <2>1, FailsOnceType DEF TypeOK, GetFails
<1>8. ASSUME NEW c \in Callers, Update(c) PROVE TypeOK'
  <2>1. pc[c] = "update" /\ pc[c] \in Holding /\ Succeeds(c) /\ ApplyUpdate(c)
    BY <1>8 DEF Update, Holding
  <2>2. current' \subseteq Callers /\ copy' \in [Callers -> Content \cup {None}]
    BY <1>0, <1>8 DEF TypeOK, Update, ApplyUpdate, Dropped
  <2> QED
    BY <1>0, <1>8, <2>1, <2>2, SucceedsType, ApplyUpdateType DEF TypeOK, Update
<1>9. ASSUME NEW c \in Callers, UpdateLost(c) PROVE TypeOK'
  <2>1. pc[c] = "update" /\ pc[c] \in Holding /\ FailsOnce(c) /\ ApplyUpdate(c)
    BY <1>9 DEF UpdateLost, Holding
  <2>2. current' \subseteq Callers /\ copy' \in [Callers -> Content \cup {None}]
    BY <1>0, <1>9 DEF TypeOK, UpdateLost, ApplyUpdate, Dropped
  <2> QED
    BY <1>0, <1>9, <2>1, <2>2, FailsOnceType, ApplyUpdateType DEF TypeOK, UpdateLost
<1>10. ASSUME NEW c \in Callers, UpdateFails(c) PROVE TypeOK'
  <2>1. pc[c] \in Holding /\ FailsOnce(c)
    BY <1>10 DEF UpdateFails, Holding
  <2>2. current' \subseteq Callers /\ copy' \in [Callers -> Content \cup {None}]
    BY <1>0, <1>10 DEF TypeOK, UpdateFails, Dropped
  <2> QED
    BY <1>0, <1>10, <2>1, <2>2, FailsOnceType DEF TypeOK, UpdateFails
<1>11. ASSUME NEW c \in Callers, Wake(c) PROVE TypeOK'
  BY <1>0, <1>11 DEF TypeOK, Wake, Holding
<1>12. ASSUME NEW c \in Callers, Release(c) PROVE TypeOK'
  BY <1>0, <1>12 DEF TypeOK, Release, Holding
<1>13. ASSUME NEW c \in Callers, recordExecution(c) PROVE TypeOK'
  <2>1. history' \in Seq(BOOLEAN) /\ Len(history') <= HistoryCap
    BY <1>0, <1>13, NewestType DEF TypeOK, recordExecution
  <2> QED
    BY <1>0, <1>13, <2>1, LimitsAssumption DEF TypeOK, recordExecution, Holding
<1>14. ASSUME NEW w \in Workloads, NEW i \in Infos, RegisterWorkload(w, i) PROVE TypeOK'
  <2>1. i \in WorkloadInfo
    BY TargetsAssumption
  <2>2. DOMAIN registry' \subseteq Workloads
    BY <1>0, <1>14 DEF TypeOK, RegisterWorkload
  <2>3. \A v \in DOMAIN registry' : registry'[v] \in WorkloadInfo
    BY <1>0, <1>14, <2>1 DEF TypeOK, RegisterWorkload
  <2> QED
    BY <1>0, <1>14, <2>2, <2>3 DEF TypeOK, RegisterWorkload, locals
<1>15. CASE Cancel
  BY <1>0, <1>15 DEF TypeOK, Cancel, locals
<1>16. ASSUME NEW o \in Objects, NEW content \in Contents \cup {None}, Edit(o, content)
       PROVE TypeOK'
  <2>1. content \in Content \cup {None}
    BY TargetsAssumption
  <2> QED
    BY <1>0, <1>16, <2>1 DEF TypeOK, Edit, locals
<1>17. CASE UNCHANGED vars
  BY <1>0, <1>17 DEF TypeOK, vars, locals
<1> QED
  BY <1>1, <1>2, <1>3, <1>4, <1>5, <1>6, <1>7, <1>8, <1>9, <1>10, <1>11, <1>12, <1>13,
     <1>14, <1>15, <1>16, <1>17 DEF Next, Enter, Local, Answered

LEMMA InCallStep == Inv /\ [Next]_vars => InCall'
<1> SUFFICES ASSUME Inv, [Next]_vars PROVE InCall'
  OBVIOUS
<1>0. TypeOK /\ InCall
  BY DEF Inv
<1> USE DEF InCall, Requests, Holding
<1>1. ASSUME NEW c \in Callers, NEW d \in Directives, Call(c, d) PROVE InCall'
  BY <1>0, <1>1 DEF TypeOK, Call
<1>2. ASSUME NEW c \in Callers, Acquire(c) PROVE InCall'
  <2>1. Lookup(registry, directive[c].id) \in WorkloadInfo
    BY <1>0, <1>2, LookupType DEF TypeOK, Acquire
  <2> QED
    BY <1>0, <1>2, <2>1 DEF TypeOK, Acquire
<1>3. ASSUME NEW c \in Callers, GiveUp(c) PROVE InCall'
  BY <1>0, <1>3 DEF TypeOK, GiveUp
<1>4. ASSUME NEW c \in Callers,
             \/ Skip(c) \/ Reject(c) \/ GetFails(c)
             \/ Update(c) \/ UpdateLost(c) \/ UpdateFails(c)
      PROVE InCall'
  <2>1. pc[c] \in {"attempt", "update"} /\ UNCHANGED <<dryRun, directive, info>>
    BY <1>4 DEF Skip, Reject, GetFails, Update, UpdateLost, UpdateFails
  <2>2. Succeeds(c) \/ FailsOnce(c)
    BY <1>4 DEF Skip, Reject, GetFails, Update, UpdateLost, UpdateFails
  <2>3. pc'[c] \in {"sleep", "release"} /\ \A b \in Callers \ {c} : pc'[b] = pc[b]
    BY <1>0, <2>1, <2>2, SucceedsType, FailsOnceType
  <2> QED
    BY <1>0, <2>1, <2>3
<1>5. ASSUME NEW c \in Callers, Get(c) PROVE InCall'
  BY <1>0, <1>5 DEF TypeOK, Get
<1>6. ASSUME NEW c \in Callers, Wake(c) \/ Release(c) PROVE InCall'
  BY <1>0, <1>6 DEF TypeOK, Wake, Release
<1>7. ASSUME NEW c \in Callers, recordExecution(c) PROVE InCall'
  BY <1>0, <1>7 DEF TypeOK, recordExecution
<1>8. CASE UNCHANGED <<dryRun, locals>>
  BY <1>0, <1>8 DEF locals
<1>9. \/ \E w \in Workloads, i \in Infos : RegisterWorkload(w, i)
      \/ Cancel
      \/ \E o \in Objects, content \in Contents \cup {None} : Edit(o, content)
      \/ UNCHANGED vars
      => UNCHANGED <<dryRun, locals>>
  BY DEF RegisterWorkload, Cancel, Edit, vars
<1> QED
  BY <1>1, <1>2, <1>3, <1>4, <1>5, <1>6, <1>7, <1>8, <1>9 DEF Next, Enter, Local, Answered

LEMMA CurrentStep == Inv /\ [Next]_vars => CurrentCopies'
<1> SUFFICES ASSUME Inv, [Next]_vars PROVE CurrentCopies'
  OBVIOUS
<1>0. TypeOK /\ InCall /\ CurrentCopies
  BY DEF Inv
<1> USE DEF CurrentCopies, Present
<1>1. ASSUME NEW c \in Callers, NEW d \in Directives, Call(c, d) PROVE CurrentCopies'
  BY <1>0, <1>1 DEF TypeOK, Call
<1>2. ASSUME NEW c \in Callers, Enter(c) PROVE CurrentCopies'
  BY <1>0, <1>2 DEF TypeOK, Enter, Acquire, GiveUp
<1>3. ASSUME NEW c \in Callers, Skip(c) \/ Reject(c) \/ GetFails(c) PROVE CurrentCopies'
  <2>1. pc[c] = "attempt" /\ UNCHANGED <<objects, info, copy, current>>
    BY <1>3 DEF Skip, Reject, GetFails
  <2>2. Succeeds(c) \/ FailsOnce(c)
    BY <1>3 DEF Skip, Reject, GetFails
  <2>3. \A b \in Callers \ {c} : pc'[b] = pc[b]
    BY <1>0, <2>1, <2>2, SucceedsType, FailsOnceType DEF Holding
  <2> QED
    BY <1>0, <2>1, <2>3 DEF TypeOK
<1>4. ASSUME NEW c \in Callers, Get(c) PROVE CurrentCopies'
  BY <1>0, <1>4 DEF TypeOK, Get
<1>5. ASSUME NEW c \in Callers, Update(c) \/ UpdateLost(c) PROVE CurrentCopies'
  <2> DEFINE o == Target(info[c])
  <2>1. /\ pc[c] = "update" /\ ApplyUpdate(c) /\ UNCHANGED info
        /\ copy' = [copy EXCEPT ![c] = None]
        /\ Succeeds(c) \/ FailsOnce(c)
    BY <1>5 DEF Update, UpdateLost, Dropped
  <2>2. \A b \in Callers \ {c} : pc'[b] = pc[b] /\ copy'[b] = copy[b]
    BY <1>0, <2>1, SucceedsType, FailsOnceType DEF Holding, TypeOK
  <2>3. /\ o \in Objects
        /\ objects' = [objects EXCEPT ![o] = Scaled(objects[o], info[c], directive[c])]
        /\ objects'[o] # None
    BY <2>1, ApplyUpdateType
  <2>4. copy[c] = objects[o]
    BY <1>0, <2>1 DEF ApplyUpdate
  <2>5. ASSUME NEW b \in current'
        PROVE  b \in current \ {c} /\ (Target(info[b]) # o \/ objects'[o] = objects[o])
    BY <1>0, <2>1, <2>3, <2>4, <2>5 DEF ApplyUpdate, TypeOK
  <2>6. \A b \in current' : objects'[Target(info[b])] = objects[Target(info[b])]
    <3> HIDE DEF o
    <3> QED
      BY <1>0, <2>3, <2>5 DEF TypeOK
  <2> QED
    BY <1>0, <2>1, <2>2, <2>5, <2>6 DEF TypeOK
<1>6. ASSUME NEW c \in Callers, UpdateFails(c) PROVE CurrentCopies'
  <2>1. /\ pc[c] = "update" /\ FailsOnce(c) /\ UNCHANGED <<info, objects>>
        /\ copy' = [copy EXCEPT ![c] = None]
        /\ current' = current \ {c}
    BY <1>6 DEF UpdateFails, Dropped
  <2>2. \A b \in Callers \ {c} : pc'[b] = pc[b] /\ copy'[b] = copy[b]
    BY <1>0, <2>1, FailsOnceType DEF Holding, TypeOK
  <2> QED
    BY <1>0, <2>1, <2>2 DEF TypeOK
<1>7. ASSUME NEW c \in Callers, Wake(c) \/ Release(c) \/ recordExecution(c)
      PROVE  CurrentCopies'
  BY <1>0, <1>7 DEF TypeOK, Wake, Release, recordExecution
<1>8. ASSUME NEW o \in Objects, NEW content \in Contents \cup {None}, Edit(o, content)
      PROVE  CurrentCopies'
  BY <1>0, <1>8 DEF TypeOK, Edit, locals
<1>9. ASSUME UNCHANGED <<objects, current, locals>> PROVE CurrentCopies'
  BY <1>0, <1>9 DEF locals
<1>10. \/ \E w \in Workloads, i \in Infos : RegisterWorkload(w, i)
       \/ Cancel \/ UNCHANGED vars
       => UNCHANGED <<objects, current, locals>>
  BY DEF RegisterWorkload, Cancel, vars
<1> QED
  BY <1>1, <1>2, <1>3, <1>4, <1>5, <1>6, <1>7, <1>8, <1>9, <1>10 DEF Next, Local, Answered

LEMMA InvStep == Inv /\ [Next]_vars => Inv'
  BY TypeStep, InCallStep, CurrentStep DEF Inv

LEMMA InvHolds == Spec => []Inv
  BY InvInit, InvStep, PTL DEF Spec

\* The executor's fields and the local variables of every call keep their
\* shapes, and the history its bound (executor.go:72-81, 371-381).
THEOREM TypeCorrect == Spec => []TypeOK
<1>1. Inv => TypeOK
  BY DEF Inv
<1> QED
  BY <1>1, InvHolds, PTL

\* Whenever an update is about to be accepted, the copy it sends is the
\* object as it is (executor.go:230-301, 318-362).
THEOREM CopiesAreCurrent == Spec => []CurrentCopies
<1>1. Inv => CurrentCopies
  BY DEF Inv
<1> QED
  BY <1>1, InvHolds, PTL

-----------------------------------------------------------------------------
(***************************************************************************)
(* Permits.                                                                *)
(***************************************************************************)
LEMMA PermitsInit == Init => PermitsAccounted
<1> SUFFICES ASSUME Init PROVE PermitsAccounted
  OBVIOUS
<1>1. Holders = {}
  BY DEF Init, Holders, Holding
<1>2. Cardinality(Holders) = 0
  BY <1>1, FS_EmptySet
<1> QED
  BY <1>2, LimitsAssumption DEF Init, PermitsAccounted

LEMMA PermitsStep == Inv /\ PermitsAccounted /\ [Next]_vars => PermitsAccounted'
<1> SUFFICES ASSUME Inv, PermitsAccounted, [Next]_vars PROVE PermitsAccounted'
  OBVIOUS
<1>0. TypeOK
  BY DEF Inv
<1>1. IsFiniteSet(Holders)
  BY FS_Subset, TargetsAssumption DEF Holders
<1>2. ASSUME NEW c \in Callers, Acquire(c) PROVE PermitsAccounted'
  <2>1. c \notin Holders /\ Holders' = Holders \cup {c}
    BY <1>0, <1>2 DEF TypeOK, Acquire, Holders, Holding
  <2>2. Cardinality(Holders') = Cardinality(Holders) + 1
    BY <1>1, <2>1, FS_AddElement
  <2> QED
    BY <1>0, <1>2, <2>2, LimitsAssumption DEF PermitsAccounted, Acquire, TypeOK
<1>3. ASSUME NEW c \in Callers, Release(c) PROVE PermitsAccounted'
  <2>1. c \in Holders /\ Holders' = Holders \ {c}
    BY <1>0, <1>3 DEF TypeOK, Release, Holders, Holding
  <2>2. Cardinality(Holders') = Cardinality(Holders) - 1
    BY <1>1, <2>1, FS_RemoveElement
  <2> QED
    BY <1>0, <1>3, <2>2, LimitsAssumption DEF PermitsAccounted, Release, TypeOK
<1>4. ASSUME UNCHANGED semaphore, Holders' = Holders PROVE PermitsAccounted'
  BY <1>4 DEF PermitsAccounted
<1>5. ASSUME NEW c \in Callers,
             \/ Skip(c) \/ Reject(c) \/ GetFails(c)
             \/ Update(c) \/ UpdateLost(c) \/ UpdateFails(c)
      PROVE  PermitsAccounted'
  <2>1. /\ pc[c] \in Holding /\ UNCHANGED semaphore
        /\ Succeeds(c) \/ FailsOnce(c)
    BY <1>5 DEF Skip, Reject, GetFails, Update, UpdateLost, UpdateFails, Holding
  <2>2. pc'[c] \in Holding /\ \A b \in Callers \ {c} : pc'[b] = pc[b]
    BY <1>0, <2>1, SucceedsType, FailsOnceType DEF Holding
  <2> QED
    BY <1>4, <2>1, <2>2 DEF Holders
<1>6. ASSUME NEW c \in Callers, NEW d \in Directives, Call(c, d) PROVE PermitsAccounted'
  BY <1>0, <1>4, <1>6 DEF TypeOK, Call, Holders, Holding
<1>7. ASSUME NEW c \in Callers, GiveUp(c) \/ Get(c) \/ Wake(c) \/ recordExecution(c)
      PROVE  PermitsAccounted'
  BY <1>0, <1>4, <1>7 DEF TypeOK, GiveUp, Get, Wake, recordExecution, Holders, Holding
<1>8. ASSUME UNCHANGED <<semaphore, locals>> PROVE PermitsAccounted'
  BY <1>4, <1>8 DEF locals, Holders
<1>9. \/ \E w \in Workloads, i \in Infos : RegisterWorkload(w, i)
      \/ Cancel
      \/ \E o \in Objects, content \in Contents \cup {None} : Edit(o, content)
      \/ UNCHANGED vars
      => UNCHANGED <<semaphore, locals>>
  BY DEF RegisterWorkload, Cancel, Edit, vars
<1> QED
  BY <1>2, <1>3, <1>5, <1>6, <1>7, <1>8, <1>9 DEF Next, Enter, Local, Answered

\* On every path through Execute a permit is returned exactly once, and no
\* more than MaxConcurrentExecutions calls execute (executor.go:116-124).
THEOREM PermitsAreAccounted == Spec => []PermitsAccounted
  BY InvHolds, PermitsInit, PermitsStep, PTL DEF Spec

-----------------------------------------------------------------------------
(***************************************************************************)
(* The end of a call.                                                      *)
(***************************************************************************)
OwnStep(c) == UNCHANGED <<pc[c], attempt[c]>> \/ StepsLeft(c)' < StepsLeft(c)

LEMMA MoreAttempts ==
    ASSUME TypeOK, NEW c \in Callers
    PROVE  /\ RetryAttempts \in Nat /\ attempt[c] \in Nat
           /\ 3 * (RetryAttempts - attempt[c]) \in Nat
  BY LimitsAssumption DEF TypeOK

\* The steps of others are none of a caller's.
LEMMA OthersSteps ==
    ASSUME TypeOK, NEW c \in Callers, NEW b \in Callers \ {c},
           NEW place, NEW count,
           pc' = [pc EXCEPT ![b] = place],
           attempt' = attempt \/ attempt' = [attempt EXCEPT ![b] = count]
    PROVE  OwnStep(c)
  BY DEF TypeOK, OwnStep

\* A failed attempt costs one of those left.
LEMMA FailureCosts ==
    ASSUME TypeOK, NEW c \in Callers, pc[c] \in {"attempt", "update"}, FailsOnce(c)
    PROVE  OwnStep(c)
<1>0. /\ RetryAttempts \in Nat /\ attempt[c] \in Nat
      /\ 3 * (RetryAttempts - attempt[c]) \in Nat
  BY MoreAttempts
<1>1. StepsLeft(c) >= 3 * (RetryAttempts - attempt[c]) + 3
  BY <1>0 DEF StepsLeft
<1>2. CASE attempt[c] < RetryAttempts
  <2>1. pc'[c] = "sleep" /\ attempt'[c] = attempt[c] + 1
    BY <1>2 DEF FailsOnce, TypeOK
  <2>2. StepsLeft(c)' = 3 * (RetryAttempts - (attempt[c] + 1)) + 5
    BY <2>1 DEF StepsLeft
  <2>3. StepsLeft(c) \in Nat
    BY <1>0 DEF StepsLeft
  <2> QED
    BY <1>0, <1>1, <2>2, <2>3 DEF OwnStep
<1>3. CASE ~(attempt[c] < RetryAttempts)
  <2>1. pc'[c] = "release"
    BY <1>3 DEF FailsOnce, TypeOK
  <2>2. StepsLeft(c)' = 2
    BY <2>1 DEF StepsLeft
  <2>3. StepsLeft(c) \in Nat
    BY <1>0 DEF StepsLeft
  <2> QED
    BY <1>0, <1>1, <2>2, <2>3 DEF OwnStep
<1> QED
  BY <1>2, <1>3

\* Any other step moves on to a place nearer the end.
LEMMA OwnSteps ==
    ASSUME TypeOK, NEW c \in Callers,
           \/ Enter(c) \/ Local(c) \/ Answered(c)
    PROVE  OwnStep(c)
<1>0. /\ RetryAttempts \in Nat /\ attempt[c] \in Nat
      /\ 3 * (RetryAttempts - attempt[c]) \in Nat
  BY MoreAttempts
<1>1. CASE Acquire(c)
  <2>1. pc[c] = "wait" /\ pc'[c] = "attempt" /\ attempt'[c] = 0
    BY <1>1 DEF Acquire, TypeOK
  <2>2. StepsLeft(c) = 3 * RetryAttempts + 5 /\ StepsLeft(c)' = 3 * (RetryAttempts - 0) + 4
    BY <2>1 DEF StepsLeft
  <2> QED
    BY <1>0, <2>2 DEF OwnStep
<1>2. CASE GiveUp(c)
  <2>1. pc[c] = "wait" /\ pc'[c] = "record"
    BY <1>2 DEF GiveUp, TypeOK
  <2>2. StepsLeft(c) = 3 * RetryAttempts + 5 /\ StepsLeft(c)' = 1
    BY <2>1 DEF StepsLeft
  <2> QED
    BY <1>0, <2>2 DEF OwnStep
<1>3. ASSUME pc[c] \in {"attempt", "update"}, Succeeds(c) PROVE OwnStep(c)
  <2>1. pc'[c] = "release"
    BY <1>3 DEF Succeeds, TypeOK
  <2>2. StepsLeft(c)' = 2 /\ StepsLeft(c) >= 3 * (RetryAttempts - attempt[c]) + 3
    BY <1>0, <1>3, <2>1 DEF StepsLeft
  <2>3. StepsLeft(c) \in Nat
    BY <1>0, <1>3 DEF StepsLeft
  <2> QED
    BY <1>0, <2>2, <2>3 DEF OwnStep
<1>4. CASE Skip(c) \/ Update(c)
  BY <1>3, <1>4 DEF Skip, Update
<1>5. CASE Reject(c) \/ GetFails(c) \/ UpdateLost(c) \/ UpdateFails(c)
  BY <1>5, FailureCosts DEF Reject, GetFails, UpdateLost, UpdateFails
<1>6. CASE Get(c)
  <2>1. pc[c] = "attempt" /\ pc'[c] = "update" /\ attempt'[c] = attempt[c]
    BY <1>6 DEF Get, TypeOK
  <2>2. /\ StepsLeft(c) = 3 * (RetryAttempts - attempt[c]) + 4
        /\ StepsLeft(c)' = 3 * (RetryAttempts - attempt[c]) + 3
    BY <2>1 DEF StepsLeft
  <2> QED
    BY <1>0, <2>2 DEF OwnStep
<1>7. CASE Wake(c)
  <2>1. pc[c] = "sleep" /\ pc'[c] = "attempt" /\ attempt'[c] = attempt[c]
    BY <1>7 DEF Wake, TypeOK
  <2>2. /\ StepsLeft(c) = 3 * (RetryAttempts - attempt[c]) + 5
        /\ StepsLeft(c)' = 3 * (RetryAttempts - attempt[c]) + 4
    BY <2>1 DEF StepsLeft
  <2> QED
    BY <1>0, <2>2 DEF OwnStep
<1>8. CASE Release(c)
  <2>1. pc[c] = "release" /\ pc'[c] = "record"
    BY <1>8 DEF Release, TypeOK
  <2>2. StepsLeft(c) = 2 /\ StepsLeft(c)' = 1
    BY <2>1 DEF StepsLeft
  <2> QED
    BY <2>2 DEF OwnStep
<1>9. CASE recordExecution(c)
  <2>1. pc[c] = "record" /\ pc'[c] = "idle"
    BY <1>9 DEF recordExecution, TypeOK
  <2>2. StepsLeft(c) = 1 /\ StepsLeft(c)' = 0
    BY <2>1 DEF StepsLeft
  <2> QED
    BY <2>2 DEF OwnStep
<1> QED
  BY <1>1, <1>2, <1>4, <1>5, <1>6, <1>7, <1>8, <1>9 DEF Enter, Local, Answered

RunsOut == \A c \in Callers : pc[c] # "idle" => OwnStep(c)

LEMMA RunsOutStep == TypeOK /\ [Next]_vars => [RunsOut]_vars
<1> SUFFICES ASSUME TypeOK, [Next]_vars, NEW c \in Callers, pc[c] # "idle"
             PROVE  OwnStep(c)
  BY DEF RunsOut
<1>1. ASSUME NEW b \in Callers \ {c}, Enter(b) \/ Local(b) \/ Answered(b)
      PROVE  OwnStep(c)
  <2>1. \E place : pc' = [pc EXCEPT ![b] = place]
    BY <1>1 DEF Enter, Local, Answered, Acquire, GiveUp, Skip, Reject, Wake, Release,
                recordExecution, Get, GetFails, Update, UpdateLost, UpdateFails,
                Succeeds, FailsOnce
  <2>2. attempt' = attempt \/ \E count : attempt' = [attempt EXCEPT ![b] = count]
    BY <1>1 DEF Enter, Local, Answered, Acquire, GiveUp, Skip, Reject, Wake, Release,
                recordExecution, Get, GetFails, Update, UpdateLost, UpdateFails,
                Succeeds, FailsOnce
  <2> QED
    BY <2>1, <2>2, OthersSteps
<1>2. ASSUME NEW b \in Callers, NEW d \in Directives, Call(b, d) PROVE OwnStep(c)
  <2>1. b # c /\ pc' = [pc EXCEPT ![b] = "wait"] /\ attempt' = attempt
    BY <1>2 DEF Call
  <2> QED
    BY <2>1, OthersSteps
<1>3. ASSUME UNCHANGED locals PROVE OwnStep(c)
  BY <1>3 DEF locals, OwnStep
<1> QED
  BY <1>1, <1>2, <1>3, OwnSteps DEF Next, RegisterWorkload, Cancel, Edit, vars

\* Whatever fails, conflicts, is lost or cancelled, a call of Execute takes
\* at most 3 * RetryAttempts + 5 steps (executor.go:101-169).
THEOREM CallsTakeBoundedSteps ==
    Spec => CallsRunOut /\ [](\A c \in Callers : StepsLeft(c) <= 3 * RetryAttempts + 5)
<1>1. TypeOK => \A c \in Callers : StepsLeft(c) <= 3 * RetryAttempts + 5
  <2> SUFFICES ASSUME TypeOK, NEW c \in Callers
               PROVE  StepsLeft(c) <= 3 * RetryAttempts + 5
    OBVIOUS
  <2>1. /\ RetryAttempts \in Nat /\ attempt[c] \in Nat
        /\ 3 * (RetryAttempts - attempt[c]) <= 3 * RetryAttempts
    BY MoreAttempts
  <2>2. pc[c] \in {"idle", "wait", "record", "attempt", "update", "sleep", "release"}
    BY DEF TypeOK, Holding
  <2> QED
    BY <2>1, <2>2 DEF StepsLeft
<1>2. [][RunsOut]_vars <=> CallsRunOut
  BY DEF RunsOut, OwnStep, CallsRunOut
<1> QED
  BY <1>1, <1>2, RunsOutStep, TypeCorrect, PTL DEF Spec

-----------------------------------------------------------------------------
(***************************************************************************)
(* Repeated updates.                                                       *)
(***************************************************************************)

\* What a directive makes of an object it makes of it once.
LEMMA ScaledOnce ==
    ASSUME NEW object \in Content, NEW i \in WorkloadInfo, NEW d \in Directives,
           Executable(d, i)
    PROVE  Scaled(Scaled(object, i, d), i, d) = Scaled(object, i, d)
<1>1. CASE d.type = "horizontal"
  BY <1>1 DEF Scaled
<1>2. CASE d.type # "horizontal"
  BY <1>2 DEF Scaled
<1> QED
  BY <1>1, <1>2

\* The object of a caller is as some update of its directive has left it.
AlreadyScaled(c) ==
    \E before \in Content : objects[Target(info[c])] = Scaled(before, info[c], directive[c])

RepeatsNothing ==
    \A c \in Callers :
        pc[c] = "update" /\ ApplyUpdate(c) /\ AlreadyScaled(c) => UNCHANGED objects

\* A retry of an update that was applied although its answer was lost changes
\* nothing, unless somebody else has changed the object in between
\* (executor.go:151-168, 230-362).
THEOREM RetriesChangeNothing == Spec => [][RepeatsNothing]_vars
<1>1. ASSUME Inv, NEW c \in Callers, pc[c] = "update", ApplyUpdate(c), AlreadyScaled(c)
      PROVE  UNCHANGED objects
  <2>1. /\ Target(info[c]) \in Objects
        /\ objects' = [objects EXCEPT ![Target(info[c])] =
                          Scaled(objects[Target(info[c])], info[c], directive[c])]
    BY <1>1, ApplyUpdateType
  <2>2. Scaled(objects[Target(info[c])], info[c], directive[c]) = objects[Target(info[c])]
    BY <1>1, ScaledOnce DEF Inv, InCall, Holding, Requests, AlreadyScaled
  <2> QED
    BY <1>1, <2>1, <2>2 DEF Inv, TypeOK
<1>2. Inv => RepeatsNothing
  BY <1>1 DEF RepeatsNothing
<1> QED
  BY <1>2, InvHolds, PTL

-----------------------------------------------------------------------------
(***************************************************************************)
(* Refinement: what each step of the executor is in ScalingCalls.          *)
(***************************************************************************)
DoingAll == [c \in Callers |-> Doing(c)]

\* A step that leaves every caller's work alone.
LEMMA DoingUnchanged ==
    ASSUME \A c \in Callers : UNCHANGED Doing(c)
    PROVE  UNCHANGED DoingAll
  BY DEF DoingAll

\* ScalingCalls sees directives and objects as the executor does.
LEMMA SameOperators ==
    ASSUME NEW d, NEW i, NEW object, NEW r
    PROVE  /\ Calls!Silent(d) = Silent(d)
           /\ Calls!Executable(d, i) = Executable(d, i)
           /\ Calls!Target(i) = Target(i)
           /\ Calls!Lookup(r, d.id) = Lookup(r, d.id)
           /\ Calls!Scaled(object, i, d) = Scaled(object, i, d)
<1>1. Calls!Silent(d) = Silent(d) /\ Calls!Executable(d, i) = Executable(d, i)
  BY DEF Calls!Silent, Silent, Calls!Executable, Executable, Calls!Scales, Scales
<1>2. Calls!Target(i) = Target(i) /\ Calls!Lookup(r, d.id) = Lookup(r, d.id)
  BY DEF Calls!Target, Target, Calls!Lookup, Lookup
<1>3. Calls!Scaled(object, i, d) = Scaled(object, i, d)
  BY Zenon DEF Calls!Scaled, Scaled, Calls!InScope, InScope,
               Calls!ContainerResources, ContainerResources
<1> QED
  BY <1>1, <1>2, <1>3

LEMMA DoingOf ==
    ASSUME Inv, NEW c \in Callers, pc[c] \in {"attempt", "update"}
    PROVE  /\ Doing(c) = [directive |-> directive[c], info |-> info[c],
                          left |-> RetryAttempts + 1 - attempt[c]]
           /\ Doing(c).directive = directive[c]
           /\ Doing(c).info = info[c]
           /\ Doing(c).left = RetryAttempts + 1 - attempt[c]
           /\ Doing(c) # None
<1>1. directive[c] \in Directives /\ info[c] \in WorkloadInfo
  BY DEF Inv, InCall, Holding
<1>2. RetryAttempts + 1 - attempt[c] \in Nat
  BY LimitsAssumption DEF Inv, TypeOK
<1>3. Doing(c) = [directive |-> directive[c], info |-> info[c],
                  left |-> RetryAttempts + 1 - attempt[c]]
  BY DEF Doing, AtWork
<1>4. Doing(c) \in Work
  BY <1>1, <1>2, <1>3 DEF Work
<1>5. Doing(c) # None
  BY <1>4, TargetsAssumption
<1> QED
  BY <1>3, <1>5

LEMMA AcquireBegins ==
    ASSUME Inv, PermitsAccounted, NEW c \in Callers, Acquire(c)
    PROVE  \E d \in Directives : Calls!Begin(c, d)
<1> DEFINE d == directive[c]
<1>1. d \in Directives /\ pc[c] = "wait"
  BY DEF Inv, InCall, Acquire
<1>2. Doing(c) = None
  BY <1>1 DEF Doing, AtWork
<1>3. Cardinality(Calls!Busy) < MaxConcurrentExecutions
  <2>1. Calls!Busy \subseteq Holders
    BY DEF Calls!Busy, Doing, AtWork, Holders, Holding
  <2>2. IsFiniteSet(Holders)
    BY FS_Subset, TargetsAssumption DEF Holders
  <2>3. Cardinality(Calls!Busy) <= Cardinality(Holders) /\ Cardinality(Calls!Busy) \in Nat
    BY <2>1, <2>2, FS_Subset, FS_CardinalityType
  <2>4. Cardinality(Holders) < MaxConcurrentExecutions
    BY DEF PermitsAccounted, Acquire
  <2> QED
    BY <2>2, <2>3, <2>4, FS_CardinalityType, LimitsAssumption
<1>4. DoingAll' = [DoingAll EXCEPT ![c] =
                     [directive |-> d, info |-> Lookup(registry, d.id),
                      left |-> RetryAttempts + 1]]
  <2>1. Doing(c)' = [directive |-> d, info |-> Lookup(registry, d.id),
                     left |-> RetryAttempts + 1]
    BY LimitsAssumption DEF Inv, TypeOK, Acquire, Doing, AtWork
  <2>2. \A b \in Callers \ {c} : Doing(b)' = Doing(b)
    BY DEF Inv, TypeOK, Acquire, Doing
  <2> QED
    BY <2>1, <2>2 DEF DoingAll
<1>5. Calls!Lookup(registry, d.id) = Lookup(registry, d.id)
  BY SameOperators
<1>6. DoingAll' = [DoingAll EXCEPT ![c] =
                     [directive |-> d, info |-> Calls!Lookup(registry, d.id),
                      left |-> RetryAttempts + 1]]
  BY <1>4, <1>5
<1>7. UNCHANGED <<objects, registry, dryRun>>
  BY DEF Acquire
<1>8. DoingAll[c] = None
  BY <1>2 DEF DoingAll
<1>9. Calls!Cardinality(Calls!Busy) = Cardinality(Calls!Busy)
  BY Zenon DEF Calls!Cardinality, Cardinality
<1> HIDE DEF d
<1>10. Calls!Begin(c, d)
  BY <1>3, <1>6, <1>7, <1>8, <1>9 DEF Calls!Begin, DoingAll
<1> QED
  BY <1>1, <1>10

\* An attempt that fails, whether or not its update was applied.
LEMMA FailedAttempt ==
    ASSUME Inv, NEW c \in Callers, pc[c] \in {"attempt", "update"}, FailsOnce(c),
           UNCHANGED <<directive, info, registry, dryRun>>,
           Calls!Write(c) \/ UNCHANGED objects
    PROVE  Calls!FailAttempt(c)
<1> DEFINE next == IF Doing(c).left = 1 THEN None
                   ELSE [directive |-> Doing(c).directive, info |-> Doing(c).info,
                         left |-> Doing(c).left - 1]
<1>1. /\ Doing(c).directive = directive[c]
      /\ Doing(c).info = info[c]
      /\ Doing(c).left = RetryAttempts + 1 - attempt[c]
      /\ Doing(c) # None
  BY DoingOf
<1>2. \A b \in Callers \ {c} : Doing(b)' = Doing(b)
  BY DEF Inv, TypeOK, FailsOnce, Doing
<1>3. attempt[c] \in 0..RetryAttempts /\ RetryAttempts \in Nat
  BY LimitsAssumption DEF Inv, TypeOK
<1>4. Doing(c)' = next
  <2>1. CASE attempt[c] < RetryAttempts
    <3>1. Doing(c)' = [directive |-> directive[c], info |-> info[c],
                       left |-> RetryAttempts + 1 - (attempt[c] + 1)]
      BY <2>1 DEF Inv, TypeOK, FailsOnce, Doing, AtWork
    <3>2. /\ Doing(c).left # 1
          /\ RetryAttempts + 1 - (attempt[c] + 1) = Doing(c).left - 1
      BY <1>1, <1>3, <2>1
    <3> HIDE DEF Doing
    <3> QED
      BY <1>1, <3>1, <3>2
  <2>2. CASE ~(attempt[c] < RetryAttempts)
    <3>1. Doing(c)' = None
      BY <2>2 DEF Inv, TypeOK, FailsOnce, Doing, AtWork
    <3>2. Doing(c).left = 1
      BY <1>1, <1>3, <2>2
    <3> QED
      BY <3>1, <3>2
  <2> QED
    BY <2>1, <2>2
<1> HIDE DEF next
<1>5. DoingAll' = [DoingAll EXCEPT ![c] = next]
  BY <1>2, <1>4 DEF DoingAll
<1> QED
  BY <1>1, <1>5 DEF Calls!FailAttempt, DoingAll, next

\* An accepted update writes what the directive asks for, to the object as
\* it is at that instant.
LEMMA AppliedUpdate ==
    ASSUME Inv, NEW c \in Callers, pc[c] = "update", ApplyUpdate(c)
    PROVE  Calls!Write(c)
<1>1. Doing(c).directive = directive[c] /\ Doing(c).info = info[c]
  BY DoingOf
<1>2. ~dryRun /\ Executable(directive[c], info[c])
  BY DEF Inv, InCall, Requests
<1>3. /\ Target(info[c]) \in Objects
      /\ objects[Target(info[c])] # None
      /\ objects' = [objects EXCEPT ![Target(info[c])] =
                        Scaled(objects[Target(info[c])], info[c], directive[c])]
  BY ApplyUpdateType
<1>4. Calls!Executable(Doing(c).directive, Doing(c).info)
  BY <1>1, <1>2, SameOperators
<1>5. Calls!Target(Doing(c).info) = Target(info[c])
  BY <1>1, SameOperators
<1>6. Calls!Scaled(objects[Target(info[c])], Doing(c).info, Doing(c).directive)
      = Scaled(objects[Target(info[c])], info[c], directive[c])
  BY <1>1, SameOperators
<1> QED
  BY <1>2, <1>3, <1>4, <1>5, <1>6 DEF Calls!Write

LEMMA SucceededAttempt ==
    ASSUME Inv, NEW c \in Callers, pc[c] \in {"attempt", "update"}, Succeeds(c),
           UNCHANGED <<directive, info, registry, dryRun>>,
           \/ Calls!Write(c)
           \/ (dryRun \/ Silent(directive[c])) /\ UNCHANGED objects
    PROVE  Calls!Succeed(c)
<1>1. Doing(c).directive = directive[c] /\ Doing(c) # None
  BY DoingOf
<1>2. \A b \in Callers \ {c} : Doing(b)' = Doing(b)
  BY DEF Inv, TypeOK, Succeeds, Doing
<1>3. Doing(c)' = None
  BY DEF Inv, TypeOK, Succeeds, Doing, AtWork
<1>4. DoingAll' = [DoingAll EXCEPT ![c] = None]
  BY <1>2, <1>3 DEF DoingAll
<1>5. Calls!Silent(Doing(c).directive) = Silent(directive[c])
  BY <1>1, SameOperators
<1> QED
  BY <1>1, <1>4, <1>5 DEF Calls!Succeed, DoingAll

LEMMA StepImplements ==
    Inv /\ PermitsAccounted /\ [Next]_vars => [Calls!Next]_(Calls!vars)
<1> SUFFICES ASSUME Inv, PermitsAccounted, [Next]_vars PROVE [Calls!Next]_(Calls!vars)
  OBVIOUS
<1>0. TypeOK
  BY DEF Inv
<1>1. ASSUME NEW c \in Callers, Acquire(c) PROVE Calls!Next
  BY <1>1, AcquireBegins DEF Calls!Next
<1>2. ASSUME NEW c \in Callers, Skip(c) PROVE Calls!Next
  <2>1. Calls!Succeed(c)
    BY <1>2, SucceededAttempt DEF Skip
  <2> QED
    BY <2>1 DEF Calls!Next
<1>3. ASSUME NEW c \in Callers, Reject(c) \/ GetFails(c) \/ UpdateFails(c) PROVE Calls!Next
  <2>1. Calls!FailAttempt(c)
    BY <1>3, FailedAttempt DEF Reject, GetFails, UpdateFails
  <2> QED
    BY <2>1 DEF Calls!Next
<1>4. ASSUME NEW c \in Callers, Update(c) PROVE Calls!Next
  <2>1. Calls!Write(c)
    BY <1>4, AppliedUpdate DEF Update
  <2>2. Calls!Succeed(c)
    BY <1>4, <2>1, SucceededAttempt DEF Update
  <2> QED
    BY <2>2 DEF Calls!Next
<1>5. ASSUME NEW c \in Callers, UpdateLost(c) PROVE Calls!Next
  <2>1. Calls!Write(c)
    BY <1>5, AppliedUpdate DEF UpdateLost
  <2>2. Calls!FailAttempt(c)
    BY <1>5, <2>1, FailedAttempt DEF UpdateLost
  <2> QED
    BY <2>2 DEF Calls!Next
<1>6. ASSUME UNCHANGED <<objects, registry, dryRun>>, \A c \in Callers : UNCHANGED Doing(c)
      PROVE  UNCHANGED Calls!vars
  BY <1>6, DoingUnchanged DEF Calls!vars, DoingAll
<1>7. ASSUME NEW c \in Callers, NEW d \in Directives, Call(c, d) PROVE UNCHANGED Calls!vars
  BY <1>0, <1>6, <1>7 DEF TypeOK, Call, Doing, AtWork
<1>8. ASSUME NEW c \in Callers,
             GiveUp(c) \/ Get(c) \/ Wake(c) \/ Release(c) \/ recordExecution(c)
      PROVE  UNCHANGED Calls!vars
  BY <1>0, <1>6, <1>8 DEF TypeOK, GiveUp, Get, Wake, Release, recordExecution, Doing, AtWork
<1>9. ASSUME UNCHANGED locals PROVE \A c \in Callers : UNCHANGED Doing(c)
  BY <1>9 DEF locals, Doing
<1>10. ASSUME NEW w \in Workloads, NEW i \in Infos, RegisterWorkload(w, i) PROVE Calls!Next
  <2>1. UNCHANGED DoingAll
    BY <1>9, <1>10, DoingUnchanged DEF RegisterWorkload
  <2>2. Calls!RegisterWorkload(w, i)
    BY <1>10, <2>1 DEF RegisterWorkload, Calls!RegisterWorkload, DoingAll
  <2> QED
    BY <2>2 DEF Calls!Next
<1>11. CASE Cancel
  BY <1>6, <1>9, <1>11 DEF Cancel
<1>12. ASSUME NEW o \in Objects, NEW content \in Contents \cup {None}, Edit(o, content)
       PROVE  Calls!Next
  <2>1. UNCHANGED DoingAll
    BY <1>9, <1>12, DoingUnchanged DEF Edit
  <2>2. Calls!Edit(o, content)
    BY <1>12, <2>1 DEF Edit, Calls!Edit, DoingAll
  <2> QED
    BY <2>2 DEF Calls!Next
<1>13. CASE UNCHANGED vars
  BY <1>6, <1>9, <1>13 DEF vars
<1> QED
  BY <1>1, <1>2, <1>3, <1>4, <1>5, <1>7, <1>8, <1>10, <1>11, <1>12, <1>13
  DEF Next, Enter, Local, Answered

LEMMA InitImplements == Init => Calls!Init
<1> SUFFICES ASSUME Init PROVE Calls!Init
  OBVIOUS
<1>1. DoingAll = [c \in Callers |-> None]
  BY DEF Init, DoingAll, Doing, AtWork
<1> QED
  BY <1>1 DEF Init, Calls!Init, DoingAll

\* The read-modify-update loop with its retries implements ScalingCalls: no
\* change made by others is undone, success means the object was changed,
\* and it is changed at most once per attempt (executor.go:101-169).
THEOREM ExecutorImplementsCalls == Spec => ImplementsCalls
  BY InvHolds, PermitsAreAccounted, InitImplements, StepImplements, PTL
  DEF Spec, Calls!Spec, ImplementsCalls
=============================================================================
