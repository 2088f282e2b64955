---------------------------- MODULE PaymentsProofs ----------------------------
(***************************************************************************)
(* Proofs about Payments, for any number of requests, sources, versions    *)
(* and instances, and any bound on faults and retries; and about Buckets,  *)
(* for any bucket, collection, query, budget and page.                     *)
(***************************************************************************)
EXTENDS Payments, Buckets, FiniteSetTheorems, SequenceTheorems,
        WellFoundedInduction, TLAPS

(***************************************************************************)
(* Type correctness.  An attempt is counted only while another one is      *)
(* allowed, which holds because a claimed request is a published one below *)
(* the retry cap.                                                          *)
(***************************************************************************)
Claimable(b) ==
    /\ b.claimedBy # None => b.status = "PUBLISHED"
    /\ b.status = "PUBLISHED" => b.attempts < MAX_RETRIES

TypeInv == TypeOK /\ \A m \in Messages : Claimable(box[m])

LEMMA Bounds == /\ MAX_RETRIES \in Nat /\ MAX_RETRIES # 0
                /\ MaxFaults \in Nat
  BY PaymentsAssumption, Zenon

LEMMA Constants == /\ SourceOf \in [Messages -> Sources]
                   /\ VersionOf \in [Messages -> Versions]
                   /\ None \notin Instances /\ None \notin (Instances \X Messages)
  BY PaymentsAssumption, Zenon

LEMMA AttemptedType ==
    ASSUME NEW b \in Box, NEW result \in {"none", "ok", "retryable", "permanent"},
           Claimable(b), b.claimedBy # None
    PROVE  Attempted(b, result) \in Box /\ Claimable(Attempted(b, result))
  <1> DEFINE a == Attempted(b, result)
  <1>1. b.attempts \in Nat /\ b.attempts < MAX_RETRIES /\ MAX_RETRIES \in Nat
    BY Bounds DEF Box, Claimable
  <1>2. /\ a = [status |-> a.status, attempts |-> a.attempts, claimedBy |-> None]
        /\ a.status \in {"PUBLISHED", "COMPLETED", "DEAD_LETTER"}
        /\ a.claimedBy = None
    BY DEF Attempted
  <1>3. /\ a.attempts \in Nat /\ a.attempts <= MAX_RETRIES
        /\ a.status = "PUBLISHED" => a.attempts < MAX_RETRIES
    BY <1>1 DEF Attempted
  <1> HIDE DEF a
  <1>4. a \in Box
    BY <1>1, <1>2, <1>3 DEF Box
  <1> QED BY <1>2, <1>3, <1>4 DEF Claimable, a

LEMMA TaskTypes ==
    ASSUME NEW t \in Task
    PROVE  /\ \A pc \in {"idle", "find", "definition", "wait", "resolve", "session",
                         "allocate", "insert", "commit", "mark"} : At(t, pc) \in Task
           /\ \A result \in {"none", "ok", "retryable", "permanent"} :
                 Ended(t, result) \in Task
           /\ NoTask \in Task
  BY DEF Task, At, Ended, NoTask

\* One handler's step leaves all handlers typed.
LEMMA SetType ==
    ASSUME TypeOK, NEW i \in Instances, NEW m \in Messages, NEW t \in Task, Set(i, m, t)
    PROVE  /\ task' \in [Instances -> [Messages -> Task]]
           /\ task'[i][m] = t
           /\ \A j \in Instances, k \in Messages :
                 <<j, k>> # <<i, m>> => task'[j][k] = task[j][k]
  BY DEF TypeOK, Set

LEMMA SetLoadType ==
    ASSUME TypeOK, NEW i \in Instances, NEW v \in Versions, NEW l \in Load,
           load' = [load EXCEPT ![i][v] = l]
    PROVE  load' \in [Instances -> [Versions -> Load]]
  BY DEF TypeOK

\* One load's step leaves all loads typed.
LEMMA LoadAtType ==
    ASSUME TypeOK, NEW i \in Instances, NEW v \in Versions,
           NEW pc \in {"none", "find", "fetch", "insert", "status", "fail"},
           NEW error \in {"none", "retryable", "permanent"}, LoadAt(i, v, pc, error)
    PROVE  load' \in [Instances -> [Versions -> Load]]
  BY DEF TypeOK, LoadAt, Load

LEMMA TypeInit == Init => TypeInv
  <1> SUFFICES ASSUME Init PROVE TypeInv
    OBVIOUS
  <1>1. NoTask \in Task /\ NoLoad \in Load
    BY DEF NoTask, NoLoad, Task, Load
  <1>2. box \in [Messages -> Box] /\ \A m \in Messages : Claimable(box[m])
    <2>1. 0 \in 0..MAX_RETRIES /\ 0 < MAX_RETRIES
      BY Bounds
    <2>2. [status |-> "PUBLISHED", attempts |-> 0, claimedBy |-> None] \in Box
      BY <2>1 DEF Box
    <2> QED BY <2>1, <2>2 DEF Init, Claimable
  <1>3. /\ payments \in Seq([source : Sources, id : Nat]) /\ outbox \in Seq(Sources)
    BY DEF Init
  <1>4. faults \in 0..MaxFaults
    BY Bounds DEF Init
  <1>5. /\ load \in [Instances -> [Versions -> Load]]
        /\ task \in [Instances -> [Messages -> Task]]
    BY <1>1 DEF Init
  <1> QED BY <1>2, <1>3, <1>4, <1>5 DEF Init, TypeInv, TypeOK, Statuses

\* Everyone who waited for a load goes on typed.
LEMMA WakeType ==
    ASSUME TypeOK, NEW i \in Instances, NEW v \in Versions,
           NEW pc \in {"resolve", "mark"},
           NEW result \in {"none", "retryable", "permanent"}, Wake(i, v, pc, result)
    PROVE  task' \in [Instances -> [Messages -> Task]]
  <1>1. \A m \in Messages :
           [pc |-> pc, seen |-> 0, result |-> result, paid |-> task[i][m].paid] \in Task
    BY DEF TypeOK, Task
  <1> QED BY <1>1 DEF TypeOK, Wake

LEMMA FaultType == TypeOK /\ Fault => faults' \in 0..MaxFaults
  BY Bounds DEF TypeOK, Fault

LEMMA DeliveryType ==
    ASSUME TypeInv, NEW i \in Instances, NEW m \in Messages,
           Deliver(i, m) \/ MarkEvent(i, m)
    PROVE  TypeInv'
  <1>1. box[m] \in Box /\ Claimable(box[m]) /\ task[i][m] \in Task
    BY DEF TypeInv, TypeOK
  <1>2. CASE Deliver(i, m)
    <2> DEFINE b == [status |-> "PUBLISHED", attempts |-> box[m].attempts, claimedBy |-> i]
               t == [pc |-> "find", seen |-> 0, result |-> "none",
                     paid |-> IsPaid(SourceOf[m])]
    <2>1. b \in Box /\ Claimable(b)
      BY <1>1, <1>2 DEF Deliver, Box, Claimable
    <2>2. t \in Task
      <3>1. IsPaid(SourceOf[m]) \in BOOLEAN
        BY DEF IsPaid
      <3> QED BY <3>1 DEF Task
    <2>3. box' = [box EXCEPT ![m] = b] /\ Set(i, m, t)
      BY <1>2 DEF Deliver
    <2> HIDE DEF b, t
    <2>4. task' \in [Instances -> [Messages -> Task]]
      BY <2>2, <2>3, SetType DEF TypeInv
    <2> QED BY <1>2, <2>1, <2>3, <2>4
            DEF Deliver, TypeInv, TypeOK, inputs, definitions, ledger
  <1>3. CASE MarkEvent(i, m)
    <2> DEFINE b == Attempted(box[m], task[i][m].result)
    <2>1. box[m].claimedBy = i => b \in Box /\ Claimable(b)
      <3>1. i # None
        BY Constants
      <3>2. task[i][m].result \in {"none", "ok", "retryable", "permanent"}
        BY <1>1 DEF Task
      <3> QED BY <1>1, <3>1, <3>2, AttemptedType
    <2>2. task' \in [Instances -> [Messages -> Task]]
      BY <1>1, <1>3, TaskTypes, SetType DEF MarkEvent, TypeInv
    <2>3. box' = IF box[m].claimedBy = i THEN [box EXCEPT ![m] = b] ELSE box
      BY <1>3 DEF MarkEvent
    <2> HIDE DEF b
    <2> QED BY <1>3, <2>1, <2>2, <2>3
            DEF MarkEvent, TypeInv, TypeOK, inputs, definitions, ledger
  <1> QED BY <1>2, <1>3

LEMMA ClaimExpiresType ==
    ASSUME TypeInv, NEW m \in Messages, ClaimExpires(m)
    PROVE  TypeInv'
  <1> DEFINE b == Attempted(box[m], "retryable")
  <1>1. b \in Box /\ Claimable(b)
    BY AttemptedType DEF ClaimExpires, TypeInv, TypeOK
  <1>2. box' = [box EXCEPT ![m] = b]
    BY DEF ClaimExpires
  <1> HIDE DEF b
  <1> QED BY <1>1, <1>2, FaultType
          DEF ClaimExpires, TypeInv, TypeOK, inputs, definitions, ledger

LEMMA StorePaymentDefinitionType ==
    ASSUME TypeInv, NEW v \in Versions, StorePaymentDefinition(v)
    PROVE  TypeInv'
  <1>1. stored' \subseteq Versions
    BY DEF StorePaymentDefinition, TypeInv, TypeOK
  <1> QED BY <1>1 DEF StorePaymentDefinition, TypeInv, TypeOK, inputs, ledger

LEMMA CrashType ==
    ASSUME TypeInv, NEW i \in Instances, Crash(i)
    PROVE  TypeInv'
  <1>1. box' \in [Messages -> Box] /\ \A m \in Messages : Claimable(box'[m])
    <2>1. ASSUME NEW m \in Messages, box[m].claimedBy = i
          PROVE  /\ Attempted(box[m], "retryable") \in Box
                 /\ Claimable(Attempted(box[m], "retryable"))
      <3>1. i # None
        BY Constants
      <3> QED BY <2>1, <3>1, AttemptedType DEF TypeInv, TypeOK
    <2> QED BY <2>1 DEF Crash, TypeInv, TypeOK
  <1>2. NoTask \in Task /\ NoLoad \in Load
    BY DEF NoTask, NoLoad, Task, Load
  <1>3. task' \in [Instances -> [Messages -> Task]] /\ load' \in [Instances -> [Versions -> Load]]
    BY <1>2 DEF Crash, TypeInv, TypeOK
  <1>4. lock' \in (Instances \X Messages) \cup {None}
    BY DEF Crash, TypeInv, TypeOK
  <1>5. compiled' \in [Instances -> SUBSET Versions] /\ faults' \in 0..MaxFaults
    BY FaultType DEF Crash, TypeInv, TypeOK
  <1> QED BY <1>1, <1>3, <1>4, <1>5 DEF Crash, TypeInv, TypeOK, inputs

LEMMA LoadPaymentDefinitionType ==
    ASSUME TypeInv, NEW i \in Instances, NEW m \in Messages, LoadPaymentDefinition(i, m)
    PROVE  TypeInv'
  <1> DEFINE v == VersionOf[m]
             l == [pc |-> "find", status |-> catalog[v], error |-> "none"]
  <1>1. task[i][m] \in Task /\ v \in Versions
    BY Constants DEF TypeInv, TypeOK
  <1>2. task' \in [Instances -> [Messages -> Task]]
    <2>1. \/ Set(i, m, Ended(task[i][m], "permanent"))
          \/ Set(i, m, At(task[i][m], "resolve")) \/ Set(i, m, At(task[i][m], "wait"))
      BY DEF LoadPaymentDefinition, LoadCompiled
    <2> QED BY <1>1, <2>1, TaskTypes, SetType DEF TypeInv
  <1>3. load' \in [Instances -> [Versions -> Load]]
    <2>1. l \in Load
      BY <1>1 DEF Load, TypeInv, TypeOK
    <2>2. load' = load \/ load' = [load EXCEPT ![i][v] = l]
      BY DEF LoadPaymentDefinition, LoadCompiled
    <2> HIDE DEF l, v
    <2>3. CASE load' = load
      BY <2>3 DEF TypeInv, TypeOK
    <2> QED BY <1>1, <2>1, <2>2, <2>3, SetLoadType DEF TypeInv
  <1> QED BY <1>2, <1>3 DEF LoadPaymentDefinition, TypeInv, TypeOK, inputs, ledger

LEMMA LoadStepType ==
    ASSUME TypeInv, NEW i \in Instances, NEW v \in Versions,
           LoadStep(i, v) \/ LoadThrows(i, v)
    PROVE  TypeInv'
  <1> DEFINE others == <<inputs, box, ledger>>
  <1>1. NoLoad \in Load /\ load[i][v].error \in {"none", "retryable", "permanent"}
    BY DEF NoLoad, Load, TypeInv, TypeOK
  <1>2. load' \in [Instances -> [Versions -> Load]]
    <2>1. \/ \E pc \in {"fetch", "insert", "status", "fail"},
                error \in {"none", "retryable", "permanent"} : LoadAt(i, v, pc, error)
          \/ load' = [load EXCEPT ![i][v] = NoLoad]
      BY DEF LoadStep, LoadThrows, FindPaymentDefinition, FetchConfigFile,
             InsertPaymentDefinition, LoadEnds, LoadFails
    <2> QED BY <1>1, <2>1, LoadAtType, SetLoadType DEF TypeInv
  <1>3. task' \in [Instances -> [Messages -> Task]]
    <2>1. \/ UNCHANGED task \/ Wake(i, v, "resolve", "none")
          \/ Wake(i, v, "mark", load[i][v].error)
      BY DEF LoadStep, LoadThrows, FindPaymentDefinition, FetchConfigFile,
             InsertPaymentDefinition, LoadEnds, LoadFails
    <2> QED BY <1>1, <2>1, WakeType DEF TypeInv, TypeOK
  <1>4. /\ catalog' \in [Versions -> Statuses] /\ stored' \subseteq Versions
        /\ compiled' \in [Instances -> SUBSET Versions]
    <2>1. \/ UNCHANGED catalog
          \/ \E s \in Statuses : catalog' = [catalog EXCEPT ![v] = s]
      BY DEF LoadStep, LoadThrows, FindPaymentDefinition, FetchConfigFile,
             InsertPaymentDefinition, LoadEnds, LoadFails, Statuses
    <2>2. stored' = stored \/ stored' = stored \cup {v}
      BY DEF LoadStep, LoadThrows, FindPaymentDefinition, FetchConfigFile,
             InsertPaymentDefinition, LoadEnds, LoadFails
    <2>3. \/ UNCHANGED compiled
          \/ compiled' = [compiled EXCEPT ![i] = compiled[i] \cup {v}]
      BY DEF LoadStep, LoadThrows, FindPaymentDefinition, FetchConfigFile,
             InsertPaymentDefinition, LoadEnds, LoadFails
    <2>4. catalog' \in [Versions -> Statuses]
      BY <2>1 DEF TypeInv, TypeOK
    <2>5. stored' \subseteq Versions
      BY <2>2 DEF TypeInv, TypeOK
    <2>6. compiled[i] \cup {v} \in SUBSET Versions
      BY DEF TypeInv, TypeOK
    <2>7. compiled' \in [Instances -> SUBSET Versions]
      BY <2>3, <2>6 DEF TypeInv, TypeOK
    <2> QED BY <2>4, <2>5, <2>7
  <1>5. faults' \in 0..MaxFaults /\ UNCHANGED others
    BY FaultType DEF LoadStep, LoadThrows, FindPaymentDefinition, FetchConfigFile,
           InsertPaymentDefinition, LoadEnds, LoadFails, TypeInv, TypeOK
  <1> QED BY <1>2, <1>3, <1>4, <1>5 DEF TypeInv, TypeOK, inputs, ledger

\* What a handler can become in one step, and what it does to the lock.
LEMMA HandlerMoves ==
    ASSUME TypeInv, NEW i \in Instances, NEW m \in Messages,
           HandlerStep(i, m) \/ HandlerThrows(i, m),
           ~LoadPaymentDefinition(i, m), ~MarkEvent(i, m)
    PROVE  /\ \E t \in Task : Set(i, m, t)
           /\ lock' \in {lock, <<i, m>>, Released(i, m)}
           /\ UNCHANGED <<inputs, box, definitions>>
           /\ faults' = faults \/ Fault
           /\ Write(i, m) \/ UNCHANGED <<counter, payments, outbox>>
  <1>1. /\ task[i][m] \in Task /\ counter \in Nat
    BY DEF TypeInv, TypeOK
  <1>2. [pc |-> "allocate", seen |-> counter, result |-> "none",
         paid |-> task[i][m].paid] \in Task
    BY <1>1 DEF Task
  <1>3. CASE FindPaymentBySource(i, m) \/ ResolvePaymentDefinition(i, m)
    <2>1. \E t \in Task : Set(i, m, t)
      BY <1>1, <1>3, TaskTypes DEF FindPaymentBySource, ResolvePaymentDefinition
    <2> QED BY <1>3, <2>1 DEF FindPaymentBySource, ResolvePaymentDefinition, ledger
  <1>4. CASE FindInSession(i, m)
    <2>1. \E t \in Task : Set(i, m, t)
      BY <1>1, <1>2, <1>4, TaskTypes DEF FindInSession
    <2> QED BY <1>4, <2>1 DEF FindInSession, ledger
  <1>5. CASE AllocateNextSequence(i, m)
    <2>1. \E t \in Task : Set(i, m, t)
      BY <1>1, <1>5, TaskTypes DEF AllocateNextSequence
    <2> QED BY <1>5, <2>1 DEF AllocateNextSequence
  <1>6. CASE InsertPayment(i, m)
    <2>1. \E t \in Task : Set(i, m, t)
      BY <1>1, <1>6, TaskTypes DEF InsertPayment
    <2> QED BY <1>6, <2>1 DEF InsertPayment
  <1>7. CASE Commit(i, m) \/ HandlerThrows(i, m)
    <2>1. \E t \in Task : Set(i, m, t)
      BY <1>1, <1>7, TaskTypes DEF Commit, HandlerThrows
    <2> QED BY <1>7, <2>1 DEF Commit, HandlerThrows, Write
  <1> QED BY <1>3, <1>4, <1>5, <1>6, <1>7 DEF HandlerStep

LEMMA HandlerType ==
    ASSUME TypeInv, NEW i \in Instances, NEW m \in Messages,
           HandlerStep(i, m) \/ HandlerThrows(i, m),
           ~LoadPaymentDefinition(i, m), ~MarkEvent(i, m)
    PROVE  TypeInv'
  <1>1. task' \in [Instances -> [Messages -> Task]]
    BY HandlerMoves, SetType DEF TypeInv
  <1>2. lock' \in (Instances \X Messages) \cup {None}
    BY HandlerMoves DEF Released, TypeInv, TypeOK
  <1>3. counter' \in Nat /\ payments' \in Seq([source : Sources, id : Nat])
        /\ outbox' \in Seq(Sources)
    <2>1. CASE Write(i, m)
      <3>1. task[i][m].seen + 1 \in Nat /\ SourceOf[m] \in Sources
        BY Constants DEF Task, TypeInv, TypeOK
      <3>2. [source |-> SourceOf[m], id |-> task[i][m].seen + 1]
                \in [source : Sources, id : Nat]
        BY <3>1
      <3> QED BY <2>1, <3>1, <3>2, AppendProperties DEF Write, TypeInv, TypeOK
    <2>2. CASE UNCHANGED <<counter, payments, outbox>>
      BY <2>2 DEF TypeInv, TypeOK
    <2> QED BY <2>1, <2>2, HandlerMoves
  <1>4. faults' \in 0..MaxFaults
    BY HandlerMoves, FaultType DEF TypeInv, TypeOK
  <1> QED BY <1>1, <1>2, <1>3, <1>4, HandlerMoves
          DEF TypeInv, TypeOK, inputs, definitions

LEMMA TypeStep == TypeInv /\ [Next]_vars => TypeInv'
  <1> SUFFICES ASSUME TypeInv, [Next]_vars PROVE TypeInv'
    OBVIOUS
  <1>1. ASSUME NEW i \in Instances, NEW m \in Messages,
               Deliver(i, m) \/ HandlerStep(i, m) \/ HandlerThrows(i, m)
        PROVE  TypeInv'
    BY <1>1, DeliveryType, LoadPaymentDefinitionType, HandlerType
  <1>2. CASE UNCHANGED vars
    BY <1>2 DEF vars, inputs, definitions, ledger, TypeInv, TypeOK
  <1> QED BY <1>1, <1>2, LoadStepType, StorePaymentDefinitionType, ClaimExpiresType,
          CrashType DEF Next

\* Whatever fails, expires or crashes, every variable keeps its type; an attempt
\* is counted only on a claimed request that is still below the retry cap.
THEOREM TypeCorrect == Spec => []TypeOK
  <1>1. Spec => []TypeInv
    BY TypeInit, TypeStep, PTL DEF Spec
  <1>2. TypeInv => TypeOK
    BY DEF TypeInv
  <1> QED BY <1>1, <1>2, PTL

-----------------------------------------------------------------------------
(***************************************************************************)
(* The ledger.  A handler that has changed the counter in its transaction  *)
(* holds the write lock on it, so the number it read is still the number   *)
(* stored when it commits, and its source is still unpaid.                 *)
(***************************************************************************)
Open(i, m) == task[i][m].pc \in {"insert", "commit"}

LockInv ==
    \A i \in Instances, m \in Messages :
        /\ Open(i, m) => lock = <<i, m>> /\ task[i][m].seen = counter
        /\ task[i][m].pc = "commit" => ~IsPaid(SourceOf[m])

LedgerInv == PaymentsAreWhole /\ LockInv

\* A handler that has no transaction open, and gets none, is of no concern.
Aside(j, k) == Open(j, k)' => task'[j][k] = task[j][k]

LEMMA WakeAside ==
    ASSUME TypeOK, NEW i \in Instances, NEW v \in Versions, NEW pc \in {"resolve", "mark"},
           NEW result, Wake(i, v, pc, result)
    PROVE  \A j \in Instances, k \in Messages : Aside(j, k)
  BY DEF Wake, Aside, Open, TypeOK

LEMMA SetAside ==
    ASSUME TypeOK, NEW i \in Instances, NEW m \in Messages, NEW t \in Task,
           t.pc \notin {"insert", "commit"}, Set(i, m, t)
    PROVE  \A j \in Instances, k \in Messages : Aside(j, k)
  <1> SUFFICES ASSUME NEW j \in Instances, NEW k \in Messages PROVE Aside(j, k)
    OBVIOUS
  <1>1. CASE <<j, k>> = <<i, m>>
    BY <1>1, SetType DEF Aside, Open
  <1>2. CASE <<j, k>> # <<i, m>>
    BY <1>2, SetType DEF Aside, Open
  <1> QED BY <1>1, <1>2

\* The records a handler is given outside a transaction.
LEMMA TaskPlaces ==
    ASSUME NEW t \in Task
    PROVE  /\ \A pc : At(t, pc).pc = pc /\ At(t, pc).seen = t.seen /\ At(t, pc).paid = t.paid
           /\ \A result : /\ Ended(t, result).pc = "mark" /\ Ended(t, result).paid = t.paid
                          /\ Ended(t, result).result = result
           /\ NoTask.pc = "idle" /\ NoTask.paid = FALSE
  BY DEF At, Ended, NoTask

LEMMA PlacesOutside ==
    ASSUME NEW t \in Task
    PROVE  /\ \A pc \in {"definition", "wait", "resolve", "session"} :
                 At(t, pc) \in Task /\ At(t, pc).pc \notin {"insert", "commit"}
           /\ \A result \in {"none", "ok", "retryable", "permanent"} :
                 Ended(t, result) \in Task /\ Ended(t, result).pc \notin {"insert", "commit"}
  BY TaskTypes, TaskPlaces

\* The steps outside transactions.
Outside(i, m) ==
    \/ Deliver(i, m) \/ MarkEvent(i, m) \/ LoadPaymentDefinition(i, m)
    \/ FindPaymentBySource(i, m) \/ ResolvePaymentDefinition(i, m) \/ FindInSession(i, m)

LEMMA OutsideMoves ==
    ASSUME TypeInv, NEW i \in Instances, NEW m \in Messages, Outside(i, m)
    PROVE  UNCHANGED ledger /\ \A j \in Instances, k \in Messages : Aside(j, k)
  <1>1. task[i][m] \in Task /\ counter \in Nat /\ IsPaid(SourceOf[m]) \in BOOLEAN
    BY DEF TypeInv, TypeOK, IsPaid
  <1> DEFINE found == [pc |-> "find", seen |-> 0, result |-> "none",
                       paid |-> IsPaid(SourceOf[m])]
             read == [pc |-> "allocate", seen |-> counter, result |-> "none",
                      paid |-> task[i][m].paid]
  <1>2. found \in Task /\ read \in Task /\ found.pc = "find" /\ read.pc = "allocate"
    BY <1>1 DEF Task
  <1> HIDE DEF found, read
  <1>3. \E t \in Task : t.pc \notin {"insert", "commit"} /\ Set(i, m, t)
    <2>1. CASE Deliver(i, m)
      BY <1>2, <2>1 DEF Deliver, found
    <2>2. CASE FindInSession(i, m)
      <3>1. Set(i, m, Ended(task[i][m], "ok")) \/ Set(i, m, read)
        BY <2>2 DEF FindInSession, read
      <3> QED BY <1>1, <1>2, <3>1, PlacesOutside
    <2>3. CASE MarkEvent(i, m)
      BY <1>1, <2>3, TaskTypes, TaskPlaces DEF MarkEvent
    <2>4. CASE LoadPaymentDefinition(i, m)
      <3>1. \/ Set(i, m, Ended(task[i][m], "permanent"))
            \/ Set(i, m, At(task[i][m], "resolve")) \/ Set(i, m, At(task[i][m], "wait"))
        BY <2>4 DEF LoadPaymentDefinition, LoadCompiled
      <3> QED BY <1>1, <3>1, PlacesOutside
    <2>5. CASE FindPaymentBySource(i, m)
      <3>1. Set(i, m, Ended(task[i][m], "ok")) \/ Set(i, m, At(task[i][m], "definition"))
        BY <2>5 DEF FindPaymentBySource
      <3> QED BY <1>1, <3>1, PlacesOutside
    <2>6. CASE ResolvePaymentDefinition(i, m)
      <3>1. Set(i, m, Ended(task[i][m], "retryable")) \/ Set(i, m, At(task[i][m], "session"))
        BY <2>6 DEF ResolvePaymentDefinition
      <3> QED BY <1>1, <3>1, PlacesOutside
    <2> QED BY <2>1, <2>2, <2>3, <2>4, <2>5, <2>6 DEF Outside
  <1>4. UNCHANGED ledger
    BY DEF Outside, Deliver, MarkEvent, LoadPaymentDefinition, FindPaymentBySource,
           ResolvePaymentDefinition, FindInSession
  <1> QED BY <1>3, <1>4, SetAside DEF TypeInv

LEMMA AsideKeeps ==
    ASSUME LedgerInv, UNCHANGED ledger,
           \A j \in Instances, k \in Messages : Aside(j, k)
    PROVE  LedgerInv'
  <1>1. PaymentsAreWhole' /\ \A k \in Messages : IsPaid(SourceOf[k])' = IsPaid(SourceOf[k])
    BY DEF LedgerInv, PaymentsAreWhole, IsPaid, ledger
  <1> QED BY <1>1 DEF LedgerInv, LockInv, Aside, Open, ledger

\* The loads change handlers that wait, and wait for no transaction.
LEMMA LoadMoves ==
    ASSUME TypeInv, NEW i \in Instances, NEW v \in Versions,
           LoadStep(i, v) \/ LoadThrows(i, v)
    PROVE  UNCHANGED ledger /\ \A j \in Instances, k \in Messages : Aside(j, k)
  <1>1. /\ UNCHANGED ledger
        /\ \/ UNCHANGED task \/ Wake(i, v, "resolve", "none")
           \/ Wake(i, v, "mark", load[i][v].error)
    BY DEF LoadStep, LoadThrows, FindPaymentDefinition, FetchConfigFile,
           InsertPaymentDefinition, LoadEnds, LoadFails
  <1> QED BY <1>1, WakeAside DEF TypeInv, Aside

\* A handler's step in its transaction: no other handler is changed.
LEMMA OthersInstance ==
    ASSUME TypeInv, LockInv, NEW i \in Instances, NEW m \in Messages,
           NEW t \in Task, Set(i, m, t), UNCHANGED <<counter, payments, outbox>>,
           lock' \in {lock, Released(i, m)} \/ (lock = None /\ lock' = <<i, m>>),
           t.pc \in {"insert", "commit"} => lock' = <<i, m>> /\ t.seen = counter,
           t.pc = "commit" => ~IsPaid(SourceOf[m])
    PROVE  LockInv'
  <1> SUFFICES ASSUME NEW j \in Instances, NEW k \in Messages
               PROVE  /\ Open(j, k)' => lock' = <<j, k>> /\ task'[j][k].seen = counter'
                      /\ task'[j][k].pc = "commit" => ~IsPaid(SourceOf[k])'
    BY DEF LockInv
  <1>1. IsPaid(SourceOf[k])' = IsPaid(SourceOf[k])
    BY DEF IsPaid
  <1>2. CASE <<j, k>> = <<i, m>>
    BY <1>1, <1>2, SetType DEF TypeInv, Open
  <1>3. CASE <<j, k>> # <<i, m>>
    <2>1. task'[j][k] = task[j][k]
      BY <1>3, SetType DEF TypeInv
    <2>2. Open(j, k) => lock = <<j, k>> /\ lock' = lock
      BY <1>3, Constants DEF LockInv, Released
    <2> QED BY <1>1, <2>1, <2>2 DEF LockInv, Open
  <1> QED BY <1>2, <1>3

LEMMA TransactionLock ==
    ASSUME TypeInv, LockInv, NEW i \in Instances, NEW m \in Messages,
           AllocateNextSequence(i, m) \/ InsertPayment(i, m) \/ HandlerThrows(i, m)
    PROVE  LockInv' /\ UNCHANGED <<counter, payments, outbox>>
  <1>1. task[i][m] \in Task
    BY DEF TypeInv, TypeOK
  <1>2. UNCHANGED <<counter, payments, outbox>>
    BY DEF AllocateNextSequence, InsertPayment, HandlerThrows
  <1> DEFINE t(pc) == At(task[i][m], pc)
  <1>3. /\ t("insert") \in Task /\ t("insert").pc = "insert"
        /\ t("insert").seen = task[i][m].seen
        /\ t("commit") \in Task /\ t("commit").pc = "commit"
        /\ t("commit").seen = task[i][m].seen
        /\ t("session") \in Task /\ t("session").pc = "session"
    BY <1>1, TaskTypes, TaskPlaces
  <1> HIDE DEF t
  <1>4. ASSUME NEW u \in Task, u.pc \notin {"insert", "commit"}, Set(i, m, u),
               lock' \in {lock, Released(i, m)}
        PROVE  LockInv'
    BY <1>2, <1>4, OthersInstance
  <1>5. CASE AllocateNextSequence(i, m)
    <2>1. CASE lock = None /\ counter = task[i][m].seen
      <3>1. Set(i, m, t("insert")) /\ lock' = <<i, m>>
        BY <1>5, <2>1 DEF AllocateNextSequence, t
      <3> QED BY <1>2, <1>3, <2>1, <3>1, OthersInstance
    <2>2. CASE ~(lock = None /\ counter = task[i][m].seen)
      <3>1. Set(i, m, t("session")) /\ lock' = lock
        BY <1>5, <2>2 DEF AllocateNextSequence, t
      <3>2. t("session").pc \notin {"insert", "commit"} /\ lock' \in {lock, Released(i, m)}
        BY <1>3, <3>1
      <3> QED BY <1>2, <1>3, <1>4, <3>1, <3>2
    <2> QED BY <2>1, <2>2
  <1>6. CASE InsertPayment(i, m)
    <2>1. CASE fits[m] = "no payment" \/ IsPaid(SourceOf[m])
      <3>1. \E result \in {"ok", "retryable"} : Set(i, m, Ended(task[i][m], result))
        BY <1>6, <2>1 DEF InsertPayment
      <3>2. lock' \in {lock, Released(i, m)}
        BY <1>6, <2>1 DEF InsertPayment
      <3>3. \E u \in Task : u.pc \notin {"insert", "commit"} /\ Set(i, m, u)
        BY <1>1, <3>1, PlacesOutside
      <3> QED BY <1>2, <1>4, <3>2, <3>3
    <2>2. CASE ~(fits[m] = "no payment" \/ IsPaid(SourceOf[m]))
      <3>1. Set(i, m, t("commit")) /\ lock' = lock /\ ~IsPaid(SourceOf[m])
        BY <1>6, <2>2 DEF InsertPayment, t
      <3>2. lock = <<i, m>> /\ task[i][m].seen = counter
        BY <1>6 DEF InsertPayment, LockInv, Open
      <3> QED BY <1>2, <1>3, <3>1, <3>2, OthersInstance
    <2> QED BY <2>1, <2>2
  <1>7. CASE HandlerThrows(i, m)
    BY <1>1, <1>4, <1>7, PlacesOutside DEF HandlerThrows
  <1> QED BY <1>2, <1>5, <1>6, <1>7

LEMMA CommitLedger ==
    ASSUME TypeInv, LedgerInv, NEW i \in Instances, NEW m \in Messages, Commit(i, m)
    PROVE  LedgerInv'
  <1>1. /\ task[i][m] \in Task /\ task[i][m].pc = "commit"
        /\ lock = <<i, m>> /\ task[i][m].seen = counter /\ ~IsPaid(SourceOf[m])
    BY DEF Commit, LedgerInv, LockInv, Open, TypeInv, TypeOK
  <1> DEFINE P == [source : Sources, id : Nat]
             p == [source |-> SourceOf[m], id |-> counter + 1]
  <1>2. /\ p \in P /\ p.source = SourceOf[m] /\ p.id = counter + 1
        /\ SourceOf[m] \in Sources
        /\ payments \in Seq(P) /\ outbox \in Seq(Sources)
    BY Constants DEF TypeInv, TypeOK
  <1>3. /\ counter' = counter + 1 /\ lock' = None
        /\ payments' = Append(payments, p) /\ outbox' = Append(outbox, SourceOf[m])
    BY <1>1 DEF Commit, Write, Released
  <1>4. /\ Len(payments') = Len(payments) + 1 /\ Len(outbox') = Len(outbox) + 1
        /\ DOMAIN payments' = 1..(Len(payments) + 1) /\ DOMAIN payments = 1..Len(payments)
        /\ \A n \in 1..Len(payments) : payments'[n] = payments[n]
        /\ \A n \in 1..Len(outbox) : outbox'[n] = outbox[n]
        /\ payments'[Len(payments) + 1] = p
        /\ outbox'[Len(outbox) + 1] = SourceOf[m]
        /\ Len(payments) \in Nat
    <2> HIDE DEF p, P
    <2> QED BY <1>2, <1>3, AppendProperties, LenProperties
  <1>5. PaymentsAreWhole'
    <2> HIDE DEF p, P
    <2>1. counter = Len(payments) /\ Len(outbox) = Len(payments)
      BY DEF LedgerInv, PaymentsAreWhole
    <2>2. ASSUME NEW n \in DOMAIN payments'
          PROVE  payments'[n].id = n /\ outbox'[n] = payments'[n].source
      <3>1. CASE n \in 1..Len(payments)
        BY <1>4, <2>1, <3>1 DEF LedgerInv, PaymentsAreWhole
      <3>2. CASE n = Len(payments) + 1
        BY <1>2, <1>4, <2>1, <3>2
      <3> QED BY <1>4, <3>1, <3>2
    <2>3. ASSUME NEW n \in DOMAIN payments', NEW k \in DOMAIN payments',
                 payments'[n].source = payments'[k].source
          PROVE  n = k
      <3>1. \A h \in 1..Len(payments) : payments'[h].source # SourceOf[m]
        BY <1>1, <1>4 DEF IsPaid
      <3>2. CASE n \in 1..Len(payments) /\ k \in 1..Len(payments)
        BY <1>4, <2>3, <3>2 DEF LedgerInv, PaymentsAreWhole
      <3>3. CASE n = Len(payments) + 1 \/ k = Len(payments) + 1
        BY <1>2, <1>4, <2>3, <3>1, <3>3
      <3> QED BY <1>2, <1>4, <3>2, <3>3
    <2> QED BY <1>3, <1>4, <2>1, <2>2, <2>3 DEF PaymentsAreWhole
  <1>6. LockInv'
    <2>1. \E t \in Task : t.pc \notin {"insert", "commit"} /\ Set(i, m, t)
      BY <1>1, PlacesOutside DEF Commit
    <2>2. \A j \in Instances, k \in Messages : Aside(j, k)
      BY <2>1, SetAside DEF TypeInv
    <2>3. ~Open(i, m)'
      BY <2>1, SetType DEF Open, TypeInv
    <2>4. \A j \in Instances, k \in Messages : <<j, k>> # <<i, m>> => ~Open(j, k)
      BY <1>1 DEF LedgerInv, LockInv
    <2> QED BY <2>2, <2>3, <2>4 DEF LockInv, Aside, Open
  <1> QED BY <1>5, <1>6 DEF LedgerInv

LEMMA CrashLedger ==
    ASSUME TypeInv, LedgerInv, NEW i \in Instances, Crash(i)
    PROVE  LedgerInv'
  <1>1. PaymentsAreWhole' /\ \A k \in Messages : IsPaid(SourceOf[k])' = IsPaid(SourceOf[k])
    BY DEF Crash, LedgerInv, PaymentsAreWhole, IsPaid
  <1>2. ASSUME NEW j \in Instances, NEW k \in Messages, Open(j, k)'
        PROVE  Open(j, k) /\ task'[j][k] = task[j][k] /\ j # i
    BY <1>2 DEF Crash, Open, NoTask, TypeInv, TypeOK
  <1>3. ASSUME NEW j \in Instances, NEW k \in Messages, lock = <<j, k>>, j # i
        PROVE  lock' = lock
    BY <1>3 DEF Crash
  <1>4. LockInv'
    BY <1>1, <1>2, <1>3 DEF Crash, LedgerInv, LockInv, Open
  <1> QED BY <1>1, <1>4 DEF LedgerInv

LEMMA LedgerStep == TypeInv /\ LedgerInv /\ [Next]_vars => LedgerInv'
  <1> SUFFICES ASSUME TypeInv, LedgerInv, [Next]_vars PROVE LedgerInv'
    OBVIOUS
  <1>1. ASSUME NEW i \in Instances, NEW m \in Messages,
               AllocateNextSequence(i, m) \/ InsertPayment(i, m) \/ HandlerThrows(i, m)
        PROVE  LedgerInv'
    <2>1. LockInv' /\ UNCHANGED <<counter, payments, outbox>>
      BY <1>1, TransactionLock DEF LedgerInv
    <2> QED BY <2>1 DEF LedgerInv, PaymentsAreWhole
  <1>2. ASSUME NEW i \in Instances, NEW m \in Messages, Outside(i, m)
        PROVE  LedgerInv'
    BY <1>2, OutsideMoves, AsideKeeps
  <1>3. ASSUME NEW i \in Instances, NEW v \in Versions,
               LoadStep(i, v) \/ LoadThrows(i, v)
        PROVE  LedgerInv'
    BY <1>3, LoadMoves, AsideKeeps
  <1>4. CASE \/ UNCHANGED vars \/ \E m \in Messages : ClaimExpires(m)
             \/ \E v \in Versions : StorePaymentDefinition(v)
    <2>1. UNCHANGED <<ledger, task>>
      BY <1>4 DEF vars, ClaimExpires, StorePaymentDefinition
    <2> QED BY <2>1, AsideKeeps DEF Aside
  <1> QED BY <1>1, <1>2, <1>3, <1>4, CommitLedger, CrashLedger
          DEF Next, HandlerStep, Outside

\* For any number of requests, instances, faults and retries: claim ids are given
\* out once and without a gap, a source is paid once, and each Payment has one
\* message for the Payment Hub.
THEOREM PaymentsWhole == Spec => []PaymentsAreWhole
  <1>1. Init => LedgerInv
    <2>1. Len(<<>>) = 0 /\ DOMAIN <<>> = {}
      OBVIOUS
    <2> QED BY <2>1 DEF Init, LedgerInv, PaymentsAreWhole, LockInv, Open, NoTask
  <1>2. TypeInv /\ LedgerInv /\ [Next]_vars => TypeInv' /\ LedgerInv'
    BY TypeStep, LedgerStep
  <1>3. LedgerInv => PaymentsAreWhole
    BY DEF LedgerInv
  <1> QED BY <1>1, <1>2, <1>3, TypeInit, PTL DEF Spec

-----------------------------------------------------------------------------
(***************************************************************************)
(* Redelivery.  A handler that began when its source was paid goes from    *)
(* the first look for the Payment straight to its end, and meanwhile the   *)
(* Payment does not go away.                                               *)
(***************************************************************************)
PaidTask(t, m) ==
    t.paid => /\ IsPaid(SourceOf[m])
              /\ t.pc \in {"find", "mark"}
              /\ t.result # "permanent"

PaidInv == \A i \in Instances, m \in Messages : PaidTask(task[i][m], m)

\* Payments are only ever added.
LEMMA PaidStaysPaid ==
    ASSUME TypeInv, [Next]_vars, NEW s, IsPaid(s)
    PROVE  IsPaid(s)'
  <1>1. payments' = payments \/ \E p : payments' = Append(payments, p)
    <2>1. ASSUME NEW i \in Instances, NEW m \in Messages,
                 Deliver(i, m) \/ HandlerStep(i, m) \/ HandlerThrows(i, m)
          PROVE  payments' = payments \/ \E p : payments' = Append(payments, p)
      <3>1. CASE Outside(i, m)
        BY <3>1, OutsideMoves DEF ledger
      <3>2. CASE AllocateNextSequence(i, m) \/ InsertPayment(i, m) \/ HandlerThrows(i, m)
        BY <3>2 DEF AllocateNextSequence, InsertPayment, HandlerThrows
      <3>3. CASE Commit(i, m)
        BY <3>3 DEF Commit, Write
      <3> QED BY <2>1, <3>1, <3>2, <3>3 DEF Outside, HandlerStep
    <2>2. ASSUME NEW i \in Instances, NEW v \in Versions, LoadStep(i, v) \/ LoadThrows(i, v)
          PROVE  payments' = payments
      BY <2>2, LoadMoves DEF ledger
    <2>3. CASE \/ UNCHANGED vars \/ \E m \in Messages : ClaimExpires(m)
               \/ \E v \in Versions : StorePaymentDefinition(v)
               \/ \E i \in Instances : Crash(i)
      BY <2>3 DEF vars, ledger, ClaimExpires, StorePaymentDefinition, Crash
    <2> QED BY <2>1, <2>2, <2>3 DEF Next
  <1>2. CASE payments' = payments
    BY <1>2 DEF IsPaid
  <1>3. ASSUME NEW p, payments' = Append(payments, p)
        PROVE  IsPaid(s)'
    <2>1. \A n \in DOMAIN payments : n \in DOMAIN payments' /\ payments'[n] = payments[n]
      BY <1>3 DEF TypeInv, TypeOK
    <2> QED BY <2>1 DEF IsPaid
  <1> QED BY <1>1, <1>2, <1>3

\* The handler of a paid source finds its Payment, fails in a way that is
\* tried again, or hands in its result.
LEMMA PaidHandler ==
    ASSUME TypeInv, PaidInv, NEW i \in Instances, NEW m \in Messages,
           Deliver(i, m) \/ HandlerStep(i, m) \/ HandlerThrows(i, m)
    PROVE  \E t \in Task : /\ Set(i, m, t)
                           /\ t.paid => /\ IsPaid(SourceOf[m])
                                        /\ t.pc \in {"find", "mark"}
                                        /\ t.result # "permanent"
  <1> DEFINE u == task[i][m]
  <1>1. u \in Task /\ counter \in Nat /\ IsPaid(SourceOf[m]) \in BOOLEAN
    BY DEF TypeInv, TypeOK, IsPaid
  <1>2. u.paid => IsPaid(SourceOf[m]) /\ u.pc \in {"find", "mark"}
    BY DEF PaidInv, PaidTask
  <1>3. CASE Deliver(i, m)
    <2> DEFINE t == [pc |-> "find", seen |-> 0, result |-> "none",
                     paid |-> IsPaid(SourceOf[m])]
    <2>1. /\ t \in Task /\ t.pc = "find" /\ t.result = "none"
          /\ t.paid = IsPaid(SourceOf[m])
      BY <1>1 DEF Task
    <2>2. Set(i, m, t)
      BY <1>3 DEF Deliver
    <2> HIDE DEF t
    <2> QED BY <2>1, <2>2
  <1>4. CASE MarkEvent(i, m)
    BY <1>1, <1>4, TaskTypes, TaskPlaces DEF MarkEvent
  <1>5. ASSUME NEW result \in {"none", "ok", "retryable"}, Set(i, m, Ended(u, result))
        PROVE  \E t \in Task : /\ Set(i, m, t)
                               /\ t.paid => /\ IsPaid(SourceOf[m])
                                            /\ t.pc \in {"find", "mark"}
                                            /\ t.result # "permanent"
    <2> DEFINE t == Ended(u, result)
    <2>1. t \in Task /\ t.paid = u.paid /\ t.pc = "mark" /\ t.result = result
      BY <1>1, TaskTypes, TaskPlaces
    <2>2. Set(i, m, t)
      BY <1>5
    <2> HIDE DEF t, u
    <2> QED BY <1>2, <2>1, <2>2
  <1>6. ASSUME ~u.paid, \E t \in Task : Set(i, m, t) /\ t.paid = u.paid
        PROVE  \E t \in Task : /\ Set(i, m, t)
                               /\ t.paid => /\ IsPaid(SourceOf[m])
                                            /\ t.pc \in {"find", "mark"}
                                            /\ t.result # "permanent"
    BY <1>6
  <1>7. CASE FindPaymentBySource(i, m)
    <2>1. CASE IsPaid(SourceOf[m])
      BY <1>5, <1>7, <2>1 DEF FindPaymentBySource
    <2>2. CASE ~IsPaid(SourceOf[m])
      <3> DEFINE t == At(u, "definition")
      <3>1. t \in Task /\ t.paid = u.paid
        BY <1>1, TaskTypes, TaskPlaces
      <3>2. Set(i, m, t) /\ ~u.paid
        BY <1>2, <1>7, <2>2 DEF FindPaymentBySource
      <3> HIDE DEF t, u
      <3> QED BY <1>6, <3>1, <3>2
    <2> QED BY <2>1, <2>2
  <1>8. CASE Commit(i, m) \/ HandlerThrows(i, m)
    BY <1>5, <1>8 DEF Commit, HandlerThrows
  <1>9. CASE \/ LoadPaymentDefinition(i, m) \/ ResolvePaymentDefinition(i, m)
             \/ FindInSession(i, m) \/ AllocateNextSequence(i, m) \/ InsertPayment(i, m)
    <2>1. ~u.paid
      BY <1>2, <1>9 DEF LoadPaymentDefinition, ResolvePaymentDefinition, FindInSession,
                        AllocateNextSequence, InsertPayment
    <2> DEFINE read == [pc |-> "allocate", seen |-> counter, result |-> "none",
                        paid |-> u.paid]
    <2>2. read \in Task /\ read.paid = u.paid
      BY <1>1 DEF Task
    <2>3. \/ \E result \in {"ok", "retryable", "permanent"} : Set(i, m, Ended(u, result))
          \/ \E pc \in {"wait", "resolve", "session", "insert", "commit"} :
                Set(i, m, At(u, pc))
          \/ Set(i, m, read)
      BY <1>9 DEF LoadPaymentDefinition, LoadCompiled, ResolvePaymentDefinition,
                  FindInSession, AllocateNextSequence, InsertPayment
    <2> HIDE DEF read, u
    <2>4. \E t \in Task : Set(i, m, t) /\ t.paid = u.paid
      <3>1. /\ \A result \in {"ok", "retryable", "permanent"} :
                  Ended(u, result) \in Task /\ Ended(u, result).paid = u.paid
            /\ \A pc \in {"wait", "resolve", "session", "insert", "commit"} :
                  At(u, pc) \in Task /\ At(u, pc).paid = u.paid
        BY <1>1, TaskTypes, TaskPlaces
      <3> QED BY <2>2, <2>3, <3>1
    <2> QED BY <1>6, <2>1, <2>4
  <1> QED BY <1>3, <1>4, <1>7, <1>8, <1>9 DEF HandlerStep

LEMMA PaidStep == TypeInv /\ PaidInv /\ [Next]_vars => PaidInv'
  <1> SUFFICES ASSUME TypeInv, PaidInv, [Next]_vars,
                      NEW j \in Instances, NEW k \in Messages
               PROVE  PaidTask(task[j][k], k)'
    BY DEF PaidInv
  <1>1. IsPaid(SourceOf[k]) => IsPaid(SourceOf[k])'
    BY PaidStaysPaid
  <1>2. CASE task'[j][k] = task[j][k]
    BY <1>1, <1>2 DEF PaidInv, PaidTask
  <1>3. ASSUME NEW i \in Instances, NEW m \in Messages,
               Deliver(i, m) \/ HandlerStep(i, m) \/ HandlerThrows(i, m)
        PROVE  PaidTask(task[j][k], k)'
    <2>1. PICK t \in Task : /\ Set(i, m, t)
                            /\ t.paid => /\ IsPaid(SourceOf[m])
                                         /\ t.pc \in {"find", "mark"}
                                         /\ t.result # "permanent"
      BY <1>3, PaidHandler
    <2>2. CASE <<j, k>> = <<i, m>>
      BY <1>1, <2>1, <2>2, SetType DEF PaidTask, TypeInv
    <2>3. CASE <<j, k>> # <<i, m>>
      BY <1>2, <2>1, <2>3, SetType DEF TypeInv
    <2> QED BY <2>2, <2>3
  <1>4. ASSUME NEW i \in Instances, NEW v \in Versions, LoadStep(i, v) \/ LoadThrows(i, v)
        PROVE  PaidTask(task[j][k], k)'
    <2>1. \/ UNCHANGED task \/ Wake(i, v, "resolve", "none")
          \/ Wake(i, v, "mark", load[i][v].error)
      BY <1>4 DEF LoadStep, LoadThrows, FindPaymentDefinition, FetchConfigFile,
                  InsertPaymentDefinition, LoadEnds, LoadFails
    <2>2. task'[j][k] = task[j][k] \/ (task[j][k].pc = "wait"
                                       /\ task'[j][k].paid = task[j][k].paid)
      <3>1. ASSUME NEW pc, NEW result, Wake(i, v, pc, result)
            PROVE  task'[j][k] = task[j][k] \/ (task[j][k].pc = "wait"
                                                /\ task'[j][k].paid = task[j][k].paid)
        <4>1. task' = [task EXCEPT ![i] = task'[i]]
          BY <3>1 DEF Wake, TypeInv, TypeOK
        <4>2. CASE j # i
          BY <4>1, <4>2 DEF TypeInv, TypeOK
        <4>3. CASE j = i
          BY <3>1, <4>3 DEF Wake, TypeInv, TypeOK
        <4> QED BY <4>2, <4>3
      <3> QED BY <2>1, <3>1
    <2>3. task[j][k].pc = "wait" => ~task[j][k].paid
      BY DEF PaidInv, PaidTask
    <2> QED BY <1>2, <2>2, <2>3 DEF PaidTask
  <1>5. ASSUME NEW i \in Instances, Crash(i)
        PROVE  PaidTask(task[j][k], k)'
    <2>1. task'[j][k] = task[j][k] \/ task'[j][k] = NoTask
      BY <1>5 DEF Crash, TypeInv, TypeOK
    <2> QED BY <1>2, <2>1 DEF PaidTask, NoTask
  <1>6. CASE \/ UNCHANGED vars \/ \E m \in Messages : ClaimExpires(m)
             \/ \E v \in Versions : StorePaymentDefinition(v)
    BY <1>2, <1>6 DEF vars, ClaimExpires, StorePaymentDefinition
  <1> QED BY <1>3, <1>4, <1>5, <1>6 DEF Next

\* A request delivered again after its source was paid never becomes a dead
\* letter for want of its definition, whatever happened to the definition since.
THEOREM PaidIsEnough == Spec => []PaidNeedsNoDefinition
  <1>1. Init => PaidInv
    BY DEF Init, PaidInv, PaidTask, NoTask
  <1>2. TypeInv /\ PaidInv /\ [Next]_vars => TypeInv' /\ PaidInv'
    BY TypeStep, PaidStep
  <1>3. PaidInv => PaidNeedsNoDefinition
    BY DEF PaidInv, PaidTask, PaidNeedsNoDefinition
  <1> QED BY <1>1, <1>2, <1>3, TypeInit, PTL DEF Spec

-----------------------------------------------------------------------------
(***************************************************************************)
(* Buckets.                                                                *)
(***************************************************************************)
\* A document or a cursor.
IsPlaced(d) == d.t \in Nat /\ d.id \in Nat

\* Documents of one time are told apart by their ids.
IsCollection(ds) ==
    /\ IsFiniteSet(ds)
    /\ \A d \in ds : IsPlaced(d)
    /\ \A d, e \in ds : d.id = e.id => d = e

\* The order of the rows is total on documents that have ids of their own.
LEMMA OlderIsAnOrder ==
    ASSUME NEW x, NEW y, NEW z, IsPlaced(x), IsPlaced(y), IsPlaced(z)
    PROVE  /\ ~Older(x, x)
           /\ Older(x, y) /\ Older(y, z) => Older(x, z)
           /\ Older(x, y) /\ ~Older(z, y) => Older(x, z)
           /\ ~Older(x, y) /\ Older(z, y) => Older(z, x)
           /\ Older(x, y) => ~Older(y, x)
           /\ x.id # y.id => Older(x, y) \/ Older(y, x)
  BY DEF Older, IsPlaced

\* A sorted list holds each document once, the newest first.
IsNewestFirst(s, ds) ==
    /\ s \in Seq(ds) /\ Len(s) = Cardinality(ds) /\ Len(s) \in Nat
    /\ \A i, j \in DOMAIN s : i < j => Older(s[j], s[i])
    /\ \A d \in ds : \E i \in DOMAIN s : s[i] = d

\* As many documents are newer than one as its place says: places are an
\* injection into 1 .. n, hence a bijection.
LEMMA NewestFirstSorts ==
    ASSUME NEW ds, IsCollection(ds)
    PROVE  IsNewestFirst(NewestFirst(ds), ds)
  <1> DEFINE n == Cardinality(ds)
             newer(d) == {e \in ds : Older(d, e)}
             rank == [d \in ds |-> Cardinality(newer(d)) + 1]
             s == NewestFirst(ds)
  <1>1. IsFiniteSet(ds) /\ n \in Nat
    BY FS_CardinalityType DEF IsCollection
  <1>2. \A d \in ds : IsFiniteSet(newer(d)) /\ Cardinality(newer(d)) \in Nat
    <2>1. \A d \in ds : newer(d) \subseteq ds
      OBVIOUS
    <2>2. QED
      BY <1>1, <2>1, FS_Subset, FS_CardinalityType
  <1>3. ASSUME NEW d \in ds, NEW e \in ds, Older(d, e)
        PROVE  rank[e] < rank[d]
    <2>1. newer(e) \subseteq newer(d) /\ e \in newer(d) /\ e \notin newer(e)
      BY <1>3, OlderIsAnOrder DEF IsCollection
    <2>2. newer(e) # newer(d)
      BY <2>1
    <2>3. Cardinality(newer(e)) < Cardinality(newer(d))
      <3> HIDE DEF newer
      <3> QED
        BY <1>2, <2>1, <2>2, FS_Subset
    <2>4. QED
      BY <1>2, <2>3
  <1>4. \A d \in ds : rank[d] \in 1 .. n
    <2>1. TAKE d \in ds
    <2>2. newer(d) \subseteq ds /\ newer(d) # ds
      BY OlderIsAnOrder DEF IsCollection
    <2>3. Cardinality(newer(d)) < n
      <3> HIDE DEF newer
      <3> QED
        BY <1>1, <1>2, <2>2, FS_Subset
    <2>4. QED
      BY <1>1, <1>2, <2>3
  <1>5. \A d, e \in ds : rank[d] = rank[e] => d = e
    <2>1. TAKE d, e \in ds
    <2>2. rank[d] \in Nat /\ rank[e] \in Nat
      BY <1>4
    <2>3. d.id # e.id => Older(d, e) \/ Older(e, d)
      BY OlderIsAnOrder DEF IsCollection
    <2>4. QED
      <3> HIDE DEF rank
      <3> QED
        BY <1>3, <2>2, <2>3 DEF IsCollection
  <1>6. \A i \in 1 .. n : \E d \in ds : rank[d] = i
    <2>1. rank \in [ds -> 1 .. n]
      BY <1>4
    <2> HIDE DEF rank
    <2>2. rank \in Injection(ds, 1 .. n)
      BY <1>5, <2>1 DEF Injection, IsInjective
    <2>3. 1 \in Int /\ n \in Int
      BY <1>1
    <2>4. IsFiniteSet(1 .. n) /\ Cardinality(1 .. n) = n
      BY <1>1, <2>3, FS_Interval
    <2>5. rank \in Surjection(ds, 1 .. n)
      BY <1>1, <2>2, <2>4, FS_Injection
    <2>6. QED
      BY <2>5 DEF Surjection
  <1>7. DOMAIN s = 1 .. n /\ \A i \in 1 .. n : s[i] \in ds /\ rank[s[i]] = i
    <2>1. DOMAIN s = 1 .. n
      BY DEF NewestFirst
    <2>2. ASSUME NEW i \in 1 .. n
          PROVE  s[i] \in ds /\ Cardinality(newer(s[i])) = i - 1
      <3>1. s[i] = CHOOSE d \in ds : Cardinality(newer(d)) = i - 1
        BY <2>2 DEF NewestFirst
      <3>2. PICK d \in ds : rank[d] = i
        BY <1>6
      <3>3. Cardinality(newer(d)) = i - 1
        <4>1. rank[d] = Cardinality(newer(d)) + 1 /\ Cardinality(newer(d)) \in Nat
          BY <1>2
        <4> HIDE DEF newer, rank
        <4>2. QED
          BY <3>2, <4>1
      <3> HIDE DEF newer, s
      <3>4. QED
        BY <3>1, <3>3
    <2>3. QED
      BY <2>1, <2>2
  <1>12. s = [i \in 1 .. n |-> s[i]]
    <2> DEFINE placed(i) == CHOOSE d \in ds : Cardinality({e \in ds : Older(d, e)}) = i - 1
    <2>1. s = [i \in 1 .. n |-> placed(i)]
      BY DEF NewestFirst
    <2> HIDE DEF placed, s
    <2>2. QED
      BY <2>1
  <1> HIDE DEF rank, s
  <1>8. s \in Seq(ds) /\ Len(s) = n
    BY <1>1, <1>7, <1>12
  <1>9. ASSUME NEW i \in DOMAIN s, NEW j \in DOMAIN s, i < j
        PROVE  Older(s[j], s[i])
    <2>1. s[i] \in ds /\ s[j] \in ds /\ rank[s[i]] = i /\ rank[s[j]] = j /\ i \in Nat /\ j \in Nat
      BY <1>7
    <2>2. ~Older(s[i], s[j])
      BY <1>3, <1>9, <2>1
    <2>3. s[i].id # s[j].id
      BY <1>9, <2>1 DEF IsCollection
    <2>4. QED
      BY <2>1, <2>2, <2>3, OlderIsAnOrder DEF IsCollection
  <1>10. \A d \in ds : \E i \in DOMAIN s : s[i] = d
    BY <1>4, <1>5, <1>7
  <1>11. QED
    BY <1>1, <1>8, <1>9, <1>10 DEF IsNewestFirst, s
\* A nonempty set of naturals has a least element.
LEMMA LeastOfNumbers ==
    ASSUME NEW S \in SUBSET Nat, S # {}
    PROVE  \E x \in S : \A y \in S : x <= y
  <1> DEFINE R == {ss \in Nat \X Nat : ss[1] < ss[2]}
  <1>1. IsWellFoundedOn(R, Nat)
    BY NatLessThanWellFounded, Zenon DEF OpToRel
  <1>2. PICK x \in S : \A y \in S : ~(<<y, x>> \in R)
    <2> HIDE DEF R
    <2> QED
      BY <1>1, WFMin
  <1>3. \A y \in S : ~(y < x)
    BY <1>2
  <1>4. QED
    BY <1>3

\* The best of the first n lines, and of the line it starts with.
IsBest(best, first, asked, show, needed, n) ==
    best = [i \in 0 .. n |->
              IF i = 0 THEN first
              ELSE IF /\ IsUsable(bucket, bucket.indexes[i], asked, show)
                      /\ Better(bucket.indexes[i], best[i - 1], asked, show, needed)
                   THEN bucket.indexes[i] ELSE best[i - 1]]

\* The recursion over the lines has a value.
LEMMA BestExists ==
    ASSUME NEW first, NEW asked, NEW show, NEW needed, NEW n \in Nat
    PROVE  \E best : IsBest(best, first, asked, show, needed, n)
  <1> DEFINE bad == {m \in Nat : ~\E best : IsBest(best, first, asked, show, needed, m)}
  <1> SUFFICES ASSUME bad # {} PROVE FALSE
    OBVIOUS
  <1>1. PICK m \in bad : \A k \in bad : m <= k
    BY LeastOfNumbers
  <1>2. CASE m = 0
    <2>1. IsBest([i \in 0 .. 0 |-> first], first, asked, show, needed, 0)
      BY DEF IsBest
    <2>2. QED
      BY <2>1, <1>1, <1>2
  <1>3. CASE m # 0
    <2>1. m - 1 \in Nat /\ ~(m <= m - 1)
      BY <1>3
    <2>2. PICK best : IsBest(best, first, asked, show, needed, m - 1)
      BY <2>1, <1>1
    <2> DEFINE next == IF /\ IsUsable(bucket, bucket.indexes[m], asked, show)
                          /\ Better(bucket.indexes[m], best[m - 1], asked, show, needed)
                       THEN bucket.indexes[m] ELSE best[m - 1]
               more == [i \in 0 .. m |-> IF i # m THEN best[i] ELSE next]
    <2>3. IsBest(more, first, asked, show, needed, m)
      <3>1. \A i \in 0 .. m - 1 :
               best[i] = IF i = 0 THEN first
                         ELSE IF /\ IsUsable(bucket, bucket.indexes[i], asked, show)
                                 /\ Better(bucket.indexes[i], best[i - 1], asked, show, needed)
                              THEN bucket.indexes[i] ELSE best[i - 1]
        BY <2>1, <2>2, Zenon DEF IsBest
      <3>2. more[m] = next /\ \A i \in 0 .. m - 1 : more[i] = best[i]
        <4> HIDE DEF next
        <4> QED
          BY <2>1
      <3>3. more[m] = IF m = 0 THEN first
                      ELSE IF /\ IsUsable(bucket, bucket.indexes[m], asked, show)
                              /\ Better(bucket.indexes[m], more[m - 1], asked, show, needed)
                           THEN bucket.indexes[m] ELSE more[m - 1]
        <4>1. more[m - 1] = best[m - 1]
          BY <2>1, <3>2
        <4> HIDE DEF more
        <4>2. QED
          BY <1>3, <3>2, <4>1, Zenon
      <3>4. ASSUME NEW i \in 0 .. m - 1
            PROVE  more[i] = IF i = 0 THEN first
                             ELSE IF /\ IsUsable(bucket, bucket.indexes[i], asked, show)
                                     /\ Better(bucket.indexes[i], more[i - 1], asked, show, needed)
                                  THEN bucket.indexes[i] ELSE more[i - 1]
        <4>1. i # 0 => more[i - 1] = best[i - 1]
          BY <2>1, <3>2
        <4>2. more[i] = best[i]
          BY <3>2
        <4> HIDE DEF more
        <4>3. QED
          BY <3>1, <4>1, <4>2, Zenon
      <3>5. \A i \in 0 .. m : i = m \/ i \in 0 .. m - 1
        BY <2>1
      <3>6. more = [i \in 0 .. m |-> more[i]]
        OBVIOUS
      <3> HIDE DEF more
      <3>7. QED
        BY <3>3, <3>4, <3>5, <3>6, Zenon DEF IsBest
    <2>4. QED
      BY <1>1, <2>3
  <1>4. QED
    BY <1>2, <1>3

\* bestLine starts with the line of nothing but the time and goes on to lines
\* that are usable.
LEMMA BestLineIsUsable ==
    ASSUME NEW asked, NEW show, NEW needed, bucket.indexes \in Seq(Range(bucket.indexes))
    PROVE  LET line == BestLine(asked, show, needed) IN
           \/ line = <<>>
           \/ line \in Range(bucket.indexes) /\ IsUsable(bucket, line, asked, show)
  <1> DEFINE n == Len(bucket.indexes)
             best == CHOOSE b : IsBest(b, <<>>, asked, show, needed, n)
             good(line) == \/ line = <<>>
                           \/ line \in Range(bucket.indexes) /\ IsUsable(bucket, line, asked, show)
  <1>1. n \in Nat /\ DOMAIN bucket.indexes = 1 .. n
    OBVIOUS
  <1>2. IsBest(best, <<>>, asked, show, needed, n)
    BY <1>1, BestExists, Zenon
  <1>3. BestLine(asked, show, needed) = best[n]
    BY Zenon DEF BestLine, IsBest
  <1>4. \A i \in 0 .. n :
           best[i] = IF i = 0 THEN <<>>
                     ELSE IF /\ IsUsable(bucket, bucket.indexes[i], asked, show)
                             /\ Better(bucket.indexes[i], best[i - 1], asked, show, needed)
                          THEN bucket.indexes[i] ELSE best[i - 1]
    BY <1>2, Zenon DEF IsBest
  <1> HIDE DEF best
  <1>5. \A i \in 0 .. n : i = 0 => good(best[i])
    BY <1>4, Zenon
  <1>6. ASSUME NEW i \in 0 .. n, i # 0, good(best[i - 1])
        PROVE  good(best[i])
    <2>1. i \in DOMAIN bucket.indexes
      BY <1>1, <1>6
    <2>2. bucket.indexes[i] \in Range(bucket.indexes)
      BY <2>1 DEF Range
    <2>3. \/ best[i] = best[i - 1]
          \/ IsUsable(bucket, bucket.indexes[i], asked, show) /\ best[i] = bucket.indexes[i]
      BY <1>4, <1>6, Zenon
    <2>4. QED
      BY <1>6, <2>2, <2>3, Zenon
  <1> HIDE DEF good
  <1>7. good(best[n])
    <2> DEFINE bad == {m \in 0 .. n : ~good(best[m])}
    <2> SUFFICES ASSUME bad # {} PROVE FALSE
      BY <1>1
    <2>6. bad \in SUBSET Nat
      BY <1>1
    <2>1. PICK m \in bad : \A k \in bad : m <= k
      <3> HIDE DEF bad
      <3> QED
        BY <2>6, LeastOfNumbers
    <2>2. m # 0
      BY <1>5, <2>1
    <2>3. m - 1 \in 0 .. n /\ ~(m <= m - 1)
      BY <1>1, <2>1, <2>2
    <2>4. good(best[m - 1])
      BY <2>1, <2>3
    <2>5. QED
      BY <1>6, <2>1, <2>2, <2>4
  <1>8. QED
    BY <1>3, <1>7, Zenon DEF good

\* What a plan says of a query: its facts are declared and either asked for or
\* filled, and what has to hold besides is residual.
IsPlan(plan, q) ==
    /\ plan.facts \subseteq DOMAIN bucket.facts
    /\ plan.filled = plan.facts \ Asked(q)
    /\ \A f \in plan.filled : IsClosed(bucket.facts[f])
    /\ plan.residual = (Asked(q) \cup Narrowing(Asked(q), q.show)) \ plan.facts

\* choosePlan: whichever line is best.
LEMMA PlansAreSound ==
    ASSUME bucket \in BucketDefinitions, IsBucket(bucket), NEW q
    PROVE  IsPlan(PlanOf(q), q)
  <1> DEFINE needed == Asked(q) \cup Narrowing(Asked(q), q.show)
             best == BestLine(Asked(q), q.show, needed)
             line == IF q.ref # Null THEN RefsLine ELSE best
             facts == FactsOf(bucket, line)
  <1>1. PlanOf(q) = [facts |-> facts, filled |-> facts \ Asked(q), residual |-> needed \ facts]
    BY Zenon DEF PlanOf, ChoosePlan
  <1>2. bucket.indexes \in Seq(Range(bucket.indexes))
    BY BucketsAssumption
  <1>3. /\ \A line2 \in Range(bucket.indexes) : Range(line2) \subseteq DOMAIN bucket.facts
        /\ \A f \in Range(bucket.lead) : f \in DOMAIN bucket.facts /\ IsClosed(bucket.facts[f])
    BY DEF IsBucket, Range
  <1>4. \/ best = <<>>
        \/ best \in Range(bucket.indexes) /\ IsUsable(bucket, best, Asked(q), q.show)
    BY <1>2, BestLineIsUsable, Zenon
  <1> HIDE DEF best
  <1>5. \/ facts = Range(bucket.lead)
        \/ /\ best \in Range(bucket.indexes) /\ IsUsable(bucket, best, Asked(q), q.show)
           /\ facts = Range(bucket.lead) \cup Range(best) /\ facts = FactsOf(bucket, best)
    <2>1. Range(<<>>) = {}
      BY DEF Range
    <2>2. FactsOf(bucket, RefsLine) = Range(bucket.lead)
      BY DEF FactsOf
    <2>3. FactsOf(bucket, best) \in {Range(bucket.lead), Range(bucket.lead) \cup Range(best)}
      BY DEF FactsOf
    <2>4. best = <<>> => FactsOf(bucket, best) = Range(bucket.lead)
      BY <2>1, <2>3, Zenon
    <2>5. QED
      BY <1>4, <2>2, <2>3, <2>4, Zenon
  <1> HIDE DEF facts
  <1>6. facts \subseteq DOMAIN bucket.facts /\ \A f \in facts \ Asked(q) : IsClosed(bucket.facts[f])
    BY <1>3, <1>5, Zenon DEF IsUsable
  <1>7. QED
    BY <1>1, <1>6 DEF IsPlan

----------------------------------------------------------------------------
\* A document that is found is wanted, whatever the plan.
LEMMA FoundIsWanted ==
    ASSUME bucket \in BucketDefinitions, NEW q, NEW plan, IsPlan(plan, q), NEW d,
           Bound(d, q, plan), Filled(d, q, plan, {Null}), InRefAndRange(d, q),
           Residual(d, q, plan)
    PROVE  Wanted(d, q)
  <1>1. ASSUME NEW f \in DOMAIN bucket.facts, f \in Asked(q)
        PROVE  d.facts[f] = q.where[f]
    BY <1>1 DEF IsPlan, Bound, Residual
  <1>2. ASSUME NEW f \in DOMAIN bucket.facts, f \notin Asked(q),
               NEW v \in bucket.facts[f].values, v.hidden, d.facts[f] = v.value, f \notin q.show
        PROVE  FALSE
    <2>1. IsClosed(bucket.facts[f])
      BY <1>2, BucketsAssumption DEF IsClosed
    <2>2. f \in Narrowing(Asked(q), q.show)
      BY <1>2, <2>1 DEF Narrowing, HasHidden
    <2>3. f \in plan.filled \/ f \in plan.residual
      BY <1>2, <2>2 DEF IsPlan
    <2>4. d.facts[f] \in FillOf(bucket, f, q.show) \cup {Null}
      BY <1>2, <2>3 DEF Filled, Residual
    <2>5. /\ v.value # Null
          /\ \A w \in bucket.facts[f].values : v.value = w.value => w.hidden = v.hidden
      BY <1>2, BucketsAssumption
    <2>6. d.facts[f] \in FillOf(bucket, f, q.show)
      BY <1>2, <2>4, <2>5
    <2>7. PICK w \in bucket.facts[f].values : d.facts[f] = w.value /\ (f \in q.show \/ ~w.hidden)
      BY <2>6 DEF FillOf
    <2>8. QED
      BY <1>2, <2>5, <2>7
  <1>3. QED
    BY <1>1, <1>2 DEF Wanted

\* A value that is listed and not hidden is among what a fact is filled with.
LEMMA ListedIsFilled ==
    ASSUME bucket \in BucketDefinitions, NEW q, NEW d, IsListed(d), Wanted(d, q),
           NEW f \in DOMAIN bucket.facts, IsClosed(bucket.facts[f]), f \notin Asked(q)
    PROVE  d.facts[f] \in FillOf(bucket, f, q.show) \cup {Null}
  <1>1. CASE d.facts[f] = Null
    BY <1>1
  <1>2. CASE \E v \in bucket.facts[f].values : v.value = d.facts[f]
    <2>1. PICK v \in bucket.facts[f].values : v.value = d.facts[f]
      BY <1>2
    <2>2. v.hidden => f \in q.show
      BY <2>1 DEF Wanted
    <2>3. QED
      BY <2>1, <2>2 DEF FillOf
  <1>3. QED
    BY <1>1, <1>2 DEF IsListed

\* A listed document that is wanted is found, whatever the plan.
LEMMA WantedIsFound ==
    ASSUME bucket \in BucketDefinitions, NEW q, Asked(q) \subseteq DOMAIN bucket.facts,
           NEW plan, IsPlan(plan, q), NEW d, IsListed(d), Wanted(d, q)
    PROVE  /\ Bound(d, q, plan) /\ Filled(d, q, plan, {Null}) /\ InRefAndRange(d, q)
           /\ Residual(d, q, plan)
  <1>1. Bound(d, q, plan) /\ InRefAndRange(d, q)
    BY DEF IsPlan, Bound, Wanted
  <1>2. Filled(d, q, plan, {Null})
    BY ListedIsFilled DEF IsPlan, Filled
  <1>3. ASSUME NEW f \in plan.residual, f \notin Asked(q)
        PROVE  d.facts[f] \in FillOf(bucket, f, q.show) \cup {Null}
    <2>1. f \in DOMAIN bucket.facts /\ IsClosed(bucket.facts[f])
      BY <1>3 DEF IsPlan, Narrowing, HasHidden
    <2>2. QED
      BY <1>3, <2>1, ListedIsFilled
  <1>4. ASSUME NEW f \in plan.residual, f \in Asked(q)
        PROVE  d.facts[f] = q.where[f]
    BY <1>4 DEF Wanted
  <1>5. QED
    BY <1>1, <1>2, <1>3, <1>4 DEF Residual
----------------------------------------------------------------------------
\* The documents are told apart by their ids, and a walk is of a query that
\* parses, on a plan that says what the query says.
BucketsOK ==
    /\ bucket \in BucketDefinitions
    /\ IsFiniteSet(DOMAIN docs) /\ docs = [i \in DOMAIN docs |-> docs[i]]
    /\ \A i \in DOMAIN docs : docs[i] \in AllDocuments /\ docs[i].id = i
    /\ walk = [query |-> walk.query, phase |-> walk.phase, plan |-> walk.plan,
               cursor |-> walk.cursor, edge |-> walk.edge, seen |-> walk.seen,
               kept |-> walk.kept]
    /\ walk.seen \in Seq(AllDocuments)
    /\ walk.phase \in {"defining", "none", "refused", "edge", "rows", "complete"}
    /\ walk.phase \in {"defining", "none", "refused"} => walk.seen = <<>>
    /\ walk.phase \in {"none", "edge", "rows", "complete"} => IsBucket(bucket)
    /\ walk.phase \in {"edge", "rows", "complete"} =>
         /\ walk.query \in Queries /\ Parses(walk.query) /\ IsPlan(walk.plan, walk.query)
         /\ walk.kept \subseteq Range(docs)

\* Between two pages, what was shown is not older than the cursor, what was left
\* alone and is wanted was shown or is older, and the edge is past the cursor.
Paged ==
    walk.phase \in {"edge", "rows"} =>
        /\ walk.cursor = Null => walk.seen = <<>>
        /\ walk.cursor # Null =>
             /\ IsPlaced(walk.cursor)
             /\ \A i \in DOMAIN walk.seen : ~Older(walk.seen[i], walk.cursor)
        /\ \A d \in walk.kept : IsListed(d) /\ Wanted(d, walk.query) =>
              d \in Range(walk.seen) \/ AfterCursor(d, walk.cursor)
        /\ walk.phase = "rows" /\ walk.edge # Null =>
             IsPlaced(walk.edge) /\ (walk.cursor # Null => walk.edge.t < walk.cursor.t)

BucketsInv == BucketsOK /\ Paged /\ ListsAreWhole

\* Every document has a time and an id.
LEMMA AllArePlaced ==
    ASSUME NEW d \in AllDocuments
    PROVE  IsPlaced(d) /\ IsPlaced(Position(d)) /\ Position(d) # Null
  BY BucketsAssumption DEF IsPlaced, Position

LEMMA PositionsAreOfDocuments ==
    ASSUME NEW d \in AllDocuments, NEW p, p = Position(d)
    PROVE  p # Null /\ IsPlaced(p) /\ IsPlaced(d) /\ \A x : Older(x, p) <=> Older(x, d)
  <1>1. p.t = d.t /\ p.id = d.id
    BY DEF Position
  <1>2. p # Null /\ IsPlaced(d)
    BY AllArePlaced
  <1>3. QED
    BY <1>1, <1>2 DEF Older, IsPlaced

\* What is selected from the documents is finite and has ids of its own.
LEMMA DocsAreACollection ==
    ASSUME BucketsOK, NEW ds \in SUBSET Range(docs)
    PROVE  ds \subseteq AllDocuments /\ IsCollection(ds)
  <1>1. Range(docs) \subseteq AllDocuments /\ \A d, e \in Range(docs) : d.id = e.id => d = e
    BY DEF BucketsOK, Range
  <1>2. IsFiniteSet(Range(docs))
    <2>1. docs \in Surjection(DOMAIN docs, Range(docs)) /\ IsFiniteSet(DOMAIN docs)
      BY DEF BucketsOK, Surjection, Range
    <2>2. QED
      BY <2>1, FS_Surjection
  <1>3. IsFiniteSet(ds)
    BY <1>2, FS_Subset
  <1>4. QED
    BY <1>1, <1>3, AllArePlaced DEF IsCollection

\* readPage: the rows that are found, as many as are shown, and where the next
\* page begins.
IsPage(found, n, shown, after) ==
    /\ found = RowsFound(walk.query, walk.plan, walk.cursor, walk.edge)
    /\ n = IF Len(found) > PageLimit THEN PageLimit ELSE Len(found)
    /\ shown = SubSeq(found, 1, n)
    /\ after = IF Len(found) > PageLimit THEN Position(shown[PageLimit]) ELSE walk.edge

\* A page goes on from the one before, and what it leaves out is older than where
\* the next one begins.
LEMMA PagesFollow ==
    ASSUME BucketsInv, walk.phase = "rows", NEW found, NEW shown, NEW n, NEW after,
           IsPage(found, n, shown, after)
    PROVE  LET seen == walk.seen \o shown IN
           /\ seen \in Seq(AllDocuments)
           /\ \A i, j \in DOMAIN seen : i < j => Older(seen[j], seen[i])
           /\ \A i \in DOMAIN seen : Wanted(seen[i], walk.query)
           /\ after # Null => /\ IsPlaced(after)
                              /\ \A i \in DOMAIN seen : ~Older(seen[i], after)
           /\ \A d \in walk.kept : IsListed(d) /\ Wanted(d, walk.query) =>
                 d \in Range(seen) \/ (after # Null /\ Older(d, after))
  <1> DEFINE rows == {d \in Matches(walk.query, walk.plan) :
                        /\ AfterCursor(d, walk.cursor) /\ Residual(d, walk.query, walk.plan)
                        /\ WithinEdge(d, walk.edge)}
             old == walk.seen
             seen == old \o shown
  <1> USE DEF BucketsInv, IsPage
  <1>1. rows \in SUBSET Range(docs)
    BY DEF Matches
  <1>2. rows \subseteq AllDocuments /\ IsCollection(rows)
    BY <1>1, DocsAreACollection
  <1>3. IsNewestFirst(found, rows)
    BY <1>2, NewestFirstSorts, Zenon DEF RowsFound
  <1>4. \A d \in rows : Wanted(d, walk.query)
    <2>1. IsPlan(walk.plan, walk.query) /\ bucket \in BucketDefinitions
      BY DEF BucketsOK
    <2>2. QED
      BY <2>1, FoundIsWanted DEF Matches
  <1>5. \A d \in rows : /\ IsPlaced(d)
                        /\ walk.cursor # Null => Older(d, walk.cursor)
                        /\ walk.edge # Null => ~Older(d, walk.edge)
    BY <1>2 DEF AfterCursor, WithinEdge, IsCollection
  <1> HIDE DEF rows
  <1>6. /\ PageLimit \in Nat \ {0} /\ n \in Nat /\ n <= Len(found) /\ n <= PageLimit
        /\ Len(found) > PageLimit => n = PageLimit
        /\ Len(found) <= PageLimit => n = Len(found)
    BY <1>3, BucketsAssumption DEF IsNewestFirst
  <1>7. /\ found \in Seq(rows) /\ DOMAIN found = 1 .. Len(found) /\ Len(found) \in Nat
        /\ \A i, j \in DOMAIN found : i < j => Older(found[j], found[i])
        /\ \A d \in rows : \E i \in DOMAIN found : found[i] = d
    BY <1>3 DEF IsNewestFirst
  <1>8. /\ shown \in Seq(rows) /\ Len(shown) = n /\ DOMAIN shown = 1 .. n
        /\ \A i \in 1 .. n : shown[i] = found[i] /\ i \in DOMAIN found
    BY <1>6, <1>7
  <1>9. old \in Seq(AllDocuments) /\ Len(old) \in Nat /\ DOMAIN old = 1 .. Len(old)
    BY DEF BucketsOK
  <1>10. shown \in Seq(AllDocuments)
    BY <1>2, <1>8
  <1>11. /\ seen \in Seq(AllDocuments) /\ Len(seen) = Len(old) + n
         /\ DOMAIN seen = 1 .. (Len(old) + n)
         /\ \A i \in 1 .. Len(old) : seen[i] = old[i]
         /\ \A i \in (Len(old) + 1) .. (Len(old) + n) : seen[i] = shown[i - Len(old)]
    <2> HIDE DEF old
    <2>1. seen \in Seq(AllDocuments) /\ Len(seen) = Len(old) + n
      <3>1. seen \in Seq(AllDocuments) /\ Len(seen) = Len(old) + Len(shown)
        BY <1>9, <1>10, ConcatProperties, Zenon
      <3>2. QED
        BY <1>8, <3>1
    <2>2. \A i \in 1 .. Len(seen) :
             seen[i] = IF i <= Len(old) THEN old[i] ELSE shown[i - Len(old)]
      <3>1. \A i \in 1 .. Len(old) + Len(shown) :
               seen[i] = IF i <= Len(old) THEN old[i] ELSE shown[i - Len(old)]
        BY <1>9, <1>10, ConcatProperties
      <3>2. QED
        BY <1>8, <2>1, <3>1
    <2> HIDE DEF seen
    <2>3. DOMAIN seen = 1 .. (Len(old) + n) /\ Len(old) + n \in Nat
      BY <1>6, <1>9, <2>1
    <2>4. \A i \in 1 .. Len(old) : i \in 1 .. Len(seen) /\ i <= Len(old)
      BY <1>6, <1>9, <2>1
    <2>5. \A i \in (Len(old) + 1) .. (Len(old) + n) : i \in 1 .. Len(seen) /\ ~(i <= Len(old))
      BY <1>6, <1>9, <2>1
    <2>6. QED
      BY <2>1, <2>2, <2>3, <2>4, <2>5
  <1>12. \A i \in DOMAIN seen :
            \/ i \in DOMAIN old /\ seen[i] = old[i]
            \/ /\ i - Len(old) \in 1 .. n /\ i > Len(old)
               /\ seen[i] = found[i - Len(old)] /\ found[i - Len(old)] \in rows
    <2> HIDE DEF old, seen
    <2>1. TAKE i \in DOMAIN seen
    <2>2. i \in 1 .. Len(old) \/ i \in (Len(old) + 1) .. (Len(old) + n)
      BY <1>6, <1>9, <1>11
    <2>3. ASSUME i \in (Len(old) + 1) .. (Len(old) + n)
          PROVE  i - Len(old) \in 1 .. n /\ i > Len(old)
      BY <2>3, <1>6, <1>9
    <2>4. \A k \in DOMAIN found : found[k] \in rows
      BY <1>7
    <2>5. QED
      BY <1>8, <1>9, <1>11, <2>2, <2>3, <2>4
  <1>13. /\ \A i \in DOMAIN old : IsPlaced(old[i])
         /\ \A i, j \in DOMAIN old : i < j => Older(old[j], old[i])
         /\ \A i \in DOMAIN old : Wanted(old[i], walk.query)
    <2>1. \A i \in DOMAIN old : old[i] \in AllDocuments
      BY <1>9
    <2>2. QED
      BY <2>1, AllArePlaced DEF ListsAreWhole
  <1>14. ASSUME NEW i \in DOMAIN old, NEW d \in rows
         PROVE  Older(d, old[i])
    <2>1. /\ walk.cursor # Null /\ IsPlaced(walk.cursor) /\ ~Older(old[i], walk.cursor)
      BY <1>9, <1>14 DEF Paged
    <2>2. QED
      BY <1>5, <1>13, <2>1, OlderIsAnOrder
  <1>15. ASSUME NEW d \in walk.kept, IsListed(d), Wanted(d, walk.query)
         PROVE  \/ d \in Range(old)
                \/ d \in rows
                \/ walk.edge # Null /\ Older(d, walk.edge)
    <2>1. d \in Range(old) \/ AfterCursor(d, walk.cursor)
      BY <1>15 DEF Paged
    <2>2. d \in Range(docs) /\ IsPlan(walk.plan, walk.query) /\ bucket \in BucketDefinitions
          /\ Asked(walk.query) \subseteq DOMAIN bucket.facts
      BY DEF BucketsOK, Parses
    <2>3. d \in Matches(walk.query, walk.plan) /\ Residual(d, walk.query, walk.plan)
      BY <1>15, <2>2, WantedIsFound DEF Matches
    <2>4. QED
      BY <2>1, <2>3 DEF rows, WithinEdge
  <1>16. \A d \in walk.kept : IsPlaced(d)
    BY DocsAreACollection, AllArePlaced DEF BucketsOK
  <1>17. /\ walk.edge # Null => IsPlaced(walk.edge)
         /\ walk.edge # Null => \A i \in DOMAIN old : Older(walk.edge, old[i])
    <2>1. /\ walk.edge # Null => IsPlaced(walk.edge)
          /\ walk.edge # Null /\ walk.cursor # Null =>
                Older(walk.edge, walk.cursor) /\ IsPlaced(walk.cursor)
      BY DEF Paged, Older
    <2>2. ASSUME NEW i \in DOMAIN old PROVE walk.cursor # Null /\ ~Older(old[i], walk.cursor)
      BY <1>9 DEF Paged
    <2>3. QED
      BY <1>13, <2>1, <2>2, OlderIsAnOrder
  <1> HIDE DEF old, seen
  <1>18. ASSUME NEW i \in DOMAIN seen, NEW j \in DOMAIN seen, i < j
         PROVE  Older(seen[j], seen[i])
    <2>1. i \in Nat /\ j \in Nat /\ Len(old) \in Nat
      BY <1>9, <1>11
    <2>2. CASE j \in DOMAIN old /\ seen[j] = old[j]
      BY <1>9, <1>12, <1>13, <1>18, <2>1, <2>2
    <2>3. CASE /\ j - Len(old) \in 1 .. n /\ seen[j] = found[j - Len(old)]
               /\ found[j - Len(old)] \in rows
      <3>1. CASE i \in DOMAIN old /\ seen[i] = old[i]
        BY <1>14, <2>3, <3>1
      <3>2. CASE i - Len(old) \in 1 .. n /\ seen[i] = found[i - Len(old)]
        <4>1. i - Len(old) < j - Len(old)
          BY <1>18, <2>1
        <4>2. QED
          BY <1>7, <1>8, <2>3, <3>2, <4>1
      <3>3. QED
        BY <1>12, <3>1, <3>2
    <2>4. QED
      BY <1>12, <2>2, <2>3
  <1>19. \A i \in DOMAIN seen : Wanted(seen[i], walk.query)
    BY <1>4, <1>12, <1>13
  <1>20. /\ after # Null => IsPlaced(after)
         /\ after # Null => \A i \in DOMAIN seen : ~Older(seen[i], after)
    <2>1. CASE Len(found) > PageLimit
      <3>1. n = PageLimit /\ n \in 1 .. n
        BY <1>6, <2>1
      <3>2. PICK last : last = found[n]
        OBVIOUS
      <3>3. last \in rows /\ after = Position(last) /\ last \in AllDocuments
        BY <1>2, <1>7, <1>8, <2>1, <3>1, <3>2
      <3>4. IsPlaced(after) /\ IsPlaced(last) /\ \A x : Older(x, after) <=> Older(x, last)
        BY <3>3, PositionsAreOfDocuments
      <3>5. \A i \in 1 .. n : i = n \/ i < n
        BY <1>6
      <3>6. \A i \in 1 .. n : IsPlaced(found[i]) /\ ~Older(found[i], last)
        <4>1. TAKE i \in 1 .. n
        <4>2. found[i] \in rows
          BY <1>7, <1>8
        <4>3. CASE i = n
          BY <3>2, <3>4, <4>3, OlderIsAnOrder
        <4>4. CASE i < n
          <5>1. Older(last, found[i])
            BY <1>7, <1>8, <3>1, <3>2, <4>4
          <5>2. QED
            BY <1>5, <3>4, <4>2, <5>1, OlderIsAnOrder
        <4>5. QED
          BY <1>5, <3>5, <4>2, <4>3, <4>4
      <3>7. \A i \in DOMAIN old : ~Older(old[i], last)
        BY <1>13, <1>14, <3>3, <3>4, OlderIsAnOrder
      <3>8. QED
        BY <1>12, <3>4, <3>6, <3>7
    <2>2. CASE ~(Len(found) > PageLimit)
      <3>1. after = walk.edge
        BY <2>2
      <3>2. ASSUME walk.edge # Null, NEW i \in DOMAIN seen
            PROVE  ~Older(seen[i], walk.edge)
        BY <1>5, <1>12, <1>13, <1>17, <3>2, OlderIsAnOrder
      <3>3. QED
        BY <1>17, <3>1, <3>2
    <2>3. QED
      BY <2>1, <2>2
  <1>21. ASSUME NEW d \in walk.kept, IsListed(d), Wanted(d, walk.query)
         PROVE  d \in Range(seen) \/ (after # Null /\ Older(d, after))
    <2>1. CASE d \in Range(old)
      BY <1>6, <1>9, <1>11, <2>1 DEF Range
    <2>2. CASE d \in rows
      <3>1. PICK k \in DOMAIN found : found[k] = d
        BY <1>7, <2>2
      <3>2. CASE k <= n
        <4>1. PICK j : j = k + Len(old)
          OBVIOUS
        <4>2. /\ k \in 1 .. n /\ j \in DOMAIN seen /\ j - Len(old) = k
              /\ j \in (Len(old) + 1) .. (Len(old) + n)
          BY <1>6, <1>7, <1>9, <1>11, <3>2, <4>1
        <4>3. seen[j] = shown[j - Len(old)]
          BY <1>11, <4>2
        <4>4. seen[j] = d
          BY <1>8, <3>1, <4>2, <4>3
        <4>5. QED
          BY <4>2, <4>4 DEF Range
      <3>3. CASE ~(k <= n)
        <4>1. Len(found) > PageLimit /\ n = PageLimit /\ n \in 1 .. n /\ n < k
          BY <1>6, <1>7, <3>1, <3>3
        <4>2. Older(d, found[n]) /\ after = Position(found[n]) /\ found[n] \in AllDocuments
          BY <1>2, <1>7, <1>8, <3>1, <4>1
        <4>3. QED
          BY <4>2, PositionsAreOfDocuments
      <3>4. QED
        BY <3>2, <3>3
    <2>3. CASE walk.edge # Null /\ Older(d, walk.edge)
      <3>1. CASE Len(found) > PageLimit
        <4>1. n = PageLimit /\ n \in 1 .. n
          BY <1>6, <3>1
        <4>2. found[n] \in rows /\ after = Position(found[n]) /\ found[n] \in AllDocuments
          BY <1>2, <1>7, <1>8, <3>1, <4>1
        <4>3. Older(d, found[n])
          BY <1>5, <1>16, <1>17, <2>3, <4>2, OlderIsAnOrder
        <4>4. QED
          BY <4>2, <4>3, PositionsAreOfDocuments
      <3>2. CASE ~(Len(found) > PageLimit)
        BY <2>3, <3>2
      <3>3. QED
        BY <3>1, <3>2
    <2>4. QED
      BY <1>15, <1>21, <2>1, <2>2, <2>3
  <1>22. QED
    BY <1>11, <1>18, <1>19, <1>20, <1>21 DEF seen, old
----------------------------------------------------------------------------
\* The parts of the invariant, from what a step makes of the walk.
LEMMA WalksStayOK ==
    ASSUME NEW q, NEW plan, bucket' = bucket, walk'.query = q, walk'.plan = plan,
           bucket \in BucketDefinitions, q \in Queries,
           IsFiniteSet(DOMAIN docs'), docs' = [i \in DOMAIN docs' |-> docs'[i]],
           \A i \in DOMAIN docs' : docs'[i] \in AllDocuments /\ docs'[i].id = i,
           walk' = [query |-> q, phase |-> walk'.phase, plan |-> plan,
                    cursor |-> walk'.cursor, edge |-> walk'.edge, seen |-> walk'.seen,
                    kept |-> walk'.kept],
           walk'.seen \in Seq(AllDocuments), walk'.phase \in {"edge", "rows", "complete"},
           IsBucket(bucket), Parses(q), IsPlan(plan, q), walk'.kept \subseteq Range(docs')
    PROVE  BucketsOK'
  <1>1. Parses(walk.query)' /\ IsPlan(walk.plan, walk.query)'
    BY DEF Parses, IsPlan, Asked, Narrowing
  <1>2. QED
    BY <1>1 DEF BucketsOK

LEMMA WalksStayPaged ==
    ASSUME NEW q, bucket' = bucket, walk'.query = q,
           walk'.phase \in {"edge", "rows"} =>
               /\ walk'.cursor = Null => walk'.seen = <<>>
               /\ walk'.cursor # Null =>
                    /\ IsPlaced(walk'.cursor)
                    /\ \A i \in DOMAIN walk'.seen : ~Older(walk'.seen[i], walk'.cursor)
               /\ \A d \in walk'.kept : IsListed(d) /\ Wanted(d, q) =>
                     d \in Range(walk'.seen) \/ AfterCursor(d, walk'.cursor)
               /\ walk'.phase = "rows" /\ walk'.edge # Null =>
                    IsPlaced(walk'.edge) /\ (walk'.cursor # Null => walk'.edge.t < walk'.cursor.t)
    PROVE  Paged'
  <1>1. \A d : /\ IsListed(d)' <=> IsListed(d)
               /\ Wanted(d, walk.query)' <=> Wanted(d, q)
    BY DEF IsListed, Wanted, InRefAndRange, Asked
  <1>2. QED
    BY <1>1 DEF Paged

LEMMA WalksStayWhole ==
    ASSUME NEW q, bucket' = bucket, walk'.query = q,
           \A i, j \in DOMAIN walk'.seen : i < j => Older(walk'.seen[j], walk'.seen[i]),
           \A i \in DOMAIN walk'.seen : Wanted(walk'.seen[i], q),
           walk'.phase = "complete" =>
               \A d \in walk'.kept : IsListed(d) /\ Wanted(d, q) => d \in Range(walk'.seen)
    PROVE  ListsAreWhole'
  <1>1. \A d : /\ IsListed(d)' <=> IsListed(d)
               /\ Wanted(d, walk.query)' <=> Wanted(d, q)
    BY DEF IsListed, Wanted, InRefAndRange, Asked
  <1>2. QED
    BY <1>1 DEF ListsAreWhole
LEMMA BucketsStart ==
    BucketsInit => BucketsInv
  <1> SUFFICES ASSUME BucketsInit PROVE BucketsInv
    OBVIOUS
  <1> USE DEF BucketsInit, NoWalk
  <1>1. /\ walk.phase = "defining" /\ walk.seen = <<>> /\ bucket \in BucketDefinitions
        /\ walk = [query |-> walk.query, phase |-> walk.phase, plan |-> walk.plan,
                   cursor |-> walk.cursor, edge |-> walk.edge, seen |-> walk.seen,
                   kept |-> walk.kept]
    OBVIOUS
  <1>2. \A i \in DOMAIN docs : docs[i] \in AllDocuments /\ docs[i].id = i
    BY BucketsAssumption DEF AllDocuments, Range
  <1>3. IsFiniteSet(DOMAIN docs) /\ docs = [i \in DOMAIN docs |-> docs[i]]
    BY BucketsAssumption
  <1>4. BucketsOK
    <2> HIDE DEF BucketsInit
    <2> QED
      BY <1>1, <1>2, <1>3 DEF BucketsOK
  <1>5. Paged /\ ListsAreWhole
    BY <1>1 DEF Paged, ListsAreWhole
  <1>6. QED
    BY <1>4, <1>5 DEF BucketsInv

LEMMA DefiningIsWhole ==
    BucketsInv /\ DefineBucket => BucketsInv'
  <1> SUFFICES ASSUME BucketsInv, DefineBucket PROVE BucketsInv'
    OBVIOUS
  <1> USE DEF BucketsInv
  <1>1. /\ walk.seen = <<>> /\ UNCHANGED <<bucket, docs>>
        /\ walk'.phase = IF IsBucket(bucket) THEN "none" ELSE "refused"
        /\ walk' = [query |-> walk.query, phase |-> walk'.phase, plan |-> walk.plan,
                    cursor |-> walk.cursor, edge |-> walk.edge, seen |-> walk.seen,
                    kept |-> walk.kept]
    BY DEF DefineBucket, BucketsOK
  <1>4. /\ walk'.phase \in {"none", "refused"} /\ (walk'.phase = "none" => IsBucket(bucket))
        /\ walk'.seen = <<>> /\ walk'.query = walk.query /\ walk'.plan = walk.plan
        /\ walk'.cursor = walk.cursor /\ walk'.edge = walk.edge /\ walk'.kept = walk.kept
    <2>1. walk'.phase \in {"none", "refused"} /\ (walk'.phase = "none" => IsBucket(bucket))
      BY <1>1, Zenon
    <2>2. QED
      BY <1>1, <2>1
  <1>2. BucketsOK'
    BY <1>1, <1>4 DEF BucketsOK
  <1>3. Paged' /\ ListsAreWhole'
    BY <1>4 DEF Paged, ListsAreWhole
  <1>5. QED
    BY <1>2, <1>3

LEMMA StartingIsWhole ==
    ASSUME BucketsInv, NEW q \in Queries, StartWalk(q)
    PROVE  BucketsInv'
  <1> USE DEF BucketsInv
  <1>1. UNCHANGED <<bucket, docs>> /\ bucket \in BucketDefinitions /\ IsBucket(bucket)
    BY DEF StartWalk, BucketsOK
  <1>2. CASE ~Parses(q)
    <2>1. walk' = [NoWalk EXCEPT !.phase = "refused"]
      BY <1>2 DEF StartWalk
    <2>2. walk'.phase = "refused" /\ walk'.seen = <<>>
          /\ walk' = [query |-> walk'.query, phase |-> walk'.phase, plan |-> walk'.plan,
                      cursor |-> walk'.cursor, edge |-> walk'.edge, seen |-> walk'.seen,
                      kept |-> walk'.kept]
      BY <2>1 DEF NoWalk
    <2>3. BucketsOK'
      BY <1>1, <2>2 DEF BucketsOK
    <2>4. QED
      BY <2>2, <2>3 DEF Paged, ListsAreWhole
  <1>3. CASE Parses(q)
    <2>1. PICK plan : plan = PlanOf(q)
      OBVIOUS
    <2>2. IsPlan(plan, q)
      BY <1>1, <2>1, PlansAreSound
    <2>3. walk' = [NoWalk EXCEPT !.phase = "edge", !.query = q, !.plan = plan,
                                 !.kept = Range(docs)]
      BY <1>3, <2>1 DEF StartWalk
    <2>4. /\ walk' = [query |-> q, phase |-> "edge", plan |-> plan, cursor |-> Null,
                      edge |-> Null, seen |-> <<>>, kept |-> Range(docs)]
      BY <2>3 DEF NoWalk
    <2>5. /\ walk'.query = q /\ walk'.phase = "edge" /\ walk'.plan = plan
          /\ walk'.cursor = Null /\ walk'.edge = Null /\ walk'.seen = <<>>
          /\ walk'.kept = Range(docs)
      BY <2>4
    <2>6. BucketsOK'
      BY <1>1, <1>3, <2>2, <2>4, <2>5, WalksStayOK DEF BucketsOK
    <2>7. Paged'
      BY <1>1, <2>5, WalksStayPaged DEF AfterCursor
    <2>8. ListsAreWhole'
      BY <1>1, <2>5, WalksStayWhole
    <2>9. QED
      BY <2>6, <2>7, <2>8
  <1>4. QED
    BY <1>2, <1>3

\* Steps within a page: only the phase and the edge change.
LEMMA ReadingOnIsWhole ==
    ASSUME BucketsInv, walk.phase \in {"edge", "rows"}, NEW phase \in {"edge", "rows"},
           NEW edge, walk' = [walk EXCEPT !.phase = phase, !.edge = edge],
           UNCHANGED <<bucket, docs>>,
           phase = "rows" /\ edge # Null =>
               IsPlaced(edge) /\ (walk.cursor # Null => edge.t < walk.cursor.t)
    PROVE  BucketsInv'
  <1> USE DEF BucketsInv
  <1>1. PICK q, plan : q = walk.query /\ plan = walk.plan
    OBVIOUS
  <1>2. /\ walk'.query = q /\ walk'.phase = phase /\ walk'.plan = plan
        /\ walk'.cursor = walk.cursor /\ walk'.edge = edge /\ walk'.seen = walk.seen
        /\ walk'.kept = walk.kept
        /\ walk' = [query |-> q, phase |-> walk'.phase, plan |-> plan,
                    cursor |-> walk'.cursor, edge |-> walk'.edge, seen |-> walk'.seen,
                    kept |-> walk'.kept]
    BY <1>1 DEF BucketsOK
  <1>3. BucketsOK'
    <2>1. /\ bucket \in BucketDefinitions /\ IsBucket(bucket) /\ q \in Queries /\ Parses(q)
          /\ IsPlan(plan, q)
          /\ IsFiniteSet(DOMAIN docs') /\ docs' = [i \in DOMAIN docs' |-> docs'[i]]
          /\ \A i \in DOMAIN docs' : docs'[i] \in AllDocuments /\ docs'[i].id = i
          /\ walk'.seen \in Seq(AllDocuments) /\ walk'.kept \subseteq Range(docs')
      BY <1>1, <1>2 DEF BucketsOK
    <2>2. QED
      BY <1>2, <2>1, WalksStayOK
  <1>4. Paged'
    BY <1>1, <1>2, WalksStayPaged DEF Paged
  <1>5. ListsAreWhole'
    BY <1>1, <1>2, WalksStayWhole DEF ListsAreWhole
  <1>6. QED
    BY <1>3, <1>4, <1>5

\* The edge is of an earlier time than the cursor.
LEMMA EdgesArePast ==
    ASSUME BucketsInv, walk.phase = "edge", NEW edge,
           edge = Edge(walk.query, walk.plan, walk.cursor), edge # Null
    PROVE  IsPlaced(edge) /\ (walk.cursor # Null => edge.t < walk.cursor.t)
  <1> DEFINE ds == {d \in Range(docs) :
                      /\ Bound(d, walk.query, walk.plan) /\ Filled(d, walk.query, walk.plan, {})
                      /\ InRefAndRange(d, walk.query)
                      /\ walk.cursor # Null => d.t < walk.cursor.t}
             scanned == NewestFirst(ds)
  <1>1. ~(Len(scanned) < SCAN_BUDGET) /\ edge = Position(scanned[SCAN_BUDGET])
    BY DEF Edge
  <1>2. ds \in SUBSET Range(docs)
    OBVIOUS
  <1>3. ds \subseteq AllDocuments /\ IsCollection(ds)
    BY <1>2, DocsAreACollection DEF BucketsInv
  <1>4. IsNewestFirst(scanned, ds)
    BY <1>3, NewestFirstSorts, Zenon
  <1>5. SCAN_BUDGET \in Nat \ {0}
    BY BucketsAssumption
  <1> HIDE DEF scanned
  <1>6. SCAN_BUDGET \in 1 .. Len(scanned)
    BY <1>1, <1>4, <1>5 DEF IsNewestFirst
  <1>7. scanned[SCAN_BUDGET] \in ds
    <2> HIDE DEF ds
    <2> QED
      BY <1>4, <1>6 DEF IsNewestFirst
  <1>8. scanned[SCAN_BUDGET] \in AllDocuments
    BY <1>3, <1>7
  <1>9. IsPlaced(edge) /\ edge.t = scanned[SCAN_BUDGET].t
    BY <1>1, <1>8, AllArePlaced DEF Position
  <1>10. QED
    BY <1>7, <1>9

LEMMA EdgeIsWhole ==
    BucketsInv /\ ReadEdge => BucketsInv'
  <1> SUFFICES ASSUME BucketsInv, ReadEdge PROVE BucketsInv'
    OBVIOUS
  <1>1. PICK edge : edge = Edge(walk.query, walk.plan, walk.cursor)
    OBVIOUS
  <1>2. /\ walk.phase = "edge" /\ UNCHANGED <<bucket, docs>>
        /\ walk' = [walk EXCEPT !.phase = "rows", !.edge = edge]
    BY <1>1 DEF ReadEdge
  <1>3. edge # Null => IsPlaced(edge) /\ (walk.cursor # Null => edge.t < walk.cursor.t)
    BY <1>1, <1>2, EdgesArePast
  <1>4. QED
    BY <1>2, <1>3, ReadingOnIsWhole

LEMMA TimingOutIsWhole ==
    BucketsInv /\ TimesOut => BucketsInv'
  BY ReadingOnIsWhole DEF TimesOut

LEMMA RowsAreWhole ==
    BucketsInv /\ ReadRows => BucketsInv'
  <1> SUFFICES ASSUME BucketsInv, ReadRows PROVE BucketsInv'
    OBVIOUS
  <1>1. PICK found : found = RowsFound(walk.query, walk.plan, walk.cursor, walk.edge)
    OBVIOUS
  <1>2. PICK n : n = IF Len(found) > PageLimit THEN PageLimit ELSE Len(found)
    OBVIOUS
  <1>3. PICK shown : shown = SubSeq(found, 1, n)
    OBVIOUS
  <1>4. PICK after : after = IF Len(found) > PageLimit THEN Position(shown[PageLimit])
                             ELSE walk.edge
    OBVIOUS
  <1>5. PICK seen, q, plan : seen = walk.seen \o shown /\ q = walk.query /\ plan = walk.plan
    OBVIOUS
  <1>6. /\ walk.phase = "rows" /\ UNCHANGED <<bucket, docs>>
        /\ walk' = [walk EXCEPT !.seen = seen, !.cursor = after, !.edge = Null,
                                !.phase = IF after = Null THEN "complete" ELSE "edge"]
    BY <1>1, <1>2, <1>3, <1>4, <1>5, Zenon DEF ReadRows
  <1>7. /\ seen \in Seq(AllDocuments)
        /\ \A i, j \in DOMAIN seen : i < j => Older(seen[j], seen[i])
        /\ \A i \in DOMAIN seen : Wanted(seen[i], q)
        /\ after # Null => /\ IsPlaced(after)
                           /\ \A i \in DOMAIN seen : ~Older(seen[i], after)
        /\ \A d \in walk.kept : IsListed(d) /\ Wanted(d, q) =>
              d \in Range(seen) \/ (after # Null /\ Older(d, after))
    <2>1. LET all == walk.seen \o shown IN
          /\ all \in Seq(AllDocuments)
          /\ \A i, j \in DOMAIN all : i < j => Older(all[j], all[i])
          /\ \A i \in DOMAIN all : Wanted(all[i], walk.query)
          /\ after # Null => /\ IsPlaced(after)
                             /\ \A i \in DOMAIN all : ~Older(all[i], after)
          /\ \A d \in walk.kept : IsListed(d) /\ Wanted(d, walk.query) =>
                d \in Range(all) \/ (after # Null /\ Older(d, after))
      <3>1. IsPage(found, n, shown, after)
        BY <1>1, <1>2, <1>3, <1>4, Zenon DEF IsPage
      <3>2. QED
        BY <1>6, <3>1, PagesFollow, Zenon
    <2>2. QED
      BY <1>5, <2>1, Zenon
  <1> USE DEF BucketsInv
  <1>8. /\ walk'.query = q /\ walk'.phase = (IF after = Null THEN "complete" ELSE "edge")
        /\ walk'.plan = plan /\ walk'.cursor = after /\ walk'.edge = Null
        /\ walk'.seen = seen /\ walk'.kept = walk.kept
        /\ walk' = [query |-> q, phase |-> walk'.phase, plan |-> plan,
                    cursor |-> walk'.cursor, edge |-> walk'.edge, seen |-> walk'.seen,
                    kept |-> walk'.kept]
    BY <1>5, <1>6 DEF BucketsOK
  <1>9. BucketsOK'
    <2>1. /\ bucket \in BucketDefinitions /\ IsBucket(bucket) /\ q \in Queries /\ Parses(q)
          /\ IsPlan(plan, q)
          /\ IsFiniteSet(DOMAIN docs') /\ docs' = [i \in DOMAIN docs' |-> docs'[i]]
          /\ \A i \in DOMAIN docs' : docs'[i] \in AllDocuments /\ docs'[i].id = i
          /\ walk'.kept \subseteq Range(docs')
      BY <1>5, <1>6, <1>8 DEF BucketsOK
    <2>2. QED
      BY <1>6, <1>7, <1>8, <2>1, WalksStayOK
  <1>10. Paged'
    BY <1>6, <1>7, <1>8, WalksStayPaged DEF AfterCursor
  <1>11. ListsAreWhole'
    BY <1>6, <1>7, <1>8, WalksStayWhole
  <1>12. QED
    BY <1>9, <1>10, <1>11

\* The collection changes, and what changed is not kept.
LEMMA ChangesAreWhole ==
    ASSUME BucketsInv, NEW id, NEW kept, kept = Untouched(walk.kept, id),
           walk' = [walk EXCEPT !.kept = kept], UNCHANGED bucket,
           IsFiniteSet(DOMAIN docs'), docs' = [i \in DOMAIN docs' |-> docs'[i]],
           \A i \in DOMAIN docs' : docs'[i] \in AllDocuments /\ docs'[i].id = i,
           \A i \in DOMAIN docs \ {id} : i \in DOMAIN docs' /\ docs'[i] = docs[i]
    PROVE  BucketsInv'
  <1> USE DEF BucketsInv
  <1>1. PICK q, plan : q = walk.query /\ plan = walk.plan
    OBVIOUS
  <1>2. /\ walk'.query = q /\ walk'.phase = walk.phase /\ walk'.plan = plan
        /\ walk'.cursor = walk.cursor /\ walk'.edge = walk.edge /\ walk'.seen = walk.seen
        /\ walk'.kept = kept
        /\ walk' = [query |-> q, phase |-> walk'.phase, plan |-> plan,
                    cursor |-> walk'.cursor, edge |-> walk'.edge, seen |-> walk'.seen,
                    kept |-> walk'.kept]
    BY <1>1 DEF BucketsOK
  <1>3. kept \subseteq walk.kept
    BY DEF Untouched
  <1>4. BucketsOK'
    <2>1. CASE walk.phase \in {"edge", "rows", "complete"}
      <3>1. kept \subseteq Range(docs')
        BY <2>1 DEF Untouched, BucketsOK, Range
      <3>2. /\ bucket \in BucketDefinitions /\ IsBucket(bucket) /\ q \in Queries /\ Parses(q)
            /\ IsPlan(plan, q)
            /\ walk'.seen \in Seq(AllDocuments) /\ walk'.kept \subseteq Range(docs')
        BY <1>1, <1>2, <2>1, <3>1 DEF BucketsOK
      <3>3. QED
        BY <1>2, <2>1, <3>2, WalksStayOK
    <2>2. CASE walk.phase \in {"defining", "none", "refused"}
      BY <1>2, <2>2 DEF BucketsOK
    <2>3. QED
      BY <2>1, <2>2 DEF BucketsOK
  <1>5. Paged'
    BY <1>1, <1>2, <1>3, WalksStayPaged DEF Paged
  <1>6. ListsAreWhole'
    BY <1>1, <1>2, <1>3, WalksStayWhole DEF ListsAreWhole
  <1>7. QED
    BY <1>4, <1>5, <1>6

LEMMA StoringIsWhole ==
    ASSUME BucketsInv, NEW d \in Documents, Store(d)
    PROVE  BucketsInv'
  <1>1. /\ walk' = [walk EXCEPT !.kept = Untouched(walk.kept, d.id)]
        /\ docs' = [i \in DOMAIN docs \cup {d.id} |-> IF i = d.id THEN d ELSE docs[i]]
        /\ UNCHANGED bucket
    BY DEF Store
  <1>2. IsFiniteSet(DOMAIN docs \cup {d.id})
    BY FS_AddElement DEF BucketsInv, BucketsOK
  <1>3. /\ IsFiniteSet(DOMAIN docs') /\ docs' = [i \in DOMAIN docs' |-> docs'[i]]
        /\ \A i \in DOMAIN docs' : docs'[i] \in AllDocuments /\ docs'[i].id = i
        /\ \A i \in DOMAIN docs \ {d.id} : i \in DOMAIN docs' /\ docs'[i] = docs[i]
    BY <1>1, <1>2 DEF BucketsInv, BucketsOK, AllDocuments
  <1>4. QED
    BY <1>1, <1>3, ChangesAreWhole

LEMMA ExpiringIsWhole ==
    ASSUME BucketsInv, NEW id \in DOMAIN docs, Expire(id)
    PROVE  BucketsInv'
  <1>1. /\ walk' = [walk EXCEPT !.kept = Untouched(walk.kept, id)]
        /\ docs' = [i \in DOMAIN docs \ {id} |-> docs[i]]
        /\ UNCHANGED bucket
    BY DEF Expire
  <1>2. IsFiniteSet(DOMAIN docs \ {id})
    BY FS_RemoveElement DEF BucketsInv, BucketsOK
  <1>3. /\ IsFiniteSet(DOMAIN docs') /\ docs' = [i \in DOMAIN docs' |-> docs'[i]]
        /\ \A i \in DOMAIN docs' : docs'[i] \in AllDocuments /\ docs'[i].id = i
        /\ \A i \in DOMAIN docs \ {id} : i \in DOMAIN docs' /\ docs'[i] = docs[i]
    BY <1>1, <1>2 DEF BucketsInv, BucketsOK
  <1>4. QED
    BY <1>1, <1>3, ChangesAreWhole

\* BucketsInv is inductive: one step per action.
LEMMA BucketsAlwaysInv == BucketsSpec => []BucketsInv
  <1>1. BucketsInit => BucketsInv
    BY BucketsStart
  <1>2. BucketsInv /\ [BucketsNext]_bucketVars => BucketsInv'
    <2> SUFFICES ASSUME BucketsInv, [BucketsNext]_bucketVars PROVE BucketsInv'
      OBVIOUS
    <2>1. CASE DefineBucket
      BY <2>1, DefiningIsWhole
    <2>2. ASSUME NEW q \in Queries, StartWalk(q) PROVE BucketsInv'
      BY <2>2, StartingIsWhole
    <2>3. CASE ReadEdge
      BY <2>3, EdgeIsWhole
    <2>4. CASE ReadRows
      BY <2>4, RowsAreWhole
    <2>5. CASE TimesOut
      BY <2>5, TimingOutIsWhole
    <2>6. ASSUME NEW d \in Documents, Store(d) PROVE BucketsInv'
      BY <2>6, StoringIsWhole
    <2>7. ASSUME NEW id \in DOMAIN docs, Expire(id) PROVE BucketsInv'
      BY <2>7, ExpiringIsWhole
    <2>8. CASE UNCHANGED <<bucket, docs, walk>>
      BY <2>8 DEF BucketsInv, BucketsOK, Paged, ListsAreWhole, Wanted, IsListed,
                  InRefAndRange, AfterCursor, Parses, IsPlan, Narrowing, Asked
    <2>9. CASE \/ \E q \in Queries : StartSummary(q)
               \/ \E c \in summary.combinations, f \in Stepped : StepValues(c, f)
               \/ TakeEntries \/ AnswerSummary \/ SummaryTimesOut
               \/ \E values \in summary.counting : CountEntry(values)
      BY <2>8, <2>9 DEF StartSummary, StepValues, TakeEntries, AnswerSummary, SummaryTimesOut,
                        CountEntry
    <2>10. CASE UNCHANGED bucketVars
      BY <2>8, <2>10 DEF bucketVars
    <2>11. QED
      BY <2>1, <2>2, <2>3, <2>4, <2>5, <2>6, <2>7, <2>9, <2>10 DEF BucketsNext
  <1>3. QED
    BY <1>1, <1>2, PTL DEF BucketsSpec

\* Turning the pages of a list to its end shows what is wanted, each document
\* once and the newest first (readPage, readEdge, choosePlan): for any bucket,
\* any collection and however many documents come and go.
THEOREM ListsAreAlwaysWhole == BucketsSpec => []ListsAreWhole
  <1>1. BucketsInv => ListsAreWhole
    BY DEF BucketsInv
  <1>2. QED
    BY <1>1, BucketsAlwaysInv, PTL
----------------------------------------------------------------------------
\* A count says how many are found, or that there are more than it counts to.
Says(number, size) ==
    number = Null \/ (IF number.capped THEN number.count < size ELSE number.count = size)

\* readCount: a count is exact or capped.
LEMMA CountsSay ==
    ASSUME BucketsOK, NEW q, NEW plan
    PROVE  Says(CountOf(q, plan), Cardinality(Matches(q, plan)))
  <1>1. Matches(q, plan) \in SUBSET Range(docs)
    BY DEF Matches
  <1>2. Cardinality(Matches(q, plan)) \in Nat
    BY <1>1, DocsAreACollection, FS_CardinalityType DEF IsCollection
  <1>8. (Cardinality(Matches(q, plan)) > COUNT_CAP) \in BOOLEAN
    BY <1>2
  <1>3. COUNT_CAP \in Nat
    BY BucketsAssumption
  <1> DEFINE found == Cardinality(Matches(q, plan))
  <1>4. CountOf(q, plan) = [count |-> IF found > COUNT_CAP THEN COUNT_CAP ELSE found,
                            capped |-> found > COUNT_CAP]
    BY DEF CountOf, CountUpTo, AtMost
  <1> HIDE DEF found
  <1>5. CASE found > COUNT_CAP
    <2>1. CountOf(q, plan) = [count |-> COUNT_CAP, capped |-> TRUE]
      BY <1>4, <1>5
    <2>2. COUNT_CAP < found
      BY <1>2, <1>3, <1>5 DEF found
    <2>3. QED
      BY <2>1, <2>2 DEF Says, found
  <1>6. CASE ~(found > COUNT_CAP)
    <2>1. CountOf(q, plan) = [count |-> found, capped |-> FALSE]
      BY <1>4, <1>6, <1>8 DEF found
    <2>2. QED
      BY <2>1 DEF Says, found
  <1>7. QED
    BY <1>5, <1>6

\* An exact plan finds what the query says, when what is stored is listed.
LEMMA ExactIsWanted ==
    ASSUME BucketsOK, IsBucket(bucket), \A d \in Range(docs) : IsListed(d), NEW q,
           Asked(q) \subseteq DOMAIN bucket.facts, NEW plan, IsPlan(plan, q), IsExact(plan)
    PROVE  Matches(q, plan) = {d \in Range(docs) : Wanted(d, q)}
  <1>1. bucket \in BucketDefinitions
    BY DEF BucketsOK
  <1>2. \A d \in Matches(q, plan) : d \in Range(docs) /\ Wanted(d, q)
    BY <1>1, FoundIsWanted DEF Matches, IsExact, Residual
  <1>3. \A d \in Range(docs) : Wanted(d, q) => d \in Matches(q, plan)
    BY <1>1, WantedIsFound DEF Matches
  <1>4. QED
    BY <1>2, <1>3

\* A tile or a total is the length of a list, or missing.
LEMMA ExactCountsSay ==
    ASSUME BucketsOK, IsBucket(bucket), \A d \in Range(docs) : IsListed(d), NEW q,
           Asked(q) \subseteq DOMAIN bucket.facts
    PROVE  Says(IF IsExact(PlanOf(q)) THEN CountOf(q, PlanOf(q)) ELSE Null,
                Cardinality({d \in Range(docs) : Wanted(d, q)}))
  <1>1. CASE IsExact(PlanOf(q))
    <2>1. bucket \in BucketDefinitions
      BY DEF BucketsOK
    <2>2. IsPlan(PlanOf(q), q)
      BY <2>1, PlansAreSound
    <2>3. Matches(q, PlanOf(q)) = {d \in Range(docs) : Wanted(d, q)}
      BY <1>1, <2>2, ExactIsWanted
    <2>4. Says(CountOf(q, PlanOf(q)), Cardinality(Matches(q, PlanOf(q))))
      BY CountsSay
    <2>5. QED
      BY <1>1, <2>3, <2>4, Zenon
  <1>2. CASE ~IsExact(PlanOf(q))
    BY <1>2, Zenon DEF Says
  <1>3. QED
    BY <1>1, <1>2

IsQuery(q) == DOMAIN q = {"where", "show", "ref", "from", "to"}

\* A query with more values asks for them and is otherwise the same.
LEMMA WithAsks ==
    ASSUME NEW q, IsQuery(q), NEW values, NEW asks, asks = With(q, values)
    PROVE  /\ Asked(asks) = DOMAIN values \cup Asked(q)
           /\ \A f \in DOMAIN values : asks.where[f] = values[f]
           /\ \A f \in Asked(q) \ DOMAIN values : asks.where[f] = q.where[f]
           /\ asks.show = q.show /\ asks.ref = q.ref /\ asks.from = q.from /\ asks.to = q.to
  <1>1. asks.where = [f \in DOMAIN values \cup Asked(q) |->
                        IF f \in DOMAIN values THEN values[f] ELSE q.where[f]]
    BY DEF With, IsQuery
  <1>2. asks.show = q.show /\ asks.ref = q.ref /\ asks.from = q.from /\ asks.to = q.to
    BY DEF With, IsQuery
  <1>3. QED
    BY <1>1, <1>2 DEF Asked

\* A query without a fact does not ask for it.
LEMMA WithoutAsks ==
    ASSUME NEW q, IsQuery(q), NEW f
    PROVE  Asked(Without(q, f)) = Asked(q) \ {f}
  BY DEF Without, Asked, IsQuery
----------------------------------------------------------------------------
\* A limited scan gives all groups, or one more than an answer may hold.
LEMMA CutGroups ==
    ASSUME NEW groups, IsFiniteSet(groups), NEW some \in FirstGroups(groups)
    PROVE  some \subseteq groups /\ (some = groups \/ Cardinality(some) = MAX_VALUES + 1)
  <1>1. some \in SUBSET groups /\ Cardinality(some) = AtMost(Cardinality(groups), GroupLimit)
    BY DEF FirstGroups
  <1>2. Cardinality(groups) \in Nat
    BY FS_CardinalityType
  <1>3. CASE Cardinality(groups) > GroupLimit
    BY <1>1, <1>3 DEF AtMost, GroupLimit
  <1>4. CASE ~(Cardinality(groups) > GroupLimit)
    <2>1. Cardinality(some) = Cardinality(groups)
      BY <1>1, <1>4 DEF AtMost
    <2>2. QED
      BY <1>1, <2>1, FS_Subset
  <1>5. QED
    BY <1>3, <1>4

LEMMA ValuesAreFinite ==
    ASSUME NEW ds, IsFiniteSet(ds), NEW f
    PROVE  IsFiniteSet({d.facts[f] : d \in ds})
  <1> DEFINE value == [d \in ds |-> d.facts[f]]
  <1>1. value \in Surjection(ds, {d.facts[f] : d \in ds})
    BY DEF Surjection
  <1>2. QED
    BY <1>1, FS_Surjection

\* valuesOf: stored values are left out only if a row has none (the scan counts
\* that group) and there are too many.
LEMMA GroupsAreCut ==
    ASSUME BucketsOK, NEW f, NEW values \in ValuesOf(f)
    PROVE  \/ values = Null \/ IsClosed(bucket.facts[f])
           \/ values = {d.facts[f] : d \in Range(docs)} \ {Null}
           \/ /\ \E d \in Range(docs) : d.facts[f] = Null
              /\ Cardinality(values) = MAX_VALUES
  <1> SUFFICES ASSUME ~IsClosed(bucket.facts[f]), values # Null
               PROVE  \/ values = {d.facts[f] : d \in Range(docs)} \ {Null}
                      \/ /\ \E d \in Range(docs) : d.facts[f] = Null
                         /\ Cardinality(values) = MAX_VALUES
    OBVIOUS
  <1> DEFINE groups == {d.facts[f] : d \in Range(docs)}
  <1>1. PICK some \in FirstGroups(groups) :
           /\ ~(Cardinality(some \ {Null}) > MAX_VALUES)
           /\ values = some \ {Null}
    BY DEF ValuesOf
  <1>2. IsFiniteSet(groups)
    <2>1. IsFiniteSet(Range(docs))
      BY DocsAreACollection DEF IsCollection
    <2>2. QED
      BY <2>1, ValuesAreFinite
  <1> HIDE DEF groups
  <1>3. /\ some \subseteq groups /\ (some = groups \/ Cardinality(some) = MAX_VALUES + 1)
        /\ IsFiniteSet(some) /\ MAX_VALUES \in Nat
    BY <1>2, CutGroups, FS_Subset, BucketsAssumption
  <1>4. CASE some = groups
    BY <1>1, <1>4 DEF groups
  <1>5. CASE Cardinality(some) = MAX_VALUES + 1
    <2>1. Cardinality(some \ {Null}) = IF Null \in some THEN Cardinality(some) - 1
                                       ELSE Cardinality(some)
      BY <1>3, FS_RemoveElement
    <2>2. Null \in some /\ Cardinality(some \ {Null}) = MAX_VALUES
      BY <1>1, <1>3, <1>5, <2>1
    <2>3. QED
      BY <1>1, <1>3, <2>2 DEF groups
  <1>6. QED
    BY <1>3, <1>4, <1>5

\* The tiles follow from what the documents and the query are.
LEMMA TilesSay ==
    BucketsOK => TilesAreLists
  <1> SUFFICES ASSUME BucketsOK, walk.phase = "complete",
                      \A d \in Range(docs) : IsListed(d)
               PROVE  TilesAreLists
    BY DEF TilesAreLists
  <1> DEFINE Size(q) == Cardinality({d \in Range(docs) : Wanted(d, q)})
  <1>1. /\ IsBucket(bucket) /\ IsQuery(walk.query) /\ bucket \in BucketDefinitions
        /\ Asked(walk.query) \subseteq DOMAIN bucket.facts
        /\ bucket.groupings \subseteq DOMAIN bucket.facts
    BY BucketsAssumption DEF BucketsOK, Parses, IsQuery, IsBucket
  <1>2. ASSUME NEW f \in bucket.groupings
        PROVE  Says(TotalOf(walk.query, f), Size(Without(walk.query, f)))
    <2>1. Asked(Without(walk.query, f)) \subseteq DOMAIN bucket.facts
      BY <1>1, WithoutAsks
    <2>2. QED
      BY <1>1, <2>1, ExactCountsSay DEF TotalOf
  <1>3. ASSUME NEW f \in bucket.groupings, NEW v
        PROVE  Says(TileOf(walk.query, f, v), Size(With(walk.query, Only(f, v))))
    <2>1. Asked(With(walk.query, Only(f, v))) = DOMAIN Only(f, v) \cup Asked(walk.query)
      BY <1>1, WithAsks, Zenon
    <2>2. DOMAIN Only(f, v) = {f}
      BY DEF Only
    <2>3. Asked(With(walk.query, Only(f, v))) \subseteq DOMAIN bucket.facts
      BY <1>1, <2>1, <2>2
    <2>4. QED
      BY <1>1, <2>3, ExactCountsSay DEF TileOf
  <1>4. ASSUME NEW f \in bucket.groupings, NEW values \in ValuesOf(f)
        PROVE  \/ values = Null \/ IsClosed(bucket.facts[f])
               \/ values = {d.facts[f] : d \in Range(docs)} \ {Null}
               \/ /\ \E d \in Range(docs) : d.facts[f] = Null
                  /\ Cardinality(values) = MAX_VALUES
    BY <1>4, GroupsAreCut
  <1>5. QED
    BY <1>2, <1>3, <1>4, Zenon DEF TilesAreLists, Says
----------------------------------------------------------------------------
\* The rules of a bucket that has a summary.
LEMMA SummaryRules ==
    ASSUME bucket \in BucketDefinitions, IsBucket(bucket), bucket.by # <<>>
    PROVE  /\ Range(bucket.by) \cup DOMAIN bucket.among \subseteq DOMAIN bucket.facts
           /\ Range(bucket.lead) \subseteq DOMAIN bucket.facts
           /\ \A f \in Range(bucket.lead) : IsClosed(bucket.facts[f])
           /\ \A f \in DOMAIN bucket.facts : HasHidden(bucket.facts[f]) => f \in Range(bucket.lead)
  BY DEF IsBucket

\* The parts of a summary; while it is read, its query is that of the bucket, what
\* is kept is there, and what is there is known.
SummaryOK ==
    /\ summary = [query |-> summary.query, phase |-> summary.phase,
                  combinations |-> summary.combinations, complete |-> summary.complete,
                  counting |-> summary.counting, entries |-> summary.entries,
                  more |-> summary.more, kept |-> summary.kept, known |-> summary.known]
    /\ summary.phase \in {"none", "values", "counts", "answered", "refused"}
    /\ changes \in Nat
    /\ summary.phase \in {"values", "counts", "answered"} =>
         /\ IsBucket(bucket) /\ bucket.by # <<>>
         /\ IsQuery(summary.query) /\ summary.query.where = bucket.among
         /\ summary.kept \subseteq Range(docs) /\ Range(docs) \subseteq summary.known
         /\ IsFiniteSet(summary.known)

\* Values that a combination of a summary may have; with all of them it is whole.
Fits(values) ==
    /\ values = [f \in DOMAIN values |-> values[f]]
    /\ Range(bucket.by) \cap SummaryPlan.filled \subseteq DOMAIN values
    /\ DOMAIN values \subseteq Range(bucket.by)
    /\ \A f \in DOMAIN values \cap DOMAIN bucket.among : values[f] = bucket.among[f]

IsWhole(values) == Fits(values) /\ DOMAIN values = Range(bucket.by)

\* Rows that every scan of a summary finds.
IsFound(d) == IsListed(d) /\ Wanted(d, summary.query)

IsScanned(d) == Agrees(d, summary.query.where) /\ InRefAndRange(d, summary.query)

Covered(d) ==
    \E c \in summary.combinations : Agrees(d, c.fill) /\ Agrees(d, c.values)

\* Values that are among what is found in the end: they are already, or a row has
\* them that stays there.
WillBeFound(values) ==
    \/ \E c \in summary.combinations : c.values = values /\ DOMAIN values = Range(bucket.by)
    \/ /\ changes = 0 /\ ~OneIsStepped
       /\ \E d \in Range(docs) : ByOf(d) = values /\ IsScanned(d) /\ Covered(d)

TooMany ==
    \E many : Cardinality(many) = MAX_VALUES + 1 /\ \A values \in many : WillBeFound(values)

\* While combinations are looked for, every row that was left alone is covered by
\* one, unless there are too many.
FindsAll ==
    summary.phase = "values" =>
        /\ summary.entries = {} /\ IsFiniteSet(summary.combinations)
        /\ \A c \in summary.combinations :
              c = [fill |-> c.fill, values |-> c.values] /\ Fits(c.values)
        /\ NoneVanishes => TooMany \/ \A d \in summary.kept : IsFound(d) => Covered(d)

\* While entries are counted, none is counted twice, and a complete summary counts
\* those of every row that was left alone.
CountsAll ==
    summary.phase = "counts" =>
        /\ IsFiniteSet(summary.entries) /\ \A values \in summary.counting : IsWhole(values)
        /\ \A e \in summary.entries : e.values \notin summary.counting /\ CountsWhatWasThere(e)
        /\ \A e, o \in summary.entries : e.values = o.values => e = o
        /\ summary.complete /\ NoneVanishes =>
             \A d \in summary.kept : IsFound(d) =>
                ByOf(d) \in summary.counting \/ \E e \in summary.entries : e.values = ByOf(d)

SummaryInv == SummaryOK /\ FindsAll /\ CountsAll /\ SummariesShareOut

\* A listed row that is wanted is found on the line of the summary, and what is
\* found there is wanted.
LEMMA SummaryFinds ==
    ASSUME BucketsOK, IsBucket(bucket), bucket.by # <<>>,
           NEW q, Asked(q) = DOMAIN bucket.among, NEW d
    PROVE  /\ IsListed(d) /\ Wanted(d, q) =>
                 /\ Bound(d, q, SummaryPlan) /\ Filled(d, q, SummaryPlan, {Null})
                 /\ InRefAndRange(d, q)
           /\ Bound(d, q, SummaryPlan) /\ Filled(d, q, SummaryPlan, {Null})
                 /\ InRefAndRange(d, q) => Wanted(d, q)
  <1> USE SummaryRules DEF BucketsOK
  <1>1. \A f \in Range(bucket.lead) \ SummaryFacts(bucket) : f \notin Asked(q)
    BY DEF SummaryFacts
  <1>2. \A f \in (Range(bucket.lead) \cup SummaryFacts(bucket)) \cap Asked(q) :
           f \in DOMAIN bucket.facts
    OBVIOUS
  <1>3. ASSUME IsListed(d), Wanted(d, q)
        PROVE  /\ Bound(d, q, SummaryPlan) /\ Filled(d, q, SummaryPlan, {Null})
               /\ InRefAndRange(d, q)
    <2>1. Bound(d, q, SummaryPlan) /\ InRefAndRange(d, q)
      BY <1>2, <1>3 DEF Bound, Wanted, SummaryPlan
    <2>2. Filled(d, q, SummaryPlan, {Null})
      BY <1>1, <1>3, ListedIsFilled DEF Filled, SummaryPlan
    <2>3. QED
      BY <2>1, <2>2
  <1>4. ASSUME Bound(d, q, SummaryPlan), Filled(d, q, SummaryPlan, {Null}), InRefAndRange(d, q)
        PROVE  Wanted(d, q)
    <2>2. \A f \in DOMAIN bucket.facts : f \in Asked(q) => d.facts[f] = q.where[f]
      BY <1>4 DEF Bound, SummaryPlan, SummaryFacts
    <2>3. ASSUME NEW f \in DOMAIN bucket.facts, f \notin Asked(q),
                 NEW v \in bucket.facts[f].values, v.hidden, d.facts[f] = v.value,
                 f \notin q.show
          PROVE  FALSE
      <3>1. IsClosed(bucket.facts[f])
        BY <2>3, BucketsAssumption DEF IsClosed
      <3>2. f \in Range(bucket.lead)
        BY <2>3, <3>1 DEF HasHidden
      <3>3. f \in Range(bucket.lead) \ SummaryFacts(bucket)
        BY <2>3, <3>2 DEF SummaryFacts
      <3>4. d.facts[f] \in FillOf(bucket, f, q.show) \cup {Null}
        BY <1>4, <3>3 DEF Filled, SummaryPlan
      <3>5. /\ v.value # Null
            /\ \A w \in bucket.facts[f].values : v.value = w.value => w.hidden = v.hidden
        BY <2>3, BucketsAssumption
      <3>6. PICK w \in bucket.facts[f].values : d.facts[f] = w.value /\ (f \in q.show \/ ~w.hidden)
        BY <2>3, <3>4, <3>5 DEF FillOf
      <3>7. QED
        BY <2>3, <3>5, <3>6
    <2>4. QED
      BY <1>4, <2>2, <2>3 DEF Wanted
  <1>5. QED
    BY <1>3, <1>4

\* As many images as there are elements.
LEMMA ImagesAreAsMany ==
    ASSUME NEW S, IsFiniteSet(S), NEW g, DOMAIN g = S, \A x, y \in S : g[x] = g[y] => x = y
    PROVE  IsFiniteSet({g[x] : x \in S}) /\ Cardinality({g[x] : x \in S}) = Cardinality(S)
  <1> DEFINE T == {g[x] : x \in S}
             h == [x \in S |-> g[x]]
  <1>1. h \in Surjection(S, T)
    BY DEF Surjection
  <1>2. h \in Injection(S, T)
    BY DEF Injection, IsInjective
  <1>3. QED
    BY <1>1, <1>2, FS_Surjection

\* readEntry: the rows counted for an entry are rows of the summary that have its
\* values, and every such row that is listed.
LEMMA EntryRows ==
    ASSUME BucketsOK, SummaryOK, summary.phase = "counts", NEW values, IsWhole(values)
    PROVE  LET rows == Matches(With(summary.query, values), SummaryPlan) IN
           LeftAlone(values) \subseteq rows /\ rows \subseteq RowsOf(summary.known, values)
  <1> USE DEF SummaryOK
  <1>1. PICK q, asks : q = summary.query /\ asks = With(q, values)
    OBVIOUS
  <1>2. /\ IsBucket(bucket) /\ bucket.by # <<>> /\ IsQuery(q) /\ q.where = bucket.among
        /\ Asked(q) = DOMAIN bucket.among
    BY <1>1 DEF Asked
  <1>3. /\ DOMAIN values = Range(bucket.by)
        /\ \A f \in Range(bucket.by) \cap Asked(q) : values[f] = q.where[f]
    BY <1>2 DEF IsWhole, Fits
  <1>4. /\ Asked(asks) = Range(bucket.by) \cup Asked(q)
        /\ \A f \in Range(bucket.by) : asks.where[f] = values[f]
        /\ \A f \in Asked(q) : asks.where[f] = q.where[f]
        /\ asks.show = q.show /\ asks.ref = q.ref /\ asks.from = q.from /\ asks.to = q.to
    <2>1. /\ Asked(asks) = DOMAIN values \cup Asked(q)
          /\ \A f \in DOMAIN values : asks.where[f] = values[f]
          /\ \A f \in Asked(q) \ DOMAIN values : asks.where[f] = q.where[f]
          /\ asks.show = q.show /\ asks.ref = q.ref /\ asks.from = q.from /\ asks.to = q.to
      BY <1>1, <1>2, WithAsks
    <2>2. QED
      BY <1>3, <2>1
  <1>5. \A d : /\ InRefAndRange(d, asks) <=> InRefAndRange(d, q)
               /\ Filled(d, asks, SummaryPlan, {Null}) <=> Filled(d, q, SummaryPlan, {Null})
    BY <1>4 DEF InRefAndRange, Filled
  <1>6. SummaryPlan.facts = Range(bucket.lead) \cup SummaryFacts(bucket)
    BY DEF SummaryPlan
  <1>7. \A d : Bound(d, asks, SummaryPlan) <=>
                 /\ \A f \in Asked(q) : d.facts[f] = q.where[f]
                 /\ \A f \in Range(bucket.by) : d.facts[f] = values[f]
    <2>1. (Range(bucket.lead) \cup SummaryFacts(bucket)) \cap Asked(asks) =
             Asked(q) \cup Range(bucket.by)
      BY <1>2, <1>4 DEF SummaryFacts
    <2>2. QED
      BY <1>4, <1>6, <2>1 DEF Bound
  <1>8. \A d : Bound(d, q, SummaryPlan) <=> \A f \in Asked(q) : d.facts[f] = q.where[f]
    <2>1. (Range(bucket.lead) \cup SummaryFacts(bucket)) \cap Asked(q) = Asked(q)
      BY <1>2 DEF SummaryFacts
    <2>2. QED
      BY <1>6, <2>1 DEF Bound
  <1>9. \A d : ByOf(d) = values <=> \A f \in Range(bucket.by) : d.facts[f] = values[f]
    BY <1>3 DEF ByOf, IsWhole, Fits
  <1>10. \A d : d \in Matches(asks, SummaryPlan) <=>
                  /\ d \in Range(docs) /\ ByOf(d) = values
                  /\ Bound(d, q, SummaryPlan) /\ Filled(d, q, SummaryPlan, {Null})
                  /\ InRefAndRange(d, q)
    BY <1>5, <1>7, <1>8, <1>9, Zenon DEF Matches
  <1>11. summary.kept \subseteq Range(docs) /\ Range(docs) \subseteq summary.known
    OBVIOUS
  <1>12. LeftAlone(values) \subseteq Matches(asks, SummaryPlan)
    <2>1. ASSUME NEW d \in LeftAlone(values) PROVE d \in Matches(asks, SummaryPlan)
      <3>1. d \in Range(docs) /\ Wanted(d, q) /\ ByOf(d) = values /\ IsListed(d)
        BY <1>1, <1>11, <2>1 DEF LeftAlone, RowsOf
      <3>2. QED
        BY <1>2, <1>10, <3>1, SummaryFinds
    <2>2. QED
      BY <2>1
  <1>13. Matches(asks, SummaryPlan) \subseteq RowsOf(summary.known, values)
    <2>1. ASSUME NEW d \in Matches(asks, SummaryPlan) PROVE d \in RowsOf(summary.known, values)
      <3>1. /\ d \in Range(docs) /\ ByOf(d) = values
            /\ Bound(d, q, SummaryPlan) /\ Filled(d, q, SummaryPlan, {Null}) /\ InRefAndRange(d, q)
        BY <1>10, <2>1
      <3>2. Wanted(d, q)
        BY <1>2, <3>1, SummaryFinds
      <3>3. QED
        BY <1>1, <1>11, <3>1, <3>2 DEF RowsOf
    <2>2. QED
      BY <2>1
  <1>14. QED
    BY <1>1, <1>12, <1>13

\* How many rows an entry may count.
LEMMA RowsAreFinite ==
    ASSUME BucketsOK, SummaryOK, summary.phase \in {"values", "counts", "answered"}, NEW values
    PROVE  LET ids == {d.id : d \in RowsOf(summary.known, values)} IN
           /\ IsFiniteSet(LeftAlone(values)) /\ Cardinality(LeftAlone(values)) \in Nat
           /\ IsFiniteSet(ids) /\ Cardinality(ids) \in Nat
  <1>1. IsFiniteSet(summary.known) /\ summary.kept \subseteq summary.known
    BY DEF SummaryOK
  <1>2. LeftAlone(values) \in SUBSET summary.known /\ RowsOf(summary.known, values) \in SUBSET summary.known
    BY <1>1 DEF LeftAlone, RowsOf
  <1>3. IsFiniteSet(LeftAlone(values)) /\ IsFiniteSet(RowsOf(summary.known, values))
    BY <1>1, <1>2, FS_Subset
  <1> DEFINE rows == RowsOf(summary.known, values)
             idOf == [d \in rows |-> d.id]
  <1>4. idOf \in Surjection(rows, {d.id : d \in rows})
    BY DEF Surjection
  <1>5. IsFiniteSet({d.id : d \in rows})
    <2> HIDE DEF rows, idOf
    <2> QED
      BY <1>3, <1>4, FS_Surjection DEF rows
  <1>6. QED
    BY <1>3, <1>5, FS_CardinalityType

\* readEntry counts rows that are there.
LEMMA EntriesCount ==
    ASSUME BucketsOK, SummaryOK, summary.phase = "counts", NEW values, IsWhole(values)
    PROVE  CountsWhatWasThere(EntryOf(summary.query, values))
  <1> DEFINE rows == Matches(With(summary.query, values), SummaryPlan)
             known == RowsOf(summary.known, values)
             idOf == [d \in rows |-> d.id]
             n == Cardinality(rows)
  <1>1. LeftAlone(values) \subseteq rows /\ rows \subseteq known
    BY EntryRows
  <1>2. IsFiniteSet(rows) /\ \A d, e \in rows : d.id = e.id => d = e
    <2>1. rows \in SUBSET Range(docs)
      BY DEF Matches
    <2>2. QED
      BY <2>1, DocsAreACollection DEF IsCollection
  <1>3. /\ Cardinality(LeftAlone(values)) \in Nat
        /\ IsFiniteSet({d.id : d \in known}) /\ Cardinality({d.id : d \in known}) \in Nat
    BY RowsAreFinite
  <1> HIDE DEF rows
  <1>4. Cardinality(LeftAlone(values)) <= n /\ n \in Nat
    BY <1>1, <1>2, FS_Subset, FS_CardinalityType
  <1>5. n <= Cardinality({d.id : d \in known})
    <2>1. Cardinality({idOf[d] : d \in rows}) = n
      <3>1. DOMAIN idOf = rows /\ \A d, e \in rows : idOf[d] = idOf[e] => d = e
        BY <1>2
      <3> HIDE DEF idOf
      <3>2. QED
        BY <1>2, <3>1, ImagesAreAsMany
    <2>2. {idOf[d] : d \in rows} \in SUBSET {d.id : d \in known}
      BY <1>1
    <2> HIDE DEF known, idOf, n
    <2>3. QED
      BY <1>3, <2>1, <2>2, FS_Subset DEF n
  <1>6. /\ EntryOf(summary.query, values).values = values
        /\ EntryOf(summary.query, values).counted =
             [count |-> AtMost(n, SUMMARY_COUNT_CAP), capped |-> n > SUMMARY_COUNT_CAP]
    BY DEF EntryOf, CountUpTo, rows
  <1>7. n \in Cardinality(LeftAlone(values)) .. Cardinality({d.id : d \in known})
    <2> HIDE DEF n, known
    <2> QED
      BY <1>3, <1>4, <1>5
  <1> HIDE DEF n
  <1>8. QED
    BY <1>6, <1>7 DEF CountsWhatWasThere
----------------------------------------------------------------------------
\* What is meant stays the same while the bucket and the query do.
LEMMA MeaningsStay ==
    ASSUME bucket' = bucket, summary'.query = summary.query
    PROVE  /\ \A d : /\ IsFound(d)' <=> IsFound(d)
                     /\ IsListed(d)' <=> IsListed(d)
                     /\ Wanted(d, summary.query)' <=> Wanted(d, summary.query)
                     /\ IsScanned(d)' <=> IsScanned(d)
                     /\ ByOf(d)' = ByOf(d)
           /\ \A values : (Fits(values)' <=> Fits(values)) /\ (IsWhole(values)' <=> IsWhole(values))
           /\ OneIsStepped' <=> OneIsStepped
  <1>1. \A d : IsListed(d)' <=> IsListed(d)
    BY DEF IsListed
  <1>2. \A d : Wanted(d, summary.query)' <=> Wanted(d, summary.query)
    BY DEF Wanted, InRefAndRange, Asked
  <1>3. \A d : (IsScanned(d)' <=> IsScanned(d)) /\ ByOf(d)' = ByOf(d)
    BY DEF IsScanned, InRefAndRange, Agrees, ByOf
  <1>4. SummaryPlan' = SummaryPlan
    BY DEF SummaryPlan, SummaryFacts
  <1>5. \A values : (Fits(values)' <=> Fits(values)) /\ (IsWhole(values)' <=> IsWhole(values))
    BY <1>4 DEF Fits, IsWhole
  <1>6. OneIsStepped' <=> OneIsStepped
    BY <1>4 DEF OneIsStepped, Stepped
  <1>7. QED
    BY <1>1, <1>2, <1>3, <1>5, <1>6 DEF IsFound

\* Less is left alone and more is known, so what was counted may still be.
LEMMA CountsStay ==
    ASSUME BucketsOK, SummaryOK, summary.phase \in {"values", "counts", "answered"},
           bucket' = bucket, summary'.query = summary.query,
           summary'.kept \subseteq summary.kept, summary.known \subseteq summary'.known,
           IsFiniteSet(summary'.known), NEW values
    PROVE  /\ LeftAlone(values)' \subseteq LeftAlone(values)
           /\ Cardinality(LeftAlone(values)') \in Nat
           /\ Cardinality(LeftAlone(values)') <= Cardinality(LeftAlone(values))
           /\ \A e : e.values = values /\ CountsWhatWasThere(e) => CountsWhatWasThere(e)'
  <1> DEFINE rows == RowsOf(summary.known, values)
             ids == {d.id : d \in rows}
  <1>1. /\ LeftAlone(values)' \subseteq LeftAlone(values)
        /\ rows \subseteq rows'
    BY MeaningsStay DEF LeftAlone, RowsOf
  <1>2. /\ IsFiniteSet(LeftAlone(values)) /\ Cardinality(LeftAlone(values)) \in Nat
        /\ Cardinality(ids) \in Nat
    BY RowsAreFinite
  <1>3. IsFiniteSet(ids')
    <2>1. rows' \in SUBSET summary'.known
      BY DEF RowsOf
    <2>2. IsFiniteSet(rows')
      BY <2>1, FS_Subset
    <2> DEFINE idOf == [d \in rows' |-> d.id]
    <2>3. idOf \in Surjection(rows', ids')
      BY DEF Surjection
    <2> HIDE DEF rows, idOf
    <2>4. QED
      BY <2>2, <2>3, FS_Surjection
  <1>4. ids \in SUBSET ids'
    BY <1>1
  <1> HIDE DEF rows
  <1>5. /\ Cardinality(ids) <= Cardinality(ids') /\ Cardinality(ids') \in Nat
    <2> HIDE DEF ids
    <2> QED
      BY <1>3, <1>4, FS_Subset, FS_CardinalityType
  <1>6. /\ Cardinality(LeftAlone(values)') \in Nat
        /\ Cardinality(LeftAlone(values)') <= Cardinality(LeftAlone(values))
    BY <1>1, <1>2, FS_Subset, FS_CardinalityType
  <1>7. ASSUME NEW e, e.values = values, CountsWhatWasThere(e) PROVE CountsWhatWasThere(e)'
    <2>1. PICK n \in Cardinality(LeftAlone(values)) .. Cardinality(ids) :
             e.counted = [count |-> AtMost(n, SUMMARY_COUNT_CAP), capped |-> n > SUMMARY_COUNT_CAP]
      BY <1>7 DEF CountsWhatWasThere, rows
    <2>2. n \in Cardinality(LeftAlone(values)') .. Cardinality(ids')
      <3> HIDE DEF ids
      <3> QED
        BY <1>2, <1>5, <1>6, <2>1
    <2>3. QED
      BY <1>7, <2>1, <2>2 DEF CountsWhatWasThere, rows
  <1>8. QED
    BY <1>1, <1>6, <1>7

LEMMA SummaryStarts ==
    BucketsInit => SummaryInv
  <1> SUFFICES ASSUME BucketsInit PROVE SummaryInv
    OBVIOUS
  <1>1. summary = NoSummary /\ changes = 0
    BY DEF BucketsInit
  <1>2. SummaryOK /\ summary.phase = "none"
    BY <1>1 DEF NoSummary, SummaryOK
  <1>3. QED
    BY <1>2 DEF SummaryInv, FindsAll, CountsAll, SummariesShareOut

\* A summary that is not read.
LEMMA NotReadIsFine ==
    ASSUME SummaryInv, summary' = [NoSummary EXCEPT !.phase = "refused"], changes' = changes
    PROVE  SummaryInv'
  <1>1. SummaryOK' /\ summary'.phase = "refused"
    BY DEF NoSummary, SummaryOK, SummaryInv
  <1>2. QED
    BY <1>1 DEF SummaryInv, FindsAll, CountsAll, SummariesShareOut

\* Steps of a list leave the summary alone.
LEMMA SummaryStays ==
    ASSUME SummaryInv, UNCHANGED <<bucket, docs, summary, changes>>
    PROVE  SummaryInv'
  <1>1. /\ \A d : (IsFound(d)' <=> IsFound(d)) /\ ByOf(d)' = ByOf(d) /\ (Covered(d)' <=> Covered(d))
                  /\ (IsScanned(d)' <=> IsScanned(d)) /\ (IsListed(d)' <=> IsListed(d))
                  /\ (Wanted(d, summary.query)' <=> Wanted(d, summary.query))
        /\ \A values : (Fits(values)' <=> Fits(values)) /\ (IsWhole(values)' <=> IsWhole(values))
        /\ (OneIsStepped' <=> OneIsStepped) /\ (NoneVanishes' <=> NoneVanishes)
    BY MeaningsStay DEF Covered, NoneVanishes
  <1>2. \A values : LeftAlone(values)' = LeftAlone(values)
                    /\ RowsOf(summary.known, values)' = RowsOf(summary.known, values)
    BY <1>1 DEF LeftAlone, RowsOf
  <1>3. /\ \A e : CountsWhatWasThere(e)' <=> CountsWhatWasThere(e)
        /\ \A values : LeftOutForMore(values)' <=> LeftOutForMore(values)
    BY <1>2 DEF CountsWhatWasThere, LeftOutForMore
  <1>4. TooMany' <=> TooMany
    BY <1>1 DEF TooMany, WillBeFound
  <1>5. SummaryOK' /\ FindsAll'
    BY <1>1, <1>4 DEF SummaryInv, SummaryOK, FindsAll
  <1>6. CountsAll' /\ SummariesShareOut'
    BY <1>1, <1>3 DEF SummaryInv, CountsAll, SummariesShareOut, IsFound
  <1>7. QED
    BY <1>5, <1>6 DEF SummaryInv

\* fillsOf: there are finitely many fills.
LEMMA FillsAreFinite ==
    ASSUME bucket \in BucketDefinitions, IsBucket(bucket), bucket.by # <<>>, NEW q
    PROVE  IsFiniteSet(FillsOf(q))
  <1> DEFINE S == SummaryPlan.filled
             Fill(f) == FillOf(bucket, f, q.show) \cup {Null}
             T == UNION {Fill(f) : f \in S}
  <1>1. IsFiniteSet(S)
    <2>1. bucket.lead \in Seq(Range(bucket.lead))
      BY BucketsAssumption
    <2>2. Len(bucket.lead) \in Nat /\ DOMAIN bucket.lead = 1 .. Len(bucket.lead)
      BY <2>1
    <2>3. bucket.lead \in Surjection(1 .. Len(bucket.lead), Range(bucket.lead))
      BY <2>1, <2>2 DEF Surjection, Range
    <2>4. IsFiniteSet(Range(bucket.lead))
      <3>1. 1 \in Int /\ Len(bucket.lead) \in Int
        BY <2>2
      <3>2. IsFiniteSet(1 .. Len(bucket.lead))
        BY <3>1, FS_Interval
      <3>3. QED
        BY <2>3, <3>2, FS_Surjection
    <2>5. S \in SUBSET Range(bucket.lead)
      BY DEF SummaryPlan
    <2> HIDE DEF S
    <2>6. QED
      BY <2>4, <2>5, FS_Subset
  <1>2. ASSUME NEW f \in S PROVE IsFiniteSet(Fill(f))
    <2>1. f \in DOMAIN bucket.facts
      BY SummaryRules DEF SummaryPlan
    <2>2. IsFiniteSet(bucket.facts[f].values)
      BY <2>1, BucketsAssumption
    <2> DEFINE shown == {w \in bucket.facts[f].values : f \in q.show \/ ~w.hidden}
               valueOf == [v \in shown |-> v.value]
    <2>3. IsFiniteSet(shown)
      BY <2>2, FS_Subset
    <2>4. valueOf \in Surjection(shown, FillOf(bucket, f, q.show))
      BY DEF Surjection, FillOf
    <2>5. IsFiniteSet(FillOf(bucket, f, q.show))
      <3> HIDE DEF shown, valueOf
      <3> QED
        BY <2>3, <2>4, FS_Surjection
    <2>6. QED
      BY <2>5, FS_AddElement
  <1>3. IsFiniteSet(T)
    <2> DEFINE fillOf == [f \in S |-> Fill(f)]
    <2>1. fillOf \in Surjection(S, {Fill(f) : f \in S})
      BY DEF Surjection
    <2>2. IsFiniteSet({Fill(f) : f \in S})
      <3> HIDE DEF fillOf, S, Fill
      <3> QED
        BY <1>1, <2>1, FS_Surjection
    <2>3. \A fill \in {Fill(f) : f \in S} : IsFiniteSet(fill)
      BY <1>2
    <2> HIDE DEF Fill, S
    <2>4. QED
      BY <2>2, <2>3, FS_UNION
  <1>4. FillsOf(q) \subseteq [S -> T]
    BY DEF FillsOf
  <1> HIDE DEF S, T
  <1>5. IsFiniteSet(SUBSET (S \X T))
    BY <1>1, <1>3, FS_Product, FS_SUBSET
  <1> DEFINE graph == [fill \in FillsOf(q) |-> {<<f, fill[f]>> : f \in S}]
  <1>6. graph \in Injection(FillsOf(q), SUBSET (S \X T))
    <2>1. \A fill \in FillsOf(q) : fill \in [S -> T]
      BY <1>4
    <2>2. ASSUME NEW x \in FillsOf(q), NEW y \in FillsOf(q), graph[x] = graph[y]
          PROVE  x = y
      <3>1. ASSUME NEW f \in S PROVE x[f] = y[f]
        <4>1. <<f, x[f]>> \in {<<g, y[g]>> : g \in S}
          BY <2>2, <3>1
        <4>2. QED
          BY <4>1
      <3>2. x \in [S -> T] /\ y \in [S -> T]
        BY <2>1
      <3>3. QED
        BY <3>1, <3>2
    <2>3. graph \in [FillsOf(q) -> SUBSET (S \X T)]
      BY <2>1
    <2> HIDE DEF graph
    <2>4. QED
      BY <2>2, <2>3 DEF Injection, IsInjective
  <1>7. QED
    <2> HIDE DEF graph
    <2> QED
      BY <1>5, <1>6, FS_Injection

\* runSummary: to begin with, each row is covered by the fill that has its values.
LEMMA StartsCovered ==
    ASSUME BucketsOK, SummaryInv, NEW q \in Queries, StartSummary(q), IsBucket(bucket)
    PROVE  SummaryInv'
  <1>1. PICK asks : asks = [q EXCEPT !.where = bucket.among, !.ref = Null]
    OBVIOUS
  <1>2. /\ UNCHANGED <<bucket, docs, changes>> /\ bucket.by # <<>> /\ bucket \in BucketDefinitions
        /\ summary' =
             IF Parses(asks)
             THEN [NoSummary EXCEPT !.phase = "values", !.query = asks,
                     !.combinations = {[fill |-> fill, values |-> Fixed(fill)] : fill \in FillsOf(asks)},
                     !.kept = Range(docs), !.known = Range(docs)]
             ELSE [NoSummary EXCEPT !.phase = "refused"]
    BY <1>1 DEF StartSummary, BucketsOK
  <1>3. CASE ~Parses(asks)
    BY <1>2, <1>3, NotReadIsFine
  <1>4. CASE Parses(asks)
    <2> DEFINE begun == {[fill |-> fill, values |-> Fixed(fill)] : fill \in FillsOf(asks)}
    <2>1. /\ summary' = [query |-> asks, phase |-> "values", combinations |-> begun,
                         complete |-> FALSE, counting |-> {}, entries |-> {}, more |-> FALSE,
                         kept |-> Range(docs), known |-> Range(docs)]
      BY <1>2, <1>4 DEF NoSummary
    <2>2. IsQuery(asks) /\ asks.where = bucket.among /\ Asked(asks) = DOMAIN bucket.among
      BY <1>1, BucketsAssumption DEF IsQuery, Asked
    <2>3. IsFiniteSet(Range(docs))
      BY DocsAreACollection DEF IsCollection
    <2>4. SummaryOK'
      BY <1>2, <2>1, <2>2, <2>3 DEF SummaryOK, SummaryInv, IsQuery
    <2>5. IsFiniteSet(begun)
      <3> DEFINE begin == [fill \in FillsOf(asks) |-> [fill |-> fill, values |-> Fixed(fill)]]
      <3>1. begin \in Surjection(FillsOf(asks), begun)
        BY DEF Surjection
      <3> HIDE DEF begin, begun
      <3>2. QED
        BY <1>2, <3>1, FillsAreFinite, FS_Surjection
    <2>6. \A c \in begun : c = [fill |-> c.fill, values |-> c.values] /\ Fits(c.values)
      <3>1. TAKE c \in begun
      <3>2. PICK fill \in FillsOf(asks) : c = [fill |-> fill, values |-> Fixed(fill)]
        OBVIOUS
      <3>3. /\ c.values = Fixed(fill) /\ c.fill = fill
            /\ DOMAIN Fixed(fill) = Range(bucket.by) \cap SummaryPlan.filled
        BY <3>2 DEF Fixed
      <3>4. SummaryPlan.filled \cap DOMAIN bucket.among = {}
        BY DEF SummaryPlan, SummaryFacts
      <3>5. Fixed(fill) = [f \in DOMAIN Fixed(fill) |-> Fixed(fill)[f]]
        BY <3>3 DEF Fixed
      <3> HIDE DEF begun
      <3>6. QED
        BY <3>2, <3>3, <3>4, <3>5 DEF Fits
    <2>7. ASSUME NEW d \in Range(docs), IsListed(d), Wanted(d, asks)
          PROVE  \E c \in begun : Agrees(d, c.fill) /\ Agrees(d, c.values)
      <3> DEFINE fill == [f \in SummaryPlan.filled |-> d.facts[f]]
      <3>1. ASSUME NEW f \in SummaryPlan.filled
            PROVE  d.facts[f] \in FillOf(bucket, f, asks.show) \cup {Null}
        <4>1. f \in DOMAIN bucket.facts /\ IsClosed(bucket.facts[f]) /\ f \notin Asked(asks)
          BY <1>2, <2>2, SummaryRules DEF SummaryPlan, SummaryFacts
        <4>2. QED
          BY <1>2, <2>7, <4>1, ListedIsFilled
      <3>2. fill \in FillsOf(asks)
        BY <3>1 DEF FillsOf
      <3>3. Agrees(d, fill) /\ Agrees(d, Fixed(fill))
        BY DEF Agrees, Fixed
      <3> HIDE DEF fill
      <3>4. [fill |-> fill, values |-> Fixed(fill)] \in begun
        BY <3>2
      <3>5. QED
        BY <3>3, <3>4
    <2> HIDE DEF begun
    <2>8. \A d \in summary'.kept : IsFound(d)' => Covered(d)'
      <3>1. \A d : IsFound(d)' => IsListed(d) /\ Wanted(d, asks)
        BY <1>2, <2>1 DEF IsFound, IsListed, Wanted, InRefAndRange, Asked
      <3>2. QED
        BY <2>1, <2>7, <3>1 DEF Covered
    <2>9. \A values : Fits(values)' <=> Fits(values)
      BY <1>2 DEF Fits, SummaryPlan, SummaryFacts
    <2>10. FindsAll'
      BY <2>1, <2>5, <2>6, <2>8, <2>9 DEF FindsAll
    <2>11. CountsAll' /\ SummariesShareOut'
      BY <2>1 DEF CountsAll, SummariesShareOut
    <2>12. QED
      BY <2>4, <2>10, <2>11 DEF SummaryInv
  <1>5. QED
    BY <1>3, <1>4

\* stepValues: a scan that is not cut loses no row; a cut one finds too many.
LEMMA StepsCover ==
    ASSUME BucketsOK, SummaryInv, NEW c \in summary.combinations, NEW f \in Stepped, StepValues(c, f)
    PROVE  SummaryInv'
  <1>1. PICK q : q = summary.query
    OBVIOUS
  <1> DEFINE groups == {d.facts[f] : d \in Under(c, q)}
  <1>2. /\ UNCHANGED <<bucket, docs, changes>> /\ summary.phase = "values"
        /\ f \notin DOMAIN c.values /\ f \in Range(bucket.by)
        /\ c = [fill |-> c.fill, values |-> c.values] /\ Fits(c.values)
        /\ \A o \in summary.combinations : o = [fill |-> o.fill, values |-> o.values] /\ Fits(o.values)
    BY DEF StepValues, IsNext, Stepped, SummaryInv, FindsAll
  <1>3. PICK met \in FirstGroups(groups) :
           summary' = [summary EXCEPT !.combinations =
                         (@ \ {c}) \cup {[c EXCEPT !.values = Widened(@, f, v)] : v \in met}]
    BY <1>1 DEF StepValues
  <1> DEFINE wide(v) == [fill |-> c.fill, values |-> Widened(c.values, f, v)]
             next == {wide(v) : v \in met}
  <1>4. summary' = [query |-> q, phase |-> "values",
                    combinations |-> (summary.combinations \ {c}) \cup next,
                    complete |-> summary.complete, counting |-> summary.counting,
                    entries |-> summary.entries, more |-> summary.more, kept |-> summary.kept,
                    known |-> summary.known]
    <2>1. \A v : [c EXCEPT !.values = Widened(@, f, v)] = wide(v)
      BY <1>2
    <2>2. {[c EXCEPT !.values = Widened(@, f, v)] : v \in met} = next
      BY <2>1
    <2> HIDE DEF next, wide
    <2>3. QED
      BY <1>1, <1>2, <1>3, <2>2 DEF SummaryInv, SummaryOK
  <1> HIDE DEF next
  <1>5. /\ IsBucket(bucket) /\ bucket.by # <<>> /\ bucket \in BucketDefinitions
        /\ q.where = bucket.among /\ summary.kept \subseteq Range(docs)
    BY <1>1, <1>2 DEF SummaryInv, SummaryOK, BucketsOK
  <1>6. summary'.query = summary.query /\ bucket' = bucket
    BY <1>1, <1>2, <1>4
  <1>7. SummaryOK'
    BY <1>1, <1>2, <1>4 DEF SummaryInv, SummaryOK
  <1>8. IsFiniteSet(groups) /\ IsFiniteSet(met) /\ met \subseteq groups
        /\ (met = groups \/ Cardinality(met) = MAX_VALUES + 1)
    <2>1. Under(c, q) \in SUBSET Range(docs)
      BY DEF Under
    <2>2. IsFiniteSet(Under(c, q))
      BY <2>1, DocsAreACollection DEF IsCollection
    <2>3. IsFiniteSet(groups)
      BY <2>2, ValuesAreFinite
    <2> HIDE DEF groups
    <2>4. QED
      BY <2>3, CutGroups, FS_Subset
  <1>9. IsFiniteSet(summary'.combinations)
    <2> DEFINE widen == [v \in met |-> wide(v)]
    <2>1. widen \in Surjection(met, next)
      BY DEF Surjection, next
    <2>2. IsFiniteSet(next)
      <3> HIDE DEF widen
      <3> QED
        BY <1>8, <2>1, FS_Surjection
    <2>3. IsFiniteSet(summary.combinations \ {c})
      BY <1>2, FS_RemoveElement DEF SummaryInv, FindsAll
    <2>4. QED
      BY <1>4, <2>2, <2>3, FS_Union
  <1>10. ASSUME NEW v \in met
         PROVE  /\ DOMAIN Widened(c.values, f, v) = DOMAIN c.values \cup {f}
                /\ Widened(c.values, f, v)[f] = v
                /\ \A g \in DOMAIN c.values : Widened(c.values, f, v)[g] = c.values[g]
                /\ Widened(c.values, f, v)
                     = [g \in DOMAIN Widened(c.values, f, v) |-> Widened(c.values, f, v)[g]]
    BY <1>2 DEF Widened
  <1>11. \A o \in summary'.combinations : o = [fill |-> o.fill, values |-> o.values] /\ Fits(o.values)
    <2>1. TAKE o \in summary'.combinations
    <2>2. CASE o \in summary.combinations
      BY <1>2, <2>2
    <2>3. CASE o \in next
      <3>1. PICK v \in met : o = wide(v)
        BY <2>3 DEF next
      <3>2. o.values = Widened(c.values, f, v) /\ o = [fill |-> o.fill, values |-> o.values]
        BY <3>1
      <3>3. f \in DOMAIN bucket.among => v = bucket.among[f]
        <4>1. PICK d \in Under(c, q) : v = d.facts[f]
          BY <1>8
        <4>2. QED
          BY <1>5, <4>1 DEF Under, Agrees
      <3>4. Fits(o.values)
        BY <1>2, <1>10, <3>2, <3>3 DEF Fits
      <3>5. QED
        BY <3>2, <3>4
    <2>4. QED
      BY <1>4, <2>2, <2>3
  <1>12. ASSUME NEW d \in Under(c, q), d.facts[f] \in met PROVE Covered(d)'
    <2>1. Agrees(d, c.fill) /\ Agrees(d, Widened(c.values, f, d.facts[f]))
      <3>1. Agrees(d, c.fill) /\ Agrees(d, c.values)
        BY DEF Under
      <3> HIDE DEF groups
      <3>2. PICK v \in met : v = d.facts[f]
        BY <1>12
      <3>3. Agrees(d, Widened(c.values, f, v))
        BY <3>1, <3>2 DEF Agrees, Widened
      <3>4. QED
        BY <3>1, <3>2, <3>3
    <2>2. wide(d.facts[f]) \in summary'.combinations
      BY <1>4, <1>12 DEF next
    <2>3. QED
      BY <2>1, <2>2 DEF Covered
  <1>13. ASSUME met = groups, NEW d \in Range(docs), IsScanned(d), Covered(d) PROVE Covered(d)'
    <2>1. PICK o \in summary.combinations : Agrees(d, o.fill) /\ Agrees(d, o.values)
      BY <1>13 DEF Covered
    <2>2. CASE o = c
      <3>1. d \in Under(c, q)
        BY <1>1, <1>13, <2>1, <2>2 DEF Under, IsScanned
      <3>2. QED
        BY <1>12, <1>13, <3>1
    <2>3. CASE o # c
      BY <1>4, <2>1, <2>3 DEF Covered
    <2>4. QED
      BY <2>2, <2>3
  <1>14. ASSUME met = groups, TooMany PROVE TooMany'
    <2>1. ASSUME NEW values, WillBeFound(values) PROVE WillBeFound(values)'
      <3>1. ASSUME NEW o \in summary.combinations, o.values = values, DOMAIN values = Range(bucket.by)
            PROVE  WillBeFound(values)'
        <4>1. o # c
          BY <1>2, <3>1
        <4>2. QED
          BY <1>4, <1>6, <3>1, <4>1 DEF WillBeFound
      <3>2. ASSUME changes = 0, ~OneIsStepped, NEW d \in Range(docs), ByOf(d) = values,
                   IsScanned(d), Covered(d)
            PROVE  WillBeFound(values)'
        <4>1. Covered(d)'
          BY <1>13, <1>14, <3>2
        <4>2. d \in Range(docs)' /\ changes' = 0
          BY <1>2, <3>2
        <4>3. QED
          BY <1>6, <3>2, <4>1, <4>2, MeaningsStay DEF WillBeFound
      <3>3. QED
        BY <2>1, <3>1, <3>2 DEF WillBeFound
    <2>2. QED
      BY <1>14, <2>1 DEF TooMany
  <1>15. ASSUME NEW d \in summary.kept, IsFound(d) PROVE d \in Range(docs) /\ IsScanned(d)
    <2>1. Wanted(d, q) /\ DOMAIN bucket.among \subseteq DOMAIN bucket.facts
      BY <1>1, <1>5, <1>15, SummaryRules DEF IsFound
    <2>2. QED
      BY <1>1, <1>5, <1>15, <2>1 DEF Wanted, IsScanned, Agrees, Asked
  <1>16. ASSUME Cardinality(met) = MAX_VALUES + 1, OneIsStepped PROVE TooMany'
    <2> DEFINE whole == [v \in met |-> Widened(c.values, f, v)]
               many == {whole[v] : v \in met}
    <2>1. \A v, w \in met : whole[v] = whole[w] => v = w
      <3>1. \A v \in met : whole[v] = Widened(c.values, f, v)
        OBVIOUS
      <3>2. \A v \in met : whole[v][f] = v
        BY <1>10, <3>1
      <3> HIDE DEF whole
      <3>3. QED
        BY <3>2
    <2>2. Cardinality(many) = MAX_VALUES + 1
      <3>1. DOMAIN whole = met
        OBVIOUS
      <3> HIDE DEF whole
      <3>2. QED
        BY <1>8, <1>16, <2>1, <3>1, ImagesAreAsMany
    <2>3. ASSUME NEW v \in met PROVE WillBeFound(whole[v])'
      <3>1. whole[v] = wide(v).values /\ wide(v) \in summary'.combinations
        BY <1>4 DEF next
      <3>2. DOMAIN whole[v] = Range(bucket.by)
        <4>1. Stepped = {f}
          BY <1>16 DEF OneIsStepped
        <4>2. DOMAIN c.values \cup {f} = Range(bucket.by)
          BY <1>2, <4>1 DEF Stepped, Fits
        <4>3. QED
          BY <1>10, <4>2
      <3> HIDE DEF whole, wide
      <3>3. QED
        BY <1>6, <3>1, <3>2 DEF WillBeFound
    <2>4. QED
      <3> HIDE DEF whole
      <3> QED
        BY <2>2, <2>3 DEF TooMany
  <1>17. ASSUME Cardinality(met) = MAX_VALUES + 1, ~OneIsStepped, changes = 0 PROVE TooMany'
    <2>1. PICK rowOf \in [met -> Under(c, q)] : \A v \in met : rowOf[v].facts[f] = v
      <3> DEFINE rowOf == [v \in met |-> CHOOSE d \in Under(c, q) : d.facts[f] = v]
      <3>1. \A v \in met : \E d \in Under(c, q) : d.facts[f] = v
        BY <1>8
      <3>2. rowOf \in [met -> Under(c, q)] /\ \A v \in met : rowOf[v].facts[f] = v
        BY <3>1
      <3> HIDE DEF rowOf
      <3>3. QED
        BY <3>2
    <2>2. PICK by : by = [v \in met |-> ByOf(rowOf[v])]
      OBVIOUS
    <2>3. DOMAIN by = met /\ \A v \in met : by[v] = ByOf(rowOf[v]) /\ by[v][f] = v
      BY <1>2, <2>1, <2>2 DEF ByOf
    <2>4. Cardinality({by[v] : v \in met}) = MAX_VALUES + 1
      BY <1>8, <1>17, <2>3, ImagesAreAsMany
    <2>5. ASSUME NEW v \in met PROVE WillBeFound(by[v])'
      <3>1. PICK d : d = rowOf[v]
        OBVIOUS
      <3>2. PICK values : values = by[v]
        OBVIOUS
      <3>3. /\ d \in Under(c, q) /\ d \in Range(docs) /\ IsScanned(d) /\ values = ByOf(d)
            /\ d.facts[f] \in met
        BY <1>1, <2>1, <2>3, <3>1, <3>2 DEF Under, IsScanned
      <3>4. Covered(d)' /\ d \in Range(docs)' /\ changes' = 0
        BY <1>2, <1>12, <1>17, <3>3
      <3>5. ByOf(d)' = values /\ IsScanned(d)' /\ ~OneIsStepped'
        BY <1>6, <1>17, <3>3, MeaningsStay
      <3>6. WillBeFound(values)'
        BY <3>4, <3>5 DEF WillBeFound
      <3>7. QED
        BY <3>2, <3>6
    <2>6. QED
      BY <2>4, <2>5 DEF TooMany
  <1>18. ASSUME NoneVanishes' PROVE TooMany' \/ \A d \in summary'.kept : IsFound(d)' => Covered(d)'
    <2>1. NoneVanishes
      BY <1>2, <1>6, <1>18, MeaningsStay DEF NoneVanishes
    <2>2. CASE Cardinality(met) = MAX_VALUES + 1
      BY <1>16, <1>17, <2>1, <2>2 DEF NoneVanishes
    <2>3. CASE met = groups
      <3>1. TooMany \/ \A d \in summary.kept : IsFound(d) => Covered(d)
        BY <1>2, <2>1 DEF SummaryInv, FindsAll
      <3>2. CASE TooMany
        BY <1>14, <2>3, <3>2
      <3>3. CASE \A d \in summary.kept : IsFound(d) => Covered(d)
        <4>1. summary'.kept = summary.kept
          BY <1>4
        <4>2. ASSUME NEW d \in summary.kept, IsFound(d)' PROVE Covered(d)'
          <5>1. IsFound(d)
            BY <1>6, <4>2, MeaningsStay
          <5>2. QED
            BY <1>13, <1>15, <2>3, <3>3, <5>1
        <4>3. QED
          BY <4>1, <4>2
      <3>4. QED
        BY <3>1, <3>2, <3>3
    <2>4. QED
      BY <1>8, <2>2, <2>3
  <1>19. FindsAll'
    <2>1. \A values : Fits(values)' <=> Fits(values)
      BY <1>6, MeaningsStay
    <2>2. summary'.entries = {}
      BY <1>2, <1>4 DEF SummaryInv, FindsAll
    <2>3. QED
      BY <1>9, <1>11, <1>18, <2>1, <2>2 DEF FindsAll
  <1>20. CountsAll' /\ SummariesShareOut'
    BY <1>4 DEF CountsAll, SummariesShareOut
  <1>21. QED
    BY <1>7, <1>19, <1>20 DEF SummaryInv

\* runSummary: what is found and is not too much is what is counted.
LEMMA TakingIsWhole ==
    ASSUME BucketsOK, SummaryInv, TakeEntries
    PROVE  SummaryInv'
  <1> DEFINE found == {c.values : c \in summary.combinations}
  <1>1. PICK taken \in SUBSET found :
           /\ Cardinality(taken) = AtMost(Cardinality(found), MAX_VALUES)
           /\ summary' = [summary EXCEPT !.phase = "counts", !.counting = taken,
                                         !.complete = Cardinality(found) <= MAX_VALUES]
    BY DEF TakeEntries
  <1>2. /\ UNCHANGED <<bucket, docs, changes>> /\ summary.phase = "values"
        /\ \A values \in found : DOMAIN values = Range(bucket.by)
    BY DEF TakeEntries
  <1>3. /\ summary.entries = {} /\ IsFiniteSet(summary.combinations)
        /\ \A c \in summary.combinations :
              c = [fill |-> c.fill, values |-> c.values] /\ Fits(c.values)
    BY <1>2 DEF SummaryInv, FindsAll
  <1>4. IsFiniteSet(found)
    <2> DEFINE valuesOf == [c \in summary.combinations |-> c.values]
    <2>1. valuesOf \in Surjection(summary.combinations, found)
      BY DEF Surjection
    <2> HIDE DEF valuesOf, found
    <2>2. QED
      BY <1>3, <2>1, FS_Surjection
  <1>5. \A values \in found : IsWhole(values)
    BY <1>2, <1>3 DEF IsWhole
  <1>6. ASSUME NEW d, Covered(d) PROVE ByOf(d) \in found
    <2>1. PICK c \in summary.combinations : Agrees(d, c.values)
      BY <1>6 DEF Covered
    <2>2. c.values \in found /\ IsWhole(c.values)
      BY <1>5
    <2> HIDE DEF found
    <2>3. c.values = ByOf(d)
      BY <2>1, <2>2 DEF IsWhole, Fits, Agrees, ByOf
    <2>4. QED
      BY <2>2, <2>3
  <1>7. ASSUME TooMany PROVE ~(Cardinality(found) <= MAX_VALUES)
    <2>1. PICK many : Cardinality(many) = MAX_VALUES + 1 /\ \A values \in many : WillBeFound(values)
      BY <1>7 DEF TooMany
    <2>2. ASSUME NEW values, WillBeFound(values) PROVE values \in found
      BY <1>6, <2>2 DEF WillBeFound
    <2>3. many \in SUBSET found
      BY <2>1, <2>2
    <2> HIDE DEF found
    <2>4. Cardinality(many) <= Cardinality(found) /\ Cardinality(found) \in Nat
      BY <1>4, <2>3, FS_Subset, FS_CardinalityType
    <2>5. QED
      BY <2>1, <2>4, BucketsAssumption
  <1> HIDE DEF found
  <1>8. /\ summary'.phase = "counts" /\ summary'.counting = taken
        /\ summary'.complete = (Cardinality(found) <= MAX_VALUES)
        /\ summary' = [query |-> summary.query, phase |-> "counts",
                       combinations |-> summary.combinations, complete |-> summary'.complete,
                       counting |-> taken, entries |-> {}, more |-> summary.more,
                       kept |-> summary.kept, known |-> summary.known]
    BY <1>1, <1>3 DEF SummaryInv, SummaryOK
  <1>9. SummaryOK' /\ summary'.query = summary.query /\ bucket' = bucket
    BY <1>2, <1>8 DEF SummaryInv, SummaryOK
  <1>10. \A values \in taken : IsWhole(values)'
    BY <1>1, <1>5, <1>9, MeaningsStay
  <1>11. ASSUME summary'.complete, NoneVanishes', NEW d \in summary'.kept, IsFound(d)'
         PROVE  ByOf(d)' \in taken
    <2>1. Cardinality(found) <= MAX_VALUES
      BY <1>8, <1>11
    <2>2. NoneVanishes /\ IsFound(d) /\ d \in summary.kept
      BY <1>2, <1>8, <1>9, <1>11, MeaningsStay DEF NoneVanishes
    <2>3. Covered(d)
      BY <1>2, <1>7, <2>1, <2>2 DEF SummaryInv, FindsAll
    <2>4. taken = found
      <3>1. Cardinality(found) \in Nat /\ MAX_VALUES \in Nat
        BY <1>4, FS_CardinalityType, BucketsAssumption
      <3>2. Cardinality(taken) = Cardinality(found)
        BY <1>1, <2>1, <3>1 DEF AtMost
      <3>3. QED
        BY <1>1, <1>4, <3>2, FS_Subset
    <2>5. ByOf(d)' = ByOf(d)
      BY <1>9, MeaningsStay
    <2>6. QED
      BY <1>6, <2>3, <2>4, <2>5
  <1>12. CountsAll'
    <2>1. summary'.entries = {} /\ IsFiniteSet({})
      BY <1>8, FS_EmptySet
    <2>2. QED
      BY <1>8, <1>10, <1>11, <2>1 DEF CountsAll
  <1>13. FindsAll' /\ SummariesShareOut'
    BY <1>8 DEF FindsAll, SummariesShareOut
  <1>14. QED
    BY <1>9, <1>12, <1>13 DEF SummaryInv

\* readEntry: another entry is counted, of values that were not.
LEMMA CountingIsWhole ==
    ASSUME BucketsOK, SummaryInv, NEW values \in summary.counting, CountEntry(values)
    PROVE  SummaryInv'
  <1>1. PICK entry : entry = EntryOf(summary.query, values)
    OBVIOUS
  <1>2. /\ UNCHANGED <<bucket, docs, changes>> /\ summary.phase = "counts"
        /\ summary' = [summary EXCEPT !.counting = @ \ {values}, !.entries = @ \cup {entry}]
    BY <1>1 DEF CountEntry
  <1>3. /\ summary' = [query |-> summary.query, phase |-> "counts",
                       combinations |-> summary.combinations, complete |-> summary.complete,
                       counting |-> summary.counting \ {values},
                       entries |-> summary.entries \cup {entry}, more |-> summary.more,
                       kept |-> summary.kept, known |-> summary.known]
    BY <1>2 DEF SummaryInv, SummaryOK
  <1>4. SummaryOK /\ IsWhole(values)
    BY <1>2 DEF SummaryInv, CountsAll
  <1>5. CountsWhatWasThere(entry) /\ entry.values = values
    BY <1>1, <1>2, <1>4, EntriesCount DEF EntryOf
  <1>6. SummaryOK' /\ summary'.query = summary.query /\ bucket' = bucket
    BY <1>2, <1>3, <1>4 DEF SummaryOK
  <1>7. /\ IsFiniteSet(summary.known) /\ summary'.kept \subseteq summary.kept
        /\ summary.known \subseteq summary'.known /\ IsFiniteSet(summary'.known)
    BY <1>2, <1>3, <1>4 DEF SummaryOK
  <1>8. \A e : CountsWhatWasThere(e) => CountsWhatWasThere(e)'
    BY <1>2, <1>4, <1>6, <1>7, CountsStay
  <1>9. /\ IsFiniteSet(summary'.entries) /\ \A v \in summary'.counting : IsWhole(v)'
        /\ \A e \in summary'.entries : e.values \notin summary'.counting /\ CountsWhatWasThere(e)'
        /\ \A e, o \in summary'.entries : e.values = o.values => e = o
    <2>1. IsFiniteSet(summary'.entries)
      BY <1>2, <1>3, FS_AddElement DEF SummaryInv, CountsAll
    <2>2. \A v \in summary'.counting : IsWhole(v)'
      BY <1>2, <1>3, <1>6, MeaningsStay DEF SummaryInv, CountsAll
    <2>3. QED
      BY <1>2, <1>3, <1>5, <1>8, <2>1, <2>2 DEF SummaryInv, CountsAll
  <1>10. ASSUME summary'.complete, NoneVanishes', NEW d \in summary'.kept, IsFound(d)'
         PROVE  \/ ByOf(d)' \in summary'.counting
                \/ \E e \in summary'.entries : e.values = ByOf(d)'
    <2>1. /\ summary.complete /\ NoneVanishes /\ IsFound(d) /\ d \in summary.kept
          /\ ByOf(d)' = ByOf(d)
      BY <1>2, <1>3, <1>6, <1>10, MeaningsStay DEF NoneVanishes
    <2>2. ByOf(d) \in summary.counting \/ \E e \in summary.entries : e.values = ByOf(d)
      BY <1>2, <2>1 DEF SummaryInv, CountsAll
    <2>3. QED
      BY <1>3, <1>5, <2>1, <2>2
  <1>11. CountsAll'
    BY <1>9, <1>10 DEF CountsAll
  <1>12. FindsAll' /\ SummariesShareOut'
    BY <1>3 DEF FindsAll, SummariesShareOut
  <1>13. QED
    BY <1>6, <1>11, <1>12 DEF SummaryInv

\* An entry counts a row that was left alone, and no fewer than were.
LEMMA EntriesCountTheirRows ==
    ASSUME BucketsOK, SummaryOK, summary.phase \in {"values", "counts", "answered"},
           NEW e, CountsWhatWasThere(e)
    PROVE  /\ e.counted.count \in Nat
           /\ e.counted.count >= AtMost(Cardinality(LeftAlone(e.values)), SUMMARY_COUNT_CAP)
           /\ LeftAlone(e.values) # {} => e.counted.count > 0
  <1>1. /\ IsFiniteSet(LeftAlone(e.values)) /\ Cardinality(LeftAlone(e.values)) \in Nat
        /\ Cardinality({d.id : d \in RowsOf(summary.known, e.values)}) \in Nat
    BY RowsAreFinite
  <1>2. PICK n \in Cardinality(LeftAlone(e.values))
                     .. Cardinality({d.id : d \in RowsOf(summary.known, e.values)}) :
           e.counted = [count |-> AtMost(n, SUMMARY_COUNT_CAP), capped |-> n > SUMMARY_COUNT_CAP]
    BY DEF CountsWhatWasThere
  <1>3. /\ n \in Nat /\ n >= Cardinality(LeftAlone(e.values))
        /\ e.counted.count = AtMost(n, SUMMARY_COUNT_CAP)
    BY <1>1, <1>2
  <1>4. SUMMARY_COUNT_CAP \in Nat /\ SUMMARY_COUNT_CAP > 0
    BY BucketsAssumption
  <1>5. LeftAlone(e.values) # {} => Cardinality(LeftAlone(e.values)) > 0
    BY <1>1, FS_EmptySet
  <1>6. QED
    BY <1>1, <1>3, <1>4, <1>5 DEF AtMost

\* runSummary: what is left out counts no more than what is shown.
LEMMA AnsweringIsWhole ==
    ASSUME BucketsOK, SummaryInv, AnswerSummary
    PROVE  SummaryInv'
  <1> DEFINE there == {e \in summary.entries : e.counted.count > 0}
  <1>1. PICK best \in SUBSET there :
           /\ Cardinality(best) = AtMost(Cardinality(there), bucket.top)
           /\ \A e \in best, o \in there \ best : e.counted.count >= o.counted.count
           /\ summary' = [summary EXCEPT !.phase = "answered", !.entries = best,
                                         !.more = Cardinality(there) > bucket.top]
    BY DEF AnswerSummary
  <1>2. /\ UNCHANGED <<bucket, docs, changes>> /\ summary.phase = "counts" /\ summary.counting = {}
        /\ SummaryOK
    BY DEF AnswerSummary, SummaryInv
  <1>3. /\ IsFiniteSet(summary.entries)
        /\ \A e \in summary.entries : CountsWhatWasThere(e)
        /\ \A e, o \in summary.entries : e.values = o.values => e = o
        /\ summary.complete /\ NoneVanishes =>
             \A d \in summary.kept : IsFound(d) => \E e \in summary.entries : e.values = ByOf(d)
    BY <1>2 DEF SummaryInv, CountsAll
  <1>4. best \subseteq summary.entries /\ IsFiniteSet(there) /\ Cardinality(there) \in Nat
    BY <1>1, <1>3, FS_Subset, FS_CardinalityType
  <1> HIDE DEF there
  <1>5. /\ summary' = [query |-> summary.query, phase |-> "answered",
                       combinations |-> summary.combinations, complete |-> summary.complete,
                       counting |-> summary.counting, entries |-> best,
                       more |-> Cardinality(there) > bucket.top,
                       kept |-> summary.kept, known |-> summary.known]
    BY <1>1, <1>2 DEF SummaryOK
  <1>6. SummaryOK' /\ summary'.query = summary.query /\ bucket' = bucket
    BY <1>2, <1>5 DEF SummaryOK
  <1>7. /\ IsFiniteSet(summary'.known) /\ summary'.kept \subseteq summary.kept
        /\ summary.known \subseteq summary'.known
    BY <1>2, <1>5 DEF SummaryOK
  <1>8. /\ \A e : CountsWhatWasThere(e) => CountsWhatWasThere(e)'
        /\ \A values : /\ Cardinality(LeftAlone(values)') \in Nat
                       /\ Cardinality(LeftAlone(values)') <= Cardinality(LeftAlone(values))
    BY <1>2, <1>6, <1>7, CountsStay
  <1>9. \A e \in summary'.entries : e.counted.count > 0 /\ CountsWhatWasThere(e)'
    BY <1>1, <1>3, <1>4, <1>5, <1>8 DEF there
  <1>10. \A e, o \in summary'.entries : e.values = o.values => e = o
    BY <1>3, <1>4, <1>5
  <1>11. ASSUME summary'.complete, NoneVanishes', NEW d \in summary'.kept, IsListed(d)',
                Wanted(d, summary.query)'
         PROVE  \/ \E e \in summary'.entries : e.values = ByOf(d)'
                \/ LeftOutForMore(ByOf(d))'
    <2>1. /\ summary.complete /\ NoneVanishes /\ IsFound(d) /\ d \in summary.kept
          /\ ByOf(d)' = ByOf(d)
      BY <1>2, <1>5, <1>6, <1>11, MeaningsStay DEF NoneVanishes, IsFound
    <2>2. PICK o \in summary.entries : o.values = ByOf(d)
      BY <1>3, <2>1
    <2>3. d \in LeftAlone(o.values)
      BY <2>1, <2>2 DEF LeftAlone, RowsOf, IsFound
    <2>4. /\ o.counted.count \in Nat /\ o.counted.count > 0
          /\ o.counted.count >= AtMost(Cardinality(LeftAlone(o.values)), SUMMARY_COUNT_CAP)
      BY <1>2, <1>3, <2>3, EntriesCountTheirRows
    <2>5. o \in there
      BY <2>4 DEF there
    <2>6. CASE o \in best
      BY <1>5, <2>1, <2>2, <2>6
    <2>7. CASE o \notin best
      <3>1. Cardinality(best) # Cardinality(there)
        BY <1>1, <1>4, <2>5, <2>7, FS_Subset
      <3>2. bucket.top \in Nat
        BY BucketsAssumption DEF BucketsOK
      <3>3. Cardinality(there) > bucket.top
        BY <1>1, <1>4, <3>1, <3>2 DEF AtMost
      <3>4. PICK values : values = ByOf(d)
        OBVIOUS
      <3>5. o.values = values /\ ByOf(d)' = values
        BY <2>1, <2>2, <3>4
      <3>6. ASSUME NEW e \in best
            PROVE  e.counted.count >= AtMost(Cardinality(LeftAlone(values)'), SUMMARY_COUNT_CAP)
        <4>1. e.counted.count >= o.counted.count /\ e.counted.count \in Nat
          BY <1>1, <1>2, <1>3, <1>4, <2>5, <2>7, EntriesCountTheirRows
        <4>2. /\ Cardinality(LeftAlone(values)') \in Nat /\ Cardinality(LeftAlone(values)) \in Nat
              /\ Cardinality(LeftAlone(values)') <= Cardinality(LeftAlone(values))
          BY <1>2, <1>8, RowsAreFinite
        <4>3. o.counted.count >= AtMost(Cardinality(LeftAlone(values)), SUMMARY_COUNT_CAP)
          BY <2>4, <3>5
        <4>4. SUMMARY_COUNT_CAP \in Nat
          BY BucketsAssumption
        <4>5. QED
          BY <2>4, <4>1, <4>2, <4>3, <4>4 DEF AtMost
      <3>7. summary'.more /\ summary'.entries = best
        BY <1>5, <3>3
      <3>8. QED
        BY <3>5, <3>6, <3>7 DEF LeftOutForMore, LeftAlone, RowsOf, AtMost
    <2>8. QED
      BY <2>6, <2>7
  <1>12. SummariesShareOut'
    BY <1>6, <1>9, <1>10, <1>11 DEF SummariesShareOut
  <1>13. FindsAll' /\ CountsAll'
    BY <1>5 DEF FindsAll, CountsAll
  <1>14. QED
    BY <1>6, <1>12, <1>13 DEF SummaryInv

\* The collection changes while a summary is read: what changed is not kept, and
\* where one fact is stepped, what is found stays found.
LEMMA ChangesShareOut ==
    ASSUME BucketsOK, SummaryInv, NEW id, NEW known, summary.known \subseteq known,
           summary.phase \in {"values", "counts", "answered"} =>
               Range(docs') \subseteq known /\ IsFiniteSet(known),
           summary' = [summary EXCEPT !.kept = Untouched(@, id), !.known = known],
           bucket' = bucket, changes' = changes + 1,
           \A i \in DOMAIN docs \ {id} : i \in DOMAIN docs' /\ docs'[i] = docs[i]
    PROVE  SummaryInv'
  <1>1. /\ summary' = [query |-> summary.query, phase |-> summary.phase,
                       combinations |-> summary.combinations, complete |-> summary.complete,
                       counting |-> summary.counting, entries |-> summary.entries,
                       more |-> summary.more, kept |-> Untouched(summary.kept, id),
                       known |-> known]
        /\ SummaryOK
    BY DEF SummaryInv, SummaryOK
  <1>2. Untouched(summary.kept, id) \subseteq summary.kept
    BY DEF Untouched
  <1>3. summary.phase \in {"values", "counts", "answered"} =>
           Untouched(summary.kept, id) \subseteq Range(docs')
    <2>1. ASSUME NEW d \in Range(docs), d.id # id PROVE d \in Range(docs')
      <3>1. PICK i \in DOMAIN docs : d = docs[i]
        BY DEF Range
      <3>2. i \in DOMAIN docs \ {id}
        BY <2>1, <3>1 DEF BucketsOK
      <3>3. i \in DOMAIN docs' /\ docs'[i] = d
        BY <3>1, <3>2
      <3>4. QED
        BY <3>3 DEF Range
    <2>2. QED
      BY <1>1, <2>1 DEF Untouched, SummaryOK
  <1>4. SummaryOK' /\ summary'.query = summary.query /\ changes' # 0
    <2>1. /\ summary'.phase = summary.phase /\ summary'.query = summary.query
          /\ summary'.kept = Untouched(summary.kept, id) /\ summary'.known = known
          /\ summary'.combinations = summary.combinations /\ summary'.complete = summary.complete
          /\ summary'.counting = summary.counting /\ summary'.entries = summary.entries
          /\ summary'.more = summary.more
      BY <1>1
    <2>2. changes' \in Nat /\ changes' # 0
      BY <1>1 DEF SummaryOK
    <2>3. QED
      BY <1>1, <1>3, <2>1, <2>2 DEF SummaryOK
  <1>5. ASSUME NoneVanishes' PROVE NoneVanishes /\ OneIsStepped
    BY <1>4, <1>5, MeaningsStay DEF NoneVanishes
  <1>6. \A d : /\ IsFound(d)' <=> IsFound(d)
               /\ IsListed(d)' <=> IsListed(d)
               /\ Wanted(d, summary.query)' <=> Wanted(d, summary.query)
               /\ ByOf(d)' = ByOf(d)
               /\ Covered(d)' <=> Covered(d)
    BY <1>1, <1>4, MeaningsStay DEF Covered
  <1>7. \A values : (Fits(values)' <=> Fits(values)) /\ (IsWhole(values)' <=> IsWhole(values))
    BY <1>4, MeaningsStay
  <1>8. ASSUME OneIsStepped, TooMany PROVE TooMany'
    <2>1. ASSUME NEW values, WillBeFound(values) PROVE WillBeFound(values)'
      BY <1>1, <1>8, <2>1 DEF WillBeFound
    <2>2. QED
      BY <1>8, <2>1 DEF TooMany
  <1>9. FindsAll'
    <2> SUFFICES ASSUME summary'.phase = "values" PROVE FindsAll'
      BY DEF FindsAll
    <2>1. /\ summary.entries = {} /\ IsFiniteSet(summary.combinations)
          /\ \A c \in summary.combinations :
                c = [fill |-> c.fill, values |-> c.values] /\ Fits(c.values)
          /\ NoneVanishes => TooMany \/ \A d \in summary.kept : IsFound(d) => Covered(d)
      BY <1>1 DEF SummaryInv, FindsAll
    <2>2. NoneVanishes' => TooMany' \/ \A d \in summary'.kept : IsFound(d)' => Covered(d)'
      BY <1>1, <1>2, <1>5, <1>6, <1>8, <2>1
    <2>3. QED
      BY <1>1, <1>7, <2>1, <2>2 DEF FindsAll
  <1>10. CASE summary.phase \notin {"values", "counts", "answered"}
    BY <1>1, <1>4, <1>9, <1>10 DEF SummaryInv, CountsAll, SummariesShareOut
  <1>11. CASE summary.phase \in {"values", "counts", "answered"}
    <2>1. /\ \A e : CountsWhatWasThere(e) => CountsWhatWasThere(e)'
          /\ \A values : /\ Cardinality(LeftAlone(values)') \in Nat
                         /\ Cardinality(LeftAlone(values)') <= Cardinality(LeftAlone(values))
                         /\ Cardinality(LeftAlone(values)) \in Nat
      BY <1>1, <1>2, <1>4, <1>11, CountsStay, RowsAreFinite
    <2>2. CountsAll'
      <3> SUFFICES ASSUME summary'.phase = "counts" PROVE CountsAll'
        BY DEF CountsAll
      <3>1. /\ IsFiniteSet(summary.entries) /\ \A values \in summary.counting : IsWhole(values)
            /\ \A e \in summary.entries : e.values \notin summary.counting /\ CountsWhatWasThere(e)
            /\ \A e, o \in summary.entries : e.values = o.values => e = o
            /\ summary.complete /\ NoneVanishes =>
                 \A d \in summary.kept : IsFound(d) =>
                    ByOf(d) \in summary.counting \/ \E e \in summary.entries : e.values = ByOf(d)
        BY <1>1 DEF SummaryInv, CountsAll
      <3>2. summary'.complete /\ NoneVanishes' =>
              \A d \in summary'.kept : IsFound(d)' =>
                 \/ ByOf(d)' \in summary'.counting
                 \/ \E e \in summary'.entries : e.values = ByOf(d)'
        BY <1>1, <1>2, <1>5, <1>6, <3>1
      <3>3. QED
        BY <1>1, <1>7, <2>1, <3>1, <3>2 DEF CountsAll
    <2>3. SummariesShareOut'
      <3> SUFFICES ASSUME summary'.phase = "answered" PROVE SummariesShareOut'
        BY DEF SummariesShareOut
      <3>1. /\ \A e \in summary.entries : e.counted.count > 0 /\ CountsWhatWasThere(e)
            /\ \A e, o \in summary.entries : e.values = o.values => e = o
            /\ summary.complete /\ NoneVanishes =>
                 \A d \in summary.kept : IsListed(d) /\ Wanted(d, summary.query) =>
                    (\E e \in summary.entries : e.values = ByOf(d)) \/ LeftOutForMore(ByOf(d))
        BY <1>1 DEF SummaryInv, SummariesShareOut
      <3>2. ASSUME summary'.complete, NoneVanishes', NEW d \in summary'.kept, IsListed(d)',
                   Wanted(d, summary.query)'
            PROVE  \/ \E e \in summary'.entries : e.values = ByOf(d)'
                   \/ LeftOutForMore(ByOf(d))'
        <4>1. PICK values : values = ByOf(d)
          OBVIOUS
        <4>2. /\ (\E e \in summary.entries : e.values = values) \/ LeftOutForMore(values)
              /\ ByOf(d)' = values
          BY <1>1, <1>2, <1>5, <1>6, <3>1, <3>2, <4>1
        <4>3. CASE \E e \in summary.entries : e.values = values
          BY <1>1, <4>2, <4>3
        <4>4. CASE LeftOutForMore(values)
          <5>1. ASSUME NEW e \in summary.entries
                PROVE  e.counted.count >= AtMost(Cardinality(LeftAlone(values)'), SUMMARY_COUNT_CAP)
            <6>1. e.counted.count \in Nat
              BY <1>1, <1>11, <3>1, EntriesCountTheirRows
            <6>2. e.counted.count >= AtMost(Cardinality(LeftAlone(values)), SUMMARY_COUNT_CAP)
              BY <4>4 DEF LeftOutForMore
            <6>3. SUMMARY_COUNT_CAP \in Nat
              BY BucketsAssumption
            <6>4. QED
              BY <2>1, <6>1, <6>2, <6>3 DEF AtMost
          <5>2. summary'.more /\ summary'.entries = summary.entries
            BY <1>1, <4>4 DEF LeftOutForMore
          <5>3. QED
            BY <4>2, <5>1, <5>2 DEF LeftOutForMore, LeftAlone, RowsOf, AtMost
        <4>5. QED
          BY <4>2, <4>3, <4>4
      <3>3. QED
        BY <1>1, <1>6, <2>1, <3>1, <3>2 DEF SummariesShareOut
    <2>4. QED
      BY <1>4, <1>9, <2>2, <2>3 DEF SummaryInv
  <1>12. QED
    BY <1>10, <1>11

LEMMA StoringSharesOut ==
    ASSUME BucketsOK, SummaryInv, NEW d \in Documents, Store(d)
    PROVE  SummaryInv'
  <1>1. /\ docs' = [i \in DOMAIN docs \cup {d.id} |-> IF i = d.id THEN d ELSE docs[i]]
        /\ summary' = [summary EXCEPT !.kept = Untouched(@, d.id), !.known = @ \cup {d}]
        /\ bucket' = bucket /\ changes' = changes + 1
    BY DEF Store
  <1>2. PICK known : known = summary.known \cup {d}
    OBVIOUS
  <1>3. summary' = [summary EXCEPT !.kept = Untouched(@, d.id), !.known = known]
    BY <1>1, <1>2
  <1>4. \A i \in DOMAIN docs \ {d.id} : i \in DOMAIN docs' /\ docs'[i] = docs[i]
    BY <1>1
  <1>5. Range(docs') \subseteq Range(docs) \cup {d}
    BY <1>1 DEF Range
  <1>6. summary.phase \in {"values", "counts", "answered"} =>
           Range(docs') \subseteq known /\ IsFiniteSet(known)
    BY <1>2, <1>5, FS_AddElement DEF SummaryInv, SummaryOK
  <1>7. summary.known \subseteq known
    BY <1>2
  <1>8. QED
    BY <1>1, <1>3, <1>4, <1>6, <1>7, ChangesShareOut

LEMMA ExpiringSharesOut ==
    ASSUME BucketsOK, SummaryInv, NEW id \in DOMAIN docs, Expire(id)
    PROVE  SummaryInv'
  <1>1. /\ docs' = [i \in DOMAIN docs \ {id} |-> docs[i]]
        /\ summary' = [summary EXCEPT !.kept = Untouched(@, id)]
        /\ bucket' = bucket /\ changes' = changes + 1
    BY DEF Expire
  <1>2. PICK known : known = summary.known
    OBVIOUS
  <1>3. summary' = [summary EXCEPT !.kept = Untouched(@, id), !.known = known]
    BY <1>1, <1>2 DEF SummaryInv, SummaryOK
  <1>4. \A i \in DOMAIN docs \ {id} : i \in DOMAIN docs' /\ docs'[i] = docs[i]
    BY <1>1
  <1>5. Range(docs') \subseteq Range(docs)
    BY <1>1 DEF Range
  <1>6. summary.phase \in {"values", "counts", "answered"} =>
           Range(docs') \subseteq known /\ IsFiniteSet(known)
    BY <1>2, <1>5 DEF SummaryInv, SummaryOK
  <1>7. QED
    BY <1>1, <1>2, <1>3, <1>4, <1>6, ChangesShareOut

\* SummaryInv is inductive on top of BucketsInv: one step per action.
LEMMA SummaryAlwaysInv == BucketsSpec => []SummaryInv
  <1>1. BucketsInit => SummaryInv
    BY SummaryStarts
  <1>2. BucketsInv /\ SummaryInv /\ [BucketsNext]_bucketVars => SummaryInv'
    <2> SUFFICES ASSUME BucketsInv, SummaryInv, [BucketsNext]_bucketVars PROVE SummaryInv'
      OBVIOUS
    <2>1. BucketsOK
      BY DEF BucketsInv
    <2>2. CASE DefineBucket \/ ReadEdge \/ ReadRows \/ TimesOut
               \/ \E q \in Queries : StartWalk(q)
      BY <2>2, SummaryStays DEF DefineBucket, ReadEdge, ReadRows, TimesOut, StartWalk
    <2>3. ASSUME NEW q \in Queries, StartSummary(q) PROVE SummaryInv'
      <3>1. IsBucket(bucket)
        BY <2>1, <2>3 DEF StartSummary, BucketsOK
      <3>2. QED
        BY <2>1, <2>3, <3>1, StartsCovered
    <2>4. ASSUME NEW c \in summary.combinations, NEW f \in Stepped, StepValues(c, f)
          PROVE  SummaryInv'
      BY <2>1, <2>4, StepsCover
    <2>5. CASE TakeEntries
      BY <2>1, <2>5, TakingIsWhole
    <2>6. CASE AnswerSummary
      BY <2>1, <2>6, AnsweringIsWhole
    <2>7. CASE SummaryTimesOut
      BY <2>7, NotReadIsFine DEF SummaryTimesOut
    <2>8. ASSUME NEW values \in summary.counting, CountEntry(values) PROVE SummaryInv'
      BY <2>1, <2>8, CountingIsWhole
    <2>9. ASSUME NEW d \in Documents, Store(d) PROVE SummaryInv'
      BY <2>1, <2>9, StoringSharesOut
    <2>10. ASSUME NEW id \in DOMAIN docs, Expire(id) PROVE SummaryInv'
      BY <2>1, <2>10, ExpiringSharesOut
    <2>11. CASE UNCHANGED bucketVars
      BY <2>11, SummaryStays DEF bucketVars
    <2>12. QED
      BY <2>2, <2>3, <2>4, <2>5, <2>6, <2>7, <2>8, <2>9, <2>10, <2>11 DEF BucketsNext
  <1>3. QED
    BY <1>1, <1>2, BucketsAlwaysInv, PTL DEF BucketsSpec

\* A tile counts the list it opens and the total is the list without the filter of
\* its group (readGroup); a summary that is answered counts rows that were there,
\* and one that says it is complete leaves out no row that was left alone without
\* saying that there are more (runSummary): for any bucket, collection, query and
\* cap, and however many documents come and go.
THEOREM NumbersAreAlwaysLists == BucketsSpec => []NumbersAreLists
  <1>1. BucketsInv /\ SummaryInv => NumbersAreLists
    BY TilesSay DEF BucketsInv, SummaryInv, NumbersAreLists
  <1>2. QED
    BY <1>1, BucketsAlwaysInv, SummaryAlwaysInv, PTL
=============================================================================
