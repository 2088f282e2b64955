------------------------------ MODULE Payments ------------------------------
(***************************************************************************)
(* Payment requests and the Payments made for them.                        *)
(*                                                                         *)
(* A request is an event of an agreement or a claim.  Its handler looks    *)
(* for the Payment of its source, loads the payment definition of the      *)
(* version it names, and makes the Payment in a transaction that takes the *)
(* next claim id from a counter and writes the message for the Payment     *)
(* Hub.  Every running service instance handles requests, keeps compiled   *)
(* definitions of its own, and lets its handlers share one load of a       *)
(* definition.  The event box delivers a request again until its handler   *)
(* is done, and gives a request that takes too long to another instance    *)
(* while the first one still works on it.                                  *)
(***************************************************************************)
EXTENDS Integers, Sequences

CONSTANTS
    Messages,     \* payment requests
    Sources,      \* agreement versions and claims
    SourceOf,     \* the source of a request
    Versions,     \* versions of the configuration
    VersionOf,    \* the version a request names
    Catalogued,   \* versions with a payment definition
    Inputs,       \* how the data of the requests may map to Payments
    Instances,    \* running service instances
    MAX_RETRIES,  \* OUTBOX_MAX_RETRIES
    MaxFaults,    \* bound: calls that fail, expired claims and crashes
    None

ASSUME PaymentsAssumption ==
    /\ SourceOf \in [Messages -> Sources]
    /\ VersionOf \in [Messages -> Versions]
    /\ Catalogued \subseteq Versions
    /\ Inputs \subseteq [Messages -> {"yes", "no mapping", "no payment"}]
    /\ MAX_RETRIES \in Nat \ {0}
    /\ MaxFaults \in Nat
    /\ None \notin Instances /\ None \notin (Instances \X Messages)

VARIABLES
    file,      \* per version: whether its file in S3 is a valid definition
    fits,      \* per request: whether its data maps to a valid Payment
    box,       \* per request: status, attempts and the instance that claimed it
    catalog,   \* config_versions: fetchStatus of the payment definition
    stored,    \* payments__definitions
    compiled,  \* compiledDefinitions of each instance
    load,      \* loadsInFlight of each instance
    task,      \* the handler of each request in each instance
    counter,   \* payments__counters, claimIds
    lock,      \* the handler whose transaction has changed the counter
    payments,  \* payments__payments, in the order they were committed
    outbox,    \* create-payment messages, in the order they were committed
    faults     \* bounded counter

inputs == <<file, fits>>
definitions == <<catalog, stored, compiled, load>>
ledger == <<counter, lock, payments, outbox>>
vars == <<inputs, box, definitions, task, ledger, faults>>

-----------------------------------------------------------------------------
Statuses == {"Pending", "Fetched", "TransientError", "PermanentError"}

Box == [status : {"PUBLISHED", "COMPLETED", "DEAD_LETTER"}, attempts : 0..MAX_RETRIES,
        claimedBy : Instances \cup {None}]

\* Where a load is, the fetchStatus its first caller read, and why it failed.
Load == [pc     : {"none", "find", "fetch", "insert", "status", "fail"},
         status : Statuses \cup {None},
         error  : {"none", "retryable", "permanent"}]

\* Where a handler is; the counter in its transaction's snapshot; how it ended;
\* and, as history, whether its source was paid when it began.
Task == [pc     : {"idle", "find", "definition", "wait", "resolve", "session",
                   "allocate", "insert", "commit", "mark"},
         seen   : Nat,
         result : {"none", "ok", "retryable", "permanent"},
         paid   : BOOLEAN]

NoLoad == [pc |-> "none", status |-> None, error |-> "none"]
NoTask == [pc |-> "idle", seen |-> 0, result |-> "none", paid |-> FALSE]

Init ==
    /\ file \in [Versions -> {"valid", "invalid"}]
    /\ fits \in Inputs
    /\ box = [m \in Messages |-> [status |-> "PUBLISHED", attempts |-> 0,
                                  claimedBy |-> None]]
    /\ catalog = [v \in Versions |-> "Pending"]
    /\ stored = {}
    /\ compiled = [i \in Instances |-> {}]
    /\ load = [i \in Instances |-> [v \in Versions |-> NoLoad]]
    /\ task = [i \in Instances |-> [m \in Messages |-> NoTask]]
    /\ counter = 0
    /\ lock = None
    /\ payments = <<>>
    /\ outbox = <<>>
    /\ faults = 0

IsPaid(s) == \E n \in DOMAIN payments : payments[n].source = s

Set(i, m, t) == task' = [task EXCEPT ![i][m] = t]

At(t, pc) == [pc |-> pc, seen |-> t.seen, result |-> t.result, paid |-> t.paid]

Ended(t, result) == [pc |-> "mark", seen |-> 0, result |-> result, paid |-> t.paid]

Fault == /\ faults < MaxFaults
         /\ faults' = faults + 1

-----------------------------------------------------------------------------
(***************************************************************************)
(* The event box, as far as a handler meets it (EventBox)                  *)
(***************************************************************************)
Deliver(i, m) ==
    /\ task[i][m].pc = "idle"
    /\ box[m].status = "PUBLISHED" /\ box[m].claimedBy = None
    /\ box' = [box EXCEPT ![m] = [status |-> "PUBLISHED", attempts |-> box[m].attempts,
                                  claimedBy |-> i]]
    /\ Set(i, m, [pc |-> "find", seen |-> 0, result |-> "none",
                  paid |-> IsPaid(SourceOf[m])])
    /\ UNCHANGED <<inputs, definitions, ledger, faults>>

Attempted(b, result) ==
    LET attempts == IF result = "ok" THEN b.attempts ELSE b.attempts + 1
    IN  [status |-> IF result = "ok" THEN "COMPLETED"
                    ELSE IF result = "permanent" \/ attempts >= MAX_RETRIES
                    THEN "DEAD_LETTER" ELSE "PUBLISHED",
         attempts |-> attempts, claimedBy |-> None]

\* The write passes the fence only while the claim is this instance's.
MarkEvent(i, m) ==
    /\ task[i][m].pc = "mark"
    /\ box' = IF box[m].claimedBy = i
              THEN [box EXCEPT ![m] = Attempted(box[m], task[i][m].result)] ELSE box
    /\ Set(i, m, NoTask)
    /\ UNCHANGED <<inputs, definitions, ledger, faults>>

\* The claim times out, under a running handler or after its mark was lost.
ClaimExpires(m) ==
    /\ box[m].claimedBy # None
    /\ Fault
    /\ box' = [box EXCEPT ![m] = Attempted(box[m], "retryable")]
    /\ UNCHANGED <<inputs, definitions, task, ledger>>

\* The process dies with all it has in memory; its transaction is rolled back
\* and its claims expire.
Crash(i) ==
    /\ \E m \in Messages : task[i][m].pc # "idle"
    /\ Fault
    /\ task' = [task EXCEPT ![i] = [m \in Messages |-> NoTask]]
    /\ load' = [load EXCEPT ![i] = [v \in Versions |-> NoLoad]]
    /\ compiled' = [compiled EXCEPT ![i] = {}]
    /\ lock' = IF lock # None /\ lock[1] = i THEN None ELSE lock
    /\ box' = [m \in Messages |-> IF box[m].claimedBy = i
                                  THEN Attempted(box[m], "retryable") ELSE box[m]]
    /\ UNCHANGED <<inputs, catalog, stored, counter, payments, outbox>>

-----------------------------------------------------------------------------
(***************************************************************************)
(* The payment definition                                                  *)
(***************************************************************************)
\* The first handler that needs a definition loads it, the others of its
\* instance wait for that load.
LoadCompiled(i, m, v) ==
    IF v \in compiled[i]
    THEN /\ Set(i, m, At(task[i][m], "resolve"))
         /\ UNCHANGED load
    ELSE /\ Set(i, m, At(task[i][m], "wait"))
         /\ load' = IF load[i][v].pc # "none" THEN load
                    ELSE [load EXCEPT ![i][v] = [pc |-> "find", status |-> catalog[v],
                                                 error |-> "none"]]

\* findConfigDefinition comes first, whatever is compiled.
LoadPaymentDefinition(i, m) ==
    LET v == VersionOf[m] IN
    /\ task[i][m].pc = "definition"
    /\ IF v \notin Catalogued \/ catalog[v] = "PermanentError"
       THEN /\ Set(i, m, Ended(task[i][m], "permanent"))
            /\ UNCHANGED load
       ELSE LoadCompiled(i, m, v)
    /\ UNCHANGED <<inputs, box, catalog, stored, compiled, ledger, faults>>

LoadAt(i, v, pc, error) ==
    load' = [load EXCEPT ![i][v] = [pc |-> pc, status |-> load[i][v].status,
                                    error |-> error]]

\* Handlers of i that wait for v go on.
Wake(i, v, pc, result) ==
    task' = [task EXCEPT ![i] = [m \in Messages |->
                IF task[i][m].pc = "wait" /\ VersionOf[m] = v
                THEN [pc |-> pc, seen |-> 0, result |-> result, paid |-> task[i][m].paid]
                ELSE task[i][m]]]

FindPaymentDefinition(i, v) ==
    /\ load[i][v].pc = "find"
    /\ LoadAt(i, v, IF v \in stored THEN "status" ELSE "fetch", "none")
    /\ UNCHANGED <<inputs, box, catalog, stored, compiled, task, ledger, faults>>

\* The file is fetched and compiled; one that does not compile never will.
FetchConfigFile(i, v) ==
    /\ load[i][v].pc = "fetch"
    /\ IF file[v] = "valid" THEN LoadAt(i, v, "insert", "none")
                            ELSE LoadAt(i, v, "fail", "permanent")
    /\ UNCHANGED <<inputs, box, catalog, stored, compiled, task, ledger, faults>>

\* A version stored first by someone else is left as it is.
InsertPaymentDefinition(i, v) ==
    /\ load[i][v].pc = "insert"
    /\ stored' = stored \cup {v}
    /\ LoadAt(i, v, "status", "none")
    /\ UNCHANGED <<inputs, box, catalog, compiled, task, ledger, faults>>

\* updateStatus unless its caller saw Fetched, and the end of the load.
LoadEnds(i, v) ==
    /\ load[i][v].pc = "status"
    /\ catalog' = IF load[i][v].status = "Fetched" THEN catalog
                  ELSE [catalog EXCEPT ![v] = "Fetched"]
    /\ compiled' = [compiled EXCEPT ![i] = compiled[i] \cup {v}]
    /\ load' = [load EXCEPT ![i][v] = NoLoad]
    /\ Wake(i, v, "resolve", "none")
    /\ UNCHANGED <<inputs, box, stored, ledger, faults>>

\* A call fails; S3 may also say, wrongly or not, that the file is not there.
LoadThrows(i, v) ==
    /\ load[i][v].pc \in {"find", "fetch", "insert", "status"}
    /\ Fault
    /\ \/ LoadAt(i, v, "fail", "retryable")
       \/ /\ load[i][v].pc = "fetch"
          /\ LoadAt(i, v, "fail", "permanent")
    /\ UNCHANGED <<inputs, box, catalog, stored, compiled, task, ledger>>

\* Mutant: nobody is told.
LoadFailsQuietly(i, v) ==
    /\ load[i][v].pc = "fail"
    /\ catalog' = [catalog EXCEPT ![v] = "TransientError"]
    /\ load' = [load EXCEPT ![i][v] = NoLoad]
    /\ UNCHANGED <<inputs, box, stored, compiled, task, ledger, faults>>

\* recordFailureStatus, whose own failure is only logged, and the rejection of
\* everyone who waits.
LoadFails(i, v) ==
    /\ load[i][v].pc = "fail"
    /\ \/ /\ catalog' = [catalog EXCEPT ![v] = IF load[i][v].error = "permanent"
                                               THEN "PermanentError" ELSE "TransientError"]
          /\ UNCHANGED faults
       \/ Fault /\ UNCHANGED catalog
    /\ load' = [load EXCEPT ![i][v] = NoLoad]
    /\ Wake(i, v, "mark", load[i][v].error)
    /\ UNCHANGED <<inputs, box, stored, compiled, ledger>>

\* An operator's Fetch Definitions: a valid file that is not stored is; no
\* fetch status is written.
StorePaymentDefinition(v) ==
    /\ v \in Catalogued \ stored
    /\ file[v] = "valid"
    /\ stored' = stored \cup {v}
    /\ UNCHANGED <<inputs, box, catalog, compiled, load, task, ledger, faults>>

-----------------------------------------------------------------------------
(***************************************************************************)
(* handleAgreementPaymentRequested and handleClaimPaymentRequested         *)
(***************************************************************************)
\* Mutant: a request that was paid needs its definition again.
FindNothing(i, m) ==
    /\ task[i][m].pc = "find"
    /\ Set(i, m, At(task[i][m], "definition"))
    /\ UNCHANGED <<inputs, box, definitions, ledger, faults>>

FindPaymentBySource(i, m) ==
    /\ task[i][m].pc = "find"
    /\ Set(i, m, IF IsPaid(SourceOf[m]) THEN Ended(task[i][m], "ok")
                                        ELSE At(task[i][m], "definition"))
    /\ UNCHANGED <<inputs, box, definitions, ledger, faults>>

\* A mapping that fails is not marked permanent.
ResolvePaymentDefinition(i, m) ==
    /\ task[i][m].pc = "resolve"
    /\ Set(i, m, IF fits[m] = "no mapping" THEN Ended(task[i][m], "retryable")
                                           ELSE At(task[i][m], "session"))
    /\ UNCHANGED <<inputs, box, definitions, ledger, faults>>

\* The first read of the transaction is its snapshot.
FindInSession(i, m) ==
    /\ task[i][m].pc = "session"
    /\ Set(i, m, IF IsPaid(SourceOf[m]) THEN Ended(task[i][m], "ok")
                 ELSE [pc |-> "allocate", seen |-> counter, result |-> "none",
                       paid |-> task[i][m].paid])
    /\ UNCHANGED <<inputs, box, definitions, ledger, faults>>

\* Mutant: the counter is counted up outside the transaction.
AllocateAtOnce(i, m) ==
    /\ task[i][m].pc = "allocate"
    /\ counter' = counter + 1
    /\ Set(i, m, [pc |-> "insert", seen |-> counter, result |-> "none",
                  paid |-> task[i][m].paid])
    /\ UNCHANGED <<inputs, box, definitions, lock, payments, outbox, faults>>

\* A counter another transaction has changed, committed or not, is a write
\* conflict: the driver runs the transaction again.
AllocateNextSequence(i, m) ==
    /\ task[i][m].pc = "allocate"
    /\ IF lock = None /\ counter = task[i][m].seen
       THEN /\ lock' = <<i, m>>
            /\ Set(i, m, At(task[i][m], "insert"))
       ELSE /\ UNCHANGED lock
            /\ Set(i, m, At(task[i][m], "session"))
    /\ UNCHANGED <<inputs, box, definitions, counter, payments, outbox, faults>>

\* The transaction of (i, m), if it is open, is gone.
Released(i, m) == IF lock = <<i, m>> THEN None ELSE lock

\* buildPayment validates the Payment; the unique index on its source is a
\* second guard, and one that was made first is the answer.
InsertPayment(i, m) ==
    /\ task[i][m].pc = "insert"
    /\ IF fits[m] = "no payment" \/ IsPaid(SourceOf[m])
       THEN /\ lock' = Released(i, m)
            /\ Set(i, m, Ended(task[i][m], IF fits[m] = "no payment" THEN "retryable"
                                                                     ELSE "ok"))
       ELSE /\ UNCHANGED lock
            /\ Set(i, m, At(task[i][m], "commit"))
    /\ UNCHANGED <<inputs, box, definitions, counter, payments, outbox, faults>>

\* The counter, the Payment and its message are committed together.
Write(i, m) ==
    /\ counter' = task[i][m].seen + 1
    /\ payments' = Append(payments, [source |-> SourceOf[m], id |-> task[i][m].seen + 1])
    /\ outbox' = Append(outbox, SourceOf[m])
    /\ lock' = Released(i, m)

\* The reply may be lost.
Commit(i, m) ==
    /\ task[i][m].pc = "commit"
    /\ Write(i, m)
    /\ \/ /\ Set(i, m, Ended(task[i][m], "ok"))
          /\ UNCHANGED faults
       \/ /\ Fault
          /\ Set(i, m, Ended(task[i][m], "retryable"))
    /\ UNCHANGED <<inputs, box, definitions>>

\* A call throws and the transaction, if there is one, is rolled back.
HandlerThrows(i, m) ==
    /\ task[i][m].pc \in {"find", "definition", "session", "allocate", "insert", "commit"}
    /\ Fault
    /\ Set(i, m, Ended(task[i][m], "retryable"))
    /\ lock' = Released(i, m)
    /\ UNCHANGED <<inputs, box, definitions, counter, payments, outbox>>

-----------------------------------------------------------------------------
LoadStep(i, v) ==
    \/ FindPaymentDefinition(i, v) \/ FetchConfigFile(i, v)
    \/ InsertPaymentDefinition(i, v) \/ LoadEnds(i, v) \/ LoadFails(i, v)

HandlerStep(i, m) ==
    \/ FindPaymentBySource(i, m) \/ LoadPaymentDefinition(i, m)
    \/ ResolvePaymentDefinition(i, m) \/ FindInSession(i, m)
    \/ AllocateNextSequence(i, m) \/ InsertPayment(i, m) \/ Commit(i, m)
    \/ MarkEvent(i, m)

Next ==
    \/ \E i \in Instances, m \in Messages :
          Deliver(i, m) \/ HandlerStep(i, m) \/ HandlerThrows(i, m)
    \/ \E i \in Instances, v \in Versions : LoadStep(i, v) \/ LoadThrows(i, v)
    \/ \E v \in Versions : StorePaymentDefinition(v)
    \/ \E m \in Messages : ClaimExpires(m)
    \/ \E i \in Instances : Crash(i)

Spec == Init /\ [][Next]_vars

\* Handlers and loads run on, and some instance polls the box.
Fairness ==
    /\ \A i \in Instances, m \in Messages : WF_vars(HandlerStep(i, m))
    /\ \A i \in Instances, v \in Versions : WF_vars(LoadStep(i, v))
    /\ \A m \in Messages : WF_vars(\E i \in Instances : Deliver(i, m))

FairSpec == Spec /\ Fairness

-----------------------------------------------------------------------------
TypeOK ==
    /\ file \in [Versions -> {"valid", "invalid"}]
    /\ fits \in Inputs
    /\ box \in [Messages -> Box]
    /\ catalog \in [Versions -> Statuses]
    /\ stored \subseteq Versions
    /\ compiled \in [Instances -> SUBSET Versions]
    /\ load \in [Instances -> [Versions -> Load]]
    /\ task \in [Instances -> [Messages -> Task]]
    /\ counter \in Nat
    /\ lock \in (Instances \X Messages) \cup {None}
    /\ payments \in Seq([source : Sources, id : Nat])
    /\ outbox \in Seq(Sources)
    /\ faults \in 0..MaxFaults

\* "The Payment, claim-ID allocation and external event are committed in one
\* transaction. If the transaction aborts, the counter increment aborts with
\* it": claim ids are given out once and without a gap, a source has one
\* Payment however often and wherever its requests are handled, and each
\* Payment has one message for the Payment Hub.
PaymentsAreWhole ==
    /\ counter = Len(payments) /\ Len(outbox) = Len(payments)
    /\ \A n \in DOMAIN payments :
          payments[n].id = n /\ outbox[n] = payments[n].source
    /\ \A n, k \in DOMAIN payments : payments[n].source = payments[k].source => n = k

\* "Redelivery finds the existing Payment even when the definition is no longer
\* available": a handler that begins when its source is paid never ends in a
\* failure that makes the request a dead letter at once.
PaidNeedsNoDefinition ==
    \A i \in Instances, m \in Messages :
        task[i][m].paid => task[i][m].result # "permanent"

\* Every request ends: paid and completed, or a dead letter.
EveryRequestEnds ==
    <>[](\A m \in Messages : \/ box[m].status = "DEAD_LETTER"
                             \/ box[m].status = "COMPLETED" /\ IsPaid(SourceOf[m]))
=============================================================================
