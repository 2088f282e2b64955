----------------------------- MODULE InboxIntake -----------------------------
(***************************************************************************)
(* An SQS queue, the subscribers of the running service instances that     *)
(* read it, and the inbox rows they store.                                 *)
(*                                                                         *)
(* The queue delivers at least once and in any order: a message comes back *)
(* when its visibility timeout ends, and goes to the dead-letter queue     *)
(* after MAX_READS receives.  A producer may publish one event in several  *)
(* messages.  A subscriber works on the messages of a receive in parallel; *)
(* each of them makes its calls one by one.                                *)
(***************************************************************************)
EXTENDS Integers, FiniteSets

CONSTANTS
    Messages,           \* SQS messages
    Events,             \* CloudEvent ids
    Subscribers,        \* SqsSubscriber instances
    EventOf,            \* the event a message carries
    MaxBatch,           \* MaxNumberOfMessages
    MAX_READS,          \* maxReceiveCount of the queue
    MaxFailures         \* bound: calls that throw, lost replies and crashes

ASSUME IntakeAssumption ==
    /\ EventOf \in [Messages -> Events]
    /\ MaxBatch \in Nat \ {0}
    /\ MAX_READS \in Nat \ {0}
    /\ MaxFailures \in Nat

VARIABLES
    queue,   \* where a message is
    reads,   \* its receive count
    work,    \* the call each subscriber makes next for each message
    rows,    \* inbox rows with the event's messageId
    stored,  \* history: rows ever inserted for the event
    crossed, \* history: events two of whose deliveries overlapped
    failures \* bounded counter

intakeVars == <<queue, reads, work, rows, stored, crossed, failures>>

Places == {"unsent", "queued", "inflight", "deleted", "dead"}
Calls == {"find", "insert", "delete"}

IntakeInit ==
    /\ queue = [m \in Messages |-> "unsent"]
    /\ reads = [m \in Messages |-> 0]
    /\ work = [s \in Subscribers |-> [m \in Messages |-> "idle"]]
    /\ rows = [e \in Events |-> 0]
    /\ stored = [e \in Events |-> 0]
    /\ crossed = {}
    /\ failures = 0

WorkedOn(m) == \E s \in Subscribers : work[s][m] # "idle"

\* processMessage of subscriber s for message m makes its next call.
Step(s, m, call) == work' = [work EXCEPT ![s][m] = call]

Throws == /\ failures < MaxFailures
          /\ failures' = failures + 1

-----------------------------------------------------------------------------
(***************************************************************************)
(* The queue                                                               *)
(***************************************************************************)
Send(m) ==
    /\ queue[m] = "unsent"
    /\ queue' = [queue EXCEPT ![m] = "queued"]
    /\ UNCHANGED <<reads, work, rows, stored, failures, crossed>>

\* The timeout ends: for a message nobody works on any more, or too early.
BecomesVisible(m) ==
    /\ queue[m] = "inflight"
    /\ queue' = [queue EXCEPT ![m] = IF reads[m] < MAX_READS THEN "queued" ELSE "dead"]
    /\ UNCHANGED <<reads, work, rows, stored, crossed, failures>>

\* The TTL index.  Retention has a floor of 30 days, and a message lives on the
\* queue for 14: by then none is left to be delivered again.
Settled(e) ==
    \A m \in Messages : EventOf[m] = e =>
        /\ queue[m] \in {"unsent", "deleted", "dead"}
        /\ ~WorkedOn(m)

RowsExpire(e) ==
    /\ rows[e] > 0
    /\ Settled(e)
    /\ \A m \in Messages : EventOf[m] = e => queue[m] # "unsent"
    /\ rows' = [rows EXCEPT ![e] = 0]
    /\ UNCHANGED <<queue, reads, work, stored, failures, crossed>>

-----------------------------------------------------------------------------
(***************************************************************************)
(* The subscriber                                                          *)
(***************************************************************************)
\* getMessages, once all messages of the last receive are done with.
Receive(s) ==
    /\ \A m \in Messages : work[s][m] = "idle"
    /\ \E batch \in SUBSET {m \in Messages : queue[m] = "queued"} :
          /\ Cardinality(batch) \in 1..MaxBatch
          /\ queue' = [m \in Messages |-> IF m \in batch THEN "inflight" ELSE queue[m]]
          /\ reads' = [m \in Messages |-> IF m \in batch THEN reads[m] + 1 ELSE reads[m]]
          /\ work' = [work EXCEPT ![s] = [m \in Messages |->
                                             IF m \in batch THEN "find" ELSE "idle"]]
          /\ crossed' = crossed \cup {EventOf[m] : m \in {b \in batch : \E o \in Messages :
                             /\ EventOf[o] = EventOf[b]
                             /\ WorkedOn(o) \/ o \in batch \ {b}}}
    /\ UNCHANGED <<rows, stored, failures>>

\* Mutant: the duplicate check is dropped.
FindNothing(s, m) ==
    /\ work[s][m] = "find"
    /\ Step(s, m, "insert")
    /\ UNCHANGED <<queue, reads, rows, stored, failures, crossed>>

FindByMessageId(s, m) ==
    /\ work[s][m] = "find"
    /\ Step(s, m, IF rows[EventOf[m]] = 0 THEN "insert" ELSE "delete")
    /\ UNCHANGED <<queue, reads, rows, stored, failures, crossed>>

Insert(e) == /\ rows' = [rows EXCEPT ![e] = @ + 1]
             /\ stored' = [stored EXCEPT ![e] = @ + 1]

\* The index on messageId is not unique.
InsertOne(s, m) ==
    /\ work[s][m] = "insert"
    /\ Insert(EventOf[m])
    /\ Step(s, m, "delete")
    /\ UNCHANGED <<queue, reads, failures, crossed>>

\* Mutant: a message is deleted whatever became of it.
DeleteAlways(s, m) ==
    /\ work[s][m] \in Calls
    /\ queue' = [queue EXCEPT ![m] = "deleted"]
    /\ Step(s, m, "idle")
    /\ UNCHANGED <<reads, rows, stored, failures, crossed>>

\* An old receipt handle deletes the message as well as the newest one does.
DeleteMessage(s, m) ==
    /\ work[s][m] = "delete"
    /\ queue' = [queue EXCEPT ![m] = "deleted"]
    /\ Step(s, m, "idle")
    /\ UNCHANGED <<reads, rows, stored, failures, crossed>>

\* Mutant: an error is not caught, and its poll loop never gets past it.
ProcessingHangs(s, m) ==
    /\ work[s][m] \in Calls
    /\ Throws
    /\ Step(s, m, "hung")
    /\ UNCHANGED <<queue, reads, rows, stored, crossed>>

\* A call throws, before or after it had its effect: the error is logged, and
\* the message stays where it is.
ProcessingThrows(s, m) ==
    /\ work[s][m] \in Calls
    /\ Throws
    /\ \/ UNCHANGED <<queue, rows, stored>>
       \/ /\ work[s][m] = "insert"
          /\ Insert(EventOf[m])
          /\ UNCHANGED queue
       \/ /\ work[s][m] = "delete"
          /\ queue' = [queue EXCEPT ![m] = "deleted"]
          /\ UNCHANGED <<rows, stored>>
    /\ Step(s, m, "idle")
    /\ UNCHANGED <<reads, crossed>>

Crash(s) ==
    /\ \E m \in Messages : work[s][m] # "idle"
    /\ Throws
    /\ work' = [work EXCEPT ![s] = [m \in Messages |-> "idle"]]
    /\ UNCHANGED <<queue, reads, rows, stored, crossed>>

-----------------------------------------------------------------------------
ProcessMessage(s, m) == FindByMessageId(s, m) \/ InsertOne(s, m) \/ DeleteMessage(s, m)

IntakeNext ==
    \/ \E m \in Messages : Send(m) \/ BecomesVisible(m)
    \/ \E e \in Events : RowsExpire(e)
    \/ \E s \in Subscribers :
          \/ Receive(s) \/ Crash(s)
          \/ \E m \in Messages : ProcessMessage(s, m) \/ ProcessingThrows(s, m)

IntakeSpec == IntakeInit /\ [][IntakeNext]_intakeVars

\* Subscribers poll until they are stopped, and visibility timeouts end.
IntakeFairness ==
    /\ \A s \in Subscribers : WF_intakeVars(Receive(s))
    /\ \A s \in Subscribers, m \in Messages : WF_intakeVars(ProcessMessage(s, m))
    /\ \A m \in Messages : WF_intakeVars(BecomesVisible(m))

IntakeFairSpec == IntakeSpec /\ IntakeFairness

-----------------------------------------------------------------------------
IntakeTypeOK ==
    /\ queue \in [Messages -> Places]
    /\ reads \in [Messages -> 0..MAX_READS]
    /\ work \in [Subscribers -> [Messages -> Calls \cup {"idle"}]]
    /\ rows \in [Events -> Nat]
    /\ stored \in [Events -> Nat]
    /\ crossed \subseteq Events
    /\ failures \in 0..MaxFailures

\* A message leaves the queue only when its event is in the inbox: whatever
\* call fails, and whichever of two subscribers deletes it, no event is lost
\* between the queue and the inbox.
DeletedWasStored ==
    \A m \in Messages : queue[m] = "deleted" => stored[EventOf[m]] > 0

\* An event is stored a second time only if two deliveries of it overlapped:
\* not because an insert whose row was written threw, a delete was lost or a
\* subscriber crashed, and not because the event was published twice.
StoredOnce == \A e \in Events : stored[e] > 1 => e \in crossed

\* Every message sent ends in the inbox or, after MAX_READS receives, in the
\* dead-letter queue.
EveryMessageSettles ==
    \A m \in Messages : queue[m] = "queued" ~> queue[m] \in {"deleted", "dead"}
=============================================================================
