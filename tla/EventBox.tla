------------------------------ MODULE EventBox ------------------------------
(***************************************************************************)
(* One durable event box (the Mongo collection `inbox` or `outbox`), the   *)
(* pollers of every running service instance that work through it, the     *)
(* FIFO locks they take per segregationRef, and the operators who redrive, *)
(* purge and edit rows through the admin API.                              *)
(*                                                                         *)
(* Every Mongo call is one atomic step, and everything a poller remembers  *)
(* between two calls is in its own variables: what it read may be stale    *)
(* when it is used.  The clock is abstract: a claim's or a lock's deadline *)
(* passes in a step of its own, at any moment after it was set.            *)
(***************************************************************************)
EXTENDS Integers, Sequences, FiniteSets

CONSTANTS
    Rows,                \* rows that may be inserted (their _id)
    Refs,                \* values of segregationRef
    Workers,             \* poll loops, one per service instance
    Operators,           \* browser sessions with the payload editor open
    Tokens,              \* claim tokens (randomUUID)
    Payloads,            \* values of the `event` column
    SegregationRef,      \* the segregationRef of a row; None on legacy rows
    EventTime,           \* the sort key of a row holding a payload
    FirstPayload,        \* the payload a row is inserted with
    MAX_RETRIES,         \* INBOX_MAX_RETRIES / OUTBOX_MAX_RETRIES
    NUMBER_OF_RECORDS,   \* INBOX_CLAIM_MAX_RECORDS / OUTBOX_CLAIM_MAX_RECORDS
    MAX_ATTEMPT_HISTORY, \* entries kept in attemptHistory
    Outcomes,            \* how a handler or a publish may end in this box
    MaxFaults,           \* bound: database errors and crashes together
    MaxOperations,       \* bound: redrives, purges and saved edits together
    DeadlinesPass,       \* FALSE: no claim and no lock ever times out
    None

ASSUME BoxAssumption ==
    /\ SegregationRef \in [Rows -> Refs \cup {None}]
    /\ EventTime \in [Rows -> [Payloads -> Nat]]
    /\ FirstPayload \in [Rows -> Payloads]
    /\ MAX_RETRIES \in Nat \ {0}
    /\ NUMBER_OF_RECORDS \in Nat \ {0}
    /\ MAX_ATTEMPT_HISTORY \in Nat \ {0}
    /\ Outcomes \subseteq {"ok", "retryable", "permanent"}
    /\ MaxFaults \in Nat
    /\ MaxOperations \in Nat
    /\ DeadlinesPass \in BOOLEAN
    /\ None \notin Rows /\ None \notin Refs
    /\ None \notin Tokens /\ None \notin Payloads

VARIABLES
    row,        \* the collection
    lock,       \* fifo_locks of this box's actor: free, held, or held too long
    pc,         \* the Mongo call a poller makes next
    token,      \* claimToken of the running tick
    found,      \* the row getNextAvailable returned
    batch,      \* documents claimed in this tick and not yet dealt with
    left,       \* iterations left of the claim loop
    outcome,    \* how the handler of Head(batch) ended
    editor,     \* the row and the revision an operator's editor was opened on
    faults,     \* bounded counter
    operations, \* bounded counter
    delivered,  \* history: payloads of each row a handler succeeded with
    arrivals    \* history: rows in the order of their insertion

tickVars == <<pc, token, found, batch, left, outcome>>
historyVars == <<delivered, arrivals>>
vars == <<row, lock, tickVars, editor, faults, operations, historyVars>>

-----------------------------------------------------------------------------
(***************************************************************************)
(* Rows                                                                    *)
(***************************************************************************)
Statuses == {"PUBLISHED", "PROCESSING", "FAILED", "RESUBMITTED",
             "COMPLETED", "DEAD_LETTER", "PURGED"}
NoDocument == {"ABSENT", "DELETED"}
Terminal == {"COMPLETED", "DEAD_LETTER", "PURGED"}
REDRIVABLE_STATUSES == {"DEAD_LETTER", "PURGED"}

\* completionAttempts, and the number of entries in attemptHistory.
Tries == [attempts : Nat, history : Nat]
\* claimedBy, and whether claimExpiresAt has passed.
Claim == [by : Tokens \cup {None}, overdue : BOOLEAN]

NoTries == [attempts |-> 0, history |-> 0]
NoClaim == [by |-> None, overdue |-> FALSE]

Row == [status   : Statuses \cup NoDocument,
        tries    : Tries,
        claim    : Claim,
        expireAt : BOOLEAN,                  \* a TTL deadline is set
        payload  : Payloads \cup {None},     \* event
        revision : Nat,                      \* payloadRevision
        original : Payloads \cup {None}]     \* originalPayload, with lastEdit

\* The model a poller holds: the columns it writes back later.
Doc == [id : Rows, payload : Payloads, tries : Tries]

NewRow(status, payload) ==
    [status |-> status, tries |-> NoTries, claim |-> NoClaim, expireAt |-> FALSE,
     payload |-> payload, revision |-> 0, original |-> None]

\* A failed attempt is counted and recorded together; the record is capped.
Tried(tries) ==
    [attempts |-> tries.attempts + 1,
     history  |-> IF tries.history < MAX_ATTEMPT_HISTORY
                  THEN tries.history + 1 ELSE tries.history]

\* The filter findNextMessage and claimEvents share.
IsAvailable(rw) ==
    /\ rw.status = "PUBLISHED"
    /\ rw.claim.by = None
    /\ rw.tries.attempts < MAX_RETRIES

Claimed(rw, t) ==
    [status |-> "PROCESSING", tries |-> rw.tries,
     claim |-> [by |-> t, overdue |-> FALSE], expireAt |-> rw.expireAt,
     payload |-> rw.payload, revision |-> rw.revision, original |-> rw.original]

Overdue(rw) ==
    [status |-> rw.status, tries |-> rw.tries,
     claim |-> [by |-> rw.claim.by, overdue |-> TRUE], expireAt |-> rw.expireAt,
     payload |-> rw.payload, revision |-> rw.revision, original |-> rw.original]

DocOf(r) == [id |-> r, payload |-> row[r].payload, tries |-> row[r].tries]

\* Every write of a poller releases the claim and leaves the editor's columns.
Release(rw, status, tries, expireAt, payload) ==
    [status |-> status, tries |-> tries, claim |-> NoClaim, expireAt |-> expireAt,
     payload |-> payload, revision |-> rw.revision, original |-> rw.original]

\* The fenced update sets every column of the model, the ones it did not
\* change included.
MarkAsComplete(rw, doc) == Release(rw, "COMPLETED", doc.tries, TRUE, doc.payload)

MarkAsFailed(rw, doc, o) ==
    Release(rw, IF o = "permanent" THEN "DEAD_LETTER" ELSE "FAILED",
            Tried(doc.tries), FALSE, doc.payload)

MovedTo(rw, status) == Release(rw, status, rw.tries, rw.expireAt, rw.payload)

\* The sweeps, as what their updateMany does to one row.
UpdateResubmittedEvents(rw) ==
    IF rw.status = "RESUBMITTED" THEN MovedTo(rw, "PUBLISHED") ELSE rw

UpdateFailedEvents(rw) ==
    IF rw.status = "FAILED" THEN MovedTo(rw, "RESUBMITTED") ELSE rw

UpdateDeadEvents(rw) ==
    IF rw.status \notin Terminal \cup NoDocument /\ rw.tries.attempts >= MAX_RETRIES
    THEN MovedTo(rw, "DEAD_LETTER") ELSE rw

ProcessExpiredEvents(rw) ==
    IF rw.status \notin Terminal \cup NoDocument /\ rw.claim.overdue
    THEN Release(rw, "FAILED", Tried(rw.tries), rw.expireAt, rw.payload) ELSE rw

\* deadLetterEvent matches by _id alone, whatever the status is by now.
DeadLettered(rw) ==
    IF rw.status \in NoDocument THEN rw ELSE MovedTo(rw, "DEAD_LETTER")

\* What the admin operations do to a row they match.
RedriveUpdate(rw) ==
    [status |-> "RESUBMITTED", tries |-> NoTries, claim |-> NoClaim,
     expireAt |-> FALSE, payload |-> rw.payload, revision |-> rw.revision + 1,
     original |-> rw.original]

\* Mutant: a purge that an open editor cannot notice.
PurgeKeepingRevision(rw) ==
    [status |-> "PURGED", tries |-> rw.tries, claim |-> rw.claim,
     expireAt |-> TRUE, payload |-> rw.payload, revision |-> rw.revision,
     original |-> rw.original]

PurgeUpdate(rw) ==
    [status |-> "PURGED", tries |-> rw.tries, claim |-> rw.claim,
     expireAt |-> TRUE, payload |-> rw.payload, revision |-> rw.revision + 1,
     original |-> rw.original]

\* Mutant: "first edit" is read off the revision, which a purge counts up too.
EditByRevision(rw, p) ==
    [status |-> rw.status, tries |-> rw.tries, claim |-> rw.claim,
     expireAt |-> rw.expireAt, payload |-> p, revision |-> rw.revision + 1,
     original |-> IF rw.revision = 0 THEN rw.payload ELSE rw.original]

\* The first edit keeps the payload it replaces.
EditUpdate(rw, p) ==
    [status |-> rw.status, tries |-> rw.tries, claim |-> rw.claim,
     expireAt |-> rw.expireAt, payload |-> p, revision |-> rw.revision + 1,
     original |-> IF rw.original = None THEN rw.payload ELSE rw.original]

-----------------------------------------------------------------------------
(***************************************************************************)
(* The poll loop.  One tick: find a group, lock it, claim, process, free   *)
(* the lock, then five sweeps.  A Mongo call that throws ends the tick.    *)
(***************************************************************************)
\* The sweep a poller makes at each of its last five calls, and the next one.
SweepRow(call, rw) ==
    CASE call = "resubmitted" -> UpdateResubmittedEvents(rw)
      [] call = "failed"      -> UpdateFailedEvents(rw)
      [] call = "dead"        -> UpdateDeadEvents(rw)
      [] call = "expired"     -> ProcessExpiredEvents(rw)

RowSweeps == {"resubmitted", "failed", "dead", "expired"}
AfterSweep == [resubmitted |-> "failed", failed |-> "dead",
               dead |-> "expired", expired |-> "locks"]
Calls == {"poll", "deadletter", "lock", "claim", "handle", "mark", "free",
          "unwind", "locks"} \cup RowSweeps

Init ==
    /\ row = [r \in Rows |-> NewRow("ABSENT", None)]
    /\ lock = [g \in Refs |-> "free"]
    /\ pc = [w \in Workers |-> "poll"]
    /\ token = [w \in Workers |-> None]
    /\ found = [w \in Workers |-> None]
    /\ batch = [w \in Workers |-> <<>>]
    /\ left = [w \in Workers |-> 0]
    /\ outcome = [w \in Workers |-> "none"]
    /\ editor = [e \in Operators |-> [row |-> None, revision |-> 0, fresh |-> FALSE]]
    /\ faults = 0
    /\ operations = 0
    /\ delivered = [r \in Rows |-> {}]
    /\ arrivals = <<>>

\* A tick is over: nothing a poller knew survives into the next one.
EndTick(w) ==
    /\ pc' = [pc EXCEPT ![w] = "poll"]
    /\ token' = [token EXCEPT ![w] = None]
    /\ found' = [found EXCEPT ![w] = None]
    /\ batch' = [batch EXCEPT ![w] = <<>>]
    /\ left' = [left EXCEPT ![w] = 0]
    /\ outcome' = [outcome EXCEPT ![w] = "none"]

Throws == /\ faults < MaxFaults
          /\ faults' = faults + 1

Ref(w) == SegregationRef[found[w]]

\* Rows of S that sort first.
Earliest(S) == {r \in S : \A s \in S : EventTime[r][row[r].payload]
                                        <= EventTime[s][row[s].payload]}

NextMessages ==
    {r \in Rows : /\ IsAvailable(row[r])
                  /\ SegregationRef[r] # None => lock[SegregationRef[r]] = "free"}

Claimable(g) == {r \in Rows : IsAvailable(row[r]) /\ SegregationRef[r] = g}

\* Mutant: one token for every poller.
SharedTokens == Tokens

\* randomUUID: a token no other tick and no row has.
FreshTokens == {t \in Tokens : /\ \A w \in Workers : token[w] # t
                               /\ \A r \in Rows : row[r].claim.by # t}

\* getFifoLocks and findNextMessage.  A lock taken between the two reads is
\* met by SetFifoLock, which comes after both.
GetNextAvailable(w) ==
    /\ pc[w] = "poll"
    /\ \/ /\ NextMessages = {}
          /\ pc' = [pc EXCEPT ![w] = "resubmitted"]
          /\ UNCHANGED <<token, found>>
       \/ \E r \in Earliest(NextMessages), t \in FreshTokens :
             /\ found' = [found EXCEPT ![w] = r]
             /\ token' = [token EXCEPT ![w] = t]
             /\ pc' = [pc EXCEPT ![w] = IF SegregationRef[r] = None
                                        THEN "deadletter" ELSE "lock"]
    /\ UNCHANGED <<row, lock, batch, left, outcome, editor, faults, operations,
                   historyVars>>

\* A row without a segregationRef can never be claimed: it is dead-lettered by
\* its _id, whatever its status is by now, and the poller looks again.
DeadLetterEvent(w) ==
    /\ pc[w] = "deadletter"
    /\ row' = [row EXCEPT ![found[w]] = DeadLettered(@)]
    /\ EndTick(w)
    /\ UNCHANGED <<lock, editor, faults, operations, historyVars>>

\* The upsert filters on locked: false, so on a locked group it inserts a
\* second document and the unique index rejects it: the tick ends.
SetFifoLock(w) ==
    /\ pc[w] = "lock"
    /\ \/ /\ lock[Ref(w)] = "free"
          /\ lock' = [lock EXCEPT ![Ref(w)] = "held"]
          /\ pc' = [pc EXCEPT ![w] = "claim"]
          /\ left' = [left EXCEPT ![w] = NUMBER_OF_RECORDS]
          /\ UNCHANGED <<token, found, batch, outcome>>
       \/ /\ lock[Ref(w)] # "free"
          /\ EndTick(w)
          /\ UNCHANGED lock
    /\ UNCHANGED <<row, editor, faults, operations, historyVars>>

\* The loop claims up to NUMBER_OF_RECORDS rows.
MoreToClaim(w) == left[w] > 1

\* One findOneAndUpdate of the claim loop; a miss uses up its iteration.
ClaimEvents(w) ==
    /\ pc[w] = "claim"
    /\ left' = [left EXCEPT ![w] = @ - 1]
    /\ \/ /\ Claimable(Ref(w)) = {}
          /\ UNCHANGED <<row, batch>>
       \/ \E r \in Earliest(Claimable(Ref(w))) :
             /\ row' = [row EXCEPT ![r] = Claimed(@, token[w])]
             /\ batch' = [batch EXCEPT ![w] = Append(@, DocOf(r))]
    /\ pc' = [pc EXCEPT ![w] = IF MoreToClaim(w) THEN "claim"
                               ELSE IF batch'[w] = <<>> THEN "free" ELSE "handle"]
    /\ UNCHANGED <<lock, token, found, outcome, editor, faults, operations,
                   historyVars>>

\* dispatchEvent (inbox) or deliver (outbox): the handler runs to its end.
HandleEvent(w) ==
    /\ pc[w] = "handle"
    /\ \E o \in Outcomes :
          /\ outcome' = [outcome EXCEPT ![w] = o]
          /\ delivered' = IF o = "ok"
                          THEN [delivered EXCEPT ![Head(batch[w]).id] =
                                   @ \cup {Head(batch[w]).payload}]
                          ELSE delivered
    /\ pc' = [pc EXCEPT ![w] = "mark"]
    /\ UNCHANGED <<row, lock, token, found, batch, left, editor, faults,
                   operations, arrivals>>

Marked(rw, doc, o) == IF o = "ok" THEN MarkAsComplete(rw, doc)
                                  ELSE MarkAsFailed(rw, doc, o)

\* Mutant: the update matches the row by its _id alone.
UpdateUnfenced(doc, t, o) ==
    IF row[doc.id].status \notin NoDocument
    THEN [row EXCEPT ![doc.id] = Marked(@, doc, o)] ELSE row

\* update: matched on the claim token, so a lost claim writes nothing.
Update(doc, t, o) ==
    IF row[doc.id].claim.by = t
    THEN [row EXCEPT ![doc.id] = Marked(@, doc, o)] ELSE row

MarkEvent(w) ==
    /\ pc[w] = "mark"
    /\ row' = Update(Head(batch[w]), token[w], outcome[w])
    /\ batch' = [batch EXCEPT ![w] = Tail(@)]
    /\ outcome' = [outcome EXCEPT ![w] = "none"]
    /\ pc' = [pc EXCEPT ![w] = IF Len(batch[w]) = 1 THEN "free" ELSE "handle"]
    /\ UNCHANGED <<lock, token, found, left, editor, faults, operations,
                   historyVars>>

\* The lock has no owner: it is freed whoever holds it by now.
FreeFifoLock(w) ==
    /\ pc[w] \in {"free", "unwind"}
    /\ lock' = [lock EXCEPT ![Ref(w)] = "free"]
    /\ \/ /\ pc[w] = "free"
          /\ pc' = [pc EXCEPT ![w] = "resubmitted"]
          /\ token' = [token EXCEPT ![w] = None]
          /\ found' = [found EXCEPT ![w] = None]
          /\ UNCHANGED <<batch, left, outcome>>
       \/ /\ pc[w] = "unwind"
          /\ EndTick(w)
    /\ UNCHANGED <<row, editor, faults, operations, historyVars>>

Sweep(w) ==
    /\ pc[w] \in RowSweeps
    /\ row' = [r \in Rows |-> SweepRow(pc[w], row[r])]
    /\ pc' = [pc EXCEPT ![w] = AfterSweep[pc[w]]]
    /\ UNCHANGED <<lock, token, found, batch, left, outcome, editor, faults,
                   operations, historyVars>>

\* Mutant: no lock is taken for a stale one.
CleanupNoLocks(w) ==
    /\ pc[w] = "locks"
    /\ EndTick(w)
    /\ UNCHANGED <<lock, row, editor, faults, operations, historyVars>>

CleanupStaleLocks(w) ==
    /\ pc[w] = "locks"
    /\ lock' = [g \in Refs |-> IF lock[g] = "stale" THEN "free" ELSE lock[g]]
    /\ EndTick(w)
    /\ UNCHANGED <<row, editor, faults, operations, historyVars>>

-----------------------------------------------------------------------------
(***************************************************************************)
(* Failures.  A call may throw before or after the database did its work;  *)
(* "after", where it ends the tick, is the call's own step and then Crash. *)
(***************************************************************************)
\* The process dies, or a call outside any try throws.  Locks and claims stay.
Crash(w) ==
    /\ pc[w] # "poll"
    /\ Throws
    /\ EndTick(w)
    /\ UNCHANGED <<row, lock, editor, operations, historyVars>>

\* The claim loop throws: what it has claimed is forgotten, the lock is freed.
ClaimThrows(w) ==
    /\ pc[w] = "claim"
    /\ Throws
    /\ \/ UNCHANGED row
       \/ \E r \in Earliest(Claimable(Ref(w))) :
             row' = [row EXCEPT ![r] = Claimed(@, token[w])]
    /\ batch' = [batch EXCEPT ![w] = <<>>]
    /\ left' = [left EXCEPT ![w] = 0]
    /\ pc' = [pc EXCEPT ![w] = "unwind"]
    /\ UNCHANGED <<lock, token, found, outcome, editor, operations, historyVars>>

\* Writing a completion throws: the event is marked failed instead.  Writing a
\* failure throws: the rest of the batch is abandoned.
MarkThrows(w) ==
    /\ pc[w] = "mark"
    /\ Throws
    /\ \/ UNCHANGED row
       \/ row' = Update(Head(batch[w]), token[w], outcome[w])
    /\ \/ /\ outcome[w] = "ok"
          /\ outcome' = [outcome EXCEPT ![w] = "retryable"]
          /\ UNCHANGED <<batch, pc>>
       \/ /\ outcome[w] # "ok"
          /\ outcome' = [outcome EXCEPT ![w] = "none"]
          /\ batch' = [batch EXCEPT ![w] = <<>>]
          /\ pc' = [pc EXCEPT ![w] = "unwind"]
    /\ UNCHANGED <<lock, token, found, left, editor, operations, historyVars>>

\* An updateMany is atomic per document only: it may stop half way.
SweepThrows(w) ==
    /\ pc[w] \in RowSweeps
    /\ Throws
    /\ \E S \in SUBSET Rows :
          row' = [r \in Rows |-> IF r \in S THEN SweepRow(pc[w], row[r]) ELSE row[r]]
    /\ EndTick(w)
    /\ UNCHANGED <<lock, editor, operations, historyVars>>

-----------------------------------------------------------------------------
(***************************************************************************)
(* Time, producers and operators                                           *)
(***************************************************************************)
ClaimTimesOut(r) ==
    /\ DeadlinesPass
    /\ row[r].claim.by # None
    /\ ~row[r].claim.overdue
    /\ row' = [row EXCEPT ![r] = Overdue(@)]
    /\ UNCHANGED <<lock, tickVars, editor, faults, operations, historyVars>>

LockGoesStale(g) ==
    /\ DeadlinesPass
    /\ lock[g] = "held"
    /\ lock' = [lock EXCEPT ![g] = "stale"]
    /\ UNCHANGED <<row, tickVars, editor, faults, operations, historyVars>>

\* The partial TTL index: it covers COMPLETED and PURGED rows with a deadline.
DeleteExpired(r) ==
    /\ row[r].expireAt
    /\ row[r].status \in {"COMPLETED", "PURGED"}
    /\ row' = [row EXCEPT ![r] = NewRow("DELETED", None)]
    /\ UNCHANGED <<lock, tickVars, editor, faults, operations, historyVars>>

InsertOne(r) ==
    /\ row[r].status = "ABSENT"
    /\ row' = [row EXCEPT ![r] = NewRow("PUBLISHED", FirstPayload[r])]
    /\ arrivals' = Append(arrivals, r)
    /\ UNCHANGED <<lock, tickVars, editor, faults, operations, delivered>>

Operates == /\ operations < MaxOperations
            /\ operations' = operations + 1

\* History: an editor open on r no longer shows the row as it is.
Outdate(r) ==
    editor' = [e \in Operators |->
                 IF editor[e].row = r THEN [editor[e] EXCEPT !.fresh = FALSE]
                                      ELSE editor[e]]

RedriveById(r) ==
    /\ row[r].status \in REDRIVABLE_STATUSES
    /\ Operates
    /\ row' = [row EXCEPT ![r] = RedriveUpdate(@)]
    /\ Outdate(r)
    /\ UNCHANGED <<lock, tickVars, faults, historyVars>>

PurgeById(r) ==
    /\ row[r].status = "DEAD_LETTER"
    /\ Operates
    /\ row' = [row EXCEPT ![r] = PurgeUpdate(@)]
    /\ Outdate(r)
    /\ UNCHANGED <<lock, tickVars, faults, historyVars>>

\* The admin page is read now and saved from at some later time.
OpenEditor(e, r) ==
    /\ editor[e].row = None
    /\ row[r].status \notin NoDocument
    /\ editor' = [editor EXCEPT ![e] = [row |-> r, revision |-> row[r].revision,
                                        fresh |-> TRUE]]
    /\ UNCHANGED <<row, lock, tickVars, faults, operations, historyVars>>

IsEditable(rw, revision) ==
    /\ rw.status \in REDRIVABLE_STATUSES
    /\ rw.revision = revision

CloseEditor(e, r) ==
    editor' = [o \in Operators |->
                 IF o = e THEN [row |-> None, revision |-> 0, fresh |-> FALSE]
                 ELSE IF editor[o].row = r THEN [editor[o] EXCEPT !.fresh = FALSE]
                 ELSE editor[o]]

EditPayloadById(e, p) ==
    LET r == editor[e].row IN
    /\ r # None
    /\ IsEditable(row[r], editor[e].revision)
    /\ p # row[r].payload
    /\ Operates
    /\ row' = [row EXCEPT ![r] = EditUpdate(@, p)]
    /\ CloseEditor(e, r)
    /\ UNCHANGED <<lock, tickVars, faults, historyVars>>

\* 404, 409, 412 or 422, or the operator gives up: nothing is written.
AbandonEdit(e) ==
    /\ editor[e].row # None
    /\ editor' = [editor EXCEPT ![e] = [row |-> None, revision |-> 0, fresh |-> FALSE]]
    /\ UNCHANGED <<row, lock, tickVars, faults, operations, historyVars>>

-----------------------------------------------------------------------------
WorkerStep(w) ==
    \/ GetNextAvailable(w) \/ DeadLetterEvent(w) \/ SetFifoLock(w)
    \/ ClaimEvents(w) \/ HandleEvent(w) \/ MarkEvent(w) \/ FreeFifoLock(w)
    \/ Sweep(w) \/ CleanupStaleLocks(w)

FaultStep(w) ==
    \/ Crash(w) \/ ClaimThrows(w) \/ MarkThrows(w) \/ SweepThrows(w)

OperatorStep ==
    \/ \E r \in Rows : RedriveById(r) \/ PurgeById(r)
    \/ \E e \in Operators : \/ \E r \in Rows : OpenEditor(e, r)
                            \/ \E p \in Payloads : EditPayloadById(e, p)
                            \/ AbandonEdit(e)

Next ==
    \/ \E w \in Workers : WorkerStep(w) \/ FaultStep(w)
    \/ \E r \in Rows : InsertOne(r) \/ ClaimTimesOut(r) \/ DeleteExpired(r)
    \/ \E g \in Refs : LockGoesStale(g)
    \/ OperatorStep

Spec == Init /\ [][Next]_vars

\* Poll loops run until the process stops and the clock advances; nobody has
\* to send, redrive, purge or edit anything, and nothing has to fail.
Fairness ==
    /\ \A w \in Workers : WF_vars(WorkerStep(w))
    /\ \A r \in Rows : WF_vars(ClaimTimesOut(r))
    /\ \A g \in Refs : WF_vars(LockGoesStale(g))

FairSpec == Spec /\ Fairness

-----------------------------------------------------------------------------
(***************************************************************************)
(* Properties                                                              *)
(***************************************************************************)
TypeOK ==
    /\ row \in [Rows -> Row]
    /\ lock \in [Refs -> {"free", "held", "stale"}]
    /\ pc \in [Workers -> Calls]
    /\ token \in [Workers -> Tokens \cup {None}]
    /\ found \in [Workers -> Rows \cup {None}]
    /\ batch \in [Workers -> Seq(Doc)]
    /\ left \in [Workers -> Nat]
    /\ outcome \in [Workers -> Outcomes \cup {"none", "retryable"}]
    /\ editor \in [Operators -> [row : Rows \cup {None}, revision : Nat,
                                 fresh : BOOLEAN]]
    /\ faults \in 0..MaxFaults
    /\ operations \in 0..MaxOperations
    /\ delivered \in [Rows -> SUBSET Payloads]
    /\ arrivals \in Seq(Rows)

\* A row carries a claim token exactly while it is PROCESSING, and it is then
\* below the retry cap: no sweep but the expiry sweep can take a row away from
\* a running handler.
ClaimsAreLive ==
    \A r \in Rows :
        /\ row[r].claim.by # None <=> row[r].status = "PROCESSING"
        /\ row[r].claim.overdue => row[r].claim.by # None
        /\ row[r].status = "PROCESSING" => row[r].tries.attempts < MAX_RETRIES

IsCurrent(doc) == /\ doc.payload = row[doc.id].payload
                  /\ doc.tries = row[doc.id].tries

\* While a poller's token is on a row, the newest copy of it the poller holds
\* is the row as stored: that copy's write, which sets every column, neither
\* undoes an edit nor counts an attempt from a stale total.
NewestCopyIsCurrent ==
    \A w \in Workers : \A i \in 1..Len(batch[w]) :
        /\ row[batch[w][i].id].claim.by = token[w]
        /\ \A j \in 1..Len(batch[w]) : j > i => batch[w][j].id # batch[w][i].id
        => IsCurrent(batch[w][i])

\* A row is recorded COMPLETED only after a handler succeeded with the payload
\* the row holds: an edited payload is never ticked off by the delivery of the
\* one it replaced.
CompletedWasDelivered ==
    \A r \in Rows : row[r].status = "COMPLETED" => row[r].payload \in delivered[r]

\* The attempt counter and the attempt history agree up to the cap on the
\* history, through failures, expired claims, redrives and partial sweeps, and
\* a row is never tried more often than the retry cap allows.
AttemptsAreCounted ==
    \A r \in Rows :
        /\ row[r].tries.attempts <= MAX_RETRIES
        /\ row[r].tries.history = IF row[r].tries.attempts < MAX_ATTEMPT_HISTORY
                            THEN row[r].tries.attempts ELSE MAX_ATTEMPT_HISTORY

\* What a fenced write (update by _id and claimedBy) relies on: claims are where
\* work is, the counter and its history agree below the cap, and the newest copy
\* a claim holder has is the row, through expired claims, sweeps and late writers.
RowsAreSound == ClaimsAreLive /\ AttemptsAreCounted /\ NewestCopyIsCurrent

\* Every finished row has a deletion date, so the box does not grow for ever,
\* and a row that was redriven, or whose completion could not be written, has
\* none left over from before.
OnlyFinishedRowsExpire ==
    \A r \in Rows : row[r].expireAt <=> row[r].status \in {"COMPLETED", "PURGED"}

\* However often a row is edited, purged and redriven, the payload it arrived
\* with is kept once it is no longer the payload of the row.
OriginalIsKept ==
    \A r \in Rows :
        row[r].status \notin NoDocument =>
            /\ row[r].original \in {None, FirstPayload[r]}
            /\ row[r].payload # FirstPayload[r] => row[r].original = FirstPayload[r]

\* An edit is saved only onto the row its editor shows: not after another
\* edit, a purge or a redrive, even if the row is back in the same status.
NoBlindEdit ==
    [][\A e \in Operators : \A p \in Payloads :
           EditPayloadById(e, p) => editor[e].fresh]_vars

\* Finished rows stay finished: a completed row is only ever deleted, and a
\* purged one comes back by a redrive alone, whatever sweeps and late writers
\* find it.
FinishedStaysFinished ==
    [][\A r \in Rows :
         /\ row[r].status = "COMPLETED" => row'[r].status \in {"COMPLETED", "DELETED"}
         /\ row[r].status = "PURGED" =>
               \/ row'[r].status \in {"PURGED", "DELETED"}
               \/ row'[r].status = "RESUBMITTED" /\ row'[r].revision > row[r].revision]_vars

\* While no deadline passes, two pollers are never at work on one segregationRef.
Working(w) == pc[w] \in {"claim", "handle", "mark", "free", "unwind"}
OnePollerPerRef ==
    \A v, w \in Workers : v # w /\ Working(v) /\ Working(w) => Ref(v) # Ref(w)

\* "Events sharing it are processed in order": an event is not handled before
\* one of the same segregationRef that sorts and arrived before it.
ArrivedBefore(r, s) ==
    \E i, j \in 1..Len(arrivals) : i < j /\ arrivals[i] = r /\ arrivals[j] = s
ProcessedInOrder ==
    \A r, s \in Rows :
        /\ SegregationRef[r] = SegregationRef[s]
        /\ ArrivedBefore(r, s)
        /\ EventTime[r][FirstPayload[r]] < EventTime[s][FirstPayload[s]]
        /\ delivered[s] # {}
        => delivered[r] # {}

\* Every event in the box is at last handled or given up on, through crashes,
\* lost locks and expired claims.
EveryEventSettles ==
    \A r \in Rows :
        row[r].status \notin NoDocument \cup Terminal
            ~> row[r].status \in NoDocument \cup Terminal
=============================================================================
