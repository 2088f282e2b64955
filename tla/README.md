# A formal model of fg-gas-backend

TLA+ modules that model the state, the operations and the failures of
fg-gas-backend (the "GAS" service), TLC instances that check them, and TLAPS
proofs. Paths are relative to the repository. Every definition is translated
from the code; PROJECT.json maps it to the lines it stands for.

## 1. Inventory

| Component | State (collection) | Operations | What is hard |
|---|---|---|---|
| Event boxes (`src/events`) | `inbox`, `outbox`, `fifo_locks` | poll loop of each running instance: lock a group, claim, handle or publish, write the result, sweep | claims that expire under a running handler, crashes, lost replies, locks without owner, retry caps |
| Operator actions (`src/grant-admin`) | the same rows | redrive, purge, edit a payload | stale browser pages, races with the pollers' sweeps |
| Inbox intake (`src/common/sqs-subscriber.js`, `save-inbox-message`) | `inbox` | store a message received from SQS | at-least-once delivery, check-then-insert, retention |
| Claims and entitlements (`src/grants/services`) | `claims`, `entitlements`, a lock counter on `applications` | submit a claim, create and update an entitlement | two submissions at once, capacity, configuration changing between read and commit, replays |
| Application status (`src/grants`) | `applications` | status events of Caseworking and of Agreements (both arrive in the inbox), withdrawal, the move the final claim makes | a handler reads outside its transaction and writes the whole document in it; claim submissions and handlers that outlived their lock write too |
| Application intake (`src/grants/use-cases`) | `applications`, `application_series` | submit, replace, read the status | two replacements of one application, a definition resolved between the read and the write, a driver that runs the transaction again |
| Agreements (`src/agreements`) | `agreements__agreements`, `agreements__versions` | accept and other actions, status commands, creation | idempotency keys, optimistic concurrency, redelivered commands, number collisions |
| Agreement definitions | `agreement_definitions`, in-process cache | load, fall back to older versions, compile, run the processes of creation, pages and transitions | shared in-flight loads, permanent failures, outputs read before they are there |
| Agreement values and pages | values and `identitySequence` of an agreement | give identities to entries, build and print pages, bind and validate actions | identities reused after a removal, pages shown under a state that was left |
| Payments (`src/payments`) | `payments__payments`, `payments__counters`, `payments__definitions`, an in-process cache | find or create the Payment of a source, load and compile its definition | redelivery, concurrent creation, shared loads, permanent failures |
| Configuration versions (`src/grants`, `src/common/config-broker`) | `config_versions`, `grants`, in-process cache | process a release message, resolve and fetch a definition, roll an application forward | messages out of order, attempt limits, parallel fetches, a version announced while one is resolved |
| Grant model | none | evaluate lifecycles, status maps and limits | pure evaluation, parameters of the modules that use it |
| Allow lists, settings (`src/grants`) | `grant_allow_lists`, `grant_settings` | read, check, replace | racing replacements, malformed documents |
| Audit (`src/events/with-audit.js`, `audited-read.js`) | outbox rows | audit an operation in or beside its transaction | failure audits outside an aborting transaction, reads whose audit fails |
| Buckets (`src/common/buckets`) | none of its own | list, count and summarise a collection for an operator | ties, scan budgets, a collection that changes between two pages |
| Grant admin, auth, health, test endpoints | none | reads, proxies, token checks | no behaviour over time |
| Caseworking, Config Broker, SNS/SQS, S3, MongoDB | external | | |

Components call each other through `src/<module>/index.js` and, between
modules, through the event boxes: a transaction of one component inserts an
outbox row together with its own change, and a poller hands the row to a
handler of another component or to SNS. That makes the event box the core:
everything else assumes it delivers every event at least once, one group at a
time.

Properties that make each component correct: an event is delivered at least
once and recorded as delivered only when it was; a group is worked on by one
poller; a claim, a Payment, an agreement version or a status event exists
exactly when the operation it belongs to committed, and once; limits hold under
concurrent submissions; a position or a state is only ever left along the
configured lifecycle; a definition in use is stored and of the right major; an
identity stands for one entry for ever; the audit trail is the history; nothing
waits forever. PROJECT.json lists the places in
the code where these could fail ("hazards").

## 2. Plan

The order is by how much of the system rests on a part.

1. `EventBox` with its promise `EventDelivery`, and its proofs. Done.
2. `InboxIntake`: how events get into the inbox. Done.
3. `Claims` and `ApplicationStatus`: the grants module. Done.
4. `AgreementActions`: actions and commands on one agreement, with proofs. Done.
5. `Payments`, with proofs. Done.
6. `ConfigCatalog`, `GrantResolution` and `ApplicationIntake`: releases, the
   fetch state machine, rolling forward, submission and replacement. Done.
7. `AgreementDefinitions` and `AgreementCreation`: the shared load with its
   fallback, creation with colliding numbers. Done.
8. `GrantAccess`: allow lists, settings and the audit rows in and beside their
   transactions. Done.
9. The parts that compute: `AgreementProcesses`, `AgreementIdentities`,
   `AgreementPages`, `Buckets`. Done.
10. Proofs for InboxIntake, Claims, AgreementCreation and ApplicationIntake,
    and for NoBlindEdit and OriginalIsKept. Done.
11. The safety part of DeliveryPromise as a theorem, for every batch size. Done.
12. Proofs for ApplicationStatus, GrantAccess, AgreementIdentities,
    AgreementProcesses and Buckets. Done.

The modules meet at the promise of the event box. A handler of Payments,
AgreementActions, AgreementCreation or ApplicationStatus may be run again after
it finished, may run beside an older run of itself, and may be cut off at any
call: that is what EventBox shows a handler has to expect, and each of those
modules has those steps. They model a box only as far as they need one (who has
claimed an event, attempts, dead events). `EventBoxImplements` holds the
refinement from EventBox to EventDelivery. `ConfigCatalog` is shared:
`GrantResolution` and `AgreementDefinitions` extend it, `ApplicationIntake`
composes the first with the applications and `AgreementCreation` the second
with the agreements.

## 3. Modules

One call of the database, of S3 or of the queue is one step. What a process
remembers between two calls is in a variable of its own and may be stale. A
transaction that takes a write lock early (a counter it increments first) is
represented by the lock; its writes appear at the commit. Time is abstract: a
deadline may pass at any moment after it was set.

### EventBox, EventDelivery, EventBoxImplements

`row` is the collection, `lock` is `fifo_locks`, and `pc`, `token`, `found`,
`batch`, `left`, `outcome` are the local variables of a poll loop. The actions
of a poller are, in the order of `poll()`: GetNextAvailable, DeadLetterEvent
(rows without segregationRef), SetFifoLock, ClaimEvents (one findOneAndUpdate
of the claim loop), HandleEvent, MarkEvent (the fenced write), FreeFifoLock, then
the sweeps. Faults are a call that throws before its effect, a reply lost
after it, and a crash, which leaves locks and claims behind. Operators redrive,
purge, open the editor and save what they edited. The inbox and the outbox
differ in the handler only (a use case, or a publication to SNS): `Outcomes`
says how it may end.

EventDelivery is what the box promises its users: per event a phase, the
payload and the payloads delivered. An event is finished only with a payload
that was delivered, a pending one is settled in the end, and an event given up
on waits for an operator, who alone may edit, discard or redrive it.
EventBoxImplements maps the box to it. DeliverySafety is EventDelivery's safety
part for every step but OlderCopyIsWritten, a poller's write of a copy of a row
of which its loop holds a newer one as well: there the code does not keep the
promise, since both copies carry the loop's token. DeliveryPromise adds that no
event stays pending for ever; ExactDelivery is the safety part without the
exception.

### InboxIntake

`queue` and `reads` are SQS; `work` is the call that each subscriber makes next
for each message it received; `rows` counts inbox rows of an event. Messages of
one receive are worked on in parallel. A visibility timeout may end while the
message is worked on, rows expire, a message goes to the queue's dead-letter
queue after MAX_READS receives.

### Claims

Submissions, entitlement creations and entitlement updates for one
application. Each reads the application and the grant, then opens a transaction
that first increments `claimSubmissionLockVersion`; `lock` is that write lock
and `task[r].seen` the snapshot. Meanwhile versions of the grant are published
(with other limits, with and without approval and payment), the application
rolls forward to them, or is moved by a status event. A transaction may fail
and is retried as the driver does; a request refused by the duplicate index of
the claim returns the stored claim if it is a replay.

### ApplicationStatus

One application, its inbox, the handler of a status event in its four calls
(read the application, resolve the grant, the transaction, mark the event), the commands to Agreements, and the agreement's own
moves with the events they send back. The lifecycle is a parameter; the MC
module has the one of `test/fixtures/pmf-grant-definition.json`. `subscriber`
is what a consumer has put together from the status events; `caseworking` is
what Caseworking was told last. SubmitFinalClaim is the move a claim submission
makes. AcceptOffer needs a position at which the frontend shows the offer
(OfferShownAt, external to this repository).

### AgreementActions

One agreement. A request is an applicant's action (from a page that was shown
earlier) or a status command. It looks up its key, reads the agreement, checks
the page's version, resolves the definition, and commits the version, the
lifecycle event, the payment request and the audit in one transaction that
expects the version it read. `versions[n]` is version n. Redeliver runs a
command again; CommitReplyLost is a commit whose answer does not arrive.
A definition that gives one target state to two actions of a state is left
out: for a command the code answers it with an internal error.

### Payments

Two kinds of request for one source go through the same handler: find a Payment
of the source, resolve the definition (the cache, a load in flight, the stored
definition, the file), map, and in a transaction increment the counter, look
for a Payment again, insert, and write the message. `compiled` and `load` are
per process: handlers of one version share a load, and a crash empties both.
The unique index on the source cannot be reached behind the counter's write
conflict, so it has no step.

### ConfigCatalog, GrantResolution, ApplicationIntake

`catalog` is `config_versions`: per version the files of a release with their
fetch state and attempts, and the worst state over them. A release may be
announced again and then keeps the fetch state of the files it has.
GrantResolution is `resolveAndFetchGrant` call by call: find the version, guard
by status and attempts, read the stored grant, fetch from S3, save, mark. Each
process has a cache with MAX_CACHE_ENTRIES keys; an operator fetches files
beside the requests. ApplicationIntake has a request that submits an
application and requests that replace it or read its status. A replacement
resolves two grants between its snapshot and its commit; `Touching` is the write conflict with what committed meanwhile, after
which withTransaction runs the whole callback again, as it does after the
version written outside the session conflicts with the transaction itself. `series` is
`application_series`, `refs` on an application what linkSeries wrote there.

### AgreementDefinitions, AgreementCreation

`loads` are the loads in flight of each process and `compiled` its cache.
A caller resolves a target (exact, latest of the major, or for creation the
latest not newer than the application's version), joins or begins a load, and
falls back when the target failed for good, until a target repeats.
AgreementCreation takes a command through the lookup of an existing agreement,
the load, the build and the transaction that stores the agreement, its first
version, three events and the audit; its two unique indexes tell a lost race
from a number that is taken, and a taken number is drawn again.

### AgreementProcesses, AgreementIdentities, AgreementPages

AgreementProcesses compiles a definition with the checks of
`compileAgreementProcesses`, the mappings and `validate`, and then runs its sequences (creation, page,
transition) one process at a time. A mapping is the set of outputs it reads and
how it reads them (statically, bare, dynamically), because that is what the
compile-time checks look at. AgreementIdentities gives `action:1`, `item:1`, ...
to the entries of each version; `born` marks which entry is meant. AgreementPages
resolves component trees (with recursive operators), binds forms and buttons to
actions, removes actions for print, and runs the requests of a user whose page
may be older than the agreement's state.

### Buckets

A bucket's definition with its index lines and `plan.js`, a page of rows with
the edge that ends a scan (SCAN_BUDGET, MAX_SCANS), the keyset cursor, and the
counts (COUNT_CAP), tiles and totals. The values of a stored fact are the groups
one aggregation meets, MAX_VALUES + 1 of them, less null.

A summary is read scan by scan, as `summary.js` does. StartSummary has one
combination per fill of the facts that its line leaves open. StepValues replaces
a combination by those with the values that one scan finds for the next fact,
MAX_VALUES + 1 at most, whichever are met first. TakeEntries keeps MAX_VALUES of
what was found and records whether that is all (`complete`). CountEntry counts
one of them up to SUMMARY_COUNT_CAP. AnswerSummary drops those that count
nothing and keeps the `top` that count most (`more` if there are others).
Scans and counts are separate steps because they are separate reads without a
session: between any two of them a document may be written or expire, and so it
may between the pages of a list. Reads may time out; a summary is then refused.

Which values are first by text and the order of equal counts are left open, so
any choice is allowed. The first and last time of an entry, the columns and
the URL keys are left out, and so is `catalogue.js`, which describes a bucket to
the admin and changes nothing.

### GrantAccess

Two requests out of: read or check the list, read the settings, replace the
list, save the settings; with the roles that refuse them, the lines of the form
and which of them come back marked, the conflict that makes a transaction run
again, commits that fail or whose result is unknown, and the audit events in
and beside it.

## 4. Runs

Each run must be finished by TLC completely; the bounds are constants.

| Run | Instance | Shows |
|---|---|---|
| `operators` | 1 row, 2 pollers with a batch of 2, 1 operator, 1 fault, 2 operations | what a redrive, purge or edit may and may not do to a row a poller holds; refinement of EventDelivery but for writes of an older copy |
| `pollers` | 2 rows (1 legacy), 2 pollers with a batch of 2, 1 fault, 2 retries | claims, attempts and copies are sound; every event settles |
| `order` | 2 rows, 1 poller, no fault | finding: an event overtakes a failed one of its group |
| `intake` | 2 messages of 1 event, 2 subscribers, 3 reads, 3 faults | nothing is deleted before it is stored; only overlapping deliveries store twice; every message settles |
| `claims` | every pair and two threes of 6 requests, 3 versions, 1 fault | limits, replays, events, approval; every request is answered |
| `status` | 1 handler, 2 CW events, the final claim, 2 versions, 1 fault | moves, history and messages agree; the application catches up with its agreement; the grant meets the conditions of the theorems |
| `status_race` | 1 handler, 2 CW events, the final claim | finding: a move is undone |
| `agreement` | 2 postings of an acceptance, an update, 2 commands, 2 definitions, 1 fault | one path, one version per key, each reported once; answers as stored; definitions as shown and pinned |
| `payments` | 2 requests, 2 instances, 2 faults, 2 retries | claim ids, Payments and messages agree; every request ends |
| `applications` | a submission, 2 requests that replace or read it, 2 processes, 3 versions of 2 majors, 1 fault, 1 restart, 2 events | series do not fork, majors do not mix, definitions are stored, nothing is replaced once it was decided |
| `creation` | one command twice and another request, 2 processes, 3 versions of 2 majors, 2 numbers, 1 fault, 1 restart | creation is once and whole, from a usable definition that is stored |
| `parts` | each stand-alone part over its own inputs: about 1000 definitions, 1400 candidates, 700 pages, 15 bucket definitions on 84 collections, 2 access requests | what compiles runs; identities last; pages offer what is accepted and print what they show; lists and tiles agree and summaries say what they leave out; the audit trail is the history |

Why the bounds are enough. A race in this code is between two writers of one
document, so two pollers, subscribers or instances, or three requests, have
every race the code distinguishes; a third party is in the sweeps and the
operators. One fault is a lost reply, an error or a crash at any call; two
where a fault has to meet the recovery from another one (a redelivery that is
cut off again). Retry caps of 1 and 2 tell "last attempt" from "not the last".
Two versions let a value change between a read and a use, three let it change
back or lie in another major. Two rows are in one group, as an order and a lock
need; groups do not share state. A cache of one entry is full at once. In
`parts` the inputs hold each construct alone and inside every construct that
contains others; a page of one row and a budget of two make every boundary of a
list fall inside a tie. With SUMMARY_COUNT_CAP and MAX_VALUES of 2 and `top` of 1
or 2, collections with three rows and up to four groups of codes pass every
limit of a summary (counts that are capped, combinations that are not counted,
entries that are cut off), beside collections that stay within it.

Both runs of the event box that must pass have the batch that `.env.example:25,29`
sets, two: a loop can then take one row twice, which is the case that
DeliveryPromise has to except and NewestCopyIsCurrent has to say "newest" for.
TLC finds DeliveryPromise violated without the exception, so the run does
reach it. `operators` has no retryable outcome, which `pollers` has: with one try, a
claim that expires leads to the same states. The theorems of section 7 hold for all values.

`parts` has five parts in one module because they share nothing: a behaviour
runs one of them and leaves the others as they are.

Symmetry is used in `agreement` only, on the two postings of the acceptance: it
checks invariants alone and the two are alike.

Deadlock is checked for the event box, `applications` and `creation`, which
may stop only in a state in which everything is answered. In the other modules
a run ends when all requests are answered and nothing more arrives.

Several invariants are conjunctions of named parts: RowsAreSound (ClaimsAreLive,
AttemptsAreCounted, NewestCopyIsCurrent), VersionsAreSound (HistoryIsOnePath,
OneVersionPerKey, PublishedAsStored), ActionsUseTheirDefinition
(AppliedAsShown, AcceptedIsPinned) and LimitsHold (ClaimsWithinLimit,
EntitlementsWithinLimit, ApprovedIsComplete).

## 5. Fairness

Only what the code does on its own is fair: a poll loop that is running makes
its next call; a clock advances, so claims and locks end; SQS makes a message
visible again; a handler or a load in flight goes on; a retried request is
delivered again. Nothing has to fail, nobody has to send, redrive, edit, accept
or publish anything. A process that crashed is started again with an empty
memory, as the platform does.

`AgreementSettles` excuses behaviours with a fault. With a retry, an event may
be overtaken (the finding of `order`); the overtaken one is then not valid from
the position reached, it is acknowledged, and its move is lost. The property
also allows a dead event: a withdrawal that meets an acceptance has no mapping
in the fixture's lifecycle and ends as a dead letter for an operator.

## 6. Findings

- `order`: `docs/MODULE_BOUNDARIES.md:168` says that events with one
  segregationRef are processed in order. A batch goes on after an event that
  failed with a retryable error, and the failed one comes back later.
- `status_race`: the application is read without the session and written back
  whole; a move committed in between (the final claim) is undone. The run
  `status` has the same step; MovesAreChained is about the moves made from a
  copy that was not overtaken, and ToldWhatIsStored holds even then.

Observed while modelling, and not stated as a run:

- All claims of one loop share one token (`outbox.repository.js:65`): a row
  that comes free during the loop is claimed twice by it, and the older copy
  passes the fence and may undo an edit made in between. DeliverySafety excepts
  just this write (OlderCopyIsWritten); with the exception removed TLC shows the
  undone edit on the run `operators`. NewestCopyIsCurrent and PromiseIsKept are
  what remains true.
- The duplicate check and the insert of an inbox message are two calls and the
  index is not unique (`save-inbox-message.use-case.js:21`); StoredOnce says
  that nothing but overlapping deliveries stores an event twice.
- A version announced between the two lookups of a resolution is cached under
  the key of the version before it (`resolve-current-grant.use-case.js:50`),
  beside "a (code, version) definition never changes"; MajorsNeverMix bounds
  what that can do.
- Fetch states are overwritten without looking: a request that read the attempt
  limit may write PermanentError over the Fetched of another one
  (`resolve-config-version.service.js:63`), a late loader of a payment or
  agreement definition likewise, and a load may then give up although an older
  definition is usable (`load-agreement-definition.js:241`).
- In a replacement the version is written outside the session
  (`replace-application.use-case.js:30`), so the transaction's own write to the
  same document conflicts once and the driver runs it again.
- A command that loses to an update that keeps the state is dropped; a test
  accepts it.
- `findProcessOutputDependencies` looks at `$.outputs` only: a bare `outputs`
  path compiles and may be unresolved when it runs. The page of a state is not
  checked against the pages at compile time. CompiledDefinitionsRun names both.
- Print does not remove buttons nested in the items of a display component
  (`build-agreement-page-model.js:20`); standalone buttons are not checked
  against the state's actions (`resolve-page-actions.js:32`).
- In the buckets a document whose closed fact has an unlisted value is found
  on some index lines and not on others (`engine.js:131`); IsListed excludes it.
- A stored fact's values are limited before null is taken out
  (`engine.js:320-336`). With null among the groups and more than MAX_VALUES
  values, the tiles are MAX_VALUES of them, where without null the answer is "too
  many" (null). TilesAreLists has this case.
- With two facts to step, the last row of a group that the first scan met can go
  before the second scan (`summary.js:116`). If the first scan had left groups
  out at its limit, what is found in the end may fit the answer, which then says
  `complete` and lacks rows that were there all the time. NoneVanishes excludes
  the case, and without it TLC finds SummariesShareOut violated. The summary of
  the inbox steps two facts, errorKey and eventType (`inbox.bucket.js:47`), and
  is exposed to it; that of the outbox steps errorKey alone, eventType being
  its lead (`outbox.bucket.js:21,44`).
- A write conflict that the driver retries leaves a FAILURE audit event for a
  change that then succeeds (`with-audit.js:107`), and a stored list or setting
  that does not validate makes every operation on it fail, its replacement too.
  The check of an applicant reads the list and the settings one after the other.

## 7. Proofs

The proofs are for every value of the constants under the named assumptions of
each module, which TLC evaluates on every run. They ask for what the code and
its configuration fix (an owner for each event, one kind for each request, a
limit of at least one, majors that grow with the versions) and that the model's
own marks, such as None, are not values of the program.

Each invariant below was checked by TLC on the run of its component before it
was proved. A theorem has one lemma per action of the next-state relation, or
per kind of step where several actions disturb the same thing.

**EventBoxProofs** - TypeCorrect. Types alone are not inductive: a poller
indexes `row` with `found[w]` and takes the head of `batch[w]`. Bookkeeping
adds that it has a row, a token and a batch at each call that uses them. Each
further theorem adds one invariant to TypeInv.
- ClaimsLive and AttemptsCounted, from ClaimInv: a row has a token exactly
  while it is PROCESSING and below the cap, and so are the copies in batches,
  so that a write never raises a count past the cap.
- NewestCopyCurrent, from CopyInv: no two ticks share a token, and the last
  copy of a row in a batch is the row as stored while the token is on it.
  "Last" is needed, because one loop may claim a row twice with one token.
- RowsSound joins the three.
- CompletedDelivered, from DeliveryInv: a poller about to write success has
  delivered the payload it writes.
- OnlyFinishedExpire and FinishedStays hold if every row has a segregationRef;
  a legacy row is dead-lettered by its _id whatever has become of it.
- LocksExclude: while no deadline passes, two pollers are never at work on one
  group. The invariant LockInv says that a poller at work finds its lock held;
  it needs that no stale lock is taken away.
- OriginalsKept, from OriginalInv: a poller's write brings its copy of the
  payload back, so the copy too must be the first payload or one whose original
  the row keeps. A deleted row keeps nothing, and nothing revives it.
- EditsSeeTheRow, from EditorInv: an editor whose page shows an older row holds
  a revision the row has passed, because every operation raises it and no
  poller lowers it.
- PromiseIsKept: the box implements DeliverySafety, step by step and for every
  batch size. A poller's steps are unseen behind the promise or give up on
  rows (UnseenAllowed), but for the handler's success (Deliver) and the fenced
  write of it (Finish); an insert, an operator's write and the removal of a row
  are one abstract action each. It assumes that every row has a segregationRef.
  The fenced write is of the head of the batch: either no later copy of that row
  is in the batch, and NewestCopyCurrent says it is the row as stored, or there
  is one, and the step is the excepted OlderCopyIsWritten. A loop held up for
  the time of a claim may hold two copies of a row, an operator may have edited
  it in between, and the write of the older one puts the old payload back.
- PromiseIsExact: in behaviours in which no claim loop takes a row twice
  (NoneTwice) that exception never occurs and the box implements EventDelivery's
  Safety. A batch of one always has NoneTwice.

**InboxProofs** has the two modules about an application's inbox.

- InboxIntake: IntakeTypeCorrect, NothingIsLost and NothingIsRepeated. A
  subscriber about to delete has stored the event or found it stored
  (AboutToDelete). For the second, a subscriber about to insert found no row,
  and that means the event was never stored: its rows stay while a message of it
  is under way, since no delivery outlives the retention (RowsAreKept), and two
  subscribers at it are recorded as an overlap (OverlapIsRecorded).
- ApplicationStatus: the processes of a transition are a fold over a list.
  IsRun is its recursive form; what it keeps is shown by the least position at
  which it would not hold. MovesAreAlwaysChained and StatusTypeCorrect are for
  any lifecycle, any processes and any number of handlers: a draft is told by
  what it began from (IsMoved, IsChained, IsTold).
- ToldIsStored and WithdrawnNeverHasLiveAgreement assume OneAtATime: the events
  of an application share a segregationRef, and its lock lets one handler work
  on them (OnePollerPerRef in EventBoxProofs, while no deadline passes). With
  two handlers both fail: one commits between the other's read and its write,
  which then puts the older document back under a newer message.
- ToldIsStored also assumes FinalClaimRecordsNothing, that the final claim's
  transition runs no process that enters a state of the agreement, because its
  move may be undone without a word to anyone (the finding of `status_race`).
- HistoryAlwaysFollows and WithdrawnNeverHasLiveAgreement are false for some
  lifecycles: one that mapped a withdrawal to a position without the process
  that withdraws the agreement would refute the latter. Lawful(Held, Fresh) is
  what a lifecycle needs, one condition on each of its transitions: Held gives
  for each position the histories the agreement may have there, and Fresh the
  positions before an agreement is asked for. TLC evaluates Lawful and
  FinalClaimRecordsNothing for the fixture's grant (PigsAreLawful in
  MCApplicationStatus, the module of run `status`), so the theorems do apply to
  it. HeldThere, Reported and HistoriesFollow carry them: an event in
  the inbox was the agreement's state, and whatever copy is written back, the
  history it has is a beginning of the agreement's.

**ClaimsProofs** - TypeCorrect, LimitsAreKept, ClaimedIsFrozen,
EventsFollowClaims and ReplaysAreAnswered. All rest on Holding: the request in
its transaction has the application's lock and its snapshot is the store.
Resolved says what a request knows from before the transaction; the version it
resolved may have been left behind, but what it pays under was compared again
under the lock. That claims and entitlements can be counted needs FinitelyMany,
and that instance numbers have no gap the least-element principle.

It also holds the proofs of GrantAccess, which is the other half of what the
grants module decides for an applicant and has no state in common with Claims:
TrailIsAlwaysTheHistory and ToldIsAudited. A transaction that may still commit
either has seen what is stored or was overtaken, and then its write conflicts
(CallSound); one transaction at most holds a document (OneHolds); so each new
event begins from what the last one left (TrailSound). For ToldIsAudited a
request has no event of success until it ends (ToldSound). That a refused form
would be accepted without its marked lines needs what removing blank lines does
to a list, the recursive function NonBlank: every position of its result comes
from one of the list, in the same order.

**ConfigCatalogProofs** - lemmas for the two modules that follow: the newest of
a set of versions exists and is one of them, and the rows of the catalogue
stay rows under every announcement and every recorded fetch.

**AgreementCreationProofs** - TypeCorrect, LoadedDefinitionsAreStored,
CreationIsExactlyOnce and CreationFallsBack. DefinitionsSound is about the
shared loads: one that is past its insert has stored its definition, and a
caller that waits or has an answer was sent to a version of the major it asked
for and, for a creation, no newer. TasksSound ties a command to the call it
made until it is answered. The unique indexes then make the rest once:
CreatedOnce is NumbersAreUnique, RecordedOnce and AnswersAreStored.

Two modules that creation rests on are proved there too.
- AgreementIdentities: IdentitiesStayForever. Every ordinal in the history is at
  most the recorded sequence of its namespace (SequenceIsAbove); the maximum
  the constructor works out again is therefore never below one that an older
  version used, and the new entries of one candidate are numbered apart
  (IdentityOfOne). LinesNameEntries is what payment lines need.
- AgreementProcesses: CompiledDefinitionsAlwaysRun and StagedIsStored, for any
  definition the schema lets through, whether it compiles or not. While a
  sequence runs it is one that was compiled (RunSound), the outputs are those of
  the processes before the next one, as the definition says (OutputsSound), and
  no handler has run before the values of the transition were read
  (StagedSound). So what a mapping reads, and was compiled to read, is there: the
  check against the order of the sequence at compile time and the moment
  resolveWhenPending chooses at run time agree. Of an output no two processes
  give, one producer is left (ProducersFacts).

**ApplicationIntakeProofs** - TypeCorrect, ApplicationsFormChains,
RollForwardKeepsMajor, OriginalsAreStored and ReplacementsAreAmendments.
ResolutionsSound follows a resolution from its lookup to its answer: a version
found is of the major asked for, one to be marked as fetched is stored, and a
cached one is of the major of its key. FlowsSound says that an application a
transaction read stands where it stood unless the document was touched since;
then the commit is refused. SeriesSound adds to the chains that a series
contains its latest member; the member that is replaced is in one series only,
so the longer series takes that one's place.

**AgreementProofs** - the invariant is `Holds`: if the version a request read
is still current, what it read is what is stored. Every commit expects that
version, so it appends to the path it saw. Keyed (a key seen as unused makes
its version now or not at all), Shown, AcceptedOnce and Publishes give the
other theorems; VersionsSound and DefinitionsKept join them for the run
`agreement`. Steps are sorted first into those that write a version and
those that move one request only; each invariant is then shown for the two.

**PaymentsProofs** - TypeInv has that a claimed request is below the cap.
LedgerInv: the holder of the counter's lock still sees the counter it read, and
an unpaid source; claim ids are then 1, 2, ... in the order of the Payments,
each with its message. PaidInv: a handler that began when its source was paid
is only ever looking it up or marking its result, so it asks for no definition.

It also holds the proofs of Buckets, which has no state in common with
Payments: ListsAreAlwaysWhole and NumbersAreAlwaysLists. Besides bounds that are
not 0 they assume (BucketsAssumption) that documents have ids of their own, and
of a definition that null is never a listed value, that a value is listed as
hidden or as shown, and that only a closed fact lists its values.
- The page is sorted by rank. The number of newer documents takes each listed
  document to a place of its own, so every place has its document
  (NewestFirstSorts).
- Whichever line of a formula bestLine picks, the plan made of it has declared
  facts, the filled ones closed, and what it cannot push down left as a residual
  (PlansAreSound). A listed document is therefore found exactly when it is
  wanted (FoundIsWanted, WantedIsFound).
- Paged is the inductive part. Between two pages nothing that was shown is older
  than the cursor; a document nobody touched that is wanted was shown or is
  older than the cursor (PagesFollow), also where a scan ran out of its budget
  in the middle of documents of one time (EdgesArePast).
- NumbersAreAlwaysLists has two parts. Tiles and totals need no history: in any
  state an exact plan counts what is wanted (TilesSay), and a list of values that
  falls short is one that the limit cut, with null among the groups
  (GroupsAreCut).
- SummariesShareOut does, for it relates an answer to rows read earlier. The
  invariant is SummaryInv. While values are looked for, a row that was left alone
  is covered: a combination agrees with it, or there are already more
  combinations than an answer may hold, in which case the answer will not call
  itself complete (FindsAll). A scan keeps this, because the groups it leaves out
  leave MAX_VALUES + 1 behind, and with one stepped fact, or no change, none of
  these goes away again (NoneVanishes). While entries are counted, each row left alone is still
  to be counted or has its entry, which counts no fewer than the rows left
  alone and no more than the rows there were (CountsAll). Dropping
  counts of zero loses no such row, and what is cut to `top` sets `more`. The
  caps, the limits and the number of changes are arbitrary.

PROJECT.json lists the theorems with the property of a run each one states. Type
correctness, CompletedWasDelivered, OnlyFinishedRowsExpire,
FinishedStaysFinished and OnePollerPerRef are proved and in no run
(DeliveryPromise implies the second and most of the fourth).

Only model-checked:
- liveness (EveryEventSettles, EveryMessageSettles, EveryRequestIsAnswered,
  AgreementSettles, EveryRequestEnds), which is beyond the prover;
- that nothing stays pending for ever, the liveness part of DeliveryPromise;
- AgreementPages (PrintedAsShown, OfferedIsAccepted), which uses recursive
  operators on trees; the prover does not accept them.

The library's induction theorems take an operator as a parameter, which no
installed prover instantiates. What a recursive function or a fold does for
every list is shown without them: the positions at which it would fail are a set
of natural numbers, a nonempty one has a least element (LeastElement, from the
well-foundedness of Nat), and the step from the position before contradicts it.

## 8. What is not modelled

- The values mappings compute (JSONata), schema checks of answers and of grant
  definitions, labels, formatting and the wording of events: they keep no state,
  and whether they succeed is an input of the modules.
- The pages and view models of the admin API and the requests it proxies to
  Caseworking, which change state there; the audit of those requests.
- Authentication, which decides a request by its token; health checks, test
  endpoints, server start-up.
- Migrations run once, before the service, and matter here by the indexes and
  the documents they create.
- Caseworking, the Config Broker, SNS/SQS, S3 and MongoDB are external: the
  modules assume at-least-once queues, unique indexes and snapshot transactions
  with write conflicts, as the code does.
