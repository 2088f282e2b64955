------------------------------- MODULE Claims -------------------------------
(***************************************************************************)
(* The claims and entitlements of one application: requests that submit    *)
(* claims, create entitlements and update them, the lock on the            *)
(* application they all take, and the events a claim writes.               *)
(*                                                                         *)
(* A request reads the application and the grant first and works in a      *)
(* transaction later.  The transaction begins by counting up the           *)
(* application's claimSubmissionLockVersion, so another one, or any other  *)
(* writer of the application, waits (or fails and is retried) until it     *)
(* ends; what it then reads is its snapshot, `seen`.                       *)
(***************************************************************************)
EXTENDS Integers, FiniteSets

CONSTANTS
    Requests,
    Mixes,            \* sets of requests that come in one behaviour
    KindOf,           \* "submit", "create" or "update"
    Refs,             \* values of clientClaimRef
    RefOf,            \* the clientClaimRef of a submission
    Slots,            \* instance numbers of the claim code
    SlotOf,           \* the entitlement a submission or an update names
    Given,            \* the entitlements the application starts with
    Latest,           \* versions 1..Latest of the grant, in one major
    MaximumClaims,    \* per version: claim.limits.maximumClaims
    MaxEntitlements,  \* per version: maxEntitlements of the template
    RequiresApproval, \* per version: claim.requiresApproval
    HasPayment,       \* per version: has a payment definition
    MaxFaults,        \* bound: transactions that fail
    None

Versions == 1..Latest

\* nth and data are history: how many claims its entitlement had with it, and
\* the data the entitlement had.
Claim == [by : Requests, slot : Slots, grant : Versions, pinned : Versions,
          nth : Nat, data : Nat]

\* An application starts with entitlements that its grant allows, numbered from
\* the first slot on, and there are instance numbers for all it may get.
ASSUME ClaimsAssumption ==
    /\ Mixes \subseteq SUBSET Requests
    /\ KindOf \in [Requests -> {"submit", "create", "update"}]
    /\ RefOf \in [Requests -> Refs]
    /\ Slots \subseteq Nat \ {0}
    /\ SlotOf \in [Requests -> Slots]
    /\ Latest \in Nat \ {0}
    /\ MaximumClaims \in [Versions -> Nat \ {0}]
    /\ MaxEntitlements \in [Versions -> Nat \ {0}]
    /\ RequiresApproval \in [Versions -> BOOLEAN]
    /\ HasPayment \in [Versions -> BOOLEAN]
    /\ MaxFaults \in Nat
    /\ Given \subseteq Slots /\ IsFiniteSet(Given)
    /\ Cardinality(Given) <= MaxEntitlements[1]
    /\ \A s, t \in Slots : s < t /\ t \in Given => s \in Given
    /\ \A v \in Versions : 1..MaxEntitlements[v] \subseteq Slots
    /\ None \notin Requests /\ None \notin Nat /\ None \notin Claim

VARIABLES
    application,  \* position and currentConfigVersion
    lock,         \* the request whose transaction is open
    latest,       \* the latest version published
    entitlement,  \* per slot: a stamp of its data, None if it does not exist
    claim,        \* per clientClaimRef: the claim, None if there is none
    outbox,       \* per clientClaimRef: events committed for it
    approvedAs,   \* history: the grant version that approved the application
    task,         \* what each request has read, and where it is
    faults        \* bounded counter

vars == <<application, lock, latest, entitlement, claim, outbox, approvedAs, task,
          faults>>

Positions == {"claiming", "approved", "withdrawn"}
Results == {"none", "created", "replayed", "updated", "not found", "refused", "full",
            "exhausted", "error"}

Store == [position    : Positions,
          version     : Versions,
          entitlement : [Slots -> Nat \cup {None}],
          claim       : [Refs -> Claim \cup {None}]]

Current == [position |-> application.position, version |-> application.version,
            entitlement |-> entitlement, claim |-> claim]

Task == [pc      : {"start", "read", "resolve", "lock", "commit", "done"},
         attempt : {0, 1},
         pinned  : Versions \cup {None},
         grant   : Versions \cup {None},
         pays    : BOOLEAN,
         seen    : Store \cup {None},
         result  : Results]

NewTask == [pc |-> "start", attempt |-> 0, pinned |-> None, grant |-> None,
            pays |-> FALSE, seen |-> None, result |-> "none"]

NoTask == [NewTask EXCEPT !.pc = "done"]

Init ==
    /\ application = [position |-> "claiming", version |-> 1]
    /\ lock = None
    /\ latest = 1
    /\ entitlement = [s \in Slots |-> IF s \in Given THEN 0 ELSE None]
    /\ claim = [f \in Refs |-> None]
    /\ outbox = [f \in Refs |-> [case |-> 0, payment |-> 0]]
    /\ approvedAs = None
    /\ \E mix \in Mixes : task = [r \in Requests |-> IF r \in mix THEN NewTask ELSE NoTask]
    /\ faults = 0

-----------------------------------------------------------------------------
(***************************************************************************)
(* What the transactions compute from a store                              *)
(***************************************************************************)
ClaimsOn(claims, s) == {f \in Refs : claims[f] # None /\ claims[f].slot = s}

CountByEntitlement(store, s) == Cardinality(ClaimsOn(store.claim, s))

Existing(store) == {s \in Slots : store.entitlement[s] # None}

\* claimableAt and availableAt of the template, and the current position of
\* onClaimApproval.
CanClaimAt(position) == position = "claiming"
IsAvailableAt(position) == position = "claiming"
ApprovesFrom(position) == position = "claiming"

HasRemainingCapacity(store, s, v) == CountByEntitlement(store, s) < MaximumClaims[v]

\* Mutant: an entitlement that still takes claims is still taken for open.
CanBeChangedUntilFull(store, s, v) == HasRemainingCapacity(store, s, v)

CanBeChanged(store, s, v) == CountByEntitlement(store, s) = 0

MayCreate(store, v) == Cardinality(Existing(store)) < MaxEntitlements[v]

\* The smallest instance number not in use.
NextInstanceNumber(store) ==
    CHOOSE s \in Slots \ Existing(store) : \A t \in Slots \ Existing(store) : s <= t

\* No entitlement has room for another claim once one is made on s.
IsFinalClaim(store, s, v) ==
    \A t \in Existing(store) :
        CountByEntitlement(store, t) + (IF t = s THEN 1 ELSE 0) >= MaximumClaims[v]

-----------------------------------------------------------------------------
Set(r, fields) == task' = [task EXCEPT ![r] = fields]

\* The request answers and keeps nothing.
Answered(r, result) == [task[r] EXCEPT !.pc = "done", !.seen = None, !.result = result]

Retried(r) == [task[r] EXCEPT !.pc = "read", !.attempt = 1, !.seen = None]

\* RetryClaimSubmission and RetryCreation: one retry (retries = 1).
RetryOrThrow(r) == IF task[r].attempt = 0 THEN Retried(r) ELSE Answered(r, "exhausted")

Unlock == lock' = None

\* existingReplay, before anything else.
CheckReplay(r) ==
    /\ task[r].pc = "start"
    /\ Set(r, IF KindOf[r] = "submit" /\ claim[RefOf[r]] # None
              THEN Answered(r, "replayed") ELSE [task[r] EXCEPT !.pc = "read"])
    /\ UNCHANGED <<application, lock, latest, entitlement, claim, outbox, approvedAs,
                   faults>>

ReadApplication(r) ==
    /\ task[r].pc = "read"
    /\ Set(r, [task[r] EXCEPT !.pc = "resolve", !.pinned = application.version])
    /\ UNCHANGED <<application, lock, latest, entitlement, claim, outbox, approvedAs,
                   faults>>

\* Mutant: the payment definition of the latest version is asked for.
PaysByGrant(pinned, grant) == ~RequiresApproval[grant] /\ HasPayment[grant]

\* claimPaymentFor: the grant rolls forward, the payment definition does not.
ClaimPaymentFor(pinned, grant) == ~RequiresApproval[grant] /\ HasPayment[pinned]

\* resolveCurrentGrant and claimPaymentFor.
ResolveGrant(r) ==
    /\ task[r].pc = "resolve"
    /\ Set(r, IF KindOf[r] = "submit" /\ entitlement[SlotOf[r]] = None
              THEN Answered(r, "not found")
              ELSE [task[r] EXCEPT !.pc = "lock", !.grant = latest,
                       !.pays = ClaimPaymentFor(task[r].pinned, latest)])
    /\ UNCHANGED <<application, lock, latest, entitlement, claim, outbox, approvedAs,
                   faults>>

\* Mutant: the application is only read.
ReadForUpdate(r) ==
    /\ task[r].pc = "lock"
    /\ lock' = r
    /\ Set(r, [task[r] EXCEPT !.pc = "commit", !.seen = Current])
    /\ UNCHANGED <<application, latest, entitlement, claim, outbox, approvedAs, faults>>

LockForUpdate(r) ==
    /\ task[r].pc = "lock"
    /\ lock = None
    /\ lock' = r
    /\ Set(r, [task[r] EXCEPT !.pc = "commit", !.seen = Current])
    /\ UNCHANGED <<application, latest, entitlement, claim, outbox, approvedAs, faults>>

-----------------------------------------------------------------------------
(***************************************************************************)
(* The transaction, after its lock                                         *)
(***************************************************************************)
\* Mutant: the transaction does not look for a replay.
DecideSubmissionOnce(store, f, s, v) ==
    IF ~CanClaimAt(store.position) THEN "refused"
    ELSE IF ~HasRemainingCapacity(store, s, v) THEN "full"
    ELSE "go on"

DecideSubmission(store, f, s, v) ==
    IF store.claim[f] # None THEN "replayed"
    ELSE IF ~CanClaimAt(store.position) THEN "refused"
    ELSE IF ~HasRemainingCapacity(store, s, v) THEN "full"
    ELSE "go on"

DecideCreation(store, v) ==
    IF ~IsAvailableAt(store.position) THEN "refused"
    ELSE IF ~MayCreate(store, v) THEN "full"
    ELSE "go on"

DecideUpdate(store, s, v) ==
    IF s \notin Existing(store) THEN "not found"
    ELSE IF ~CanBeChanged(store, s, v) THEN "refused"
    ELSE "go on"

Decision(r) ==
    IF KindOf[r] = "submit"
    THEN DecideSubmission(task[r].seen, RefOf[r], SlotOf[r], task[r].grant)
    ELSE IF KindOf[r] = "create" THEN DecideCreation(task[r].seen, task[r].grant)
    ELSE DecideUpdate(task[r].seen, SlotOf[r], task[r].grant)

ConfigChanged(r) == task[r].seen.version # task[r].pinned

Unwritten == UNCHANGED <<application, latest, entitlement, claim, outbox, approvedAs>>

\* The application was rolled forward since the grant was resolved.
AbandonStaleConfig(r) ==
    /\ task[r].pc = "commit"
    /\ ConfigChanged(r)
    /\ Unlock
    /\ Set(r, IF KindOf[r] = "update" THEN Answered(r, "exhausted") ELSE RetryOrThrow(r))
    /\ Unwritten /\ UNCHANGED faults

\* Mutant: a refusal leaves its transaction open.
RefuseHoldingLock(r) ==
    /\ task[r].pc = "commit"
    /\ ~ConfigChanged(r)
    /\ Decision(r) # "go on"
    /\ UNCHANGED lock
    /\ Set(r, Answered(r, Decision(r)))
    /\ Unwritten /\ UNCHANGED faults

Refuse(r) ==
    /\ task[r].pc = "commit"
    /\ ~ConfigChanged(r)
    /\ Decision(r) # "go on"
    /\ Unlock
    /\ Set(r, Answered(r, Decision(r)))
    /\ Unwritten /\ UNCHANGED faults

GoesOn(r, kind) ==
    /\ task[r].pc = "commit"
    /\ KindOf[r] = kind
    /\ ~ConfigChanged(r)
    /\ Decision(r) = "go on"

\* The commit succeeds and is answered, or its reply is lost.
Committed(r, result) ==
    /\ Unlock
    /\ \/ /\ Set(r, Answered(r, result))
          /\ UNCHANGED faults
       \/ /\ faults < MaxFaults
          /\ faults' = faults + 1
          /\ Set(r, Answered(r, "error"))

NewClaim(r) ==
    [by |-> r, slot |-> SlotOf[r], grant |-> task[r].grant, pinned |-> task[r].pinned,
     nth |-> CountByEntitlement(Current, SlotOf[r]) + 1, data |-> entitlement[SlotOf[r]]]

\* transitionOnFinalClaim.
Approves(r) ==
    /\ ~RequiresApproval[task[r].grant]
    /\ ApprovesFrom(task[r].seen.position)
    /\ IsFinalClaim(task[r].seen, SlotOf[r], task[r].grant)

\* The transaction is rolled back.
RolledBack(r, next) ==
    /\ Unlock
    /\ Set(r, next)
    /\ Unwritten /\ UNCHANGED faults

\* The claim, the command for its case, the approval of the application and the
\* payment request, in one commit.
WriteClaim(r) ==
    /\ claim' = [claim EXCEPT ![RefOf[r]] = NewClaim(r)]
    /\ outbox' = [outbox EXCEPT ![RefOf[r]] =
                     [case |-> @.case + 1,
                      payment |-> @.payment + (IF task[r].pays THEN 1 ELSE 0)]]
    /\ IF Approves(r)
       THEN /\ application' = [application EXCEPT !.position = "approved"]
            /\ approvedAs' = task[r].grant
       ELSE UNCHANGED <<application, approvedAs>>
    /\ Committed(r, "created")
    /\ UNCHANGED <<latest, entitlement>>

\* The unique indexes are a second guard behind the lock: a claim of the same
\* clientClaimRef that came between is a replay, a taken slot is retried.
CommitClaim(r) ==
    /\ GoesOn(r, "submit")
    /\ IF claim[RefOf[r]] = None THEN WriteClaim(r)
                                 ELSE RolledBack(r, Answered(r, "replayed"))

WriteEntitlement(r, s) ==
    /\ entitlement' = [entitlement EXCEPT ![s] = 0]
    /\ Committed(r, "created")
    /\ UNCHANGED <<application, latest, claim, outbox, approvedAs>>

CommitEntitlement(r) ==
    LET s == NextInstanceNumber(task[r].seen) IN
    /\ GoesOn(r, "create")
    /\ IF entitlement[s] = None THEN WriteEntitlement(r, s)
                                ELSE RolledBack(r, RetryOrThrow(r))

CommitUpdate(r) ==
    /\ GoesOn(r, "update")
    /\ entitlement' = [entitlement EXCEPT ![SlotOf[r]] = @ + 1]
    /\ Committed(r, "updated")
    /\ UNCHANGED <<application, latest, claim, outbox, approvedAs>>

\* The transaction or the process fails; an open transaction is rolled back.
Abort(r) ==
    /\ task[r].pc = "commit"
    /\ faults < MaxFaults
    /\ faults' = faults + 1
    /\ Unlock
    /\ Set(r, Answered(r, "error"))
    /\ Unwritten

-----------------------------------------------------------------------------
(***************************************************************************)
(* The rest of the system                                                  *)
(***************************************************************************)
\* A release of the grant reaches this service.
Publish ==
    /\ latest < Latest
    /\ latest' = latest + 1
    /\ UNCHANGED <<application, lock, entitlement, claim, outbox, approvedAs, task, faults>>

\* persistResolvedVersion, by a status event that rolls the application forward.
RollForward ==
    /\ lock = None
    /\ application.version < latest
    /\ application' = [application EXCEPT !.version = latest]
    /\ UNCHANGED <<lock, latest, entitlement, claim, outbox, approvedAs, task, faults>>

\* A status event of Caseworking moves the application.
MoveExternally ==
    /\ lock = None
    /\ application.position = "claiming"
    /\ application' = [application EXCEPT !.position = "withdrawn"]
    /\ UNCHANGED <<lock, latest, entitlement, claim, outbox, approvedAs, task, faults>>

RequestStep(r) ==
    \/ CheckReplay(r) \/ ReadApplication(r) \/ ResolveGrant(r) \/ LockForUpdate(r)
    \/ AbandonStaleConfig(r) \/ Refuse(r)
    \/ CommitClaim(r) \/ CommitEntitlement(r) \/ CommitUpdate(r)

Next ==
    \/ \E r \in Requests : RequestStep(r) \/ Abort(r)
    \/ Publish \/ RollForward \/ MoveExternally

Spec == Init /\ [][Next]_vars

\* A request runs until it answers.
FairSpec == Spec /\ \A r \in Requests : WF_vars(RequestStep(r))

-----------------------------------------------------------------------------
(***************************************************************************)
(* Properties                                                              *)
(***************************************************************************)
TypeOK ==
    /\ application \in [position : Positions, version : Versions]
    /\ lock \in Requests \cup {None}
    /\ latest \in Versions
    /\ entitlement \in [Slots -> Nat \cup {None}]
    /\ claim \in [Refs -> Claim \cup {None}]
    /\ outbox \in [Refs -> [case : Nat, payment : Nat]]
    /\ approvedAs \in Versions \cup {None}
    /\ task \in [Requests -> Task]
    /\ faults \in 0..MaxFaults

\* No entitlement takes more claims than the grant its submission resolved
\* allows, however many submissions run at once.
ClaimsWithinLimit == \A f \in Refs : claim[f] # None =>
                         claim[f].nth <= MaximumClaims[claim[f].grant]

\* "A Claim cannot land between this count and the write": once a claim is made
\* against an entitlement its data never changes.
ClaimedStaysAsClaimed == \A f \in Refs : claim[f] # None =>
                             entitlement[claim[f].slot] = claim[f].data

\* The application is approved only when no entitlement has room for a claim,
\* and none is created or claimed after that.
ApprovedIsComplete ==
    application.position = "approved" =>
        \A s \in Existing(Current) :
            CountByEntitlement(Current, s) >= MaximumClaims[approvedAs]

\* Events and claims agree: one command for the case of each claim, one payment
\* request for each claim that pays on submission under the configuration its
\* application was pinned to, and none without its claim.
EventsMatchClaims ==
    \A f \in Refs :
        /\ outbox[f].case = (IF claim[f] # None THEN 1 ELSE 0)
        /\ outbox[f].payment =
              (IF claim[f] = None THEN 0
               ELSE IF HasPayment[claim[f].pinned] /\ ~RequiresApproval[claim[f].grant]
                    THEN 1 ELSE 0)

\* An application never has more entitlements than some published version of
\* the grant allows, and their instance numbers have no gap.
EntitlementsWithinLimit ==
    /\ \E v \in 1..latest : Cardinality(Existing(Current)) <= MaxEntitlements[v]
    /\ \A s, t \in Slots : s < t /\ t \in Existing(Current) => s \in Existing(Current)

\* However many submissions, creations and updates run at once, and whatever
\* version of the grant each resolved: no limit is passed, and the claim that
\* moves the application is the last it has room for.
LimitsHold == ClaimsWithinLimit /\ EntitlementsWithinLimit /\ ApprovedIsComplete

\* A claim that is sent again is answered as a replay and never refused as one
\* claim too many, even when the first submission commits between the checks.
ReplaysAreNotRefused ==
    [][\A r \in Requests :
          /\ KindOf[r] = "submit"
          /\ task[r].result = "none"
          /\ task'[r].result \in {"refused", "full"}
          => claim[RefOf[r]] = None]_vars

\* Every request is answered, after one retry at most.
EveryRequestIsAnswered == <>(\A r \in Requests : task[r].pc = "done")
=============================================================================
