-------------------------- MODULE AgreementActions --------------------------
(***************************************************************************)
(* One agreement and the requests that act on it: actions an applicant     *)
(* posts with the ETag of the page it was shown and an idempotency key,    *)
(* and status commands that the outbox poller delivers at least once, with *)
(* their id as the key.                                                    *)
(*                                                                         *)
(* A request reads the agreement first and commits later: the transaction  *)
(* replaces the agreement if it still has the version that was read,       *)
(* stores the new version under its key, and writes the lifecycle event,   *)
(* the payment request and the audit row.                                  *)
(***************************************************************************)
EXTENDS Integers, Sequences

CONSTANTS
    Requests,
    IsCommand,     \* [Requests -> BOOLEAN]: a status command, not a posted action
    ActionOf,      \* a posted action's name, a command's target status
    Keys,          \* idempotency keys
    KeyOf,
    States,        \* of the lifecycle
    Initial,       \* create.target
    Actions,       \* names of actions
    On,            \* lifecycle of each version: [state, action, target]
    Pays,          \* actions with a create-agreement-payment operation
    Latest,        \* versions 1..Latest of the definition, in one major
    MaxFaults,     \* bound: calls that throw and commands delivered again
    None

Versions == 1..Latest

ASSUME ActionsAssumption ==
    /\ IsCommand \in [Requests -> BOOLEAN]
    /\ KeyOf \in [Requests -> Keys]
    /\ \A r \in Requests : ActionOf[r] \in (IF IsCommand[r] THEN States ELSE Actions)
    /\ Initial \in States
    /\ On \in [Versions -> SUBSET [state : States, action : Actions, target : States]]
    /\ Pays \subseteq Actions
    /\ Latest \in Nat \ {0}
    /\ MaxFaults \in Nat
    /\ None \notin Keys \cup Requests \cup Actions

\* An action has one target (states[s].on is an object keyed by action); the
\* definition that gives one target to two actions of a state, which no command
\* can then choose, is left out.
ASSUME LifecycleAssumption ==
    \A v \in Versions : \A t, u \in On[v] :
        t.state = u.state => (t.action = u.action <=> t.target = u.target)

VARIABLES
    agreement,  \* the current document: state, version, config, accepted
    versions,   \* agreements__versions: version n is versions[n]
    events,     \* outbox: the versions a lifecycle event was written for
    payments,   \* outbox: the versions a payment was requested for
    audits,     \* per request: outcomes an audit row was written for
    latest,     \* the latest version of the definition
    task,       \* what each request has read, and where it is
    faults      \* bounded counter

vars == <<agreement, versions, events, payments, audits, latest, task, faults>>

\* accepted is TRUE once acceptedAt is set.
Agreement == [state : States, version : Nat \ {0}, config : Versions, accepted : BOOLEAN]

\* by, from and under are history: the request that made the version, the
\* version it had read and the definition it ran under.
Version == [state : States, action : Actions \cup {None}, key : Keys \cup {None},
            config : Versions, by : Requests \cup {None}, from : Nat,
            under : Versions]

ETag == [version : Nat, config : Versions]

NoTag == [version |-> 0, config |-> 1]

Results == {"none", "ok", "key used", "stale", "conflict", "invalid", "rejected", "error"}

Task == [pc : {"shown", "start", "load", "find", "attempt", "commit", "resolve", "done"},
         etag : ETag, seen : Agreement \cup {None}, action : Actions \cup {None},
         config : Versions, result : Results]

Init ==
    /\ agreement = [state |-> Initial, version |-> 1, config |-> 1,
                    accepted |-> Initial = "accepted"]
    /\ versions = <<[state |-> Initial, action |-> None, key |-> None, config |-> 1,
                     by |-> None, from |-> 0, under |-> 1]>>
    /\ events = <<1>>
    /\ payments = <<>>
    /\ audits = [r \in Requests |-> {}]
    /\ latest = 1
    /\ task = [r \in Requests |->
                  [pc |-> IF IsCommand[r] THEN "start" ELSE "shown", etag |-> NoTag,
                   seen |-> None, action |-> None, config |-> 1, result |-> "none"]]
    /\ faults = 0

-----------------------------------------------------------------------------
\* acceptedAt pins the definition, else the latest of the major is used.
LoadDefinition(a) == IF a.accepted THEN a.config ELSE latest

ToEtag(a, config) == [version |-> a.version, config |-> config]

ResolveAction(config, state, action) ==
    {t \in On[config] : t.state = state /\ t.action = action}

ResolveActionForTarget(config, state, target) ==
    {t \in On[config] : t.state = state /\ t.target = target}

\* findVersionByIdempotencyKey
Completed(key) == {n \in DOMAIN versions : versions[n].key = key}

\* A key found with another action is refused; a command takes it as done.
FindCompleted(r, action) ==
    IF Completed(KeyOf[r]) = {} THEN "none"
    ELSE IF \E n \in Completed(KeyOf[r]) : versions[n].action = action THEN "ok"
    ELSE "key used"

-----------------------------------------------------------------------------
At(r, pc) == [pc |-> pc, etag |-> task[r].etag, seen |-> task[r].seen,
              action |-> task[r].action, config |-> task[r].config, result |-> "none"]

Ended(r, result) == [pc |-> "done", etag |-> task[r].etag, seen |-> None,
                     action |-> None, config |-> 1, result |-> result]

Set(r, t) == task' = [task EXCEPT ![r] = t]

Audit(r, outcome) == audits' = [audits EXCEPT ![r] = @ \cup {outcome}]

\* The request fails with an audit row, written outside any transaction.
Refuse(r, result) ==
    /\ Set(r, Ended(r, result))
    /\ Audit(r, "failure")
    /\ UNCHANGED <<agreement, versions, events, payments, latest, faults>>

Delivered(r) == [pc |-> "start", etag |-> task[r].etag, seen |-> None, action |-> None,
                 config |-> 1, result |-> "none"]

\* An error that is not a refusal: an action is answered, a command comes back.
Thrown(r, result) == IF IsCommand[r] THEN Delivered(r) ELSE Ended(r, result)

\* A page is shown with its tag: the current one, or the action's own.
Show(r) ==
    /\ task[r].pc = "shown"
    /\ Set(r, [pc |-> "start", etag |-> ToEtag(agreement, LoadDefinition(agreement)),
               seen |-> None, action |-> None, config |-> 1, result |-> "none"])
    /\ UNCHANGED <<agreement, versions, events, payments, audits, latest, faults>>

\* An action loads the agreement and then looks for its key.
LoadForAction(r) ==
    /\ task[r].pc = "start" /\ ~IsCommand[r]
    /\ Set(r, [pc |-> "find", etag |-> task[r].etag, seen |-> agreement,
               action |-> ActionOf[r], config |-> 1, result |-> "none"])
    /\ UNCHANGED <<agreement, versions, events, payments, audits, latest, faults>>

FindCompletedAction(r) ==
    /\ task[r].pc = "find"
    /\ Set(r, IF FindCompleted(r, ActionOf[r]) = "none" THEN At(r, "attempt")
              ELSE Ended(r, FindCompleted(r, ActionOf[r])))
    /\ UNCHANGED <<agreement, versions, events, payments, audits, latest, faults>>

\* Mutant: the tag is not compared.
AttemptUnseen(r) ==
    /\ task[r].pc = "attempt" /\ ~IsCommand[r]
    /\ LET config == LoadDefinition(task[r].seen)
           found  == ResolveAction(config, task[r].seen.state, ActionOf[r])
       IN  \/ found = {} /\ Refuse(r, "conflict")
           \/ /\ found # {}
              /\ Set(r, [pc |-> "commit", etag |-> task[r].etag, seen |-> task[r].seen,
                         action |-> ActionOf[r], config |-> config, result |-> "none"])
              /\ UNCHANGED <<agreement, versions, events, payments, audits, latest, faults>>

\* The tag first, the lifecycle second, then the values posted.
AttemptAction(r) ==
    /\ task[r].pc = "attempt" /\ ~IsCommand[r]
    /\ LET config == LoadDefinition(task[r].seen)
           fresh  == task[r].etag = ToEtag(task[r].seen, config)
           found  == ResolveAction(config, task[r].seen.state, ActionOf[r])
       IN  \/ ~fresh /\ Refuse(r, "stale")
           \/ fresh /\ found = {} /\ Refuse(r, "conflict")
           \/ fresh /\ found # {} /\ Refuse(r, "invalid")
           \/ /\ fresh /\ found # {}
              /\ Set(r, [pc |-> "commit", etag |-> task[r].etag, seen |-> task[r].seen,
                         action |-> ActionOf[r], config |-> config, result |-> "none"])
              /\ UNCHANGED <<agreement, versions, events, payments, audits, latest, faults>>

\* A command looks for its key and then loads the agreement.
FindCompletedCommand(r) ==
    /\ task[r].pc = "start" /\ IsCommand[r]
    /\ Set(r, IF Completed(KeyOf[r]) = {} THEN At(r, "load") ELSE Ended(r, "ok"))
    /\ UNCHANGED <<agreement, versions, events, payments, audits, latest, faults>>

LoadForCommand(r) ==
    /\ task[r].pc = "load"
    /\ Set(r, [pc |-> "attempt", etag |-> task[r].etag, seen |-> agreement,
               action |-> None, config |-> LoadDefinition(agreement), result |-> "none"])
    /\ UNCHANGED <<agreement, versions, events, payments, audits, latest, faults>>

\* A status that no action leads to is logged and the command is done.
AttemptCommand(r) ==
    /\ task[r].pc = "attempt" /\ IsCommand[r]
    /\ LET found == ResolveActionForTarget(task[r].config, task[r].seen.state,
                                             ActionOf[r])
       IN  \/ found = {} /\ Refuse(r, "rejected")
           \/ \E t \in found :
                 /\ Set(r, [pc |-> "commit", etag |-> task[r].etag, seen |-> task[r].seen,
                            action |-> t.action, config |-> task[r].config,
                            result |-> "none"])
                 /\ UNCHANGED <<agreement, versions, events, payments, audits, latest,
                                faults>>

TargetOf(r) ==
    (CHOOSE t \in ResolveAction(task[r].config, task[r].seen.state, task[r].action) : TRUE).target

\* Acceptance, and it alone, stores the definition it ran under.
ConfigOf(r) == IF TargetOf(r) = "accepted" THEN task[r].config ELSE task[r].seen.config

\* transition: the next version of what was read.
Transition(r) ==
    [state |-> TargetOf(r), version |-> task[r].seen.version + 1, config |-> ConfigOf(r),
     accepted |-> task[r].seen.accepted \/ TargetOf(r) = "accepted"]

\* The version document of commitActionTransaction.
NewVersion(r, key) ==
    [state |-> TargetOf(r), action |-> task[r].action, key |-> key,
     config |-> ConfigOf(r), by |-> r, from |-> task[r].seen.version,
     under |-> task[r].config]

Reported(r) == IF TargetOf(r) # task[r].seen.state
               THEN Append(events, task[r].seen.version + 1)
               ELSE events

PaymentRequested(r) == IF task[r].action \in Pays
                       THEN Append(payments, task[r].seen.version + 1)
                       ELSE payments

\* The writes of commitActionTransaction.
Write(r) ==
    /\ agreement' = Transition(r)
    /\ versions' = Append(versions, NewVersion(r, KeyOf[r]))
    /\ events' = Reported(r)
    /\ payments' = PaymentRequested(r)

\* Mutant: the version read is not the one that must be there.
MatchesAny(r) == TRUE

\* replaceCurrentAgreement: the version is still the one that was read.
ReplacesCurrent(r) == agreement.version = task[r].seen.version

\* The unique index on the agreement and the key.
InsertsVersion(r) == Completed(KeyOf[r]) = {}

FindCompletedInSession(r) == FindCompleted(r, task[r].action)

Commit(r) ==
    /\ task[r].pc = "commit"
    /\ FindCompletedInSession(r) = "none"
    /\ ReplacesCurrent(r) /\ InsertsVersion(r)
    /\ Write(r)
    /\ Audit(r, "success")
    /\ Set(r, Ended(r, "ok"))
    /\ UNCHANGED <<latest, faults>>

\* The transaction finds the key: done, or refused.
CommitFindsKey(r) ==
    /\ task[r].pc = "commit"
    /\ \/ /\ FindCompletedInSession(r) = "ok"
          /\ Set(r, Ended(r, "ok"))
          /\ UNCHANGED <<agreement, versions, events, payments, audits, latest, faults>>
       \/ /\ FindCompletedInSession(r) = "key used"
          /\ Set(r, Thrown(r, "key used"))
          /\ Audit(r, "failure")
          /\ UNCHANGED <<agreement, versions, events, payments, latest, faults>>

CommitLoses(r) ==
    /\ task[r].pc = "commit"
    /\ FindCompletedInSession(r) = "none"
    /\ ~(ReplacesCurrent(r) /\ InsertsVersion(r))
    /\ Set(r, At(r, "resolve"))
    /\ UNCHANGED <<agreement, versions, events, payments, audits, latest, faults>>

\* Mutant: who lost is told it is done.
ResolveAsDone(r) ==
    /\ task[r].pc = "resolve"
    /\ Set(r, Ended(r, "ok"))
    /\ UNCHANGED <<agreement, versions, events, payments, audits, latest, faults>>

\* The winner may be this very action, posted twice.  A loss is not audited; a
\* command that lost is done.
ResolveConcurrentUpdate(r) ==
    /\ task[r].pc = "resolve"
    /\ LET found == FindCompleted(r, task[r].action)
       IN  \/ found = "none" /\ Set(r, Ended(r, IF IsCommand[r] THEN "rejected" ELSE "stale"))
              /\ UNCHANGED audits
           \/ found = "ok" /\ Set(r, Ended(r, "ok")) /\ UNCHANGED audits
           \/ found = "key used" /\ Set(r, Thrown(r, "key used")) /\ Audit(r, "failure")
    /\ UNCHANGED <<agreement, versions, events, payments, latest, faults>>

\* A call throws and nothing is stored; the attempt, not what goes before it,
\* is audited.
Throws(r) ==
    /\ task[r].pc \in {"find", "load", "attempt", "commit", "resolve"}
    /\ faults < MaxFaults
    /\ faults' = faults + 1
    /\ Set(r, Thrown(r, "error"))
    /\ IF task[r].pc \in {"find", "load"} THEN UNCHANGED audits ELSE Audit(r, "failure")
    /\ UNCHANGED <<agreement, versions, events, payments, latest>>

\* The transaction commits and its reply is lost: audited as done and as failed.
CommitReplyLost(r) ==
    /\ task[r].pc = "commit"
    /\ FindCompletedInSession(r) = "none"
    /\ ReplacesCurrent(r) /\ InsertsVersion(r)
    /\ faults < MaxFaults
    /\ faults' = faults + 1
    /\ Write(r)
    /\ audits' = [audits EXCEPT ![r] = {"success", "failure"}]
    /\ Set(r, Thrown(r, "error"))
    /\ UNCHANGED latest

\* A command is delivered again: its mark was lost.
Redeliver(r) ==
    /\ IsCommand[r] /\ task[r].pc = "done"
    /\ faults < MaxFaults
    /\ faults' = faults + 1
    /\ Set(r, Delivered(r))
    /\ UNCHANGED <<agreement, versions, events, payments, audits, latest>>

PublishDefinition ==
    /\ latest < Latest
    /\ latest' = latest + 1
    /\ UNCHANGED <<agreement, versions, events, payments, audits, task, faults>>

Step(r) ==
    \/ LoadForAction(r) \/ FindCompletedAction(r) \/ AttemptAction(r)
    \/ FindCompletedCommand(r) \/ LoadForCommand(r) \/ AttemptCommand(r)
    \/ Commit(r) \/ CommitFindsKey(r) \/ CommitLoses(r) \/ ResolveConcurrentUpdate(r)

Next ==
    \/ \E r \in Requests : Show(r) \/ Step(r) \/ Throws(r) \/ CommitReplyLost(r)
                             \/ Redeliver(r)
    \/ PublishDefinition

Spec == Init /\ [][Next]_vars

-----------------------------------------------------------------------------
TypeOK ==
    /\ agreement \in Agreement
    /\ versions \in Seq(Version)
    /\ events \in Seq(Nat)
    /\ payments \in Seq(Nat)
    /\ audits \in [Requests -> SUBSET {"success", "failure"}]
    /\ latest \in Versions
    /\ task \in [Requests -> Task]
    /\ faults \in 0..MaxFaults

\* The stored versions are one path through the lifecycle, each made by an
\* action on the version before it, and the current agreement is the last of
\* them: replaceOne and insertOne of two collections, guarded by the version
\* alone (commitActionTransaction).
HistoryIsOnePath ==
    /\ Len(versions) = agreement.version
    /\ versions[Len(versions)].state = agreement.state
    /\ versions[Len(versions)].config = agreement.config
    /\ \A n \in 2..Len(versions) :
          /\ versions[n].from = n - 1
          /\ [state |-> versions[n - 1].state, action |-> versions[n].action,
              target |-> versions[n].state] \in On[versions[n].under]

\* An idempotency key makes one version, however often it is posted, whoever
\* loses the race, and whichever reply is lost.
OneVersionPerKey ==
    \A m, n \in DOMAIN versions :
        /\ versions[m].by # None /\ versions[n].by # None
        /\ KeyOf[versions[m].by] = KeyOf[versions[n].by]
        => m = n

\* Each change of state is reported once and in order, and each paying action
\* requests one payment (createActionPublications).
PublishedAsStored ==
    /\ \A i \in 1..(Len(events) - 1) : events[i] < events[i + 1]
    /\ \A n \in DOMAIN versions :
          (n = 1 \/ versions[n].state # versions[n - 1].state)
              <=> \E i \in DOMAIN events : events[i] = n
    /\ \A i, j \in DOMAIN payments : payments[i] = payments[j] => i = j
    /\ \A n \in DOMAIN versions :
          versions[n].action \in Pays <=> \E i \in DOMAIN payments : payments[i] = n

\* Whoever wins and loses: one path of versions, one version for a key, and one
\* report for each change of state (commitActionTransaction).
VersionsAreSound == HistoryIsOnePath /\ OneVersionPerKey /\ PublishedAsStored

\* An applicant who is answered "done" has it done: under its key there is a
\* version made by its action (findCompleted, resolveConcurrentUpdate).
DoneIsDone ==
    \A r \in Requests :
        ~IsCommand[r] /\ task[r].result = "ok" =>
            \E n \in DOMAIN versions :
                versions[n].key = KeyOf[r] /\ versions[n].action = ActionOf[r]

\* An applicant's action is applied to the version, and under the definition,
\* of the page it was shown (ifMatch).
AppliedAsShown ==
    \A n \in DOMAIN versions :
        LET r == versions[n].by
        IN  r # None /\ ~IsCommand[r] =>
                task[r].etag = [version |-> n - 1, config |-> versions[n].under]

\* From acceptance on, an agreement keeps the definition it was accepted under
\* and every action on it runs under that one, whatever is released meanwhile
\* (acceptedAt, loadDefinitionForAgreement).
AcceptedIsPinned ==
    \A m \in DOMAIN versions : versions[m].state = "accepted" =>
        /\ agreement.config = versions[m].under
        /\ \A n \in m..Len(versions) : versions[n].under = versions[m].under

\* Every action runs under the definition it must: the one its page showed, and
\* from acceptance on the one of the acceptance, whatever is released meanwhile
\* (ifMatch, loadDefinitionForAgreement).
ActionsUseTheirDefinition == AppliedAsShown /\ AcceptedIsPinned
=============================================================================
