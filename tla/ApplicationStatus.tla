-------------------------- MODULE ApplicationStatus --------------------------
(***************************************************************************)
(* One application between Caseworking (CW) and Agreements (AS).           *)
(*                                                                         *)
(* Status events of both arrive in the inbox of the application, where a   *)
(* handler maps each to a position of the grant's lifecycle and moves the  *)
(* application there, with the status events, the updates for CW, the      *)
(* commands for Agreements and the entry of the agreement on the           *)
(* application, all in one transaction.  The handler reads the application *)
(* before the transaction and writes the whole document in it.  The final  *)
(* claim moves the application too, from a request of its own.             *)
(*                                                                         *)
(* The grant's lifecycle is a parameter: Statuses, Mappings, Transitions   *)
(* and ClaimApproval are what the grant definition holds.  The claims      *)
(* themselves are in Claims, the boxes in EventBox and InboxIntake.        *)
(***************************************************************************)
EXTENDS Integers, Sequences, SequencesExt, FiniteSets

CONSTANTS
    Statuses,       \* positions: [stage, status] (the phase is part of stage)
    Mappings,       \* externalStatusMap: [stage, source, code, to], to None if unreadable
    Transitions,    \* validFrom: [from, to, processes]
    ClaimApproval,  \* claims.onClaimApproval: [from, to], or None
    OfferShownAt,   \* positions at which the applicant is shown the offer
    Starts,         \* [position, states]: where the application and its agreement begin
    Handlers,       \* handlers at work on this application's inbox
    Latest,         \* versions 1..Latest of the grant, in one major
    MaxAttempts,    \* inbox attempts before an event is dead
    MaxRequests,    \* bound: events CW sends
    MaxFaults,      \* bound: unexpected throws, lost marks, duplicates
    None

Versions == 1..Latest

AgreementStates == {"offered", "accepted", "withdrawn", "cancelled", "terminated"}

Processes == {"GENERATE_OFFER", "STORE_AGREEMENT_CASE", "ACCEPT_AGREEMENT",
              "CANCEL_AGREEMENT", "WITHDRAW_AGREEMENT", "APPLY_AGREEMENT_TERMINATION",
              "REQUEST_APPLICATION_WITHDRAWAL", "REQUEST_AGREEMENT_CANCELLATION",
              "REQUEST_AGREEMENT_TERMINATION"}

\* withdraw sets the status whatever the grant says of the stage.
Withdrawn(position) == [position EXCEPT !.status = "APPLICATION_WITHDRAWN"]

Positions == Statuses \cup {Withdrawn(p) : p \in Statuses}

Document == [position : Positions, history : Seq(AgreementStates), version : Versions]

ASSUME StatusAssumption ==
    /\ \A p \in Statuses : p = [stage |-> p.stage, status |-> p.status]
    /\ \A m \in Mappings : /\ m.source \in {"CW", "AS"}
                           /\ m.to \in Statuses \cup {None}
    /\ \A t \in Transitions : /\ {t.from, t.to} \subseteq Statuses
                              /\ t.processes \in Seq(Processes)
    /\ OfferShownAt \subseteq Statuses
    /\ ClaimApproval # None =>
           \E t \in Transitions : t.from = ClaimApproval.from /\ t.to = ClaimApproval.to
    /\ \A s \in Starts : s.position \in Statuses /\ s.states \in Seq(AgreementStates)
    /\ Latest \in Nat \ {0} /\ MaxAttempts \in Nat \ {0}
    /\ MaxRequests \in Nat /\ MaxFaults \in Nat
    /\ None \notin Handlers /\ None \notin Statuses /\ None \notin AgreementStates
    /\ None \notin Document

VARIABLES
    application,  \* the document: position, history of its agreement, version
    inbox,        \* its events in order of arrival
    dead,         \* events that are dead
    task,         \* per handler: what it has read, and where it is
    commands,     \* outbox: commands for Agreements
    subscriber,   \* what a subscriber to the status events has put together
    caseworking,  \* the agreement status CW was told last
    agreement,    \* Agreements: the states the agreement has been in
    latest,       \* the latest version published
    requests,     \* bounded counter
    faults        \* bounded counter

vars == <<application, inbox, dead, task, commands, subscriber, caseworking, agreement,
          latest, requests, faults>>

Codes == {m.code : m \in Mappings} \cup AgreementStates

Event == [source : {"CW", "AS"}, code : Codes, failed : BOOLEAN,
          by : Handlers \cup {None}, attempts : 0..(MaxAttempts - 1)]

Command == {"create"} \cup AgreementStates

Idle == [pc |-> "idle", seen |-> None]

TypeOK ==
    /\ application \in Document
    /\ inbox \in Seq(Event)
    /\ dead \subseteq {"CW", "AS"} \X Codes
    /\ task \in [Handlers -> [pc : {"idle", "read", "resolved", "move", "done"},
                               seen : Document \cup {None}]]
    /\ commands \in Seq(Command)
    /\ subscriber \in [position : Positions, gap : BOOLEAN]
    /\ caseworking \in AgreementStates \cup {None}
    /\ agreement \in Seq(AgreementStates)
    /\ latest \in Versions
    /\ requests \in 0..MaxRequests
    /\ faults \in 0..MaxFaults

LatestStatus(history) == IF history = <<>> THEN None ELSE history[Len(history)]

Init ==
    \E s \in Starts :
        /\ application = [position |-> s.position, history |-> s.states, version |-> 1]
        /\ inbox = <<>>
        /\ dead = {}
        /\ task = [h \in Handlers |-> Idle]
        /\ commands = <<>>
        /\ subscriber = [position |-> s.position, gap |-> FALSE]
        /\ caseworking = LatestStatus(s.states)
        /\ agreement = s.states
        /\ latest = 1
        /\ requests = 0
        /\ faults = 0

-----------------------------------------------------------------------------
(***************************************************************************)
(* The lifecycle of the grant                                              *)
(***************************************************************************)
FindExternalStatusMapping(position, e) ==
    {m \in Mappings : m.stage = position.stage /\ m.source = e.source /\ m.code = e.code}

IsValidTransition(from, to) == {t \in Transitions : t.from = from /\ t.to = to}

ProcessesOf(from, to) == (CHOOSE t \in IsValidTransition(from, to) : TRUE).processes

-----------------------------------------------------------------------------
(***************************************************************************)
(* What the transaction of a transition writes.  A draft holds the         *)
(* document as the session sees it, the commands and the events to         *)
(* publish; ok is FALSE once a process has thrown.                         *)
(***************************************************************************)
\* Mutant: the position left is read once the application has been moved.
DraftOfMoved(document, position) ==
    [document  |-> [document EXCEPT !.position = position],
     commands  |-> <<>>,
     published |-> <<[previous |-> position, current |-> position]>>,
     case      |-> None,
     ok        |-> TRUE]

Draft(document, position) ==
    [document  |-> [document EXCEPT !.position = position],
     commands  |-> <<>>,
     published |-> <<[previous |-> document.position, current |-> position]>>,
     case      |-> None,
     ok        |-> TRUE]

Thrown(d) == [d EXCEPT !.ok = FALSE]

Commanded(d, command) == [d EXCEPT !.commands = Append(@, command)]

\* The status is pushed on the agreement's history and sent to CW.
Recorded(d, status) == [d EXCEPT !.document.history = Append(@, status), !.case = status]

AddAgreement(d) == IF d.document.history = <<>> THEN Recorded(d, "offered") ELSE Thrown(d)

\* These ask only that the agreement is there, not what state it is in.
RecordOnAgreement(d, status) ==
    IF d.document.history = <<>> THEN Thrown(d) ELSE Recorded(d, status)

AcceptAgreement(d) == RecordOnAgreement(d, "accepted")
CancelAgreement(d) == RecordOnAgreement(d, "cancelled")
WithdrawAgreement(d) == RecordOnAgreement(d, "withdrawn")
ApplyAgreementTermination(d) == RecordOnAgreement(d, "terminated")

CreateAgreementCommand(d) == Commanded(d, "create")

GetActiveAgreement(d) == LatestStatus(d.document.history) = "offered"
GetAcceptedAgreement(d) == LatestStatus(d.document.history) = "accepted"

\* Mutant: the withdrawal is written and not published.
WithdrawQuietly(d) ==
    IF GetActiveAgreement(d)
    THEN Commanded(d, "withdrawn")
    ELSE [d EXCEPT !.document.position = Withdrawn(@)]

WithdrawApplication(d) ==
    IF GetActiveAgreement(d)
    THEN Commanded(d, "withdrawn")
    ELSE LET from == d.document.position
             to   == Withdrawn(from)
         IN  [d EXCEPT !.document.position = to,
                       !.published = Append(@, [previous |-> from, current |-> to])]

RequestAgreementCancellation(d) ==
    IF GetActiveAgreement(d) THEN Commanded(d, "cancelled") ELSE d

RequestAgreementTermination(d) ==
    IF GetAcceptedAgreement(d) THEN Commanded(d, "terminated") ELSE d

GrantProcess(d, process) ==
    CASE process = "GENERATE_OFFER" -> CreateAgreementCommand(d)
      [] process = "STORE_AGREEMENT_CASE" -> AddAgreement(d)
      [] process = "ACCEPT_AGREEMENT" -> AcceptAgreement(d)
      [] process = "CANCEL_AGREEMENT" -> CancelAgreement(d)
      [] process = "WITHDRAW_AGREEMENT" -> WithdrawAgreement(d)
      [] process = "APPLY_AGREEMENT_TERMINATION" -> ApplyAgreementTermination(d)
      [] process = "REQUEST_APPLICATION_WITHDRAWAL" -> WithdrawApplication(d)
      [] process = "REQUEST_AGREEMENT_CANCELLATION" -> RequestAgreementCancellation(d)
      [] process = "REQUEST_AGREEMENT_TERMINATION" -> RequestAgreementTermination(d)

\* The processes run in order; the first that throws ends the transaction.
RunProcesses(draft, processes) ==
    LET run[i \in 0 .. Len(processes)] ==
          IF i = 0 THEN draft
          ELSE IF run[i - 1].ok THEN GrantProcess(run[i - 1], processes[i]) ELSE run[i - 1]
    IN  run[Len(processes)]

TransitionOf(document, to) ==
    RunProcesses(Draft(document, to), ProcessesOf(document.position, to))

\* A subscriber keeps the current status of each event, and notes when the
\* previous one is not what it had.
Received(s, events) ==
    [position |-> events[Len(events)].current,
     gap |-> s.gap \/ \E i \in DOMAIN events :
                 events[i].previous # IF i = 1 THEN s.position ELSE events[i - 1].current]

CommitDraft(d) ==
    /\ application' = d.document
    /\ commands' = commands \o d.commands
    /\ subscriber' = Received(subscriber, d.published)
    /\ caseworking' = IF d.case = None THEN caseworking ELSE d.case

-----------------------------------------------------------------------------
(***************************************************************************)
(* The handler of an inbox event                                           *)
(***************************************************************************)
Set(h, t) == task' = [task EXCEPT ![h] = t]

Claimed(h) == CHOOSE i \in DOMAIN inbox : inbox[i].by = h

Arrive(source, code) ==
    inbox' = Append(inbox, [source |-> source, code |-> code, failed |-> FALSE,
                            by |-> None, attempts |-> 0])

\* The poller claims the oldest event that is not waiting to be resubmitted.
Claim(h) ==
    /\ task[h] = Idle
    /\ \E i \in DOMAIN inbox :
          /\ inbox[i].by = None /\ ~inbox[i].failed
          /\ \A j \in 1..(i - 1) : inbox[j].by # None \/ inbox[j].failed
          /\ inbox' = [inbox EXCEPT ![i].by = h]
    /\ Set(h, [pc |-> "read", seen |-> None])
    /\ UNCHANGED <<application, dead, commands, subscriber, caseworking, agreement, latest,
                   requests, faults>>

\* findByClientRefAndCode, without the session.
ReadApplication(h) ==
    /\ task[h].pc = "read"
    /\ Set(h, [pc |-> "resolved", seen |-> application])
    /\ UNCHANGED <<application, inbox, dead, commands, subscriber, caseworking, agreement,
                   latest, requests, faults>>

\* The grant rolls forward to the latest version, which is written at once.
ResolveGrant(h) ==
    /\ task[h].pc = "resolved"
    /\ application' = IF latest # task[h].seen.version
                      THEN [application EXCEPT !.version = latest]
                      ELSE application
    /\ Set(h, [pc |-> "move", seen |-> [task[h].seen EXCEPT !.version = latest]])
    /\ UNCHANGED <<inbox, dead, commands, subscriber, caseworking, agreement, latest,
                   requests, faults>>

Returned == [pc |-> "done", seen |-> None]

\* The attempt fails: the event waits for the resubmit sweep, or is dead.
Failed(h) ==
    LET i == Claimed(h)
        e == inbox[i]
    IN  /\ Set(h, Idle)
        /\ IF e.attempts + 1 >= MaxAttempts
           THEN /\ inbox' = RemoveAt(inbox, i)
                /\ dead' = dead \cup {<<e.source, e.code>>}
           ELSE /\ inbox' = [inbox EXCEPT ![i] = [e EXCEPT !.by = None, !.failed = TRUE,
                                                           !.attempts = @ + 1]]
                /\ UNCHANGED dead

\* No mapping for the event in this stage: it is acknowledged.
Acknowledge(h) ==
    /\ task[h].pc = "move"
    /\ FindExternalStatusMapping(task[h].seen.position, inbox[Claimed(h)]) = {}
    /\ Set(h, Returned)
    /\ UNCHANGED <<application, inbox, dead, commands, subscriber, caseworking, agreement,
                   latest, requests, faults>>

Target(h) ==
    (CHOOSE m \in FindExternalStatusMapping(task[h].seen.position, inbox[Claimed(h)]) : TRUE).to

IsMapped(h) ==
    /\ task[h].pc = "move"
    /\ FindExternalStatusMapping(task[h].seen.position, inbox[Claimed(h)]) # {}

\* moveTo of the position the application is in changes nothing.
StayInPosition(h) ==
    /\ IsMapped(h)
    /\ Target(h) = task[h].seen.position
    /\ Set(h, Returned)
    /\ UNCHANGED <<application, inbox, dead, commands, subscriber, caseworking, agreement,
                   latest, requests, faults>>

\* The transaction: update writes the document as it was read, moved, and takes
\* the write lock until it ends; a process that throws leaves nothing behind.
TransitionApplication(h) ==
    /\ IsMapped(h)
    /\ Target(h) \notin {None, task[h].seen.position}
    /\ IsValidTransition(task[h].seen.position, Target(h)) # {}
    /\ LET d == TransitionOf(task[h].seen, Target(h))
       IN  IF d.ok
           THEN /\ CommitDraft(d)
                /\ Set(h, Returned)
                /\ UNCHANGED <<inbox, dead>>
           ELSE /\ Failed(h)
                /\ UNCHANGED <<application, commands, subscriber, caseworking>>
    /\ UNCHANGED <<agreement, latest, requests, faults>>

\* The mapping cannot be read, or the transition is not in the lifecycle.
UnableToProcess(h) ==
    /\ IsMapped(h)
    /\ Target(h) # task[h].seen.position
    /\ Target(h) = None \/ IsValidTransition(task[h].seen.position, Target(h)) = {}
    /\ Failed(h)
    /\ UNCHANGED <<application, commands, subscriber, caseworking, agreement, latest,
                   requests, faults>>

MarkComplete(h) ==
    /\ task[h].pc = "done"
    /\ inbox' = RemoveAt(inbox, Claimed(h))
    /\ Set(h, Idle)
    /\ UNCHANGED <<application, dead, commands, subscriber, caseworking, agreement, latest,
                   requests, faults>>

\* A call throws, or the handler dies with its claim, before or after the commit.
HandlerFails(h) ==
    /\ task[h] # Idle
    /\ faults < MaxFaults
    /\ faults' = faults + 1
    /\ Failed(h)
    /\ UNCHANGED <<application, commands, subscriber, caseworking, agreement, latest,
                   requests>>

Resubmit ==
    /\ \E i \in DOMAIN inbox : inbox[i].failed
    /\ inbox' = [i \in DOMAIN inbox |-> [inbox[i] EXCEPT !.failed = FALSE]]
    /\ UNCHANGED <<application, dead, task, commands, subscriber, caseworking, agreement,
                   latest, requests, faults>>

-----------------------------------------------------------------------------
(***************************************************************************)
(* The other writers of the application                                    *)
(***************************************************************************)
\* transitionOnFinalClaim of a claim submission, which holds the lock from its
\* read to its commit.
SubmitFinalClaim ==
    /\ ClaimApproval # None
    /\ application.position = ClaimApproval.from
    /\ LET d == TransitionOf(application, ClaimApproval.to)
       IN  d.ok /\ CommitDraft(d)
    /\ UNCHANGED <<inbox, dead, task, agreement, latest, requests, faults>>

\* The status route persists the version it resolved.
GetApplicationStatus ==
    /\ application.version # latest
    /\ application' = [application EXCEPT !.version = latest]
    /\ UNCHANGED <<inbox, dead, task, commands, subscriber, caseworking, agreement, latest,
                   requests, faults>>

PublishVersion ==
    /\ latest < Latest
    /\ latest' = latest + 1
    /\ UNCHANGED <<application, inbox, dead, task, commands, subscriber, caseworking,
                   agreement, requests, faults>>

-----------------------------------------------------------------------------
(***************************************************************************)
(* Agreements: one agreement for the application, each change of its state *)
(* in one transaction with the event that reports it.                      *)
(***************************************************************************)
Lifecycle(state) ==
    CASE state = "offered" -> {"accepted", "withdrawn", "cancelled"}
      [] state = "accepted" -> {"terminated"}
      [] OTHER -> {}

MoveAgreement(state) ==
    /\ agreement' = Append(agreement, state)
    /\ Arrive("AS", state)

\* Mutant: a status command is obeyed in any state.
ObeyCommand ==
    /\ commands # <<>>
    /\ commands' = Tail(commands)
    /\ IF \/ Head(commands) = "create" /\ agreement = <<>>
          \/ Head(commands) # "create" /\ agreement # <<>>
       THEN MoveAgreement(IF Head(commands) = "create" THEN "offered" ELSE Head(commands))
       ELSE UNCHANGED <<agreement, inbox>>
    /\ UNCHANGED <<application, dead, task, subscriber, caseworking, latest, requests,
                   faults>>

\* Mutant: a status that cannot follow is reported like one that can.
AnswerCommand ==
    /\ commands # <<>>
    /\ commands' = Tail(commands)
    /\ IF \/ Head(commands) = "create" /\ agreement = <<>>
          \/ Head(commands) \in Lifecycle(LatestStatus(agreement))
       THEN MoveAgreement(IF Head(commands) = "create" THEN "offered" ELSE Head(commands))
       ELSE /\ UNCHANGED agreement
            /\ IF Head(commands) = "create" THEN UNCHANGED inbox
               ELSE Arrive("AS", Head(commands))
    /\ UNCHANGED <<application, dead, task, subscriber, caseworking, latest, requests,
                   faults>>

\* An agreement that is there is returned; a status that cannot follow is logged.
HandleCommand ==
    /\ commands # <<>>
    /\ commands' = Tail(commands)
    /\ IF \/ Head(commands) = "create" /\ agreement = <<>>
          \/ Head(commands) \in Lifecycle(LatestStatus(agreement))
       THEN MoveAgreement(IF Head(commands) = "create" THEN "offered" ELSE Head(commands))
       ELSE UNCHANGED <<agreement, inbox>>
    /\ UNCHANGED <<application, dead, task, subscriber, caseworking, latest, requests,
                   faults>>

\* The applicant accepts the offer on its page.
AcceptOffer ==
    /\ LatestStatus(agreement) = "offered"
    /\ application.position \in OfferShownAt
    /\ MoveAgreement("accepted")
    /\ UNCHANGED <<application, dead, task, commands, subscriber, caseworking, latest,
                   requests, faults>>

\* CW reports a status that means something in the stage the application is in.
CaseStatusUpdated ==
    /\ requests < MaxRequests
    /\ requests' = requests + 1
    /\ \E m \in Mappings :
          /\ m.source = "CW" /\ m.stage = application.position.stage
          /\ Arrive("CW", m.code)
    /\ UNCHANGED <<application, dead, task, commands, subscriber, caseworking, agreement,
                   latest, faults>>

\* An event is stored a second time (InboxIntake).
Duplicate ==
    /\ faults < MaxFaults
    /\ faults' = faults + 1
    /\ \E i \in DOMAIN inbox : Arrive(inbox[i].source, inbox[i].code)
    /\ UNCHANGED <<application, dead, task, commands, subscriber, caseworking, agreement,
                   latest, requests>>

-----------------------------------------------------------------------------
\* applyExternalStateChange
ApplyExternalStateChange(h) ==
    \/ ReadApplication(h) \/ ResolveGrant(h) \/ Acknowledge(h) \/ StayInPosition(h)
    \/ TransitionApplication(h) \/ UnableToProcess(h)

Handle(h) == Claim(h) \/ ApplyExternalStateChange(h) \/ MarkComplete(h)

Next ==
    \/ \E h \in Handlers : Handle(h) \/ HandlerFails(h)
    \/ Resubmit
    \/ SubmitFinalClaim \/ GetApplicationStatus \/ PublishVersion
    \/ HandleCommand \/ AcceptOffer \/ CaseStatusUpdated \/ Duplicate

Spec == Init /\ [][Next]_vars

\* The pollers and their sweeps run for ever.
Fairness ==
    /\ \A h \in Handlers : WF_vars(Handle(h))
    /\ WF_vars(Resubmit)
    /\ WF_vars(HandleCommand)

FairSpec == Spec /\ Fairness

-----------------------------------------------------------------------------
\* A move along the grant's lifecycle, or the withdrawal that ends a requested one.
ValidMove(from, to) ==
    \/ to = from
    \/ \E t \in Transitions :
          /\ t.from = from
          /\ \/ t.to = to
             \/ /\ "REQUEST_APPLICATION_WITHDRAWAL" \in Range(t.processes)
                /\ to = Withdrawn(t.to)

\* Some handler holds a copy of an application that has been moved since.
StaleRead ==
    \E h \in Handlers :
        task[h].seen # None /\ task[h].seen.position # application.position

\* Every move of the application is a transition of its grant's lifecycle from
\* the position it is in (apply-event-status-change.service.js: "Validates
\* state transitions according to grant configuration").
MovesAreValid == [][ValidMove(application.position, application'.position)]_vars

\* As long as no handler holds an overtaken copy, every move is valid and its
\* event names the position the subscriber had before: retries, repeats and
\* the processes of applyExternalStateChange never break the chain.
MovesAreChained ==
    [][~StaleRead => /\ ValidMove(application.position, application'.position)
                     /\ subscriber'.gap = subscriber.gap]_vars

\* Who follows the status events has the application where it is, and CW has
\* the agreement as the application has it, even when a stale copy was written
\* back: transitionApplicationUseCase publishes in the transaction that writes.
ToldWhatIsStored ==
    /\ subscriber.position = application.position
    /\ caseworking = LatestStatus(application.history)

\* The history of the agreement on the application is the beginning of the
\* agreement's own: redelivered, repeated, late and overtaken status events
\* never enter a state twice, out of order, or one it was not in.
HistoryFollows == IsPrefix(application.history, agreement)

\* An application that is withdrawn has no agreement that is on offer or in
\* force (withdrawApplicationUseCase: with an offer open, Agreements is asked
\* first and the application is withdrawn by its answer).
WithdrawnHasNoLiveAgreement ==
    application.position.status = "APPLICATION_WITHDRAWN" =>
        LatestStatus(agreement) \notin {"offered", "accepted"}

\* The application comes to hold the agreement in the state it is in, unless
\* an event of Agreements is dead for an operator to see: whatever CW asks for
\* while the applicant accepts, the handlers settle. An event that is retried
\* after a fault may be overtaken and its move is then lost.
AgreementSettles ==
    []<>(\/ application.history = agreement \/ faults > 0
         \/ \E c \in Codes : <<"AS", c>> \in dead)

-----------------------------------------------------------------------------
(***************************************************************************)
(* What the theorems about the agreement ask of a grant's lifecycle.       *)
(* Held[position] are the histories the agreement may have on an           *)
(* application in this position, Fresh the positions without an agreement, *)
(* before one is asked for.  Every clause is about one transition of the   *)
(* lifecycle, so that TLC evaluates it for a given grant.                  *)
(***************************************************************************)
Over == {"withdrawn", "cancelled", "terminated"}

\* The states of an agreement, each after the one before.
IsCourse(states) ==
    \A i \in DOMAIN states :
        states[i] \in IF i = 1 THEN {"offered"} ELSE Lifecycle(states[i - 1])

StartsLawful(Held, Fresh) ==
    \A s \in Starts : /\ s.states \in Held[s.position]
                      /\ s.position \in Fresh => s.states = <<>>

HeldLawful(Held, Fresh) ==
    /\ \A p \in Positions : Held[p] \subseteq Seq(AgreementStates)
    /\ \A p \in Positions : \A history \in Held[p] : IsCourse(history)
    /\ \A p \in Positions \ Fresh : p.status = "APPLICATION_WITHDRAWN" =>
           \A history \in Held[p] : LatestStatus(history) \in Over

\* The transaction leaves one of these histories, and the position only fresh
\* if it was and no agreement is asked for.
Lands(Held, Fresh, document, to, histories) ==
    LET d == TransitionOf(document, to)
    IN  IsValidTransition(document.position, to) # {} /\ d.ok =>
            /\ d.document.history \in histories \cap Held[d.document.position]
            /\ d.document.position \in Fresh =>
                   document.position \in Fresh /\ "create" \notin Range(d.commands)

\* An event of Agreements enters its state in the history or nothing; an event
\* of CW and the final claim enter nothing.
MovesLawful(Held, Fresh) ==
    \A p \in Positions, version \in Versions : \A history \in Held[p] :
        LET document == [position |-> p, history |-> history, version |-> version]
        IN  /\ \A m \in Mappings :
                  m.stage = p.stage /\ m.to \notin {None, p} =>
                      Lands(Held, Fresh, document, m.to,
                            IF m.source = "AS" THEN {history, Append(history, m.code)}
                            ELSE {history})
            /\ ClaimApproval # None /\ p = ClaimApproval.from =>
                  Lands(Held, Fresh, document, ClaimApproval.to, {history})

Lawful(Held, Fresh) ==
    /\ StartsLawful(Held, Fresh)
    /\ HeldLawful(Held, Fresh)
    /\ MovesLawful(Held, Fresh)
    /\ ClaimApproval # None => ClaimApproval.from \notin Fresh

\* The processes that enter a state in the history of the agreement.
Recording == {"STORE_AGREEMENT_CASE", "ACCEPT_AGREEMENT", "CANCEL_AGREEMENT",
              "WITHDRAW_AGREEMENT", "APPLY_AGREEMENT_TERMINATION"}

FinalClaimRecordsNothing ==
    ClaimApproval # None =>
        \A t \in IsValidTransition(ClaimApproval.from, ClaimApproval.to) :
            Range(t.processes) \cap Recording = {}
=============================================================================
