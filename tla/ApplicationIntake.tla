------------------------- MODULE ApplicationIntake -------------------------
(***************************************************************************)
(* Applications are submitted, replaced by a new version of themselves and *)
(* asked for their status. Each of these resolves the grant definition     *)
(* (GrantResolution); submitting and replacing write an application, its   *)
(* series and the events that open a case in one transaction.              *)
(*                                                                         *)
(* A transaction sees the database as of its first read. `touched` is what *)
(* others - and its own writes outside the session - have changed since:   *)
(* writing one of those documents is a write conflict, and the driver runs *)
(* the whole callback again.                                               *)
(***************************************************************************)
EXTENDS GrantResolution

CONSTANTS Refs,        \* client references
          Tasks,       \* what a client may ask for in each request
          MaxRestarts, \* bound on process restarts
          MaxEvents    \* bound on announcements of the Config Broker

(* A task submits `ref`, replaces `previous` by `ref` or asks for the      *)
(* status of `previous`; `want` is the version the client names, if any.   *)
Task == [kind : {"submit", "replace", "status"}, ref : Refs \cup {None},
         previous : Refs \cup {None}, want : Versions \cup {None}]

(* A position of the lifecycle at which grant.amendablePositions allows a  *)
(* replacement, or one at which it does not.                               *)
Positions == {"received", "decided"}

AmendablePositions == {"received"}

Application == [originalConfigVersion : Versions, currentConfigVersion : Versions,
                position : Positions, refs : SUBSET Refs]

ASSUME IntakeAssumption ==
    /\ None \notin Refs /\ None \notin Application
    /\ \A r \in Requests : Tasks[r] \subseteq Task
    /\ \A r \in Requests : \A t \in Tasks[r] :
         /\ (t.kind = "status") = (t.ref = None)
         /\ (t.kind = "submit") = (t.previous = None)
    /\ {MaxRestarts, MaxEvents} \subseteq Nat

VARIABLES applications, \* applications: one document per reference, or None
          series,       \* application_series
          events,       \* outbox: an application created, a case to open
          flow,         \* per request: where its use case is
          restarts,     \* processes stopped so far
          announced     \* announcements made so far

intakeVars == <<applications, series, events, flow, restarts, announced>>
vars == <<catalog, resolutionVars, intakeVars>>

----------------------------------------------------------------------------
Series == [clientRefs : SUBSET Refs, latestClientRef : Refs]

Answers == {"ok", "notFound", "conflict", "invalid", "failed", "lost"}

(* `doc` is the application as the request read it. *)
Flow == [at : {"new", "again", "current", "create", "end"},
         task : Task \cup {None}, doc : Application \cup {None},
         touched : SUBSET Refs, answer : Answers \cup {None}]

NewFlow == [at |-> "new", task |-> None, doc |-> None, touched |-> {},
            answer |-> None]

Init ==
    /\ InitCatalog /\ InitResolution
    /\ applications = [ref \in Refs |-> None]
    /\ series = {} /\ events = <<>>
    /\ flow = [r \in Requests |-> NewFlow]
    /\ restarts = 0 /\ announced = 0

Exists(ref) == applications[ref] # None

InTransaction(r) ==
    flow[r].at \in {"current", "create"} /\ flow[r].task.kind = "replace"

\* Mutant: a write in between is not a conflict.
TouchingNone(refs, f) == f

(* Documents were written: every open transaction, that of r included when *)
(* r wrote outside its session, has them touched. A committed transaction  *)
(* is no longer open.                                                      *)
Touching(refs, f) ==
    [q \in Requests |->
        IF InTransaction(q) THEN [f[q] EXCEPT !.touched = @ \cup refs] ELSE f[q]]

Answered(answer) == [NewFlow EXCEPT !.at = "end", !.answer = answer]

Answer(r, answer) == flow' = [flow EXCEPT ![r] = Answered(answer)]

Calls(r, called) == resolution' = [resolution EXCEPT ![r] = called]

----------------------------------------------------------------------------
(* Submit: createApplicationUseCase resolves the definition first. *)
SubmitApplication(r, t) ==
    /\ t.kind = "submit"
    /\ flow' = [flow EXCEPT ![r].at = "create", ![r].task = t]
    /\ Calls(r, Submission(t.want))
    /\ UNCHANGED <<catalog, stored, cache, faults, applications, series, events,
                   restarts, announced>>

(* Replace, and the status of an application: the application is read,     *)
(* in the transaction when replacing, and its current definition resolved  *)
(* from the version it is pinned to.                                       *)
ReadApplication(r, t) ==
    /\ t.kind \in {"replace", "status"}
    /\ IF Exists(t.previous)
       THEN /\ flow' = [flow EXCEPT ![r].at = "current", ![r].task = t,
                                    ![r].doc = applications[t.previous]]
            /\ Calls(r, Current(applications[t.previous].currentConfigVersion))
       ELSE /\ Answer(r, "notFound")
            /\ resolution' = resolution
    /\ UNCHANGED <<catalog, stored, cache, faults, applications, series, events,
                   restarts, announced>>

(* A client sends its request; the driver runs the callback of a           *)
(* transaction again after a write conflict.                               *)
Accept(r) ==
    /\ flow[r].at = "new"
    /\ \E t \in Tasks[r] : SubmitApplication(r, t) \/ ReadApplication(r, t)

RunAgain(r) ==
    /\ flow[r].at = "again"
    /\ ReadApplication(r, flow[r].task)

(* persistResolvedVersion: written at once, outside any transaction, when  *)
(* it differs from what was read. It is the version rolled forward to, not *)
(* the one whose definition was loaded.                                    *)
Written(r) ==
    LET v == resolution[r].key IN
    IF v = flow[r].doc.currentConfigVersion
    THEN [app |-> applications, refs |-> {}]
    ELSE [app |-> [applications EXCEPT ![flow[r].task.previous].currentConfigVersion = v],
          refs |-> {flow[r].task.previous}]

PersistResolvedVersion(r) ==
    LET w == Written(r)
        allowed == flow[r].doc.position \in AmendablePositions IN
    /\ flow[r].at = "current" /\ At(r, "done")
    /\ applications' = w.app
    /\ IF flow[r].task.kind = "status"
       THEN /\ flow' = [Touching(w.refs, flow) EXCEPT ![r] = Answered("ok")]
            /\ Calls(r, Idle)
       ELSE IF ~allowed
       THEN /\ flow' = [Touching(w.refs, flow) EXCEPT ![r] = Answered("conflict")]
            /\ Calls(r, Idle)
       ELSE /\ flow' = [Touching(w.refs, flow) EXCEPT ![r].at = "create"]
            /\ Calls(r, Submission(flow[r].task.want))
    /\ UNCHANGED <<catalog, stored, cache, faults, series, events, restarts, announced>>

(* The definition could not be resolved: the transaction is abandoned. *)
ResolutionFails(r) ==
    /\ flow[r].at \in {"current", "create"} /\ At(r, "failed")
    /\ Answer(r, "failed")
    /\ Calls(r, Idle)
    /\ UNCHANGED <<catalog, stored, cache, faults, applications, series, events,
                   restarts, announced>>

(* Application.new: the version resolved is both the original and the      *)
(* current one; the position is the grant's first.                         *)
NewApplication(r, refs) ==
    [originalConfigVersion |-> resolution[r].version,
     currentConfigVersion |-> resolution[r].version,
     position |-> "received", refs |-> refs]

(* Submit commits the application, a series of its own and the events, or  *)
(* finds the reference taken.                                              *)
CommitSubmission(r) ==
    LET ref == flow[r].task.ref IN
    /\ flow[r].at = "create" /\ At(r, "done") /\ flow[r].task.kind = "submit"
    /\ IF Exists(ref)
       THEN /\ Answer(r, "conflict")
            /\ UNCHANGED <<applications, series, events>>
       ELSE /\ applications' = [applications EXCEPT ![ref] = NewApplication(r, {ref})]
            /\ series' = series \cup {[clientRefs |-> {ref}, latestClientRef |-> ref]}
            /\ events' = Append(events, ref)
            /\ Answer(r, "ok")
    /\ Calls(r, Idle)
    /\ UNCHANGED <<catalog, stored, cache, faults, restarts, announced>>

\* Mutant: the earlier members do not learn of the new one.
LinkedNot(ref, members) == applications[ref]

(* linkSeries *)
Linked(ref, members) == [applications[ref] EXCEPT !.refs = @ \cup members]

(* Replace commits the new application, the longer series, the references  *)
(* of every member (linkSeries) and the events. The series must end with   *)
(* the replaced application. The members' documents are written, so when   *)
(* one was touched since the first read the use case runs again.           *)
CommitReplacement(r) ==
    LET t == flow[r].task
        chain == {s \in series : s.latestClientRef = t.previous}
        kept == UNION {s.clientRefs : s \in chain}
        members == kept \cup {t.ref}
        conflict == flow[r].touched \cap (kept \cup {t.previous}) # {} IN
    /\ flow[r].at = "create" /\ At(r, "done") /\ t.kind = "replace"
    /\ Calls(r, Idle)
    /\ \/ /\ Exists(t.ref)
          /\ Answer(r, "conflict")
          /\ UNCHANGED <<applications, series, events>>
       \/ /\ ~Exists(t.ref) /\ conflict
          /\ flow' = [flow EXCEPT ![r] = [NewFlow EXCEPT !.at = "again", !.task = t]]
          /\ UNCHANGED <<applications, series, events>>
       \/ /\ ~Exists(t.ref) /\ ~conflict /\ chain = {}
          /\ Answer(r, "notFound")
          /\ UNCHANGED <<applications, series, events>>
       \/ /\ ~Exists(t.ref) /\ ~conflict /\ chain # {}
          /\ applications' =
               [ref \in Refs |-> IF ref = t.ref THEN NewApplication(r, members)
                                ELSE IF ref \in kept THEN Linked(ref, members)
                                ELSE applications[ref]]
          /\ series' = (series \ chain) \cup
                         {[clientRefs |-> members, latestClientRef |-> t.ref]}
          /\ events' = Append(events, t.ref)
          /\ flow' = [Touching(members, flow) EXCEPT ![r] = Answered("ok")]
    /\ UNCHANGED <<catalog, stored, cache, faults, restarts, announced>>

(* validateAnswersAgainstSchema: the answers do not fit the questions of   *)
(* the definition, and the request is refused.                             *)
RefuseAnswers(r) ==
    /\ flow[r].at = "create" /\ At(r, "done")
    /\ Answer(r, "invalid")
    /\ Calls(r, Idle)
    /\ UNCHANGED <<catalog, stored, cache, faults, applications, series, events,
                   restarts, announced>>

----------------------------------------------------------------------------
(* The Config Broker announces a version, or announces it again. *)
Announce(v) ==
    /\ announced < MaxEvents
    /\ announced' = announced + 1
    /\ \E status \in {"active", "draft"} :
         ProcessConfigVersion(v, status, {"grant"})
    /\ UNCHANGED <<resolutionVars, applications, series, events, flow, restarts>>

OperatorFetches(v) ==
    /\ FetchConfigDefinitions(v)
    /\ UNCHANGED intakeVars

(* A status change takes the application out of its amendable position     *)
(* (ApplicationStatus).                                                    *)
Decide(ref) ==
    /\ Exists(ref) /\ applications[ref].position = "received"
    /\ applications' = [applications EXCEPT ![ref].position = "decided"]
    /\ flow' = Touching({ref}, flow)
    /\ UNCHANGED <<catalog, resolutionVars, series, events, restarts, announced>>

StopProcess(p) ==
    /\ restarts < MaxRestarts
    /\ restarts' = restarts + 1
    /\ Restart(p)
    /\ flow' = [r \in Requests |->
                  IF ProcessOf[r] = p /\ flow[r].at \notin {"new", "end"}
                  THEN Answered("lost") ELSE flow[r]]
    /\ UNCHANGED <<catalog, stored, faults, applications, series, events, announced>>

Step(r) ==
    \/ RunAgain(r) \/ PersistResolvedVersion(r) \/ ResolutionFails(r)
    \/ CommitSubmission(r) \/ CommitReplacement(r) \/ RefuseAnswers(r)
    \/ Resolve(r) /\ UNCHANGED intakeVars

(* Nothing is left to do once every request is answered. *)
Finished ==
    /\ \A r \in Requests : flow[r].at = "end"
    /\ UNCHANGED vars

Next ==
    \/ \E r \in Requests : Accept(r) \/ Step(r)
    \/ \E v \in Versions : Announce(v) \/ OperatorFetches(v)
    \/ \E ref \in Refs : Decide(ref)
    \/ \E p \in Processes : StopProcess(p)
    \/ Finished

Spec == Init /\ [][Next]_vars

----------------------------------------------------------------------------
TypeOK ==
    /\ ResolutionTypeOK
    /\ applications \in [Refs -> Application \cup {None}]
    /\ series \subseteq Series
    /\ events \in Seq(Refs)
    /\ flow \in [Requests -> Flow]
    /\ restarts \in 0 .. MaxRestarts /\ announced \in 0 .. MaxEvents

(* The applications form chains: every application is in exactly one       *)
(* series, a series is not forked by two replacements of its latest        *)
(* application that race, and every member is found by any member's        *)
(* reference, as linkSeries promises. Each application's case was opened   *)
(* exactly once.                                                           *)
SeriesAreChains ==
    /\ \A ref \in Refs : Exists(ref) =>
         /\ \E s \in series : \A u \in series : (ref \in u.clientRefs) = (u = s)
         /\ \E i \in DOMAIN events : \A j \in DOMAIN events : (events[j] = ref) = (j = i)
    /\ \A s \in series : \A m \in s.clientRefs :
         Exists(m) /\ applications[m].refs = s.clientRefs

(* Roll forward stays within the major: the version an application is      *)
(* moved to, and the definition a request works with or a process caches,  *)
(* are of the major the application was submitted under, whatever is       *)
(* announced, latched or dropped from a cache in between.                  *)
MajorsNeverMix ==
    /\ \A ref \in Refs : Exists(ref) =>
         MajorOf[applications[ref].currentConfigVersion]
           = MajorOf[applications[ref].originalConfigVersion]
    /\ \A p \in Processes : \A i \in DOMAIN cache[p] :
         MajorOf[cache[p][i].definition] = MajorOf[cache[p][i].key]
    /\ \A r \in Requests :
         At(r, "done") /\ resolution[r].want # None =>
           MajorOf[resolution[r].definition] = MajorOf[resolution[r].want]

(* The definition an application was submitted under is stored, so it can  *)
(* be read without S3 for as long as the application lives.                *)
OriginalIsStored ==
    /\ FetchedIsStored
    /\ \A ref \in Refs : Exists(ref) => applications[ref].originalConfigVersion \in stored

(* An application is replaced only while it stands where the grant allows  *)
(* it: the position was read before the definition was resolved twice, and *)
(* a decision made in between stops the replacement.                       *)
ReplacedWhileAmendable ==
    [][\A s \in series : s \notin series' =>
         applications[s.latestClientRef].position \in AmendablePositions]_vars
============================================================================
