------------------------- MODULE AgreementCreation -------------------------
(***************************************************************************)
(* Agreements are created by commands that the grants service puts in its  *)
(* outbox, so that a command may arrive more than once and at the same     *)
(* time in several processes. Creation loads the definition, builds the    *)
(* agreement and stores it with its first version, its events and its      *)
(* audit record. Other requests load the definition of an agreement that   *)
(* exists.                                                                 *)
(***************************************************************************)
EXTENDS AgreementDefinitions, Sequences

CONSTANTS Refs,              \* applications agreements are created for
          Numbers,           \* agreement numbers the generator may draw
          Tasks,             \* what each caller may be asked to do
          MaxNumberAttempts, \* MAX_AGREEMENT_NUMBER_ATTEMPTS
          MaxRestarts,       \* bound on process restarts
          MaxEvents          \* bound on announcements and operator actions

(* A command creates the agreement of an application from the version the  *)
(* application is at; any other request opens an agreement.                *)
Task == [kind : {"create"}, ref : Refs, version : Versions]
          \cup [kind : {"open"}, ref : Refs]

Agreement == [agreementNumber : Numbers, configVersion : Versions, accepted : BOOLEAN]

(* An agreement number is none of the words the model answers with. *)
ASSUME CreationAssumption ==
    /\ None \notin Task /\ None \notin Agreement
    /\ Numbers \cap {None, "failed", "lost"} = {}
    /\ \A c \in Callers : Tasks[c] \subseteq Task
    /\ MaxNumberAttempts \in Nat \ {0}
    /\ {MaxRestarts, MaxEvents} \subseteq Nat

VARIABLES agreements, \* agreements__agreements, by application
          versions,   \* agreements__versions: the numbers of first versions
          events,     \* outbox: lifecycle, created and status reports, in this order
          audits,     \* audit events of creations
          task,       \* per caller: where it is
          restarts, announced

creationVars == <<agreements, versions, events, audits, task, restarts, announced>>
vars == <<catalog, definitionVars, creationVars>>

----------------------------------------------------------------------------
Publications(n) == <<[type |-> "lifecycle", number |-> n],
                     [type |-> "created", number |-> n],
                     [type |-> "status", number |-> n]>>

NewTask == [at |-> "new", asked |-> None, number |-> None, attempt |-> 0, result |-> None]

TaskState == [at : {"new", "load", "persist", "end"}, asked : Task \cup {None},
              number : Numbers \cup {None}, attempt : 0 .. MaxNumberAttempts,
              result : Numbers \cup {None, "failed", "lost"}]

Init ==
    /\ InitCatalog /\ InitDefinitions
    /\ agreements = [ref \in Refs |-> None]
    /\ versions = <<>> /\ events = <<>> /\ audits = <<>>
    /\ task = [c \in Callers |-> NewTask]
    /\ restarts = 0 /\ announced = 0

Existing == {ref \in Refs : agreements[ref] # None}

Used == {agreements[ref].agreementNumber : ref \in Existing}

IsCreating(c) == task[c].asked.kind = "create"

End(c, result) ==
    task' = [task EXCEPT ![c].at = "end", ![c].number = None, ![c].attempt = 0,
                         ![c].result = result]

Calls(c, called) == call' = [call EXCEPT ![c] = called]

----------------------------------------------------------------------------
(* createAgreement: an agreement that exists already is the answer. *)
FindBySourceIdentity(c, command) ==
    IF command.ref \in Existing
    THEN /\ task' = [task EXCEPT ![c].at = "end", ![c].asked = command,
                       ![c].result = agreements[command.ref].agreementNumber]
         /\ call' = call
    ELSE /\ task' = [task EXCEPT ![c].at = "load", ![c].asked = command]
         /\ Calls(c, Loading(command.version, "creation"))

(* An agreement is shown or acted on: its definition is loaded, the latest *)
(* of its major until it is accepted, its own from then on.                *)
OpenAgreement(c, request) ==
    LET a == agreements[request.ref] IN
    IF a = None
    THEN /\ task' = [task EXCEPT ![c].at = "end", ![c].asked = request,
                                 ![c].result = "failed"]
         /\ call' = call
    ELSE /\ task' = [task EXCEPT ![c].at = "load", ![c].asked = request]
         /\ Calls(c, LoadingForAgreement(a.configVersion, a.accepted))

Begin(c) ==
    /\ task[c].at = "new"
    /\ \E t \in Tasks[c] : IF t.kind = "create" THEN FindBySourceIdentity(c, t)
                                                ELSE OpenAgreement(c, t)
    /\ UNCHANGED <<catalog, definitions, compiled, loads, faults, agreements,
                   versions, events, audits, restarts, announced>>

LoadFailed(c) ==
    /\ task[c].at = "load" /\ call[c].at = "failed"
    /\ End(c, "failed") /\ Calls(c, NoCall)
    /\ UNCHANGED <<catalog, definitions, compiled, loads, faults, agreements,
                   versions, events, audits, restarts, announced>>

(* definition.createAgreement: the creation processes run once, the number *)
(* is drawn without asking whether it is free. A process may fail.         *)
BuildAgreement(c) ==
    /\ task[c].at = "load" /\ call[c].at = "loaded"
    /\ \/ /\ IsCreating(c)
          /\ \E n \in Numbers :
               task' = [task EXCEPT ![c].at = "persist", ![c].number = n,
                                    ![c].attempt = 1]
          /\ faults' = faults
       \/ /\ IsCreating(c)
          /\ faults < MaxFaults /\ faults' = faults + 1
          /\ End(c, "failed")
       \/ /\ ~IsCreating(c)
          /\ End(c, agreements[task[c].asked.ref].agreementNumber)
          /\ faults' = faults
    /\ UNCHANGED <<catalog, definitions, compiled, loads, call, agreements,
                   versions, events, audits, restarts, announced>>

(* persistAgreement commits: agreement, first version, events and audit. *)
Persisted(c, n) ==
    LET ref == task[c].asked.ref IN
    /\ agreements' = [agreements EXCEPT ![ref] =
                        [agreementNumber |-> n, configVersion |-> call[c].target,
                         accepted |-> FALSE]]
    /\ versions' = Append(versions, n)
    /\ events' = events \o Publications(n)
    /\ audits' = Append(audits, n)
    /\ End(c, n)

(* withAgreementNumber: a taken number is drawn again, a bounded number of *)
(* times.                                                                  *)
Redraw(c) ==
    \/ /\ task[c].attempt < MaxNumberAttempts
       /\ \E n \in Numbers :
            task' = [task EXCEPT ![c].number = n, ![c].attempt = @ + 1]
    \/ /\ task[c].attempt = MaxNumberAttempts
       /\ End(c, "failed")

\* Mutant: only the number is unique, a second command creates again.
PersistAgreementAgain(c) ==
    LET n == task[c].number IN
    /\ task[c].at = "persist"
    /\ \/ n \in Used /\ Redraw(c) /\ UNCHANGED <<agreements, versions, events, audits>>
       \/ n \notin Used /\ Persisted(c, n)
    /\ UNCHANGED <<catalog, definitions, compiled, loads, faults, call, restarts,
                   announced>>

(* persistWithAgreementNumberRetry and createAgreementUseCase's catch: the *)
(* unique indexes on the number and on the application decide. A command   *)
(* that lost the race answers with the agreement that won it.              *)
PersistAgreement(c) ==
    LET n == task[c].number
        ref == task[c].asked.ref
        unchanged == UNCHANGED <<agreements, versions, events, audits>> IN
    /\ task[c].at = "persist"
    /\ \/ n \in Used /\ Redraw(c) /\ unchanged
       \/ /\ n \notin Used /\ ref \in Existing
          /\ End(c, agreements[ref].agreementNumber) /\ unchanged
       \/ n \notin Used /\ ref \notin Existing /\ Persisted(c, n)
    /\ UNCHANGED <<catalog, definitions, compiled, loads, faults, call, restarts,
                   announced>>

(* The database fails and the transaction with it. *)
PersistFails(c) ==
    /\ task[c].at = "persist"
    /\ faults < MaxFaults /\ faults' = faults + 1
    /\ End(c, "failed")
    /\ UNCHANGED <<catalog, definitions, compiled, loads, call, agreements,
                   versions, events, audits, restarts, announced>>

----------------------------------------------------------------------------
(* An agreement is accepted under the definition it has (AgreementActions). *)
AcceptAgreement(ref) ==
    /\ ref \in Existing /\ ~agreements[ref].accepted
    /\ agreements' = [agreements EXCEPT ![ref].accepted = TRUE]
    /\ UNCHANGED <<catalog, definitionVars, versions, events, audits, task, restarts,
                   announced>>

Announce(v) ==
    /\ announced < MaxEvents
    /\ announced' = announced + 1
    /\ \E status \in {"active", "draft"}, files \in {{"grant"}, {"grant", "agreement"}} :
         ProcessConfigVersion(v, status, files)
    /\ UNCHANGED <<definitionVars, agreements, versions, events, audits, task, restarts>>

OperatorStores(v) ==
    /\ announced < MaxEvents
    /\ announced' = announced + 1
    /\ StoreAgreementDefinition(v)
    /\ UNCHANGED <<agreements, versions, events, audits, task, restarts>>

(* A process stops: what it compiled, its loads and its callers are gone. *)
StopProcess(p) ==
    /\ restarts < MaxRestarts
    /\ restarts' = restarts + 1
    /\ compiled' = [compiled EXCEPT ![p] = {}]
    /\ loads' = [loads EXCEPT ![p] = [v \in Versions |-> NoLoad]]
    /\ call' = [c \in Callers |-> IF ProcessOf[c] = p THEN NoCall ELSE call[c]]
    /\ task' = [c \in Callers |->
                  IF ProcessOf[c] = p /\ task[c].at \in {"load", "persist"}
                  THEN [task[c] EXCEPT !.at = "end", !.result = "lost"] ELSE task[c]]
    /\ UNCHANGED <<catalog, definitions, faults, agreements, versions, events, audits,
                   announced>>

LoadDefinition(p, v) == LoadStep(p, v) /\ UNCHANGED creationVars

Step(c) ==
    \/ LoadFailed(c) \/ BuildAgreement(c) \/ PersistAgreement(c) \/ PersistFails(c)
    \/ (ResolveExact(c) \/ ResolveLatest(c)) /\ UNCHANGED creationVars

Finished ==
    /\ \A c \in Callers : task[c].at = "end"
    /\ UNCHANGED vars

Next ==
    \/ \E c \in Callers : Begin(c) \/ Step(c)
    \/ \E p \in Processes, v \in Versions : LoadDefinition(p, v)
    \/ \E ref \in Refs : AcceptAgreement(ref)
    \/ \E v \in Versions : Announce(v) \/ OperatorStores(v)
    \/ \E p \in Processes : StopProcess(p)
    \/ Finished

Spec == Init /\ [][Next]_vars

----------------------------------------------------------------------------
TypeOK ==
    /\ DefinitionsTypeOK
    /\ agreements \in [Refs -> Agreement \cup {None}]
    /\ versions \in Seq(Numbers) /\ audits \in Seq(Numbers)
    /\ events \in Seq([type : {"lifecycle", "created", "status"}, number : Numbers])
    /\ task \in [Callers -> TaskState]
    /\ restarts \in 0 .. MaxRestarts /\ announced \in 0 .. MaxEvents

Times(n, s) == Cardinality({i \in DOMAIN s : s[i] = n})

TimesUsed(n) == IF n \in Used THEN 1 ELSE 0

(* Two agreements never share a number. *)
NumbersAreUnique ==
    \A a, b \in Existing :
        agreements[a].agreementNumber = agreements[b].agreementNumber => a = b

(* Every agreement has one first version, one set of events and one audit  *)
(* record, and nothing else has.                                           *)
RecordedOnce ==
    \A n \in Numbers :
        /\ Times(n, versions) = TimesUsed(n) /\ Times(n, audits) = TimesUsed(n)
        /\ \A type \in {"lifecycle", "created", "status"} :
             Times([type |-> type, number |-> n], events) = TimesUsed(n)

(* Every command that is answered names the stored agreement. *)
AnswersAreStored ==
    \A c \in Callers :
        task[c].at = "end" /\ task[c].result \in Numbers =>
          /\ task[c].asked.ref \in Existing
          /\ task[c].result = agreements[task[c].asked.ref].agreementNumber

(* Creation is exactly once and whole: nothing is left of a command that   *)
(* lost the race or failed.                                                *)
CreatedOnce == NumbersAreUnique /\ RecordedOnce /\ AnswersAreStored

(* An agreement is created from a definition of the major its application  *)
(* is pinned to, never newer than the application's version, that is       *)
(* stored: the fall back only goes back.                                   *)
CreatedFromUsable ==
    \A ref \in Existing :
        /\ agreements[ref].configVersion \in definitions
        /\ \E c \in Callers : LET t == task[c].asked IN
             /\ t # None /\ t.kind = "create" /\ t.ref = ref
             /\ agreements[ref].configVersion <= t.version
             /\ MajorOf[agreements[ref].configVersion] = MajorOf[t.version]
============================================================================
