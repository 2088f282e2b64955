---------------------------- MODULE GrantAccess ----------------------------
(***************************************************************************)
(* Who may apply for a grant: operators replace its allow list and open or *)
(* close it, other services ask whether an applicant is allowed. Changes   *)
(* run in a transaction together with their audit event, reads release     *)
(* what they found once their audit event is committed, and a failure is   *)
(* audited outside the transaction it aborts.                              *)
(*                                                                         *)
(* An identifier is valid, malformed or blank; a list is a sequence of     *)
(* lines for each of sbi and crn. Which operator holds the grant's role is *)
(* the environment's choice. Transactions are MongoDB's: a write conflicts *)
(* with a write that is not committed, and with one that was committed     *)
(* after the transaction's first read; the driver runs the callback again. *)
(***************************************************************************)
EXTENDS Naturals, Sequences, FiniteSets, Functions

CONSTANTS Calls,         \* requests
          Identifiers,   \* well formed identifiers
          Asks,          \* what requests ask: the inputs of each kind
          FirstStored,   \* documents there may be to begin with
          NoDocument,    \* no document, no value
          Malformed,     \* a stored document no model accepts
          MaxConflicts   \* bound on attempts that are repeated

VARIABLES stored,  \* the documents of the grant: its list and its settings
          writes,  \* committed writes of each
          audits,  \* audit events in the outbox, in the order of their commits
          calls    \* requests in progress

accessVars == <<stored, writes, audits, calls>>

IdentifierKinds == {"sbi", "crn"}

Changes == {"replace", "save"}

DocOf(kind) == IF kind \in {"replace", "view", "check"} THEN "list" ELSE "settings"

Unrestricted == [sbi |-> <<>>, crn |-> <<>>]

ClosedSettings == [open |-> FALSE]

(* A grant without a document is unrestricted, and closed. *)
DefaultOf(doc) == IF doc = "list" THEN Unrestricted ELSE ClosedSettings

(* normalize, and parsedLinesIn of the form: blank lines do not count. *)
NonBlank(values) ==
    LET kept[i \in 0 .. Len(values)] ==
          IF i = 0 THEN <<>>
          ELSE IF values[i] = "" THEN kept[i - 1] ELSE Append(kept[i - 1], values[i])
    IN  kept[Len(values)]

Normalised(list) == [k \in IdentifierKinds |-> NonBlank(list[k])]

(* What the routes' schemas let through is a list or settings, and no      *)
(* document is neither.                                                    *)
ASSUME AccessAssumption ==
    /\ MaxConflicts \in Nat /\ "" \notin Identifiers
    /\ \A documents \in FirstStored : DOMAIN documents = {"list", "settings"}
    /\ DOMAIN Asks = {"replace", "save", "view", "settings", "check"}
    /\ \A list \in Asks["replace"] :
         /\ \A k \in IdentifierKinds : list[k] \in Seq(Range(list[k]))
         /\ Normalised(list) # NoDocument
    /\ NoDocument \notin Asks["save"]

----------------------------------------------------------------------------

Invalid(values) == Range(values) \ Identifiers

Duplicate(values) ==
    {v \in Range(values) : \E i, j \in DOMAIN values : i < j /\ values[i] = v /\ values[j] = v}

(* identifierProblemsIn: every problem of both lists is told at once. *)
Problems(list) ==
    [k \in IdentifierKinds |-> [invalid |-> Invalid(Normalised(list)[k]),
                                duplicate |-> Duplicate(Normalised(list)[k])]]

HasProblems(list) ==
    \E k \in IdentifierKinds : Problems(list)[k] # [invalid |-> {}, duplicate |-> {}]

(* errorsFor: the lines of the form that are marked, which are those with  *)
(* an invalid value and, of a duplicate, all but the first.                *)
MarkedLines(list, problems) ==
    [k \in IdentifierKinds |->
       {i \in DOMAIN list[k] :
          /\ list[k][i] # ""
          /\ \/ list[k][i] \in problems[k].invalid
             \/ /\ list[k][i] \in problems[k].duplicate
                /\ \E j \in 1 .. (i - 1) : list[k][j] = list[k][i]}]

SatisfiesRestriction(values, identifier) ==
    values = <<>> \/ (identifier # "" /\ identifier \in Range(values))

(* GrantAccess.allows *)
IsAllowed(list, settings, who) ==
    settings.open /\ \A k \in IdentifierKinds : SatisfiesRestriction(list[k], who[k])

----------------------------------------------------------------------------
NoCall == [kind |-> NoDocument, input |-> NoDocument, phase |-> "none", seen |-> NoDocument,
           since |-> 0, settings |-> NoDocument, conflicts |-> 0, answer |-> NoDocument]

AccessInit ==
    /\ stored \in FirstStored
    /\ writes = [doc \in DOMAIN stored |-> 0]
    /\ audits = <<>>
    /\ calls = [r \in Calls |-> NoCall]

Answer(status, value) == [status |-> status, value |-> value]

Entry(r, status, new) ==
    [by |-> r, kind |-> calls[r].kind, status |-> status, old |-> calls[r].seen, new |-> new]

Audited(entry) == audits' = Append(audits, entry)

Moves(r, call) == calls' = [calls EXCEPT ![r] = call]

Finishes(r, answer) ==
    Moves(r, [calls[r] EXCEPT !.phase = "ended", !.answer = answer])

(* A failure is audited without a session; when that fails too it is only  *)
(* logged.                                                                 *)
AuditsFailure(r) == Audited(Entry(r, "failure", NoDocument)) \/ UNCHANGED audits

Fails(r, answer) ==
    /\ Finishes(r, answer) /\ AuditsFailure(r)
    /\ UNCHANGED <<stored, writes>>

Call(r, kind, input) ==
    /\ calls[r].phase = "none"
    /\ Moves(r, [NoCall EXCEPT !.kind = kind, !.input = input, !.phase = "resolve"])
    /\ UNCHANGED <<stored, writes, audits>>

(* GrantAdminAccess: there is no such grant, it has no admin role, the     *)
(* operator does not hold it, or his roles are not known. To check an      *)
(* applicant takes the grant alone.                                        *)
Refusals(kind) == IF kind = "check" THEN {404} ELSE {403, 404, 503}

RefuseAccess(r) ==
    /\ calls[r].phase = "resolve"
    /\ \E status \in Refusals(calls[r].kind) : Fails(r, Answer(status, NoDocument))

Administer(r) ==
    /\ calls[r].phase = "resolve"
    /\ Moves(r, [calls[r] EXCEPT !.phase = "read"])
    /\ UNCHANGED <<stored, writes, audits>>

(* findByGrantCode: a change reads in the session it writes in. *)
Find(r) ==
    LET doc == DocOf(calls[r].kind) IN
    /\ calls[r].phase = "read"
    /\ IF stored[doc] = Malformed THEN Fails(r, Answer(500, NoDocument))
       ELSE /\ Moves(r, [calls[r] EXCEPT
                  !.seen = IF stored[doc] = NoDocument THEN DefaultOf(doc) ELSE stored[doc],
                  !.since = writes[doc],
                  !.phase = IF calls[r].kind \in Changes THEN "write"
                            ELSE IF calls[r].kind = "check" THEN "settings" ELSE "audit"])
            /\ UNCHANGED <<stored, writes, audits>>

(* checkGrantAllowList reads the settings after the list. *)
FindSettings(r) ==
    /\ calls[r].phase = "settings"
    /\ IF stored["settings"] = Malformed THEN Fails(r, Answer(500, NoDocument))
       ELSE /\ Moves(r, [calls[r] EXCEPT !.phase = "audit",
                  !.settings = IF stored["settings"] = NoDocument THEN ClosedSettings
                               ELSE stored["settings"]])
            /\ UNCHANGED <<stored, writes, audits>>

NewValue(r) ==
    IF calls[r].kind = "replace" THEN Normalised(calls[r].input) ELSE calls[r].input

(* replaceGlobal *)
RefuseList(r) ==
    /\ calls[r].phase = "write" /\ calls[r].kind = "replace" /\ HasProblems(calls[r].input)
    /\ Fails(r, Answer(400, MarkedLines(calls[r].input, Problems(calls[r].input))))

Holders(r) ==
    {x \in Calls \ {r} : calls[x].phase = "commit" /\ DocOf(calls[x].kind) = DocOf(calls[r].kind)}

\* Mutant: the list is read outside the session.
ConflictsWithHolder(r) == Holders(r) # {}

Conflicts(r) == Holders(r) # {} \/ writes[DocOf(calls[r].kind)] # calls[r].since

IsWriting(r) ==
    calls[r].phase = "write" /\ (calls[r].kind = "replace" => ~HasProblems(calls[r].input))

(* A conflict is an error like any other to withAudit, which audits it as  *)
(* a failure; the driver then runs the change again.                       *)
WriteConflicts(r) ==
    /\ IsWriting(r) /\ Conflicts(r) /\ calls[r].conflicts < MaxConflicts
    /\ Moves(r, [calls[r] EXCEPT !.phase = "read", !.conflicts = @ + 1])
    /\ AuditsFailure(r)
    /\ UNCHANGED <<stored, writes>>

Replace(r) ==
    /\ IsWriting(r) /\ ~Conflicts(r)
    /\ Moves(r, [calls[r] EXCEPT !.phase = "commit"])
    /\ UNCHANGED <<stored, writes, audits>>

(* The document and the audit event commit together. *)
Stores(r) ==
    /\ stored' = [stored EXCEPT ![DocOf(calls[r].kind)] = NewValue(r)]
    /\ writes' = [writes EXCEPT ![DocOf(calls[r].kind)] = @ + 1]
    /\ Audited(Entry(r, "success", NewValue(r)))

Commit(r) ==
    /\ calls[r].phase = "commit"
    /\ Stores(r) /\ Finishes(r, Answer(200, NewValue(r)))

(* The audit event is not inserted or the commit fails, which aborts both  *)
(* and is not audited; or the answer to the commit is lost.                *)
CommitFails(r) ==
    /\ calls[r].phase = "commit"
    /\ Stores(r) \/ UNCHANGED <<stored, writes, audits>>
    /\ Finishes(r, Answer(500, NoDocument))

Found(r) ==
    IF calls[r].kind = "check"
    THEN [allowed |-> IsAllowed(calls[r].seen, calls[r].settings, calls[r].input)]
    ELSE calls[r].seen

(* auditedRead: what was read is released once its audit event is          *)
(* committed.                                                              *)
AuditRead(r) ==
    /\ calls[r].phase = "audit"
    /\ Audited(Entry(r, "success", Found(r)))
    /\ Finishes(r, Answer(200, Found(r)))
    /\ UNCHANGED <<stored, writes>>

\* Mutant: an audit event that is not written is only logged.
AuditSwallowed(r) ==
    /\ calls[r].phase = "audit"
    /\ Finishes(r, Answer(200, Found(r)))
    /\ UNCHANGED <<stored, writes, audits>>

(* The event is not valid or not inserted, or its commit takes too long. *)
AuditFails(r) ==
    /\ calls[r].phase = "audit"
    /\ Audited(Entry(r, "success", Found(r))) \/ UNCHANGED audits
    /\ Finishes(r, Answer(500, NoDocument))
    /\ UNCHANGED <<stored, writes>>

AccessNext ==
    \E r \in Calls :
        \/ \E kind \in DOMAIN Asks : \E input \in Asks[kind] : Call(r, kind, input)
        \/ RefuseAccess(r) \/ Administer(r) \/ Find(r) \/ FindSettings(r)
        \/ RefuseList(r) \/ WriteConflicts(r) \/ Replace(r)
        \/ Commit(r) \/ CommitFails(r) \/ AuditRead(r) \/ AuditFails(r)

AccessSpec == AccessInit /\ [][AccessNext]_accessVars

----------------------------------------------------------------------------
Successes(r) == {i \in DOMAIN audits : audits[i].by = r /\ audits[i].status = "success"}

Trail(doc) ==
    {i \in DOMAIN audits : /\ audits[i].status = "success" /\ audits[i].kind \in Changes
                           /\ DocOf(audits[i].kind) = doc}

(* The audit trail is the history of the list and of the settings: every   *)
(* stored change has its event, each event begins from what the one before *)
(* it left, and the last one says what is stored now, whichever changes    *)
(* raced, were run again, failed or lost the answer to their commit.       *)
TrailIsTheHistory ==
    \A doc \in DOMAIN stored :
        /\ Cardinality(Trail(doc)) = writes[doc]
        /\ \A i, j \in Trail(doc) :
              i < j /\ Trail(doc) \cap (i + 1) .. (j - 1) = {} => audits[j].old = audits[i].new
        /\ \A i \in Trail(doc) :
              (\A j \in Trail(doc) : j <= i) => stored[doc] = audits[i].new

(* Nobody is told what is not on the trail: an answer with data has one    *)
(* event of success with the same data, a request that is refused has      *)
(* none, and of a form that comes back the lines that are not marked would *)
(* be accepted as they are.                                                *)
ToldAsAudited ==
    \A r \in Calls : calls[r].phase = "ended" =>
        LET answer == calls[r].answer IN
        /\ answer.status = 200 =>
             \E i \in Successes(r) : Successes(r) = {i} /\ audits[i].new = answer.value
        /\ answer.status \in {400, 403, 404, 503} => Successes(r) = {}
        /\ answer.status = 400 =>
             ~HasProblems([k \in IdentifierKinds |->
                [i \in DOMAIN calls[r].input[k] |->
                   IF i \in answer.value[k] THEN "" ELSE calls[r].input[k][i]]])
=============================================================================
