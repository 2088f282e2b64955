--------------------------- MODULE AgreementProofs ---------------------------
(***************************************************************************)
(* For any requests, keys, lifecycle and definitions: the versions of an   *)
(* agreement are one path, a key makes one version, an action is applied   *)
(* as shown and answered as stored, and acceptance pins the definition.    *)
(*                                                                         *)
(* A request reads the agreement in one step and writes it in a later one. *)
(* What carries the proofs over the gap is what a request holds (Holds):   *)
(* if the version it read is still the current one, what it read is what   *)
(* is stored.                                                              *)
(***************************************************************************)
EXTENDS AgreementActions, SequenceTheorems, TLAPS

\* What request r, at t, knows of the agreement a.
Holds(r, t, a) ==
    /\ t.pc = "find" => ~IsCommand[r]
    /\ t.pc \in {"find", "attempt", "commit", "resolve"} =>
          /\ t.seen \in Agreement
          /\ t.seen.version <= a.version
          /\ t.seen.version = a.version => t.seen = a
    /\ t.pc \in {"commit", "resolve"} \/ (t.pc = "attempt" /\ IsCommand[r]) =>
          (t.seen.accepted => t.config = t.seen.config)
    /\ t.pc \in {"commit", "resolve"} =>
          /\ t.action \in Actions
          /\ ResolveAction(t.config, t.seen.state, t.action) # {}
          /\ ~IsCommand[r] => t.action = ActionOf[r] /\ t.etag = ToEtag(t.seen, t.config)

\* The answer of r, at t, is what the versions vs say.
Answers(r, t, vs) ==
    ~IsCommand[r] /\ t.result = "ok" =>
        \E n \in DOMAIN vs : vs[n].key = KeyOf[r] /\ vs[n].action = ActionOf[r]

\* A version names its request's key, and no key twice.
Keyed ==
    /\ \A n \in DOMAIN versions :
          versions[n].by # None => versions[n].key = KeyOf[versions[n].by]
    /\ \A m, n \in DOMAIN versions :
          versions[m].key # None /\ versions[m].key = versions[n].key => m = n

\* An applicant's version is made by a request that has ended.
Shown ==
    \A n \in DOMAIN versions :
        LET r == versions[n].by
        IN  r # None /\ ~IsCommand[r] =>
                /\ task[r].pc = "done"
                /\ task[r].etag = [version |-> n - 1, config |-> versions[n].under]

\* acceptedAt is set by the first accepted version.
AcceptedOnce ==
    \A m \in DOMAIN versions : versions[m].state = "accepted" => agreement.accepted

Inv ==
    /\ TypeOK
    /\ \A r \in Requests : Holds(r, task[r], agreement)
    /\ \A r \in Requests : Answers(r, task[r], versions)
    /\ HistoryIsOnePath
    /\ Keyed
    /\ Shown
    /\ AcceptedOnce
    /\ AcceptedIsPinned

-----------------------------------------------------------------------------
\* A step that writes no version: r comes to t.
Quiet(r, t) ==
    /\ t \in Task /\ Holds(r, t, agreement) /\ Answers(r, t, versions)
    /\ task[r].pc # "done" \/ IsCommand[r]
    /\ task' = [task EXCEPT ![r] = t]
    /\ UNCHANGED <<agreement, versions, events, payments>>

\* A step that writes one: the request ends, or, its reply lost, comes back.
Writes(r, t) ==
    /\ task[r].pc = "commit"
    /\ ReplacesCurrent(r) /\ InsertsVersion(r)
    /\ Write(r)
    /\ t \in {Ended(r, "ok"), Thrown(r, "error")}
    /\ task' = [task EXCEPT ![r] = t]

LEMMA Places ==
    ASSUME TypeOK, NEW r \in Requests
    PROVE  /\ \A pc \in {"find", "load", "attempt", "commit", "resolve"} : At(r, pc) \in Task
           /\ \A result \in Results : Ended(r, result) \in Task /\ Thrown(r, result) \in Task
           /\ Delivered(r) \in Task
  <1>1. /\ task[r] \in Task /\ task[r].etag \in ETag /\ task[r].seen \in Agreement \cup {None}
        /\ task[r].action \in Actions \cup {None} /\ task[r].config \in Versions
    BY DEF TypeOK, Task
  <1>2. 1 \in Versions
    BY ActionsAssumption DEF Versions
  <1>3. \A pc \in {"find", "load", "attempt", "commit", "resolve"} : At(r, pc) \in Task
    BY <1>1 DEF At, Task, Results
  <1>4. \A result \in Results : Ended(r, result) \in Task
    BY <1>1, <1>2 DEF Ended, Task
  <1>5. Delivered(r) \in Task
    BY <1>1, <1>2 DEF Delivered, Task, Results
  <1> QED
    BY <1>3, <1>4, <1>5 DEF Thrown

\* A request that has ended, or is about to start, knows nothing.
LEMMA Ignorant ==
    ASSUME NEW r, NEW t, NEW a, t.pc \in {"start", "load", "done", "shown"}
    PROVE  Holds(r, t, a)
  BY DEF Holds

LEMMA EndedHolds ==
    ASSUME NEW r \in Requests, NEW result, NEW a
    PROVE  /\ Holds(r, Ended(r, result), a) /\ Ended(r, result).result = result
           /\ Holds(r, Thrown(r, result), a) /\ Holds(r, Delivered(r), a)
           /\ Delivered(r).result = "none" /\ Thrown(r, result).result \in {"none", result}
           /\ Ended(r, result).pc = "done" /\ Ended(r, result).etag = task[r].etag
           /\ ~IsCommand[r] => Thrown(r, result) = Ended(r, result)
  <1>1. Ended(r, result).pc = "done" /\ Ended(r, result).result = result
        /\ Ended(r, result).etag = task[r].etag
    BY DEF Ended
  <1>2. Delivered(r).pc = "start" /\ Delivered(r).result = "none"
    BY DEF Delivered
  <1>3. Holds(r, Ended(r, result), a) /\ Holds(r, Delivered(r), a)
    BY <1>1, <1>2, Ignorant
  <1> QED
    BY <1>1, <1>2, <1>3 DEF Thrown

\* What FindCompleted answers "ok" for is stored.
LEMMA FoundIsStored ==
    ASSUME NEW r \in Requests, NEW action, FindCompleted(r, action) = "ok"
    PROVE  \E n \in DOMAIN versions : versions[n].key = KeyOf[r] /\ versions[n].action = action
  BY DEF FindCompleted, Completed

LEMMA RefuseIsQuiet ==
    ASSUME Inv, NEW r \in Requests, NEW result \in Results \ {"ok"}, Refuse(r, result),
           task[r].pc # "done"
    PROVE  \E t : Quiet(r, t)
  <1>1. Ended(r, result) \in Task /\ Holds(r, Ended(r, result), agreement)
        /\ Answers(r, Ended(r, result), versions)
    BY Places, EndedHolds DEF Inv, Answers
  <1> QED
    BY <1>1 DEF Refuse, Set, Quiet

\* A step of r that leaves the agreement takes r to a place it may be in.
LEMMA ComesTo ==
    ASSUME NEW r \in Requests, NEW t, task[r].pc # "done" \/ IsCommand[r],
           t \in Task, Holds(r, t, agreement), Answers(r, t, versions),
           Set(r, t), UNCHANGED <<agreement, versions, events, payments>>
    PROVE  \E u : Quiet(r, u)
  BY DEF Set, Quiet

LEMMA NotDone ==
    ASSUME NEW r, NEW t, t.result = "none"
    PROVE  Answers(r, t, versions)
  BY DEF Answers

LEMMA DefinitionType ==
    ASSUME TypeOK, NEW a \in Agreement
    PROVE  LoadDefinition(a) \in Versions /\ (a.accepted => LoadDefinition(a) = a.config)
           /\ ToEtag(a, LoadDefinition(a)) \in ETag
  BY DEF TypeOK, Agreement, LoadDefinition, ToEtag, ETag

LEMMA ShowIsQuiet ==
    ASSUME Inv, NEW r \in Requests, Show(r)
    PROVE  \E t : Quiet(r, t)
  <1> DEFINE t == [pc |-> "start", etag |-> ToEtag(agreement, LoadDefinition(agreement)),
                   seen |-> None, action |-> None, config |-> 1, result |-> "none"]
  <1>1. t.pc = "start" /\ t.result = "none"
    OBVIOUS
  <1>a. ToEtag(agreement, LoadDefinition(agreement)) \in ETag /\ 1 \in Versions
    BY DefinitionType, ActionsAssumption DEF Inv, TypeOK, Versions
  <1>2. t \in Task
    BY <1>a DEF Task, Results
  <1>3. Holds(r, t, agreement) /\ Answers(r, t, versions)
    BY <1>1, Ignorant, NotDone
  <1>4. Set(r, t) /\ UNCHANGED <<agreement, versions, events, payments>>
    BY DEF Show
  <1>5. task[r].pc # "done"
    BY DEF Show
  <1> QED
    BY <1>2, <1>3, <1>4, <1>5, ComesTo

LEMMA LoadForActionIsQuiet ==
    ASSUME Inv, NEW r \in Requests, LoadForAction(r)
    PROVE  \E t : Quiet(r, t)
  <1> DEFINE t == [pc |-> "find", etag |-> task[r].etag, seen |-> agreement,
                   action |-> ActionOf[r], config |-> 1, result |-> "none"]
  <1>1. ~IsCommand[r] /\ task[r].pc # "done" /\ task[r] \in Task /\ agreement \in Agreement
    BY DEF LoadForAction, Inv, TypeOK
  <1>2. ActionOf[r] \in Actions /\ 1 \in Versions
    BY <1>1, ActionsAssumption DEF Versions
  <1>3. t \in Task
    BY <1>1, <1>2 DEF Task, Results
  <1>4. agreement.version \in Nat
    BY <1>1 DEF Agreement
  <1>5. t.pc = "find" /\ t.seen = agreement /\ t.result = "none"
    OBVIOUS
  <1>6. Holds(r, t, agreement) /\ Answers(r, t, versions)
    BY <1>1, <1>4, <1>5, NotDone DEF Holds
  <1>7. Set(r, t) /\ UNCHANGED <<agreement, versions, events, payments>>
    BY DEF LoadForAction
  <1> QED
    BY <1>1, <1>3, <1>6, <1>7, ComesTo

LEMMA FindCompletedActionIsQuiet ==
    ASSUME Inv, NEW r \in Requests, FindCompletedAction(r)
    PROVE  \E t : Quiet(r, t)
  <1> DEFINE found == FindCompleted(r, ActionOf[r])
  <1>1. task[r].pc = "find" /\ Holds(r, task[r], agreement)
    BY DEF FindCompletedAction, Inv
  <1>2. found \in {"none", "ok", "key used"}
    BY DEF FindCompleted
  <1>3. UNCHANGED <<agreement, versions, events, payments>>
    BY DEF FindCompletedAction
  <1>4. CASE found = "none"
    <2>1. At(r, "attempt").pc = "attempt" /\ At(r, "attempt").seen = task[r].seen
          /\ At(r, "attempt").result = "none"
      BY DEF At
    <2>2. Holds(r, At(r, "attempt"), agreement) /\ Answers(r, At(r, "attempt"), versions)
      BY <1>1, <2>1, NotDone DEF Holds
    <2>3. Set(r, At(r, "attempt"))
      BY <1>4 DEF FindCompletedAction
    <2> QED
      BY <1>1, <1>3, <2>2, <2>3, Places, ComesTo DEF Inv
  <1>5. CASE found # "none"
    <2>1. Set(r, Ended(r, found))
      BY <1>5 DEF FindCompletedAction
    <2>2. Ended(r, found) \in Task /\ Holds(r, Ended(r, found), agreement)
      BY <1>2, Places, EndedHolds DEF Inv, Results
    <2>3. Answers(r, Ended(r, found), versions)
      BY FoundIsStored, EndedHolds DEF Answers
    <2> QED
      BY <1>1, <1>3, <2>1, <2>2, <2>3, ComesTo
  <1> QED
    BY <1>4, <1>5

LEMMA AttemptActionIsQuiet ==
    ASSUME Inv, NEW r \in Requests, AttemptAction(r)
    PROVE  \E t : Quiet(r, t)
  <1> DEFINE config == LoadDefinition(task[r].seen)
             t == [pc |-> "commit", etag |-> task[r].etag, seen |-> task[r].seen,
                   action |-> ActionOf[r], config |-> config, result |-> "none"]
  <1>1. /\ task[r].pc = "attempt" /\ ~IsCommand[r] /\ Holds(r, task[r], agreement)
        /\ task[r] \in Task
    BY DEF AttemptAction, Inv, TypeOK
  <1>2. task[r].seen \in Agreement /\ ActionOf[r] \in Actions
    BY <1>1, ActionsAssumption DEF Holds
  <1>3. config \in Versions /\ (task[r].seen.accepted => config = task[r].seen.config)
    BY <1>2, DefinitionType DEF Inv
  <1>4. CASE Refuse(r, "stale") \/ Refuse(r, "conflict") \/ Refuse(r, "invalid")
    BY <1>1, <1>4, RefuseIsQuiet DEF Results
  <1>5. CASE /\ task[r].etag = ToEtag(task[r].seen, config)
             /\ ResolveAction(config, task[r].seen.state, ActionOf[r]) # {}
             /\ Set(r, t)
             /\ UNCHANGED <<agreement, versions, events, payments>>
    <2>1. t \in Task
      BY <1>1, <1>2, <1>3 DEF Task, Results
    <2>2. /\ t.pc = "commit" /\ t.seen = task[r].seen /\ t.action = ActionOf[r]
          /\ t.config = config /\ t.etag = task[r].etag /\ t.result = "none"
      OBVIOUS
    <2> HIDE DEF t
    <2>3. Holds(r, t, agreement) /\ Answers(r, t, versions)
      BY <1>1, <1>2, <1>3, <1>5, <2>2, NotDone DEF Holds
    <2> QED
      BY <1>1, <1>5, <2>1, <2>3, ComesTo
  <1> QED
    BY <1>4, <1>5 DEF AttemptAction

LEMMA FindCompletedCommandIsQuiet ==
    ASSUME Inv, NEW r \in Requests, FindCompletedCommand(r)
    PROVE  \E t : Quiet(r, t)
  <1>1. IsCommand[r] /\ UNCHANGED <<agreement, versions, events, payments>>
    BY DEF FindCompletedCommand
  <1>2. CASE Set(r, At(r, "load"))
    <2>1. At(r, "load").pc = "load"
      BY DEF At
    <2>2. At(r, "load").result = "none"
      BY DEF At
    <2> QED
      BY <1>1, <1>2, <2>1, <2>2, Ignorant, NotDone, Places, ComesTo DEF Inv
  <1>3. CASE Set(r, Ended(r, "ok"))
    <2>1. Answers(r, Ended(r, "ok"), versions)
      BY <1>1 DEF Answers
    <2> QED
      BY <1>1, <1>3, <2>1, EndedHolds, Places, ComesTo DEF Inv, Results
  <1> QED
    BY <1>2, <1>3 DEF FindCompletedCommand

LEMMA LoadForCommandIsQuiet ==
    ASSUME Inv, NEW r \in Requests, LoadForCommand(r)
    PROVE  \E t : Quiet(r, t)
  <1> DEFINE t == [pc |-> "attempt", etag |-> task[r].etag, seen |-> agreement,
                   action |-> None, config |-> LoadDefinition(agreement), result |-> "none"]
  <1>1. task[r].pc # "done" /\ task[r] \in Task /\ agreement \in Agreement
        /\ UNCHANGED <<agreement, versions, events, payments>> /\ Set(r, t)
    BY DEF LoadForCommand, Inv, TypeOK
  <1>2. LoadDefinition(agreement) \in Versions
        /\ (agreement.accepted => LoadDefinition(agreement) = agreement.config)
    BY <1>1, DefinitionType DEF Inv
  <1>3. t \in Task
    BY <1>1, <1>2 DEF Task, Results
  <1>4. t.pc = "attempt" /\ t.seen = agreement /\ t.result = "none"
        /\ t.config = LoadDefinition(agreement)
    OBVIOUS
  <1>5. agreement.version \in Nat
    BY <1>1 DEF Agreement
  <1> HIDE DEF t
  <1>6. Holds(r, t, agreement) /\ Answers(r, t, versions)
    BY <1>1, <1>2, <1>4, <1>5, NotDone DEF Holds
  <1> QED
    BY <1>1, <1>3, <1>6, ComesTo

LEMMA AttemptCommandIsQuiet ==
    ASSUME Inv, NEW r \in Requests, AttemptCommand(r)
    PROVE  \E t : Quiet(r, t)
  <1> DEFINE found == ResolveActionForTarget(task[r].config, task[r].seen.state, ActionOf[r])
  <1>1. /\ task[r].pc = "attempt" /\ IsCommand[r] /\ Holds(r, task[r], agreement)
        /\ task[r] \in Task
    BY DEF AttemptCommand, Inv, TypeOK
  <1>2. CASE Refuse(r, "rejected")
    BY <1>1, <1>2, RefuseIsQuiet DEF Results
  <1>3. ASSUME NEW a \in found,
               Set(r, [pc |-> "commit", etag |-> task[r].etag, seen |-> task[r].seen,
                       action |-> a.action, config |-> task[r].config, result |-> "none"]),
               UNCHANGED <<agreement, versions, events, payments>>
        PROVE  \E t : Quiet(r, t)
    <2> DEFINE t == [pc |-> "commit", etag |-> task[r].etag, seen |-> task[r].seen,
                     action |-> a.action, config |-> task[r].config, result |-> "none"]
    <2>1. /\ t.pc = "commit" /\ t.seen = task[r].seen /\ t.action = a.action
          /\ t.config = task[r].config /\ t.result = "none"
      OBVIOUS
    <2>2. task[r].config \in Versions
      BY <1>1 DEF Task
    <2>3. a \in On[task[r].config] /\ a.state = task[r].seen.state
      BY DEF ResolveActionForTarget
    <2>4. a.action \in Actions
      BY <2>2, <2>3, ActionsAssumption
    <2>5. a \in ResolveAction(task[r].config, task[r].seen.state, a.action)
      BY <2>3 DEF ResolveAction
    <2>6. t \in Task
      BY <1>1, <2>4 DEF Task, Results
    <2>7. Set(r, t)
      BY <1>3
    <2> HIDE DEF t
    <2>8. Holds(r, t, agreement) /\ Answers(r, t, versions)
      BY <1>1, <2>1, <2>4, <2>5, NotDone DEF Holds
    <2> QED
      BY <1>1, <1>3, <2>6, <2>7, <2>8, ComesTo
  <1> QED
    BY <1>2, <1>3 DEF AttemptCommand

\* What a commit that found its key, or lost, answers.
LEMMA ResultIsQuiet ==
    ASSUME Inv, NEW r \in Requests, task[r].pc \in {"commit", "resolve"},
           NEW result \in Results, FindCompleted(r, task[r].action) = "ok" \/ result # "ok",
           Set(r, Ended(r, result)) \/ Set(r, Thrown(r, result)),
           UNCHANGED <<agreement, versions, events, payments>>
    PROVE  \E t : Quiet(r, t)
  <1>1. Holds(r, task[r], agreement)
    BY DEF Inv
  <1>2. ~IsCommand[r] => task[r].action = ActionOf[r]
    BY <1>1 DEF Holds
  <1>3. Answers(r, Ended(r, result), versions)
    BY <1>2, FoundIsStored, EndedHolds DEF Answers
  <1>4. Answers(r, Thrown(r, result), versions)
    BY <1>3, EndedHolds DEF Answers
  <1> QED
    BY <1>3, <1>4, EndedHolds, Places, ComesTo DEF Inv

LEMMA CommitFindsKeyIsQuiet ==
    ASSUME Inv, NEW r \in Requests, CommitFindsKey(r)
    PROVE  \E t : Quiet(r, t)
  <1>1. task[r].pc \in {"commit", "resolve"} /\ UNCHANGED <<agreement, versions, events, payments>>
    BY DEF CommitFindsKey
  <1>2. CASE FindCompletedInSession(r) = "ok" /\ Set(r, Ended(r, "ok"))
    BY <1>1, <1>2, ResultIsQuiet DEF FindCompletedInSession, Results
  <1>3. CASE Set(r, Thrown(r, "key used"))
    BY <1>1, <1>3, ResultIsQuiet DEF Results
  <1> QED
    BY <1>2, <1>3 DEF CommitFindsKey

LEMMA CommitLosesIsQuiet ==
    ASSUME Inv, NEW r \in Requests, CommitLoses(r)
    PROVE  \E t : Quiet(r, t)
  <1> DEFINE t == At(r, "resolve")
  <1>1. /\ task[r].pc = "commit" /\ Holds(r, task[r], agreement)
        /\ Set(r, t) /\ UNCHANGED <<agreement, versions, events, payments>>
    BY DEF CommitLoses, Inv
  <1>2. /\ t.pc = "resolve" /\ t.seen = task[r].seen /\ t.action = task[r].action
        /\ t.config = task[r].config /\ t.etag = task[r].etag /\ t.result = "none"
    BY DEF At
  <1>3. t \in Task
    BY Places DEF Inv
  <1> HIDE DEF t
  <1>4. Holds(r, t, agreement) /\ Answers(r, t, versions)
    BY <1>1, <1>2, NotDone DEF Holds
  <1> QED
    BY <1>1, <1>3, <1>4, ComesTo

LEMMA ResolveConcurrentUpdateIsQuiet ==
    ASSUME Inv, NEW r \in Requests, ResolveConcurrentUpdate(r)
    PROVE  \E t : Quiet(r, t)
  <1>1. task[r].pc \in {"commit", "resolve"} /\ UNCHANGED <<agreement, versions, events, payments>>
    BY DEF ResolveConcurrentUpdate
  <1>2. CASE Set(r, Ended(r, IF IsCommand[r] THEN "rejected" ELSE "stale"))
    BY <1>1, <1>2, ResultIsQuiet DEF Results
  <1>3. CASE FindCompleted(r, task[r].action) = "ok" /\ Set(r, Ended(r, "ok"))
    BY <1>1, <1>3, ResultIsQuiet DEF Results
  <1>4. CASE Set(r, Thrown(r, "key used"))
    BY <1>1, <1>4, ResultIsQuiet DEF Results
  <1> QED
    BY <1>2, <1>3, <1>4 DEF ResolveConcurrentUpdate

LEMMA ThrowsIsQuiet ==
    ASSUME Inv, NEW r \in Requests, Throws(r)
    PROVE  \E t : Quiet(r, t)
  <1>1. /\ task[r].pc # "done" /\ UNCHANGED <<agreement, versions, events, payments>>
        /\ Set(r, Thrown(r, "error"))
    BY DEF Throws
  <1>2. Answers(r, Thrown(r, "error"), versions)
    BY EndedHolds DEF Answers
  <1> QED
    BY <1>1, <1>2, EndedHolds, Places, ComesTo DEF Inv, Results

LEMMA RedeliverIsQuiet ==
    ASSUME Inv, NEW r \in Requests, Redeliver(r)
    PROVE  \E t : Quiet(r, t)
  BY EndedHolds, NotDone, Places, ComesTo DEF Inv, Redeliver

\* Every step writes one version, or moves one request, or publishes.
LEMMA Steps ==
    ASSUME Inv, [Next]_vars
    PROVE  \/ \E r \in Requests : \E t : Quiet(r, t)
           \/ \E r \in Requests : \E t : Writes(r, t)
           \/ UNCHANGED <<agreement, versions, events, payments, task>>
  <1>1. CASE PublishDefinition \/ UNCHANGED vars
    BY <1>1 DEF PublishDefinition, vars
  <1>2. ASSUME NEW r \in Requests, Commit(r) \/ CommitReplyLost(r)
        PROVE  \E t : Writes(r, t)
    BY <1>2 DEF Commit, CommitReplyLost, Writes, Set
  <1>3. ASSUME NEW r \in Requests,
               Show(r) \/ Step(r) \/ Throws(r) \/ Redeliver(r)
        PROVE  Commit(r) \/ \E t : Quiet(r, t)
    BY <1>3, ShowIsQuiet, LoadForActionIsQuiet, FindCompletedActionIsQuiet,
       AttemptActionIsQuiet, FindCompletedCommandIsQuiet, LoadForCommandIsQuiet,
       AttemptCommandIsQuiet, CommitFindsKeyIsQuiet, CommitLosesIsQuiet,
       ResolveConcurrentUpdateIsQuiet, ThrowsIsQuiet, RedeliverIsQuiet DEF Step
  <1> QED
    BY <1>1, <1>2, <1>3 DEF Next
-----------------------------------------------------------------------------
\* The version r writes, v, on what it read, which is what is stored.
LEMMA Written ==
    ASSUME Inv, NEW r \in Requests, NEW t, Writes(r, t)
    PROVE  LET v == NewVersion(r, KeyOf[r])
           IN  /\ v \in Version /\ Transition(r) \in Agreement
               /\ agreement' = Transition(r) /\ versions' = Append(versions, v)
               /\ agreement'.version = agreement.version + 1
               /\ agreement'.state = v.state /\ agreement'.config = v.config
               /\ agreement'.accepted = (agreement.accepted \/ v.state = "accepted")
               /\ v.from = agreement.version /\ v.by = r /\ v.key = KeyOf[r]
               /\ v.action = task[r].action /\ v.under = task[r].config
               /\ [state |-> agreement.state, action |-> v.action, target |-> v.state]
                      \in On[v.under]
               /\ agreement.accepted => v.under = agreement.config
               /\ v.config = IF v.state = "accepted" THEN v.under ELSE agreement.config
               /\ ~IsCommand[r] =>
                     /\ v.action = ActionOf[r]
                     /\ task[r].etag = [version |-> agreement.version, config |-> v.under]
               /\ \A n \in DOMAIN versions : versions[n].key # KeyOf[r]
  <1> DEFINE config == task[r].config
             found  == ResolveAction(config, task[r].seen.state, task[r].action)
  <1>1. /\ task[r].pc = "commit" /\ Holds(r, task[r], agreement) /\ task[r] \in Task
        /\ agreement \in Agreement
    BY DEF Writes, Inv, TypeOK
  <1>2. task[r].seen = agreement
    BY <1>1 DEF Writes, ReplacesCurrent, Holds
  <1>3. config \in Versions /\ task[r].action \in Actions /\ found # {}
    BY <1>1 DEF Holds, Task
  <1>4. PICK a \in found : TargetOf(r) = a.target
    BY <1>3 DEF TargetOf
  <1>5. /\ a \in On[config] /\ a.state = agreement.state /\ a.action = task[r].action
        /\ a \in [state : States, action : Actions, target : States]
    BY <1>2, <1>3, <1>4, ActionsAssumption DEF ResolveAction
  <1>6. /\ TargetOf(r) \in States
        /\ a = [state |-> agreement.state, action |-> task[r].action, target |-> TargetOf(r)]
    BY <1>4, <1>5
  <1>7. /\ agreement.config \in Versions /\ agreement.version \in Nat \ {0}
        /\ agreement.accepted \in BOOLEAN
    BY <1>1 DEF Agreement
  <1>8. ConfigOf(r) \in Versions
        /\ ConfigOf(r) = IF TargetOf(r) = "accepted" THEN config ELSE agreement.config
    BY <1>2, <1>3, <1>7 DEF ConfigOf
  <1>9. /\ Transition(r) \in Agreement
        /\ Transition(r).version = agreement.version + 1
        /\ Transition(r).state = TargetOf(r) /\ Transition(r).config = ConfigOf(r)
        /\ Transition(r).accepted = (agreement.accepted \/ TargetOf(r) = "accepted")
    BY <1>2, <1>6, <1>7, <1>8 DEF Transition, Agreement
  <1> DEFINE v == NewVersion(r, KeyOf[r])
  <1>10. /\ v.state = TargetOf(r) /\ v.action = task[r].action /\ v.key = KeyOf[r]
         /\ v.config = ConfigOf(r) /\ v.by = r /\ v.from = agreement.version
         /\ v.under = config
    BY <1>2 DEF NewVersion
  <1>11. KeyOf[r] \in Keys
    BY ActionsAssumption
  <1>12. v \in Version
    BY <1>2, <1>3, <1>6, <1>7, <1>8, <1>11 DEF NewVersion, Version
  <1>13. agreement' = Transition(r) /\ versions' = Append(versions, v)
    BY DEF Writes, Write
  <1>14. agreement.accepted => config = agreement.config
    BY <1>1, <1>2 DEF Holds
  <1>15. ~IsCommand[r] => /\ task[r].action = ActionOf[r]
                          /\ task[r].etag = [version |-> agreement.version, config |-> config]
    BY <1>1, <1>2 DEF Holds, ToEtag
  <1>16. \A n \in DOMAIN versions : versions[n].key # KeyOf[r]
    BY DEF Writes, InsertsVersion, Completed
  <1> HIDE DEF v
  <1>17. /\ agreement'.state = v.state /\ agreement'.config = v.config
         /\ agreement'.accepted = (agreement.accepted \/ v.state = "accepted")
         /\ agreement'.version = agreement.version + 1
    BY <1>9, <1>10, <1>13
  <1>18. [state |-> agreement.state, action |-> v.action, target |-> v.state] \in On[v.under]
    BY <1>5, <1>6, <1>10
  <1>19. agreement.accepted => v.under = agreement.config
    BY <1>10, <1>14
  <1>20. v.config = IF v.state = "accepted" THEN v.under ELSE agreement.config
    BY <1>8, <1>10
  <1>21. ~IsCommand[r] =>
            /\ v.action = ActionOf[r]
            /\ task[r].etag = [version |-> agreement.version, config |-> v.under]
    BY <1>10, <1>15
  <1> QED
    BY <1>9, <1>10, <1>12, <1>13, <1>16, <1>17, <1>18, <1>19, <1>20, <1>21 DEF v

LEMMA OthersType ==
    ASSUME TypeOK, [Next]_vars
    PROVE  /\ audits' \in [Requests -> SUBSET {"success", "failure"}]
           /\ latest' \in Versions
           /\ faults' \in 0..MaxFaults
  <1> USE DEF TypeOK
  <1>1. MaxFaults \in Nat /\ Latest \in Nat
    BY ActionsAssumption
  <1>2. CASE UNCHANGED vars
    BY <1>2 DEF vars
  <1>3. CASE PublishDefinition
    BY <1>1, <1>3 DEF PublishDefinition, Versions
  <1>4. ASSUME NEW r \in Requests,
               Show(r) \/ LoadForAction(r) \/ FindCompletedAction(r)
                 \/ FindCompletedCommand(r) \/ LoadForCommand(r) \/ CommitLoses(r)
        PROVE  UNCHANGED <<audits, latest, faults>>
    BY <1>4 DEF Show, LoadForAction, FindCompletedAction, FindCompletedCommand,
                LoadForCommand, CommitLoses
  <1>5. ASSUME NEW r \in Requests,
               AttemptAction(r) \/ AttemptCommand(r) \/ Commit(r) \/ CommitFindsKey(r)
                 \/ ResolveConcurrentUpdate(r)
        PROVE  /\ UNCHANGED <<latest, faults>>
               /\ audits' = audits \/ Audit(r, "success") \/ Audit(r, "failure")
    BY <1>5 DEF AttemptAction, AttemptCommand, Commit, CommitFindsKey,
                ResolveConcurrentUpdate, Refuse
  <1>6. ASSUME NEW r \in Requests, Audit(r, "success") \/ Audit(r, "failure")
        PROVE  audits' \in [Requests -> SUBSET {"success", "failure"}]
    BY <1>6 DEF Audit
  <1>7. ASSUME NEW r \in Requests, Throws(r) \/ Redeliver(r) \/ CommitReplyLost(r)
        PROVE  latest' = latest /\ faults' \in 0..MaxFaults
    BY <1>1, <1>7 DEF Throws, Redeliver, CommitReplyLost
  <1>8. ASSUME NEW r \in Requests, Throws(r) \/ Redeliver(r)
        PROVE  audits' = audits \/ Audit(r, "failure")
    BY <1>8 DEF Throws, Redeliver
  <1>9. ASSUME NEW r \in Requests, CommitReplyLost(r)
        PROVE  audits' \in [Requests -> SUBSET {"success", "failure"}]
    BY <1>9 DEF CommitReplyLost
  <1>10. CASE \E r \in Requests : Show(r) \/ Step(r) \/ Throws(r) \/ CommitReplyLost(r)
                                    \/ Redeliver(r)
    <2>1. PICK r \in Requests : Show(r) \/ Step(r) \/ Throws(r) \/ CommitReplyLost(r)
                                  \/ Redeliver(r)
      BY <1>10
    <2>2. latest' \in Versions /\ faults' \in 0..MaxFaults
      BY <2>1, <1>4, <1>5, <1>7 DEF Step
    <2>3. audits' \in [Requests -> SUBSET {"success", "failure"}]
      BY <2>1, <1>4, <1>5, <1>6, <1>8, <1>9 DEF Step
    <2> QED
      BY <2>2, <2>3
  <1> QED
    BY <1>2, <1>3, <1>10 DEF Next
-----------------------------------------------------------------------------
\* The invariant but for the variables OthersType is about.
Kept ==
    /\ agreement \in Agreement /\ versions \in Seq(Version)
    /\ events \in Seq(Nat) /\ payments \in Seq(Nat) /\ task \in [Requests -> Task]
    /\ \A r \in Requests : Holds(r, task[r], agreement)
    /\ \A r \in Requests : Answers(r, task[r], versions)
    /\ HistoryIsOnePath
    /\ Keyed
    /\ Shown
    /\ AcceptedOnce
    /\ AcceptedIsPinned

LEMMA ByType ==
    ASSUME TypeOK, NEW n \in DOMAIN versions, versions[n].by # None
    PROVE  versions[n].by \in Requests
  <1>1. versions[n] \in Version
    BY DEF TypeOK
  <1> QED
    BY <1>1 DEF Version

LEMMA QuietKeeps ==
    ASSUME Inv, NEW r \in Requests, NEW t, Quiet(r, t)
    PROVE  Kept'
  <1>1. /\ task \in [Requests -> Task] /\ t \in Task /\ task' = [task EXCEPT ![r] = t]
        /\ UNCHANGED <<agreement, versions, events, payments>>
        /\ Holds(r, t, agreement) /\ Answers(r, t, versions)
        /\ task[r].pc # "done" \/ IsCommand[r]
    BY DEF Inv, TypeOK, Quiet
  <1>2. /\ agreement' \in Agreement /\ versions' \in Seq(Version)
        /\ events' \in Seq(Nat) /\ payments' \in Seq(Nat) /\ task' \in [Requests -> Task]
    BY <1>1 DEF Inv, TypeOK
  <1>3. \A q \in Requests : task'[q] = IF q = r THEN t ELSE task[q]
    BY <1>1
  <1>4. \A q \in Requests : Holds(q, task'[q], agreement')
    BY <1>1, <1>3 DEF Inv
  <1>5. \A q \in Requests : Answers(q, task'[q], versions')
    BY <1>1, <1>3 DEF Inv
  <1>6. HistoryIsOnePath' /\ Keyed' /\ AcceptedOnce' /\ AcceptedIsPinned'
    BY <1>1 DEF Inv, HistoryIsOnePath, Keyed, AcceptedOnce, AcceptedIsPinned
  <1>7. Shown'
    <2> SUFFICES ASSUME NEW n \in DOMAIN versions, versions[n].by # None,
                        ~IsCommand[versions[n].by]
                 PROVE  /\ task'[versions[n].by].pc = "done"
                        /\ task'[versions[n].by].etag
                              = [version |-> n - 1, config |-> versions[n].under]
      BY <1>1 DEF Shown
    <2>1. versions[n].by \in Requests
      BY ByType DEF Inv
    <2>2. task[versions[n].by].pc = "done"
      BY DEF Inv, Shown
    <2>3. versions[n].by # r
      BY <1>1, <2>2
    <2> QED
      BY <1>3, <2>1, <2>3 DEF Inv, Shown
  <1> QED
    BY <1>2, <1>4, <1>5, <1>6, <1>7 DEF Kept

\* The versions before the new one are as they were.
LEMMA Appended ==
    ASSUME Inv, NEW r \in Requests, NEW t, Writes(r, t)
    PROVE  /\ versions' \in Seq(Version) /\ Len(versions) = agreement.version
           /\ Len(versions') = Len(versions) + 1 /\ Len(versions) \in Nat \ {0}
           /\ DOMAIN versions = 1..Len(versions) /\ DOMAIN versions' = 1..(Len(versions) + 1)
           /\ \A n \in 1..Len(versions) : versions'[n] = versions[n]
           /\ versions'[Len(versions) + 1] = NewVersion(r, KeyOf[r])
  <1> DEFINE v == NewVersion(r, KeyOf[r])
  <1>1. v \in Version /\ versions' = Append(versions, v)
    BY Written
  <1> HIDE DEF v
  <1>2. versions \in Seq(Version) /\ Len(versions) = agreement.version
        /\ agreement.version \in Nat \ {0}
    BY DEF Inv, TypeOK, HistoryIsOnePath, Agreement
  <1>3. Len(Append(versions, v)) = Len(versions) + 1 /\ Append(versions, v) \in Seq(Version)
    BY <1>1, <1>2, AppendProperties
  <1>4. /\ \A n \in 1..Len(versions) : Append(versions, v)[n] = versions[n]
        /\ Append(versions, v)[Len(versions) + 1] = v
    BY <1>1, <1>2, AppendProperties
  <1>5. DOMAIN versions = 1..Len(versions) /\ DOMAIN versions' = 1..Len(versions')
    BY <1>1, <1>2, <1>3
  <1> QED
    BY <1>1, <1>2, <1>3, <1>4, <1>5 DEF v

LEMMA WritesTypes ==
    ASSUME Inv, NEW r \in Requests, NEW t, Writes(r, t)
    PROVE  /\ agreement' \in Agreement /\ versions' \in Seq(Version)
           /\ events' \in Seq(Nat) /\ payments' \in Seq(Nat) /\ task' \in [Requests -> Task]
           /\ \A q \in Requests : task'[q] = IF q = r THEN t ELSE task[q]
  <1>1. t \in Task
    BY Places DEF Writes, Inv, Results
  <1>2. task' \in [Requests -> Task] /\ \A q \in Requests : task'[q] = IF q = r THEN t ELSE task[q]
    BY <1>1 DEF Writes, Inv, TypeOK
  <1>3. task[r].seen.version + 1 \in Nat
    BY DEF Writes, ReplacesCurrent, Inv, TypeOK, Agreement
  <1>4. events' \in Seq(Nat)
    BY <1>3, AppendProperties DEF Writes, Write, Reported, Inv, TypeOK
  <1>5. payments' \in Seq(Nat)
    BY <1>3, AppendProperties DEF Writes, Write, PaymentRequested, Inv, TypeOK
  <1> QED
    BY <1>2, <1>4, <1>5, Written, Appended

\* Whoever else had read the agreement has now read an older version.
LEMMA WritesHolds ==
    ASSUME Inv, NEW r \in Requests, NEW t, Writes(r, t), NEW q \in Requests
    PROVE  Holds(q, task'[q], agreement')
  <1>1. task'[q] = IF q = r THEN t ELSE task[q]
    BY WritesTypes
  <1>2. CASE q = r
    BY <1>1, <1>2, EndedHolds DEF Writes
  <1>3. CASE q # r
    <2>1. Holds(q, task[q], agreement)
      BY DEF Inv
    <2>2. agreement'.version = agreement.version + 1 /\ agreement.version \in Nat
      BY Written DEF Inv, TypeOK, Agreement
    <2>3. task[q].pc \in {"find", "attempt", "commit", "resolve"} =>
             task[q].seen.version \in Nat /\ task[q].seen.version <= agreement.version
      BY <2>1 DEF Holds, Agreement
    <2> QED
      BY <1>1, <1>3, <2>1, <2>2, <2>3 DEF Holds
  <1> QED
    BY <1>2, <1>3

LEMMA WritesAnswers ==
    ASSUME Inv, NEW r \in Requests, NEW t, Writes(r, t), NEW q \in Requests
    PROVE  Answers(q, task'[q], versions')
  <1>1. task'[q] = IF q = r THEN t ELSE task[q]
    BY WritesTypes
  <1>2. CASE q = r
    <2> DEFINE v == NewVersion(r, KeyOf[r])
    <2>a. v.key = KeyOf[r] /\ (~IsCommand[r] => v.action = ActionOf[r])
      BY Written
    <2>b. versions'[Len(versions) + 1] = v
      BY Appended
    <2> HIDE DEF v
    <2>1. ~IsCommand[r] => versions'[Len(versions) + 1].key = KeyOf[r]
                            /\ versions'[Len(versions) + 1].action = ActionOf[r]
      BY <2>a, <2>b
    <2>2. Len(versions) + 1 \in DOMAIN versions'
      BY Appended
    <2> QED
      BY <1>1, <1>2, <2>1, <2>2 DEF Answers
  <1>3. CASE q # r
    <2>1. Answers(q, task[q], versions)
      BY DEF Inv
    <2>2. \A n \in DOMAIN versions : n \in DOMAIN versions' /\ versions'[n] = versions[n]
      BY Appended
    <2> QED
      BY <1>1, <1>3, <2>1, <2>2 DEF Answers
  <1> QED
    BY <1>2, <1>3

LEMMA WritesHistory ==
    ASSUME Inv, NEW r \in Requests, NEW t, Writes(r, t)
    PROVE  HistoryIsOnePath'
  <1> DEFINE v == NewVersion(r, KeyOf[r])
             m == Len(versions)
  <1>1. /\ agreement'.version = agreement.version + 1
        /\ agreement'.state = v.state /\ agreement'.config = v.config
        /\ v.from = agreement.version
        /\ [state |-> agreement.state, action |-> v.action, target |-> v.state] \in On[v.under]
    BY Written
  <1>2. /\ m = agreement.version /\ Len(versions') = m + 1 /\ m \in Nat \ {0}
        /\ \A n \in 1..m : versions'[n] = versions[n]
        /\ versions'[m + 1] = v
    BY Appended
  <1>3. /\ versions[m].state = agreement.state
        /\ \A n \in 2..m :
              /\ versions[n].from = n - 1
              /\ [state |-> versions[n - 1].state, action |-> versions[n].action,
                  target |-> versions[n].state] \in On[versions[n].under]
    BY DEF Inv, HistoryIsOnePath
  <1> HIDE DEF v, m
  <1>4. ASSUME NEW n \in 2..(m + 1)
        PROVE  /\ versions'[n].from = n - 1
               /\ [state |-> versions'[n - 1].state, action |-> versions'[n].action,
                   target |-> versions'[n].state] \in On[versions'[n].under]
    <2>1. CASE n = m + 1
      <3>1. n - 1 = m /\ versions'[n - 1] = versions[m] /\ versions'[n] = v
        BY <1>2, <2>1
      <3> QED
        BY <1>1, <1>2, <1>3, <3>1
    <2>2. CASE n # m + 1
      <3>1. n \in 2..m /\ n - 1 \in 1..m
        BY <1>2, <2>2
      <3>2. versions'[n] = versions[n] /\ versions'[n - 1] = versions[n - 1]
        BY <1>2, <3>1
      <3> QED
        BY <1>3, <3>1, <3>2
    <2> QED
      BY <2>1, <2>2
  <1>5. /\ Len(versions') = agreement'.version
        /\ versions'[Len(versions')].state = agreement'.state
        /\ versions'[Len(versions')].config = agreement'.config
    BY <1>1, <1>2
  <1> QED
    BY <1>2, <1>4, <1>5 DEF HistoryIsOnePath

LEMMA WritesKeyed ==
    ASSUME Inv, NEW r \in Requests, NEW t, Writes(r, t)
    PROVE  Keyed'
  <1> DEFINE v == NewVersion(r, KeyOf[r])
             m == Len(versions)
  <1>1. /\ v.by = r /\ v.key = KeyOf[r]
        /\ \A n \in DOMAIN versions : versions[n].key # KeyOf[r]
    BY Written
  <1>2. /\ m \in Nat /\ DOMAIN versions = 1..m /\ DOMAIN versions' = 1..(m + 1)
        /\ \A n \in 1..m : versions'[n] = versions[n]
        /\ versions'[m + 1] = v
    BY Appended
  <1> HIDE DEF v, m
  <1>3. Keyed
    BY DEF Inv
  <1>4. \A n \in 1..(m + 1) : n = m + 1 \/ n \in 1..m
    BY <1>2
  <1>5. \A n \in DOMAIN versions' :
           versions'[n].by # None => versions'[n].key = KeyOf[versions'[n].by]
    BY <1>1, <1>2, <1>3, <1>4 DEF Keyed
  <1>6. \A k, n \in DOMAIN versions' :
           versions'[k].key # None /\ versions'[k].key = versions'[n].key => k = n
    BY <1>1, <1>2, <1>3, <1>4 DEF Keyed
  <1> QED
    BY <1>5, <1>6 DEF Keyed

LEMMA WritesShown ==
    ASSUME Inv, NEW r \in Requests, NEW t, Writes(r, t)
    PROVE  Shown'
  <1> DEFINE v == NewVersion(r, KeyOf[r])
             m == Len(versions)
  <1>1. /\ v.by = r
        /\ ~IsCommand[r] => task[r].etag = [version |-> agreement.version, config |-> v.under]
    BY Written
  <1>2. /\ m \in Nat /\ m = agreement.version
        /\ DOMAIN versions = 1..m /\ DOMAIN versions' = 1..(m + 1)
        /\ \A n \in 1..m : versions'[n] = versions[n]
        /\ versions'[m + 1] = v
    BY Appended
  <1>3. \A q \in Requests : task'[q] = IF q = r THEN t ELSE task[q]
    BY WritesTypes
  <1>4. ~IsCommand[r] => t.pc = "done" /\ t.etag = task[r].etag
    BY EndedHolds DEF Writes
  <1> HIDE DEF v, m
  <1> SUFFICES ASSUME NEW n \in DOMAIN versions', versions'[n].by # None,
                      ~IsCommand[versions'[n].by]
               PROVE  /\ task'[versions'[n].by].pc = "done"
                      /\ task'[versions'[n].by].etag
                            = [version |-> n - 1, config |-> versions'[n].under]
    BY DEF Shown
  <1>5. CASE n = m + 1
    <2>1. versions'[n] = v /\ n - 1 = agreement.version
      BY <1>2, <1>5
    <2> QED
      BY <1>1, <1>3, <1>4, <2>1
  <1>6. CASE n # m + 1
    <2>1. n \in DOMAIN versions /\ versions'[n] = versions[n]
      BY <1>2, <1>6
    <2>2. versions[n].by \in Requests
      BY <2>1, ByType DEF Inv
    <2>3. task[versions[n].by].pc = "done"
          /\ task[versions[n].by].etag = [version |-> n - 1, config |-> versions[n].under]
      BY <2>1 DEF Inv, Shown
    <2>4. versions[n].by # r
      BY <2>3 DEF Writes
    <2> QED
      BY <1>3, <2>1, <2>2, <2>3, <2>4
  <1> QED
    BY <1>5, <1>6

LEMMA WritesAccepted ==
    ASSUME Inv, NEW r \in Requests, NEW t, Writes(r, t)
    PROVE  AcceptedOnce' /\ AcceptedIsPinned'
  <1> DEFINE v == NewVersion(r, KeyOf[r])
             m == Len(versions)
  <1>1. /\ agreement'.config = v.config
        /\ agreement'.accepted = (agreement.accepted \/ v.state = "accepted")
        /\ agreement.accepted => v.under = agreement.config
        /\ v.config = IF v.state = "accepted" THEN v.under ELSE agreement.config
    BY Written
  <1>2. /\ m \in Nat /\ Len(versions') = m + 1
        /\ DOMAIN versions = 1..m /\ DOMAIN versions' = 1..(m + 1)
        /\ \A n \in 1..m : versions'[n] = versions[n]
        /\ versions'[m + 1] = v
    BY Appended
  <1>3. AcceptedOnce /\ AcceptedIsPinned
    BY DEF Inv
  <1>a. agreement.accepted \in BOOLEAN
    BY DEF Inv, TypeOK, Agreement
  <1> HIDE DEF v, m
  <1>4. AcceptedOnce'
    <2> SUFFICES ASSUME NEW k \in 1..(m + 1), versions'[k].state = "accepted"
                 PROVE  agreement'.accepted
      BY <1>2 DEF AcceptedOnce
    <2>1. CASE k = m + 1
      BY <1>1, <1>2, <2>1
    <2>2. CASE k # m + 1
      <3>1. k \in 1..m
        BY <1>2, <2>2
      <3> QED
        BY <1>1, <1>2, <1>3, <3>1 DEF AcceptedOnce
    <2> QED
      BY <2>1, <2>2
  <1>5. AcceptedIsPinned'
    <2> SUFFICES ASSUME NEW k \in 1..(m + 1), versions'[k].state = "accepted"
                 PROVE  /\ agreement'.config = versions'[k].under
                        /\ \A n \in k..(m + 1) : versions'[n].under = versions'[k].under
      BY <1>2 DEF AcceptedIsPinned
    <2>1. CASE k = m + 1
      <3>1. versions'[k] = v /\ \A n \in k..(m + 1) : n = k
        BY <1>2, <2>1
      <3> QED
        BY <1>1, <3>1
    <2>2. CASE k # m + 1
      <3>1. k \in 1..m /\ versions'[k] = versions[k]
        BY <1>2, <2>2
      <3>2. agreement.accepted
        BY <1>2, <1>3, <3>1 DEF AcceptedOnce
      <3>3. agreement.config = versions[k].under
            /\ \A n \in k..m : versions[n].under = versions[k].under
        BY <1>2, <1>3, <3>1 DEF AcceptedIsPinned, m
      <3>4. v.under = versions[k].under /\ agreement'.config = versions[k].under
        BY <1>1, <3>2, <3>3
      <3>5. \A n \in k..(m + 1) : n = m + 1 \/ (n \in k..m /\ n \in 1..m)
        BY <1>2, <3>1
      <3> QED
        BY <1>2, <3>1, <3>3, <3>4, <3>5
    <2> QED
      BY <2>1, <2>2
  <1> QED
    BY <1>4, <1>5
-----------------------------------------------------------------------------
LEMMA InitInv ==
    ASSUME Init
    PROVE  Inv
  <1> DEFINE v == [state |-> Initial, action |-> None, key |-> None, config |-> 1,
                   by |-> None, from |-> 0, under |-> 1]
             accepted == (Initial = "accepted")
  <1>1. 1 \in Versions /\ Initial \in States /\ MaxFaults \in Nat
    BY ActionsAssumption DEF Versions
  <1>a. agreement = [state |-> Initial, version |-> 1, config |-> 1, accepted |-> accepted]
    BY DEF Init
  <1>b. accepted \in BOOLEAN /\ (Initial = "accepted" => accepted)
    OBVIOUS
  <1> HIDE DEF accepted
  <1>2. agreement \in Agreement /\ agreement.version = 1 /\ agreement.state = Initial
        /\ agreement.config = 1 /\ (Initial = "accepted" => agreement.accepted)
    BY <1>1, <1>a, <1>b DEF Agreement
  <1>3. v \in Version
    BY <1>1 DEF Version
  <1>4. v.state = Initial /\ v.key = None /\ v.config = 1 /\ v.by = None /\ v.under = 1
    OBVIOUS
  <1>5. versions = <<v>>
    BY DEF Init
  <1> HIDE DEF v
  <1>6. versions \in Seq(Version) /\ Len(versions) = 1 /\ DOMAIN versions = {1}
        /\ versions[1] = v
    BY <1>3, <1>5
  <1>7. \A r \in Requests : /\ task[r] \in Task /\ task[r].pc \in {"shown", "start"}
                            /\ task[r].result = "none"
    BY <1>1 DEF Init, Task, Results, NoTag, ETag
  <1>8. TypeOK
    BY <1>1, <1>2, <1>6, <1>7 DEF Init, TypeOK
  <1>9. ASSUME NEW r \in Requests
        PROVE  Holds(r, task[r], agreement) /\ Answers(r, task[r], versions)
    <2>1. task[r].pc \in {"start", "load", "done", "shown"}
      BY <1>7
    <2>2. task[r].result = "none"
      BY <1>7
    <2> QED
      BY <2>1, <2>2, Ignorant, NotDone
  <1>10. HistoryIsOnePath
    BY <1>2, <1>4, <1>6 DEF HistoryIsOnePath
  <1>11. Keyed /\ Shown
    BY <1>4, <1>6 DEF Keyed, Shown
  <1>12. AcceptedOnce /\ AcceptedIsPinned
    BY <1>2, <1>4, <1>6 DEF AcceptedOnce, AcceptedIsPinned
  <1> QED
    BY <1>8, <1>9, <1>10, <1>11, <1>12 DEF Inv

LEMMA NextInv ==
    ASSUME Inv, [Next]_vars
    PROVE  Inv'
  <1>1. ASSUME NEW r \in Requests, NEW t, Writes(r, t)
        PROVE  Kept'
    BY <1>1, WritesTypes, WritesHolds, WritesAnswers, WritesHistory, WritesKeyed,
       WritesShown, WritesAccepted DEF Kept
  <1>2. ASSUME UNCHANGED <<agreement, versions, events, payments, task>>
        PROVE  Kept'
    <2>1. /\ agreement' = agreement /\ versions' = versions
          /\ events' = events /\ payments' = payments /\ task' = task
      BY <1>2
    <2>2. /\ agreement' \in Agreement /\ versions' \in Seq(Version)
          /\ events' \in Seq(Nat) /\ payments' \in Seq(Nat)
          /\ task' \in [Requests -> Task]
      BY <2>1 DEF Inv, TypeOK
    <2>3. /\ \A r \in Requests : Holds(r, task'[r], agreement')
          /\ \A r \in Requests : Answers(r, task'[r], versions')
      BY <2>1 DEF Inv
    <2>4. HistoryIsOnePath'
      BY <2>1 DEF Inv, HistoryIsOnePath
    <2>5. Keyed'
      BY <2>1 DEF Inv, Keyed
    <2>6. Shown'
      BY <2>1 DEF Inv, Shown
    <2>7. AcceptedOnce' /\ AcceptedIsPinned'
      BY <2>1 DEF Inv, AcceptedOnce, AcceptedIsPinned
    <2> QED
      BY <2>2, <2>3, <2>4, <2>5, <2>6, <2>7 DEF Kept
  <1>3. Kept'
    BY <1>1, <1>2, Steps, QuietKeeps
  <1>4. /\ audits' \in [Requests -> SUBSET {"success", "failure"}]
        /\ latest' \in Versions /\ faults' \in 0..MaxFaults
    BY OthersType DEF Inv
  <1> QED
    BY <1>3, <1>4 DEF Kept, Inv, TypeOK

\* Inv is an invariant of every agreement.
THEOREM InvHolds == Spec => []Inv
  BY InitInv, NextInv, PTL DEF Spec

\* What is stored and what every request holds has its type: a commit is only
\* ever built from an agreement that was read and an action of its lifecycle
\* (commitActionTransaction).
THEOREM TypeCorrect == Spec => []TypeOK
  <1>1. Inv => TypeOK
    BY DEF Inv
  <1> QED
    BY <1>1, InvHolds, PTL

\* Whatever requests race, throw and come back, the stored versions are one
\* path through the lifecycle and the current agreement is the last of them
\* (replaceCurrentAgreement and insertAgreementVersion).
THEOREM OnePath == Spec => []HistoryIsOnePath
  <1>1. Inv => HistoryIsOnePath
    BY DEF Inv
  <1> QED
    BY <1>1, InvHolds, PTL

\* An idempotency key makes at most one version (findCompleted, the unique
\* index of agreements__versions).
THEOREM OncePerKey == Spec => []OneVersionPerKey
  <1>1. Inv => OneVersionPerKey
    <2> SUFFICES ASSUME Inv, NEW m \in DOMAIN versions, NEW n \in DOMAIN versions,
                        versions[m].by # None, versions[n].by # None,
                        KeyOf[versions[m].by] = KeyOf[versions[n].by]
                 PROVE  m = n
      BY DEF OneVersionPerKey
    <2>1. versions[m].by \in Requests
      BY ByType DEF Inv
    <2>2. KeyOf[versions[m].by] # None
      BY <2>1, ActionsAssumption
    <2> QED
      BY <2>2 DEF Inv, Keyed
  <1> QED
    BY <1>1, InvHolds, PTL

\* An applicant who is answered "done" has it done (findCompleted,
\* resolveConcurrentUpdate).
THEOREM AnsweredAsStored == Spec => []DoneIsDone
  <1>1. Inv => DoneIsDone
    BY DEF Inv, Answers, DoneIsDone
  <1> QED
    BY <1>1, InvHolds, PTL

\* An applicant's action is applied to the version, and under the definition,
\* it was shown (ifMatch).
THEOREM AppliedToWhatWasShown == Spec => []AppliedAsShown
  <1>1. Inv => AppliedAsShown
    BY DEF Inv, Shown, AppliedAsShown
  <1> QED
    BY <1>1, InvHolds, PTL

\* Acceptance pins the definition, whatever is released afterwards and whoever
\* had loaded another one before (loadDefinitionForAgreement).
THEOREM Pinned == Spec => []AcceptedIsPinned
  <1>1. Inv => AcceptedIsPinned
    BY DEF Inv
  <1> QED
    BY <1>1, InvHolds, PTL
-----------------------------------------------------------------------------
\* A sequence of versions told, none later than k, grows by k + 1.
Increasing(s) == \A i \in 1..(Len(s) - 1) : s[i] < s[i + 1]
Once(s) == \A i, j \in DOMAIN s : s[i] = s[j] => i = j
Tells(s, n) == \E i \in DOMAIN s : s[i] = n
UpTo(s, k) == \A i \in DOMAIN s : s[i] <= k

LEMMA Told ==
    ASSUME NEW s \in Seq(Nat), NEW k \in Nat, UpTo(s, k)
    PROVE  LET u == Append(s, k + 1)
           IN  /\ UpTo(u, k + 1) /\ Tells(u, k + 1)
               /\ \A n \in 1..k : Tells(u, n) <=> Tells(s, n)
               /\ Increasing(s) => Increasing(u)
               /\ Once(s) => Once(u)
  <1> DEFINE u == Append(s, k + 1)
  <1>1. /\ Len(s) \in Nat /\ DOMAIN s = 1..Len(s) /\ DOMAIN u = 1..(Len(s) + 1)
        /\ Len(u) = Len(s) + 1
        /\ \A i \in 1..Len(s) : u[i] = s[i] /\ s[i] \in Nat /\ s[i] <= k
        /\ u[Len(s) + 1] = k + 1
    BY AppendProperties DEF UpTo
  <1> HIDE DEF u
  <1>2. \A i \in 1..(Len(s) + 1) : i = Len(s) + 1 \/ i \in 1..Len(s)
    BY <1>1
  <1>3. UpTo(u, k + 1)
    BY <1>1, <1>2 DEF UpTo
  <1>4. Tells(u, k + 1)
    BY <1>1 DEF Tells
  <1>5. \A n \in 1..k : Tells(u, n) <=> Tells(s, n)
    BY <1>1, <1>2 DEF Tells
  <1>6. ASSUME Increasing(s)
        PROVE  Increasing(u)
    <2> SUFFICES ASSUME NEW i \in 1..Len(s)
                 PROVE  u[i] < u[i + 1]
      BY <1>1 DEF Increasing
    <2>1. CASE i = Len(s)
      BY <1>1, <2>1
    <2>2. CASE i # Len(s)
      <3>a. Len(s) \in Nat
        BY <1>1
      <3>1. i \in 1..(Len(s) - 1) /\ i + 1 \in 1..Len(s)
        BY <2>2, <3>a
      <3> QED
        BY <1>1, <1>6, <3>1 DEF Increasing
    <2> QED
      BY <2>1, <2>2
  <1>7. Once(s) => Once(u)
    BY <1>1, <1>2 DEF Once
  <1> QED
    BY <1>3, <1>4, <1>5, <1>6, <1>7 DEF u

\* PublishedAsStored in those words, and nothing is told of a version to come.
Publishes ==
    /\ Increasing(events) /\ Once(payments)
    /\ UpTo(events, Len(versions)) /\ UpTo(payments, Len(versions))
    /\ \A n \in DOMAIN versions :
          /\ (n = 1 \/ versions[n].state # versions[n - 1].state) <=> Tells(events, n)
          /\ versions[n].action \in Pays <=> Tells(payments, n)

LEMMA InitPublishes ==
    ASSUME Init
    PROVE  Publishes
  <1>1. /\ Len(versions) = 1 /\ DOMAIN versions = {1} /\ versions[1].action = None
        /\ events = <<1>> /\ payments = <<>>
    BY DEF Init
  <1>2. None \notin Pays
    BY ActionsAssumption
  <1>3. Len(events) = 1 /\ DOMAIN events = {1} /\ events[1] = 1 /\ DOMAIN payments = {}
    BY <1>1
  <1> QED
    BY <1>1, <1>2, <1>3 DEF Publishes, Increasing, Once, UpTo, Tells

LEMMA WritesPublishes ==
    ASSUME Inv, Publishes, NEW r \in Requests, NEW t, Writes(r, t)
    PROVE  Publishes'
  <1> DEFINE v == NewVersion(r, KeyOf[r])
             m == Len(versions)
  <1>1. v.action = task[r].action /\ versions[m].state = agreement.state
    BY Written DEF Inv, HistoryIsOnePath
  <1>2. /\ m \in Nat \ {0} /\ m = agreement.version /\ Len(versions') = m + 1
        /\ DOMAIN versions = 1..m /\ DOMAIN versions' = 1..(m + 1)
        /\ \A n \in 1..m : versions'[n] = versions[n]
        /\ versions'[m + 1] = v
    BY Appended
  <1>3. task[r].seen.version = m /\ TargetOf(r) = v.state /\ task[r].seen.state = agreement.state
    <2>1. task[r].seen.version = agreement.version
      BY DEF Writes, ReplacesCurrent
    <2>2. TargetOf(r) = v.state
      BY DEF NewVersion
    <2>3. task[r].seen = agreement
      BY <2>1 DEF Inv, Writes, Holds
    <2> QED
      BY <1>2, <2>1, <2>2, <2>3
  <1> HIDE DEF v, m
  <1>4. events' = IF v.state # versions[m].state THEN Append(events, m + 1) ELSE events
    BY <1>1, <1>3 DEF Writes, Write, Reported
  <1>5. payments' = IF v.action \in Pays THEN Append(payments, m + 1) ELSE payments
    BY <1>1, <1>3 DEF Writes, Write, PaymentRequested
  <1>6. /\ events \in Seq(Nat) /\ payments \in Seq(Nat)
        /\ UpTo(events, m) /\ UpTo(payments, m) /\ Increasing(events) /\ Once(payments)
    BY DEF Inv, TypeOK, Publishes, m
  <1>7. /\ UpTo(events', m + 1) /\ Increasing(events')
        /\ v.state # versions[m].state <=> Tells(events', m + 1)
        /\ \A n \in 1..m : Tells(events', n) <=> Tells(events, n)
    <2>1. CASE v.state # versions[m].state
      BY <1>2, <1>4, <1>6, <2>1, Told
    <2>2. CASE v.state = versions[m].state
      <3>1. \A i \in DOMAIN events : events[i] \in Nat
        BY <1>6
      <3>2. UpTo(events, m + 1) /\ ~Tells(events, m + 1)
        BY <1>2, <1>6, <3>1 DEF UpTo, Tells
      <3> QED
        BY <1>4, <1>6, <2>2, <3>2
    <2> QED
      BY <2>1, <2>2
  <1>8. /\ UpTo(payments', m + 1) /\ Once(payments')
        /\ v.action \in Pays <=> Tells(payments', m + 1)
        /\ \A n \in 1..m : Tells(payments', n) <=> Tells(payments, n)
    <2>1. CASE v.action \in Pays
      BY <1>2, <1>5, <1>6, <2>1, Told
    <2>2. CASE v.action \notin Pays
      <3>1. \A i \in DOMAIN payments : payments[i] \in Nat
        BY <1>6
      <3>2. UpTo(payments, m + 1) /\ ~Tells(payments, m + 1)
        BY <1>2, <1>6, <3>1 DEF UpTo, Tells
      <3> QED
        BY <1>5, <1>6, <2>2, <3>2
    <2> QED
      BY <2>1, <2>2
  <1>9. ASSUME NEW n \in 1..(m + 1)
        PROVE  /\ (n = 1 \/ versions'[n].state # versions'[n - 1].state) <=> Tells(events', n)
               /\ versions'[n].action \in Pays <=> Tells(payments', n)
    <2>1. CASE n = m + 1
      <3>1. n # 1 /\ n - 1 = m /\ versions'[n] = v /\ versions'[n - 1] = versions[m]
        BY <1>2, <2>1
      <3> QED
        BY <1>7, <1>8, <2>1, <3>1
    <2>2. CASE n # m + 1
      <3>1. n \in 1..m /\ versions'[n] = versions[n]
            /\ (n # 1 => versions'[n - 1] = versions[n - 1])
        BY <1>2, <2>2
      <3>2. /\ (n = 1 \/ versions[n].state # versions[n - 1].state) <=> Tells(events, n)
            /\ versions[n].action \in Pays <=> Tells(payments, n)
        BY <1>2, <3>1 DEF Publishes
      <3> QED
        BY <1>7, <1>8, <3>1, <3>2
    <2> QED
      BY <2>1, <2>2
  <1> QED
    BY <1>2, <1>7, <1>8, <1>9 DEF Publishes, Increasing, Once, UpTo, Tells

\* Each change of state is reported once and in order, and each paying action
\* requests one payment, for every interleaving (createActionPublications).
THEOREM PublishedOnce == Spec => []PublishedAsStored
  <1>1. Inv /\ Publishes /\ [Next]_vars => Publishes'
    <2> SUFFICES ASSUME Inv, Publishes, [Next]_vars
                 PROVE  Publishes'
      OBVIOUS
    <2>1. ASSUME UNCHANGED <<versions, events, payments>>
          PROVE  Publishes'
      BY <2>1 DEF Publishes, Increasing, Once, UpTo, Tells
    <2> QED
      BY <2>1, Steps, WritesPublishes DEF Quiet
  <1>2. Publishes => PublishedAsStored
    BY DEF Publishes, PublishedAsStored, Increasing, Once, Tells
  <1> QED
    BY <1>1, <1>2, InitPublishes, InvHolds, PTL DEF Spec

\* Whoever wins the race of executeAgreementActionUseCase and the status
\* commands: one path of versions, one version for a key, each reported once.
THEOREM VersionsSound == Spec => []VersionsAreSound
  <1>1. HistoryIsOnePath /\ OneVersionPerKey /\ PublishedAsStored => VersionsAreSound
    BY DEF VersionsAreSound
  <1> QED
    BY <1>1, OnePath, OncePerKey, PublishedOnce, PTL

\* An action runs under the definition of its page, and of the acceptance once
\* there is one, whatever definitions are released meanwhile.
THEOREM DefinitionsKept == Spec => []ActionsUseTheirDefinition
  <1>1. AppliedAsShown /\ AcceptedIsPinned => ActionsUseTheirDefinition
    BY DEF ActionsUseTheirDefinition
  <1> QED
    BY <1>1, AppliedToWhatWasShown, Pinned, PTL
=============================================================================
