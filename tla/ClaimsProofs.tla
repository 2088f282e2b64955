---------------------------- MODULE ClaimsProofs ----------------------------
(***************************************************************************)
(* Claims and entitlements stay within their limits, claims are never      *)
(* edited under and every claim has its events, for any number of requests *)
(* and any limits the versions of the grant set.                           *)
(*                                                                         *)
(* Everything rests on the lock: while a transaction is open its snapshot  *)
(* is the store, so what it decides from the snapshot holds when it writes *)
(* (Holding).  The rest of the inductive invariant says what a request     *)
(* that has resolved its grant knows (Resolved), and that what is counted  *)
(* is finite.                                                              *)
(*                                                                         *)
(* Who may apply at all is GrantAccess, which shares no state with claims; *)
(* its proofs follow (AccessInv): there the snapshot of an operator's      *)
(* transaction may be old, but then its write conflicts.                   *)
(***************************************************************************)
EXTENDS Claims, GrantAccess, FiniteSetTheorems, SequenceTheorems,
        WellFoundedInduction, TLAPS

\* The transaction that is open has the lock, and its snapshot is the store.
Holding ==
    \A r \in Requests :
        task[r].pc = "commit" => lock = r /\ task[r].seen = Current

\* What a request knows once it has read the application, and once it has
\* resolved the grant.
Resolved ==
    \A r \in Requests :
        /\ task[r].pc \in {"resolve", "lock", "commit"} => task[r].pinned \in Versions
        /\ task[r].pc \in {"lock", "commit"} =>
              /\ task[r].grant \in 1..latest
              /\ task[r].pays = ClaimPaymentFor(task[r].pinned, task[r].grant)
              /\ KindOf[r] = "submit" => entitlement[SlotOf[r]] # None

Claimed == {f \in Refs : claim[f] # None}

Entitled == {s \in Slots : entitlement[s] # None}

FinitelyMany == IsFiniteSet(Claimed) /\ IsFiniteSet(Entitled)

ApprovedByVersion == application.position = "approved" => approvedAs \in Versions

Sound ==
    /\ FinitelyMany
    /\ ApprovedByVersion
    /\ ClaimsWithinLimit
    /\ EntitlementsWithinLimit
    /\ ApprovedIsComplete
    /\ ClaimedStaysAsClaimed
    /\ EventsMatchClaims

Inv ==
    /\ TypeOK
    /\ Holding
    /\ Resolved
    /\ Sound

-----------------------------------------------------------------------------
(***************************************************************************)
(* The operators                                                           *)
(***************************************************************************)
\* The store of a transaction, seen through the operators that count it.
LEMMA StoreFacts ==
    /\ Existing(Current) = Entitled
    /\ \A s \in Slots : CountByEntitlement(Current, s) = Cardinality(ClaimsOn(claim, s))
    /\ Current.claim = claim /\ Current.entitlement = entitlement
    /\ Current.position = application.position /\ Current.version = application.version
  BY DEF Existing, Current, Entitled, CountByEntitlement

LEMMA NextStoreFacts ==
    /\ Existing(Current)' = Entitled'
    /\ \A s \in Slots : CountByEntitlement(Current, s)' = Cardinality(ClaimsOn(claim', s))
  BY DEF Existing, Current, Entitled, CountByEntitlement, ClaimsOn

LEMMA StoreType == TypeOK => Current \in Store
  BY DEF TypeOK, Current, Store

\* A nonempty set of naturals has a least element.
LEMMA LeastElement ==
    ASSUME NEW S \in SUBSET Nat, S # {}
    PROVE  \E x \in S : \A y \in S : x <= y
  <1> DEFINE R == {ss \in Nat \X Nat : ss[1] < ss[2]}
  <1>1. IsWellFoundedOn(R, Nat)
    BY NatLessThanWellFounded, Zenon DEF OpToRel
  <1>2. PICK x \in S : \A y \in S : ~(<<y, x>> \in R)
    <2> HIDE DEF R
    <2> QED
      BY <1>1, WFMin
  <1>3. \A y \in S : ~(y < x)
    BY <1>2
  <1>4. QED
    BY <1>3

\* NextInstanceNumber is a free slot below which none is free.
LEMMA NextSlot ==
    ASSUME TypeOK, FinitelyMany, NEW v \in Versions, MayCreate(Current, v)
    PROVE  /\ NextInstanceNumber(Current) \in Slots \ Entitled
           /\ \A t \in Slots : t < NextInstanceNumber(Current) => t \in Entitled
  <1> USE ClaimsAssumption
  <1> DEFINE free == Slots \ Existing(Current)
  <1>1. Cardinality(Entitled) < MaxEntitlements[v] /\ MaxEntitlements[v] \in Nat \ {0}
    BY StoreFacts DEF MayCreate
  <1>2. free # {}
    <2> SUFFICES ASSUME free = {} PROVE FALSE
      OBVIOUS
    <2>1. 1..MaxEntitlements[v] \in SUBSET Entitled
      BY StoreFacts
    <2>2. Cardinality(1..MaxEntitlements[v]) <= Cardinality(Entitled)
      BY <2>1, FS_Subset DEF FinitelyMany
    <2>3. Cardinality(1..MaxEntitlements[v]) = MaxEntitlements[v]
      BY <1>1, FS_Interval
    <2>4. Cardinality(Entitled) \in Nat
      BY FS_CardinalityType DEF FinitelyMany
    <2>5. QED
      BY <1>1, <2>2, <2>3, <2>4
  <1>3. \E s \in free : \A t \in free : s <= t
    BY <1>2, LeastElement
  <1>4. NextInstanceNumber(Current) = CHOOSE s \in free : \A t \in free : s <= t
    BY DEF NextInstanceNumber
  <1>5. /\ NextInstanceNumber(Current) \in free
        /\ \A t \in free : NextInstanceNumber(Current) <= t
    BY <1>3, <1>4
  <1>6. Existing(Current) = Entitled
    BY StoreFacts
  <1>7. \A x \in Nat : \A t \in Nat : x <= t => ~(t < x)
    OBVIOUS
  <1>8. free \subseteq Nat
    OBVIOUS
  <1>9. \A t \in free : ~(t < NextInstanceNumber(Current))
    <2> HIDE ClaimsAssumption DEF free
    <2> QED
      BY <1>5, <1>7, <1>8
  <1>10. QED
    BY <1>5, <1>6, <1>9

\* One claim more on slot s, under a reference that had none.
LEMMA OneMoreClaim ==
    ASSUME TypeOK, FinitelyMany, NEW f \in Refs, claim[f] = None, NEW c \in Claim,
           claim' = [claim EXCEPT ![f] = c]
    PROVE  /\ IsFiniteSet(Claimed')
           /\ \A t \in Slots :
                /\ Cardinality(ClaimsOn(claim, t)) \in Nat
                /\ Cardinality(ClaimsOn(claim', t)) =
                     Cardinality(ClaimsOn(claim, t)) + (IF t = c.slot THEN 1 ELSE 0)
  <1> USE ClaimsAssumption DEF TypeOK
  <1>1. Claimed' = Claimed \cup {f}
    BY DEF Claimed
  <1>2. IsFiniteSet(Claimed')
    BY <1>1, FS_AddElement DEF FinitelyMany
  <1>3. ASSUME NEW t \in Slots
        PROVE  /\ Cardinality(ClaimsOn(claim, t)) \in Nat
               /\ Cardinality(ClaimsOn(claim', t)) =
                     Cardinality(ClaimsOn(claim, t)) + (IF t = c.slot THEN 1 ELSE 0)
    <2>1. ClaimsOn(claim, t) \in SUBSET Claimed
      BY DEF ClaimsOn, Claimed
    <2>2. IsFiniteSet(ClaimsOn(claim, t))
      BY <2>1, FS_Subset DEF FinitelyMany
    <2>3. Cardinality(ClaimsOn(claim, t)) \in Nat
      BY <2>2, FS_CardinalityType
    <2>4. CASE t = c.slot
      <3>1. ClaimsOn(claim', t) = ClaimsOn(claim, t) \cup {f} /\ f \notin ClaimsOn(claim, t)
        BY <2>4 DEF ClaimsOn
      <3>2. QED
        BY <3>1, <2>2, <2>3, <2>4, FS_AddElement
    <2>5. CASE t # c.slot
      <3>1. ClaimsOn(claim', t) = ClaimsOn(claim, t)
        BY <2>5 DEF ClaimsOn
      <3>2. QED
        BY <3>1, <2>3, <2>5
    <2>6. QED
      BY <2>4, <2>5
  <1>4. QED
    BY <1>2, <1>3

-----------------------------------------------------------------------------
(***************************************************************************)
(* What a request's step does to its task                                  *)
(***************************************************************************)
LEMMA SetFacts ==
    ASSUME TypeOK, NEW r \in Requests, NEW t \in Task, Set(r, t)
    PROVE  /\ task' \in [Requests -> Task]
           /\ \A q \in Requests : task'[q] = IF q = r THEN t ELSE task[q]
  BY DEF TypeOK, Set

LEMMA AnsweredFacts ==
    ASSUME TypeOK, NEW r \in Requests, NEW result \in Results
    PROVE  /\ Answered(r, result) \in Task
           /\ Answered(r, result).pc = "done"
           /\ Answered(r, result).result = result
  BY DEF TypeOK, Task, Answered

LEMMA RetriedFacts ==
    ASSUME TypeOK, NEW r \in Requests
    PROVE  /\ RetryOrThrow(r) \in Task
           /\ RetryOrThrow(r).pc \in {"read", "done"}
           /\ RetryOrThrow(r).result \in {task[r].result, "exhausted"}
  <1>1. "exhausted" \in Results
    BY DEF Results
  <1>2. Retried(r) \in Task /\ Retried(r).pc = "read" /\ Retried(r).result = task[r].result
    BY DEF TypeOK, Task, Retried
  <1>3. QED
    BY <1>1, <1>2, AnsweredFacts DEF RetryOrThrow

\* What is sound of a store stays so while the store stays.
LEMMA StoreUnchanged ==
    ASSUME Sound, UNCHANGED <<application, latest, entitlement, claim, outbox, approvedAs>>
    PROVE  Sound'
  <1> USE DEF Sound
  <1>1. Current' = Current
    BY DEF Current
  <1>2. Existing(Current)' = Existing(Current)
    BY <1>1 DEF Existing
  <1>3. \A s : CountByEntitlement(Current, s)' = CountByEntitlement(Current, s)
    BY <1>1 DEF CountByEntitlement, ClaimsOn
  <1>4. FinitelyMany' /\ ApprovedByVersion'
    BY DEF FinitelyMany, Claimed, Entitled, ApprovedByVersion
  <1>5. ClaimsWithinLimit' /\ ClaimedStaysAsClaimed' /\ EventsMatchClaims'
    BY DEF ClaimsWithinLimit, ClaimedStaysAsClaimed, EventsMatchClaims
  <1>6. EntitlementsWithinLimit' /\ ApprovedIsComplete'
    BY <1>2, <1>3 DEF EntitlementsWithinLimit, ApprovedIsComplete
  <1>7. QED
    BY <1>4, <1>5, <1>6

\* A request goes on, answers or is rolled back and the store stays as it is.
LEMMA UnwrittenSteps ==
    ASSUME Inv, NEW r \in Requests, NEW t \in Task, Set(r, t), Unwritten,
           lock' = lock \/ (task[r].pc = "commit" /\ lock' = None),
           faults' \in 0..MaxFaults,
           t.pc \in {"resolve", "lock"} => t.pinned \in Versions,
           t.pc = "lock" => /\ t.grant = latest
                            /\ t.pays = ClaimPaymentFor(t.pinned, t.grant)
                            /\ KindOf[r] = "submit" => entitlement[SlotOf[r]] # None,
           t.pc # "commit"
    PROVE  Inv'
  <1> USE ClaimsAssumption DEF Inv
  <1>1. /\ task' \in [Requests -> Task]
        /\ \A q \in Requests : task'[q] = IF q = r THEN t ELSE task[q]
    BY SetFacts
  <1>2. UNCHANGED <<application, latest, entitlement, claim, outbox, approvedAs>>
    BY DEF Unwritten
  <1>3. TypeOK'
    BY <1>1, <1>2 DEF TypeOK
  <1>4. Current' = Current
    BY <1>2 DEF Current
  <1>5. Holding'
    <2> SUFFICES ASSUME NEW q \in Requests, task'[q].pc = "commit"
                 PROVE  lock' = q /\ task'[q].seen = Current'
      BY DEF Holding
    <2>1. q # r /\ task[q].pc = "commit" /\ task'[q] = task[q]
      BY <1>1
    <2>2. lock = q /\ task[q].seen = Current
      BY <2>1 DEF Holding
    <2>3. lock' = lock
      BY <2>1, <2>2 DEF Holding
    <2>4. QED
      BY <2>1, <2>2, <2>3, <1>4
  <1>6. Resolved'
    <2> SUFFICES ASSUME NEW q \in Requests
                 PROVE  /\ task'[q].pc \in {"resolve", "lock", "commit"} =>
                              task'[q].pinned \in Versions
                        /\ task'[q].pc \in {"lock", "commit"} =>
                              /\ task'[q].grant \in 1..latest
                              /\ task'[q].pays = ClaimPaymentFor(task'[q].pinned, task'[q].grant)
                              /\ KindOf[q] = "submit" => entitlement[SlotOf[q]] # None
      BY <1>2 DEF Resolved
    <2>1. CASE q = r
      <3>1. latest \in 1..latest
        BY DEF TypeOK, Versions
      <3>2. QED
        BY <2>1, <3>1, <1>1
    <2>2. CASE q # r
      BY <2>2, <1>1 DEF Resolved
    <2>3. QED
      BY <2>1, <2>2
  <1>7. Sound'
    BY <1>2, StoreUnchanged
  <1>8. QED
    BY <1>3, <1>5, <1>6, <1>7

-----------------------------------------------------------------------------
(***************************************************************************)
(* The writes of a transaction                                             *)
(***************************************************************************)
\* What the transaction that commits knows.
LEMMA Committing ==
    ASSUME Inv, NEW r \in Requests, task[r].pc = "commit"
    PROVE  /\ task[r].seen = Current /\ task[r].seen.claim = claim
           /\ lock = r
           /\ \A q \in Requests : task[q].pc = "commit" => q = r
           /\ task[r].grant \in 1..latest /\ task[r].grant \in Versions
           /\ task[r].pinned \in Versions
  <1> USE ClaimsAssumption DEF Inv
  <1>1. task[r].seen = Current /\ lock = r
    BY DEF Holding
  <1>2. \A q \in Requests : task[q].pc = "commit" => q = r
    BY <1>1 DEF Holding
  <1>3. task[r].grant \in 1..latest /\ task[r].pinned \in Versions
    BY DEF Resolved
  <1>4. latest \in 1..Latest
    BY DEF TypeOK, Versions
  <1>5. task[r].grant \in Versions
    BY <1>3, <1>4 DEF Versions
  <1>6. QED
    BY <1>1, <1>2, <1>3, <1>5, StoreFacts

\* After a commit no transaction is open, and what the other requests know
\* still holds: versions are only added, entitlements only created.
LEMMA CommitEnds ==
    ASSUME Inv, NEW r \in Requests, task[r].pc = "commit",
           NEW result \in Results, Committed(r, result),
           latest' = latest,
           \A s \in Slots : entitlement[s] # None => entitlement'[s] # None
    PROVE  /\ task' \in [Requests -> Task] /\ lock' = None /\ faults' \in 0..MaxFaults
           /\ Holding' /\ Resolved'
  <1> USE ClaimsAssumption DEF Inv
  <1>1. faults' \in 0..MaxFaults /\ lock' = None
    <2>1. faults \in 0..MaxFaults /\ MaxFaults \in Nat
      BY DEF TypeOK
    <2>2. lock' = None /\ (faults' = faults \/ (faults < MaxFaults /\ faults' = faults + 1))
      BY DEF Committed, Unlock
    <2> HIDE ClaimsAssumption DEF Inv
    <2>3. QED
      BY <2>1, <2>2
  <1>2. PICK x \in Results : Set(r, Answered(r, x))
    <2>1. "error" \in Results
      BY DEF Results
    <2>2. Set(r, Answered(r, result)) \/ Set(r, Answered(r, "error"))
      BY DEF Committed
    <2>3. QED
      BY <2>1, <2>2
  <1>3. Answered(r, x) \in Task /\ Answered(r, x).pc = "done"
    BY AnsweredFacts
  <1>4. /\ task' \in [Requests -> Task]
        /\ \A q \in Requests : task'[q] = IF q = r THEN Answered(r, x) ELSE task[q]
    BY <1>2, <1>3, SetFacts
  <1>5. Holding'
    BY <1>3, <1>4, Committing DEF Holding
  <1>6. Resolved'
    BY <1>3, <1>4 DEF Resolved
  <1>7. QED
    BY <1>1, <1>4, <1>5, <1>6

LEMMA EventsType ==
    ASSUME TypeOK, NEW f \in Refs, NEW n \in Nat,
           outbox' = [outbox EXCEPT ![f] = [case |-> @.case + 1, payment |-> @.payment + n]]
    PROVE  /\ outbox' \in [Refs -> [case : Nat, payment : Nat]]
           /\ \A g \in Refs : g # f => outbox'[g] = outbox[g]
           /\ outbox'[f].case = outbox[f].case + 1
           /\ outbox'[f].payment = outbox[f].payment + n
  BY DEF TypeOK

LEMMA ClaimType ==
    ASSUME NEW r \in Requests, NEW s \in Slots, NEW g \in Versions, NEW p \in Versions,
           NEW n \in Nat, NEW d \in Nat
    PROVE  [by |-> r, slot |-> s, grant |-> g, pinned |-> p, nth |-> n, data |-> d] \in Claim
  BY DEF Claim

\* A submission writes its claim.
LEMMA ClaimSteps ==
    ASSUME Inv, NEW r \in Requests, GoesOn(r, "submit"), claim[RefOf[r]] = None,
           WriteClaim(r)
    PROVE  Inv'
  <1> USE ClaimsAssumption DEF Inv
  <1> DEFINE f == RefOf[r]
             s == SlotOf[r]
             v == task[r].grant
             c == NewClaim(r)
  <1>1. /\ task[r].pc = "commit" /\ KindOf[r] = "submit" /\ Decision(r) = "go on"
        /\ f \in Refs /\ s \in Slots
    BY DEF GoesOn
  <1>2. /\ task[r].seen = Current /\ task[r].seen.claim = claim
        /\ v \in Versions /\ v \in 1..latest /\ task[r].pinned \in Versions
    BY <1>1, Committing
  <1>3. /\ entitlement[s] \in Nat
        /\ task[r].pays = ClaimPaymentFor(task[r].pinned, v)
    BY <1>1 DEF Resolved, TypeOK
  <1>4. application.position = "claiming" /\ HasRemainingCapacity(Current, s, v)
    <2>1. DecideSubmission(Current, f, s, v) = "go on"
      BY <1>1, <1>2 DEF Decision
    <2>2. CanClaimAt(Current.position) /\ HasRemainingCapacity(Current, s, v)
      BY <2>1 DEF DecideSubmission
    <2>3. QED
      BY <2>2, StoreFacts DEF CanClaimAt
  <1> DEFINE n(t) == Cardinality(ClaimsOn(claim, t))
  <1>5. n(s) \in Nat /\ n(s) < MaximumClaims[v]
    <2>1. ClaimsOn(claim, s) \in SUBSET Claimed
      BY DEF ClaimsOn, Claimed
    <2>2. n(s) \in Nat
      BY <2>1, FS_Subset, FS_CardinalityType DEF Sound, FinitelyMany
    <2>3. QED
      BY <2>2, <1>1, <1>4, StoreFacts DEF HasRemainingCapacity
  <1>6. c = [by |-> r, slot |-> s, grant |-> v, pinned |-> task[r].pinned,
             nth |-> n(s) + 1, data |-> entitlement[s]]
    BY <1>1, StoreFacts DEF NewClaim
  <1>7. c \in Claim /\ c # None
    <2>1. n(s) + 1 \in Nat
      BY <1>5
    <2> HIDE DEF n, c
    <2>2. [by |-> r, slot |-> s, grant |-> v, pinned |-> task[r].pinned,
           nth |-> n(s) + 1, data |-> entitlement[s]] \in Claim
      BY <2>1, <1>1, <1>2, <1>3, ClaimType, Zenon
    <2>3. c \in Claim
      BY <2>2, <1>6, Zenon
    <2>4. QED
      BY <2>3
  <1>8. /\ claim' = [claim EXCEPT ![f] = c]
        /\ UNCHANGED <<latest, entitlement>>
        /\ Committed(r, "created")
    BY DEF WriteClaim
  <1>9. /\ IsFiniteSet(Claimed')
        /\ \A t \in Slots : /\ n(t) \in Nat
                            /\ Cardinality(ClaimsOn(claim', t)) =
                                  n(t) + (IF t = c.slot THEN 1 ELSE 0)
    BY <1>1, <1>7, <1>8, OneMoreClaim DEF Sound
  <1> HIDE DEF c
  <1>10. /\ claim' \in [Refs -> Claim \cup {None}]
         /\ \A g \in Refs : claim'[g] = IF g = f THEN c ELSE claim[g]
    <2>1. claim \in [Refs -> Claim \cup {None}]
      BY DEF TypeOK
    <2> HIDE ClaimsAssumption DEF Inv, f
    <2>2. QED
      BY <2>1, <1>1, <1>7, <1>8
  <1>11. c.slot = s /\ c.grant = v /\ c.pinned = task[r].pinned /\ c.nth = n(s) + 1
           /\ c.data = entitlement[s]
    BY <1>6
  <1>12. Approves(r) =>
            \A t \in Entitled : Cardinality(ClaimsOn(claim', t)) >= MaximumClaims[v]
    <2> SUFFICES ASSUME Approves(r), NEW t \in Entitled
                 PROVE  Cardinality(ClaimsOn(claim', t)) >= MaximumClaims[v]
      OBVIOUS
    <2>1. IsFinalClaim(Current, s, v) /\ t \in Slots /\ t \in Existing(Current)
      BY <1>2, StoreFacts DEF Approves, Entitled
    <2>2. CountByEntitlement(Current, t) + (IF t = s THEN 1 ELSE 0) >= MaximumClaims[v]
      BY <2>1 DEF IsFinalClaim
    <2>3. n(t) + (IF t = s THEN 1 ELSE 0) >= MaximumClaims[v]
      BY <2>1, <2>2, StoreFacts
    <2>4. QED
      BY <2>1, <2>3, <1>9, <1>11
  <1>13. /\ task' \in [Requests -> Task] /\ lock' = None /\ faults' \in 0..MaxFaults
         /\ Holding' /\ Resolved'
    <2>1. "created" \in Results
      BY DEF Results
    <2>2. QED
      BY <1>1, <1>8, <2>1, CommitEnds
  <1>14. \/ /\ Approves(r)
            /\ application' = [application EXCEPT !.position = "approved"]
            /\ approvedAs' = v
         \/ /\ ~Approves(r)
            /\ UNCHANGED <<application, approvedAs>>
    BY DEF WriteClaim
  <1>15. /\ application' \in [position : Positions, version : Versions]
         /\ approvedAs' \in Versions \cup {None}
         /\ application'.position \in {"claiming", "approved"}
         /\ application'.position = "approved" => Approves(r) /\ approvedAs' = v
    BY <1>2, <1>4, <1>14 DEF TypeOK, Positions
  <1>16. /\ outbox' \in [Refs -> [case : Nat, payment : Nat]]
         /\ \A g \in Refs : g # f => outbox'[g] = outbox[g]
         /\ outbox'[f].case = outbox[f].case + 1
         /\ outbox'[f].payment = outbox[f].payment + (IF task[r].pays THEN 1 ELSE 0)
    <2>1. (IF task[r].pays THEN 1 ELSE 0) \in Nat
      OBVIOUS
    <2>2. outbox' = [outbox EXCEPT ![f] =
                        [case |-> @.case + 1,
                         payment |-> @.payment + (IF task[r].pays THEN 1 ELSE 0)]]
      BY DEF WriteClaim
    <2> HIDE DEF f
    <2>3. QED
      BY <2>1, <2>2, <1>1, EventsType
  <1>17. TypeOK'
    BY <1>8, <1>10, <1>13, <1>15, <1>16 DEF TypeOK
  <1>18. Entitled' = Entitled /\ FinitelyMany'
    BY <1>8, <1>9 DEF Entitled, Sound, FinitelyMany
  <1>19. ApprovedByVersion'
    BY <1>2, <1>15 DEF ApprovedByVersion
  <1>20. ClaimsWithinLimit'
    <2> SUFFICES ASSUME NEW g \in Refs, claim'[g] # None
                 PROVE  claim'[g].nth <= MaximumClaims[claim'[g].grant]
      BY DEF ClaimsWithinLimit
    <2>1. CASE g = f
      <3>1. n(s) + 1 <= MaximumClaims[v]
        BY <1>2, <1>5
      <3>2. QED
        BY <2>1, <3>1, <1>1, <1>10, <1>11
    <2>2. CASE g # f
      BY <2>2, <1>10 DEF Sound, ClaimsWithinLimit
    <2>3. QED
      BY <2>1, <2>2
  <1>21. EntitlementsWithinLimit'
    <2>1. Existing(Current)' = Existing(Current)
      BY <1>18, StoreFacts, NextStoreFacts
    <2>2. QED
      BY <2>1, <1>8 DEF Sound, EntitlementsWithinLimit
  <1>22. ApprovedIsComplete'
    <2> SUFFICES ASSUME application'.position = "approved", NEW t \in Existing(Current)'
                 PROVE  CountByEntitlement(Current, t)' >= MaximumClaims[approvedAs']
      BY DEF ApprovedIsComplete
    <2>1. t \in Entitled /\ t \in Slots
      BY <1>18, NextStoreFacts DEF Entitled
    <2>2. Approves(r) /\ approvedAs' = v
      BY <1>15
    <2>3. CountByEntitlement(Current, t)' = Cardinality(ClaimsOn(claim', t))
      BY <2>1, NextStoreFacts
    <2>4. Cardinality(ClaimsOn(claim', t)) >= MaximumClaims[v]
      BY <2>1, <2>2, <1>12
    <2>5. CountByEntitlement(Current, t)' >= MaximumClaims[v]
      BY <2>3, <2>4, Zenon
    <2>6. QED
      BY <2>2, <2>5, Zenon
  <1>23. ClaimedStaysAsClaimed'
    BY <1>8, <1>10, <1>11 DEF Sound, ClaimedStaysAsClaimed
  <1>24. EventsMatchClaims'
    <2> SUFFICES ASSUME NEW g \in Refs
                 PROVE  /\ outbox'[g].case = (IF claim'[g] # None THEN 1 ELSE 0)
                        /\ outbox'[g].payment =
                              (IF claim'[g] = None THEN 0
                               ELSE IF /\ HasPayment[claim'[g].pinned]
                                       /\ ~RequiresApproval[claim'[g].grant]
                                    THEN 1 ELSE 0)
      BY DEF EventsMatchClaims
    <2>1. CASE g = f
      <3>1. outbox[f].case = 0 /\ outbox[f].payment = 0
        BY <1>1 DEF Sound, EventsMatchClaims
      <3>2. outbox'[f].case = 1 /\ outbox'[f].payment = (IF task[r].pays THEN 1 ELSE 0)
        BY <3>1, <1>16
      <3>3. claim'[g] = c /\ claim'[g] # None
        BY <2>1, <1>1, <1>7, <1>10
      <3>4. task[r].pays = (HasPayment[c.pinned] /\ ~RequiresApproval[c.grant])
        BY <1>3, <1>11 DEF ClaimPaymentFor
      <3>5. QED
        BY <2>1, <3>2, <3>3, <3>4
    <2>2. CASE g # f
      BY <2>2, <1>10, <1>16 DEF Sound, EventsMatchClaims
    <2>3. QED
      BY <2>1, <2>2
  <1>25. QED
    BY <1>13, <1>17, <1>18, <1>19, <1>20, <1>21, <1>22, <1>23, <1>24 DEF Sound

\* A write that leaves the claims, their events and the application alone.
LEMMA EntitlementWrites ==
    ASSUME Inv, NEW r \in Requests, task[r].pc = "commit",
           NEW result \in Results, Committed(r, result),
           NEW s \in Slots, NEW d \in Nat, entitlement' = [entitlement EXCEPT ![s] = d],
           \A f \in Refs : claim[f] # None => claim[f].slot # s,
           UNCHANGED <<application, latest, claim, outbox, approvedAs>>,
           FinitelyMany', EntitlementsWithinLimit', ApprovedIsComplete'
    PROVE  Inv'
  <1> USE ClaimsAssumption DEF Inv
  <1>1. /\ entitlement' \in [Slots -> Nat \cup {None}]
        /\ \A t \in Slots : entitlement'[t] = IF t = s THEN d ELSE entitlement[t]
    BY DEF TypeOK
  <1>2. \A t \in Slots : entitlement[t] # None => entitlement'[t] # None
    BY <1>1
  <1>3. /\ task' \in [Requests -> Task] /\ lock' = None /\ faults' \in 0..MaxFaults
        /\ Holding' /\ Resolved'
    BY <1>2, CommitEnds
  <1>4. TypeOK'
    BY <1>1, <1>3 DEF TypeOK
  <1>5. ApprovedByVersion' /\ ClaimsWithinLimit' /\ EventsMatchClaims'
    BY DEF Sound, ApprovedByVersion, ClaimsWithinLimit, EventsMatchClaims
  <1>6. ClaimedStaysAsClaimed'
    <2> SUFFICES ASSUME NEW f \in Refs, claim[f] # None
                 PROVE  entitlement'[claim[f].slot] = claim[f].data
      BY DEF ClaimedStaysAsClaimed
    <2>1. claim[f] \in Claim
      BY DEF TypeOK
    <2>2. claim[f].slot \in Slots
      BY <2>1 DEF Claim
    <2>3. entitlement[claim[f].slot] = claim[f].data
      BY DEF Sound, ClaimedStaysAsClaimed
    <2>4. QED
      BY <1>1, <2>2, <2>3
  <1>7. QED
    BY <1>3, <1>4, <1>5, <1>6 DEF Sound

\* A claim is on an entitlement that exists.
LEMMA ClaimedExists ==
    ASSUME Inv, NEW f \in Refs, claim[f] # None
    PROVE  claim[f].slot \in Entitled
  <1> USE ClaimsAssumption DEF Inv
  <1>1. claim[f] \in Claim
    BY DEF TypeOK
  <1>2. claim[f].slot \in Slots /\ claim[f].data \in Nat
    BY <1>1 DEF Claim
  <1>3. entitlement[claim[f].slot] = claim[f].data
    BY DEF Sound, ClaimedStaysAsClaimed
  <1>4. QED
    BY <1>2, <1>3 DEF Entitled

\* A creation writes the next entitlement.
LEMMA EntitlementSteps ==
    ASSUME Inv, NEW r \in Requests, GoesOn(r, "create"),
           WriteEntitlement(r, NextInstanceNumber(task[r].seen))
    PROVE  Inv'
  <1> USE ClaimsAssumption DEF Inv
  <1> DEFINE s == NextInstanceNumber(Current)
             v == task[r].grant
  <1>1. task[r].pc = "commit" /\ KindOf[r] = "create" /\ Decision(r) = "go on"
    BY DEF GoesOn
  <1>2. task[r].seen = Current /\ v \in Versions /\ v \in 1..latest
    BY <1>1, Committing
  <1>3. application.position = "claiming" /\ MayCreate(Current, v)
    <2>1. DecideCreation(Current, v) = "go on"
      BY <1>1, <1>2 DEF Decision
    <2>2. IsAvailableAt(Current.position) /\ MayCreate(Current, v)
      BY <2>1 DEF DecideCreation
    <2>3. QED
      BY <2>2, StoreFacts DEF IsAvailableAt
  <1>4. s \in Slots \ Entitled /\ \A t \in Slots : t < s => t \in Entitled
    BY <1>2, <1>3, NextSlot DEF Sound
  <1>5. /\ entitlement' = [entitlement EXCEPT ![s] = 0]
        /\ Committed(r, "created")
        /\ UNCHANGED <<application, latest, claim, outbox, approvedAs>>
    BY <1>2 DEF WriteEntitlement
  <1> HIDE DEF s, v
  <1>6. Entitled' = Entitled \cup {s}
    BY <1>4, <1>5 DEF Entitled, TypeOK
  <1>7. FinitelyMany'
    BY <1>5, <1>6, FS_AddElement DEF Sound, FinitelyMany, Claimed
  <1>8. EntitlementsWithinLimit'
    <2>1. Cardinality(Entitled) \in Nat /\ Cardinality(Entitled') = Cardinality(Entitled) + 1
      BY <1>4, <1>6, FS_AddElement, FS_CardinalityType DEF Sound, FinitelyMany
    <2>2. Cardinality(Entitled) < MaxEntitlements[v] /\ MaxEntitlements[v] \in Nat
      BY <1>2, <1>3, StoreFacts DEF MayCreate
    <2>3. Cardinality(Entitled') <= MaxEntitlements[v] /\ v \in 1..latest'
      BY <2>1, <2>2, <1>2, <1>5
    <2>4. \A x, t \in Slots : x < t /\ t \in Entitled' => x \in Entitled'
      <3> SUFFICES ASSUME NEW x \in Slots, NEW t \in Slots, x < t, t \in Entitled'
                   PROVE  x \in Entitled'
        OBVIOUS
      <3>1. CASE t = s
        BY <3>1, <1>4, <1>6
      <3>2. CASE t # s
        <4>1. \A y, z \in Slots : y < z /\ z \in Entitled => y \in Entitled
          BY StoreFacts DEF Sound, EntitlementsWithinLimit
        <4>2. QED
          BY <3>2, <4>1, <1>6
      <3>3. QED
        BY <3>1, <3>2
    <2>5. QED
      BY <2>3, <2>4, NextStoreFacts DEF EntitlementsWithinLimit
  <1>9. ApprovedIsComplete'
    BY <1>3, <1>5 DEF ApprovedIsComplete
  <1>10. \A f \in Refs : claim[f] # None => claim[f].slot # s
    BY <1>4, ClaimedExists
  <1>11. "created" \in Results /\ 0 \in Nat
    BY DEF Results
  <1>12. QED
    BY <1>1, <1>4, <1>5, <1>7, <1>8, <1>9, <1>10, <1>11, EntitlementWrites

\* An update changes an entitlement that has no claim.
LEMMA UpdateSteps ==
    ASSUME Inv, NEW r \in Requests, CommitUpdate(r)
    PROVE  Inv'
  <1> USE ClaimsAssumption DEF Inv
  <1> DEFINE s == SlotOf[r]
             v == task[r].grant
  <1>1. /\ task[r].pc = "commit" /\ KindOf[r] = "update" /\ Decision(r) = "go on"
        /\ s \in Slots
    BY DEF CommitUpdate, GoesOn
  <1>2. task[r].seen = Current
    BY <1>1, Committing
  <1>3. s \in Existing(Current) /\ CanBeChanged(Current, s, v)
    <2>1. DecideUpdate(Current, s, v) = "go on"
      BY <1>1, <1>2 DEF Decision
    <2>2. QED
      BY <2>1 DEF DecideUpdate
  <1>4. s \in Entitled /\ Cardinality(ClaimsOn(claim, s)) = 0
    BY <1>1, <1>3, StoreFacts DEF CanBeChanged
  <1>5. \A f \in Refs : claim[f] # None => claim[f].slot # s
    <2>1. ClaimsOn(claim, s) \in SUBSET Claimed
      BY DEF ClaimsOn, Claimed
    <2>2. IsFiniteSet(ClaimsOn(claim, s))
      BY <2>1, FS_Subset DEF Sound, FinitelyMany
    <2>3. ClaimsOn(claim, s) = {}
      BY <2>2, <1>4, FS_EmptySet
    <2>4. QED
      BY <2>3 DEF ClaimsOn
  <1>6. /\ entitlement[s] \in Nat
        /\ entitlement' = [entitlement EXCEPT ![s] = entitlement[s] + 1]
        /\ Committed(r, "updated")
        /\ UNCHANGED <<application, latest, claim, outbox, approvedAs>>
    BY <1>4 DEF CommitUpdate, Entitled, TypeOK
  <1>7. entitlement[s] + 1 \in Nat
    BY <1>6
  <1> HIDE DEF s, v
  <1>8. Entitled' = Entitled
    BY <1>1, <1>4, <1>6, <1>7 DEF Entitled, TypeOK
  <1>9. FinitelyMany'
    BY <1>6, <1>8 DEF Sound, FinitelyMany, Claimed
  <1>10. Existing(Current)' = Existing(Current)
    BY <1>8, StoreFacts, NextStoreFacts
  <1>11. EntitlementsWithinLimit'
    BY <1>6, <1>10 DEF Sound, EntitlementsWithinLimit
  <1>12. ApprovedIsComplete'
    <2>1. \A t \in Slots : CountByEntitlement(Current, t)' = CountByEntitlement(Current, t)
      BY <1>6, StoreFacts, NextStoreFacts
    <2>2. Existing(Current) \subseteq Slots
      BY DEF Existing
    <2>3. QED
      BY <2>1, <2>2, <1>6, <1>10 DEF Sound, ApprovedIsComplete
  <1>13. "updated" \in Results
    BY DEF Results
  <1>14. QED
    BY <1>1, <1>5, <1>6, <1>7, <1>9, <1>11, <1>12, <1>13, EntitlementWrites

-----------------------------------------------------------------------------
(***************************************************************************)
(* The other steps                                                         *)
(***************************************************************************)
\* A transaction begins: its snapshot is the store, and no other is open.
LEMMA LockSteps ==
    ASSUME Inv, NEW r \in Requests, LockForUpdate(r)
    PROVE  Inv'
  <1> USE ClaimsAssumption DEF Inv
  <1> DEFINE t == [task[r] EXCEPT !.pc = "commit", !.seen = Current]
  <1>1. /\ task[r].pc = "lock" /\ lock = None /\ lock' = r /\ Set(r, t)
        /\ UNCHANGED <<application, latest, entitlement, claim, outbox, approvedAs, faults>>
    BY DEF LockForUpdate
  <1>2. task[r] \in Task /\ Current \in Store
    BY StoreType DEF TypeOK
  <1>3. /\ t \in Task /\ t.pc = "commit" /\ t.seen = Current
        /\ t.pinned = task[r].pinned /\ t.grant = task[r].grant /\ t.pays = task[r].pays
    <2> HIDE ClaimsAssumption DEF Inv
    <2> QED
      BY <1>2 DEF Task
  <1> HIDE DEF t
  <1>4. /\ task' \in [Requests -> Task]
        /\ \A q \in Requests : task'[q] = IF q = r THEN t ELSE task[q]
    BY <1>1, <1>3, SetFacts
  <1>5. TypeOK'
    BY <1>1, <1>4 DEF TypeOK
  <1>6. Current' = Current
    BY <1>1 DEF Current
  <1>7. Holding'
    BY <1>1, <1>3, <1>4, <1>6 DEF Holding
  <1>8. Resolved'
    <2> SUFFICES ASSUME NEW q \in Requests
                 PROVE  /\ task'[q].pc \in {"resolve", "lock", "commit"} =>
                              task'[q].pinned \in Versions
                        /\ task'[q].pc \in {"lock", "commit"} =>
                              /\ task'[q].grant \in 1..latest
                              /\ task'[q].pays = ClaimPaymentFor(task'[q].pinned, task'[q].grant)
                              /\ KindOf[q] = "submit" => entitlement[SlotOf[q]] # None
      BY <1>1 DEF Resolved
    <2>1. CASE q = r
      BY <2>1, <1>1, <1>3, <1>4 DEF Resolved
    <2>2. CASE q # r
      BY <2>2, <1>4 DEF Resolved
    <2>3. QED
      BY <2>1, <2>2
  <1>9. Sound'
    BY <1>1, StoreUnchanged
  <1>10. QED
    BY <1>5, <1>7, <1>8, <1>9

\* A request that answers, whatever the answer, and one that starts again.
LEMMA AnswerSteps ==
    ASSUME Inv, NEW r \in Requests, NEW result \in Results, Set(r, Answered(r, result)),
           Unwritten, lock' = lock \/ (task[r].pc = "commit" /\ lock' = None),
           faults' \in 0..MaxFaults
    PROVE  Inv'
  <1>1. Answered(r, result) \in Task /\ Answered(r, result).pc = "done"
    BY AnsweredFacts DEF Inv
  <1>2. QED
    BY <1>1, UnwrittenSteps

LEMMA RetrySteps ==
    ASSUME Inv, NEW r \in Requests, Set(r, RetryOrThrow(r)), Unwritten,
           task[r].pc = "commit", lock' = None, faults' = faults
    PROVE  Inv'
  <1>1. RetryOrThrow(r) \in Task /\ RetryOrThrow(r).pc \in {"read", "done"}
    BY RetriedFacts DEF Inv
  <1>2. faults' \in 0..MaxFaults
    BY DEF Inv, TypeOK
  <1>3. QED
    BY <1>1, <1>2, UnwrittenSteps

\* What a transaction decides is an answer, or to go on.
LEMMA DecisionFacts ==
    ASSUME NEW r \in Requests, Decision(r) # "go on"
    PROVE  Decision(r) \in {"replayed", "refused", "full", "not found"}
  BY DEF Decision, DecideSubmission, DecideCreation, DecideUpdate

LEMMA RequestSteps ==
    ASSUME Inv, NEW r \in Requests, RequestStep(r)
    PROVE  Inv'
  <1> USE DEF Inv
  <1>1. /\ \A x \in {"replayed", "refused", "full", "not found", "exhausted"} : x \in Results
        /\ task[r] \in Task /\ faults \in 0..MaxFaults
        /\ application.version \in Versions /\ latest \in Versions
    BY DEF Results, TypeOK
  <1>2. CASE CheckReplay(r)
    <2>1. /\ Set(r, Answered(r, "replayed")) \/ Set(r, [task[r] EXCEPT !.pc = "read"])
          /\ Unwritten /\ lock' = lock /\ faults' = faults
      BY <1>2 DEF CheckReplay, Unwritten
    <2>2. CASE Set(r, Answered(r, "replayed"))
      BY <2>1, <2>2, <1>1, AnswerSteps
    <2>3. CASE Set(r, [task[r] EXCEPT !.pc = "read"])
      <3>1. [task[r] EXCEPT !.pc = "read"] \in Task /\ [task[r] EXCEPT !.pc = "read"].pc = "read"
        BY <1>1 DEF Task
      <3>2. QED
        BY <2>1, <2>3, <3>1, <1>1, UnwrittenSteps
    <2>4. QED
      BY <2>1, <2>2, <2>3
  <1>3. CASE ReadApplication(r)
    <2> DEFINE t == [task[r] EXCEPT !.pc = "resolve", !.pinned = application.version]
    <2>1. Set(r, t) /\ Unwritten /\ lock' = lock /\ faults' = faults
      BY <1>3 DEF ReadApplication, Unwritten
    <2>2. t \in Task /\ t.pc = "resolve" /\ t.pinned \in Versions
      BY <1>1 DEF Task
    <2> HIDE DEF t
    <2>3. QED
      BY <2>1, <2>2, <1>1, UnwrittenSteps
  <1>4. CASE ResolveGrant(r)
    <2> DEFINE t == [task[r] EXCEPT !.pc = "lock", !.grant = latest,
                        !.pays = ClaimPaymentFor(task[r].pinned, latest)]
    <2>1. /\ \/ Set(r, Answered(r, "not found"))
             \/ /\ Set(r, t)
                /\ KindOf[r] = "submit" => entitlement[SlotOf[r]] # None
          /\ Unwritten /\ lock' = lock /\ faults' = faults /\ task[r].pc = "resolve"
      BY <1>4 DEF ResolveGrant, Unwritten
    <2>2. CASE Set(r, Answered(r, "not found"))
      BY <2>1, <2>2, <1>1, AnswerSteps
    <2>3. CASE Set(r, t) /\ (KindOf[r] = "submit" => entitlement[SlotOf[r]] # None)
      <3>1. task[r].pinned \in Versions
        BY <2>1 DEF Resolved
      <3>2. ClaimPaymentFor(task[r].pinned, latest) \in BOOLEAN
        BY <3>1, <1>1, ClaimsAssumption DEF ClaimPaymentFor
      <3>3. /\ t \in Task /\ t.pc = "lock" /\ t.pinned = task[r].pinned /\ t.grant = latest
            /\ t.pays = ClaimPaymentFor(task[r].pinned, latest)
        BY <3>2, <1>1 DEF Task
      <3> HIDE DEF t
      <3>4. QED
        BY <2>1, <2>3, <3>1, <3>3, <1>1, UnwrittenSteps
    <2>4. QED
      BY <2>1, <2>2, <2>3
  <1>5. CASE LockForUpdate(r)
    BY <1>5, LockSteps
  <1>6. CASE AbandonStaleConfig(r)
    <2>1. /\ Set(r, Answered(r, "exhausted")) \/ Set(r, RetryOrThrow(r))
          /\ Unwritten /\ lock' = None /\ faults' = faults /\ task[r].pc = "commit"
      BY <1>6 DEF AbandonStaleConfig, Unlock
    <2>2. QED
      BY <2>1, <1>1, AnswerSteps, RetrySteps
  <1>7. CASE Refuse(r)
    <2>1. /\ Set(r, Answered(r, Decision(r))) /\ Decision(r) # "go on"
          /\ Unwritten /\ lock' = None /\ faults' = faults /\ task[r].pc = "commit"
      BY <1>7 DEF Refuse, Unlock
    <2>2. Decision(r) \in Results
      BY <2>1, <1>1, DecisionFacts
    <2>3. QED
      BY <2>1, <2>2, <1>1, AnswerSteps
  <1>8. CASE CommitClaim(r)
    <2>1. GoesOn(r, "submit") /\ task[r].pc = "commit"
      BY <1>8 DEF CommitClaim, GoesOn
    <2>2. CASE claim[RefOf[r]] = None
      BY <2>1, <2>2, <1>8, ClaimSteps DEF CommitClaim
    <2>3. CASE claim[RefOf[r]] # None
      <3>1. /\ Set(r, Answered(r, "replayed")) /\ lock' = None /\ Unwritten
            /\ faults' = faults
        BY <2>3, <1>8 DEF CommitClaim, RolledBack, Unlock
      <3>2. QED
        BY <2>1, <3>1, <1>1, AnswerSteps
    <2>4. QED
      BY <2>2, <2>3
  <1>9. CASE CommitEntitlement(r)
    <2> DEFINE s == NextInstanceNumber(task[r].seen)
    <2>1. GoesOn(r, "create") /\ task[r].pc = "commit"
      BY <1>9 DEF CommitEntitlement, GoesOn
    <2>2. WriteEntitlement(r, s) \/ RolledBack(r, RetryOrThrow(r))
      BY <1>9 DEF CommitEntitlement
    <2>3. CASE WriteEntitlement(r, s)
      BY <2>1, <2>3, EntitlementSteps
    <2>4. CASE RolledBack(r, RetryOrThrow(r))
      BY <2>1, <2>4, RetrySteps DEF RolledBack, Unlock
    <2>5. QED
      BY <2>2, <2>3, <2>4
  <1>10. CASE CommitUpdate(r)
    BY <1>10, UpdateSteps
  <1>11. QED
    BY <1>2, <1>3, <1>4, <1>5, <1>6, <1>7, <1>8, <1>9, <1>10 DEF RequestStep

LEMMA AbortSteps ==
    ASSUME Inv, NEW r \in Requests, Abort(r)
    PROVE  Inv'
  <1>1. /\ Set(r, Answered(r, "error")) /\ Unwritten /\ lock' = None
        /\ task[r].pc = "commit" /\ faults < MaxFaults /\ faults' = faults + 1
    BY DEF Abort, Unlock
  <1>2. faults \in 0..MaxFaults /\ MaxFaults \in Nat
    BY ClaimsAssumption DEF Inv, TypeOK
  <1>3. faults' \in 0..MaxFaults
    BY <1>1, <1>2
  <1>4. "error" \in Results
    BY DEF Results
  <1>5. QED
    BY <1>1, <1>3, <1>4, AnswerSteps

\* A release, a roll-forward and a status event: the last two wait for the lock.
LEMMA OtherSteps ==
    ASSUME Inv, Publish \/ RollForward \/ MoveExternally
    PROVE  Inv'
  <1> USE ClaimsAssumption DEF Inv
  <1>1. UNCHANGED <<lock, entitlement, claim, outbox, approvedAs, task, faults>>
    BY DEF Publish, RollForward, MoveExternally
  <1>2. /\ latest \in 1..Latest /\ latest' \in 1..Latest /\ latest <= latest'
    <2>1. latest \in 1..Latest /\ Latest \in Nat
      BY DEF TypeOK, Versions
    <2>2. latest' = latest \/ (latest < Latest /\ latest' = latest + 1)
      BY DEF Publish, RollForward, MoveExternally
    <2> HIDE ClaimsAssumption DEF Inv
    <2>3. QED
      BY <2>1, <2>2
  <1>3. /\ application' \in [position : Positions, version : Versions]
        /\ \/ application' = application
           \/ lock = None /\ application'.position = application.position
           \/ lock = None /\ application'.position = "withdrawn"
    BY DEF Publish, RollForward, MoveExternally, TypeOK, Positions
  <1>4. TypeOK'
    BY <1>1, <1>2, <1>3 DEF TypeOK, Versions
  <1>5. Holding'
    <2>1. CASE application' = application
      <3>1. Current' = Current
        BY <2>1, <1>1 DEF Current
      <3>2. QED
        BY <3>1, <1>1 DEF Holding
    <2>2. CASE lock = None
      BY <2>2, <1>1 DEF Holding
    <2>3. QED
      BY <2>1, <2>2, <1>3
  <1>6. Resolved'
    <2>1. \A x \in 1..latest : x \in 1..latest'
      BY <1>2
    <2>2. QED
      BY <1>1, <2>1 DEF Resolved
  <1>7. Existing(Current)' = Existing(Current)
    BY <1>1, StoreFacts, NextStoreFacts DEF Entitled
  <1>8. \A s \in Slots : CountByEntitlement(Current, s)' = CountByEntitlement(Current, s)
    BY <1>1, StoreFacts, NextStoreFacts
  <1>9. FinitelyMany' /\ ClaimsWithinLimit' /\ ClaimedStaysAsClaimed' /\ EventsMatchClaims'
    BY <1>1 DEF Sound, FinitelyMany, Claimed, Entitled, ClaimsWithinLimit,
                ClaimedStaysAsClaimed, EventsMatchClaims
  <1>10. application'.position = "approved" => application.position = "approved"
    BY <1>3
  <1>11. ApprovedByVersion'
    BY <1>1, <1>10 DEF Sound, ApprovedByVersion
  <1>12. ApprovedIsComplete'
    <2>1. Existing(Current) \subseteq Slots
      BY DEF Existing
    <2>2. QED
      BY <2>1, <1>1, <1>7, <1>8, <1>10 DEF Sound, ApprovedIsComplete
  <1>13. EntitlementsWithinLimit'
    <2>1. \A x \in 1..latest : x \in 1..latest'
      BY <1>2
    <2>2. QED
      BY <2>1, <1>7 DEF Sound, EntitlementsWithinLimit
  <1>14. QED
    BY <1>4, <1>5, <1>6, <1>9, <1>11, <1>12, <1>13 DEF Sound

-----------------------------------------------------------------------------
(***************************************************************************)
(* The theorems                                                            *)
(***************************************************************************)
LEMMA Initially == Init => Inv
  <1> SUFFICES ASSUME Init PROVE Inv
    OBVIOUS
  <1> USE ClaimsAssumption
  <1>1. /\ application = [position |-> "claiming", version |-> 1] /\ lock = None /\ latest = 1
        /\ entitlement = [s \in Slots |-> IF s \in Given THEN 0 ELSE None]
        /\ claim = [f \in Refs |-> None] /\ outbox = [f \in Refs |-> [case |-> 0, payment |-> 0]]
        /\ approvedAs = None /\ faults = 0
    BY DEF Init
  <1>2. 1 \in Versions /\ 1 \in 1..latest
    BY <1>1 DEF Versions
  <1>3. NewTask \in Task /\ NoTask \in Task /\ NewTask.pc = "start" /\ NoTask.pc = "done"
    BY DEF NewTask, NoTask, Task, Results
  <1>4. /\ task \in [Requests -> Task]
        /\ \A r \in Requests : task[r].pc \in {"start", "done"}
    BY <1>3 DEF Init
  <1>5. TypeOK
    BY <1>1, <1>2, <1>4 DEF TypeOK, Positions
  <1>6. Holding /\ Resolved
    BY <1>4 DEF Holding, Resolved
  <1>7. Entitled = Given /\ Claimed = {}
    <2>1. 0 # None /\ Given \subseteq Slots
      OBVIOUS
    <2> HIDE ClaimsAssumption
    <2>2. \A s \in Slots : entitlement[s] # None <=> s \in Given
      BY <2>1, <1>1
    <2>3. Entitled = Given
      BY <2>1, <2>2 DEF Entitled
    <2>4. Claimed = {}
      BY <1>1 DEF Claimed
    <2>5. QED
      BY <2>3, <2>4
  <1>8. FinitelyMany
    BY <1>7, FS_EmptySet DEF FinitelyMany
  <1>9. EntitlementsWithinLimit
    BY <1>2, <1>7, StoreFacts DEF EntitlementsWithinLimit
  <1>10. ApprovedByVersion /\ ApprovedIsComplete
    BY <1>1 DEF ApprovedByVersion, ApprovedIsComplete
  <1>11. ClaimsWithinLimit /\ ClaimedStaysAsClaimed /\ EventsMatchClaims
    BY <1>1 DEF ClaimsWithinLimit, ClaimedStaysAsClaimed, EventsMatchClaims
  <1>12. QED
    BY <1>5, <1>6, <1>8, <1>9, <1>10, <1>11 DEF Inv, Sound

LEMMA InvStep == Inv /\ [Next]_vars => Inv'
  <1> SUFFICES ASSUME Inv, [Next]_vars PROVE Inv'
    OBVIOUS
  <1>1. CASE Next
    BY <1>1, RequestSteps, AbortSteps, OtherSteps DEF Next
  <1>2. CASE UNCHANGED vars
    <2> USE <1>2 DEF vars, Inv
    <2>1. TypeOK'
      BY DEF TypeOK
    <2>2. Holding' /\ Resolved'
      BY DEF Holding, Resolved, Current
    <2>3. Sound'
      BY StoreUnchanged
    <2>4. QED
      BY <2>1, <2>2, <2>3
  <1>3. QED
    BY <1>1, <1>2

\* The claims, the entitlements and every request keep their types.
THEOREM TypeCorrect == Spec => []TypeOK
  <1>1. Inv => TypeOK
    BY DEF Inv
  <1>2. QED
    BY <1>1, Initially, InvStep, PTL DEF Spec

\* Whatever number of submissions and creations run at once and whatever version
\* of the grant each resolved, no entitlement takes more claims and no application
\* more entitlements than allowed, and the claim that approves the application
\* (transitionOnFinalClaim) is the last there is room for.
THEOREM LimitsAreKept == Spec => []LimitsHold
  <1>1. Inv => LimitsHold
    BY DEF Inv, Sound, LimitsHold
  <1>2. QED
    BY <1>1, Initially, InvStep, PTL DEF Spec

\* An update never changes an entitlement that has a claim, though it looks for
\* claims long before it writes.
THEOREM ClaimedIsFrozen == Spec => []ClaimedStaysAsClaimed
  <1>1. Inv => ClaimedStaysAsClaimed
    BY DEF Inv, Sound
  <1>2. QED
    BY <1>1, Initially, InvStep, PTL DEF Spec

\* Each claim has one command for its case, and the payment request that the
\* configuration its application was pinned to asks for, whatever failed.
THEOREM EventsFollowClaims == Spec => []EventsMatchClaims
  <1>1. Inv => EventsMatchClaims
    BY DEF Inv, Sound
  <1>2. QED
    BY <1>1, Initially, InvStep, PTL DEF Spec

\* What a step that is not a refusal can answer.
LEMMA OtherAnswers ==
    ASSUME Inv, NEW q \in Requests, RequestStep(q) \/ Abort(q), ~Refuse(q)
    PROVE  /\ \A r \in Requests : r # q => task'[r] = task[r]
           /\ task'[q].result \in {task[q].result, "replayed", "not found", "exhausted",
                                   "created", "updated", "error"}
  <1> USE DEF Inv
  <1> DEFINE answers == {"replayed", "not found", "exhausted", "created", "updated", "error"}
  <1>1. task[q] \in Task /\ answers \subseteq Results
    BY DEF TypeOK, Results
  <1>2. ASSUME NEW t \in Task, Set(q, t)
        PROVE  (\A r \in Requests : r # q => task'[r] = task[r]) /\ task'[q] = t
    BY <1>2, SetFacts
  <1>3. ASSUME NEW x \in answers, Set(q, Answered(q, x))
        PROVE  (\A r \in Requests : r # q => task'[r] = task[r]) /\ task'[q].result = x
    <2>1. x \in Results
      BY <1>1
    <2>2. Answered(q, x) \in Task /\ Answered(q, x).result = x
      BY <2>1, AnsweredFacts
    <2>3. QED
      BY <2>2, <1>2, <1>3
  <1>4. ASSUME Set(q, RetryOrThrow(q))
        PROVE  /\ \A r \in Requests : r # q => task'[r] = task[r]
               /\ task'[q].result \in {task[q].result, "exhausted"}
    BY <1>2, <1>4, RetriedFacts
  <1>5. ASSUME NEW t \in Task, Set(q, t), t.result = task[q].result
        PROVE  /\ \A r \in Requests : r # q => task'[r] = task[r]
               /\ task'[q].result = task[q].result
    BY <1>2, <1>5
  <1>6. CASE CheckReplay(q)
    <2>1. [task[q] EXCEPT !.pc = "read"] \in Task
            /\ [task[q] EXCEPT !.pc = "read"].result = task[q].result
      BY <1>1 DEF Task
    <2>2. Set(q, Answered(q, "replayed")) \/ Set(q, [task[q] EXCEPT !.pc = "read"])
      BY <1>6 DEF CheckReplay
    <2>3. QED
      BY <2>1, <2>2, <1>3, <1>5
  <1>7. CASE ReadApplication(q)
    <2> DEFINE t == [task[q] EXCEPT !.pc = "resolve", !.pinned = application.version]
    <2>1. t \in Task /\ t.result = task[q].result
      BY <1>1 DEF Task, TypeOK
    <2>2. Set(q, t)
      BY <1>7 DEF ReadApplication
    <2> HIDE DEF t
    <2>3. QED
      BY <2>1, <2>2, <1>5
  <1>8. CASE ResolveGrant(q)
    <2> DEFINE t == [task[q] EXCEPT !.pc = "lock", !.grant = latest,
                        !.pays = ClaimPaymentFor(task[q].pinned, latest)]
    <2>1. task[q].pinned \in Versions /\ latest \in Versions
      BY <1>8 DEF ResolveGrant, Resolved, TypeOK
    <2>2. ClaimPaymentFor(task[q].pinned, latest) \in BOOLEAN
      BY <2>1, ClaimsAssumption DEF ClaimPaymentFor
    <2>3. t \in Task /\ t.result = task[q].result
      BY <2>1, <2>2, <1>1 DEF Task
    <2>4. Set(q, Answered(q, "not found")) \/ Set(q, t)
      BY <1>8 DEF ResolveGrant
    <2> HIDE DEF t
    <2>5. QED
      BY <2>3, <2>4, <1>3, <1>5
  <1>9. CASE LockForUpdate(q)
    <2> DEFINE t == [task[q] EXCEPT !.pc = "commit", !.seen = Current]
    <2>1. Current \in Store
      BY StoreType
    <2>2. t \in Task /\ t.result = task[q].result
      BY <2>1, <1>1 DEF Task
    <2>3. Set(q, t)
      BY <1>9 DEF LockForUpdate
    <2> HIDE DEF t
    <2>4. QED
      BY <2>2, <2>3, <1>5
  <1>10. CASE AbandonStaleConfig(q)
    BY <1>10, <1>3, <1>4 DEF AbandonStaleConfig
  <1>11. CASE CommitClaim(q)
    BY <1>11, <1>3 DEF CommitClaim, WriteClaim, Committed, RolledBack
  <1>12. CASE CommitEntitlement(q)
    <2>1. \/ WriteEntitlement(q, NextInstanceNumber(task[q].seen))
          \/ RolledBack(q, RetryOrThrow(q))
      BY <1>12 DEF CommitEntitlement
    <2>2. QED
      BY <2>1, <1>3, <1>4 DEF WriteEntitlement, Committed, RolledBack
  <1>13. CASE CommitUpdate(q)
    BY <1>13, <1>3 DEF CommitUpdate, Committed
  <1>14. CASE Abort(q)
    BY <1>14, <1>3 DEF Abort
  <1>15. QED
    BY <1>6, <1>7, <1>8, <1>9, <1>10, <1>11, <1>12, <1>13, <1>14 DEF RequestStep

\* A claim that is sent again is answered as a replay: the transaction looks for
\* it before it looks at the position and at the limit, in a snapshot that is
\* the store.
THEOREM ReplaysAreAnswered == Spec => ReplaysAreNotRefused
  <1> DEFINE A == \A r \in Requests :
                      /\ KindOf[r] = "submit"
                      /\ task[r].result = "none"
                      /\ task'[r].result \in {"refused", "full"}
                      => claim[RefOf[r]] = None
  <1>1. ASSUME Inv, [Next]_vars PROVE [A]_vars
    <2> SUFFICES ASSUME NEW r \in Requests, Next, KindOf[r] = "submit",
                        task[r].result = "none", task'[r].result \in {"refused", "full"}
                 PROVE  claim[RefOf[r]] = None
      BY <1>1
    <2>1. ~(Publish \/ RollForward \/ MoveExternally)
      BY DEF Publish, RollForward, MoveExternally
    <2>2. PICK q \in Requests : RequestStep(q) \/ Abort(q)
      BY <2>1 DEF Next
    <2>3. Refuse(q)
      BY <1>1, <2>2, OtherAnswers
    <2>4. Answered(q, Decision(q)) \in Task /\ Answered(q, Decision(q)).result = Decision(q)
      <3>1. Decision(q) \in Results
        BY <2>3, DecisionFacts DEF Refuse, Results
      <3>2. QED
        BY <1>1, <3>1, AnsweredFacts DEF Inv
    <2>5. \A p \in Requests : task'[p] = IF p = q THEN Answered(q, Decision(q)) ELSE task[p]
      BY <1>1, <2>3, <2>4, SetFacts DEF Inv, Refuse
    <2>6. r = q /\ Decision(r) \in {"refused", "full"}
      BY <2>4, <2>5
    <2>7. task[r].pc = "commit"
      BY <2>3, <2>6 DEF Refuse
    <2>8. task[r].seen.claim = claim
      BY <1>1, <2>7, Committing
    <2>9. QED
      BY <2>6, <2>8 DEF Decision, DecideSubmission
  <1>2. QED
    BY <1>1, Initially, InvStep, PTL DEF Spec, ReplaysAreNotRefused

-----------------------------------------------------------------------------
(***************************************************************************)
(* Access to a grant.  A change that may still be stored has seen what is  *)
(* stored, unless another was stored since; only one holds a document; and *)
(* an audit event is written with the change it is about.                  *)
(***************************************************************************)
Docs == {"list", "settings"}

\* What a change of the document would read now.
Now(doc) == IF stored[doc] = NoDocument THEN DefaultOf(doc) ELSE stored[doc]

StoreSound ==
    /\ DOMAIN stored = Docs /\ DOMAIN writes = Docs /\ DOMAIN calls = Calls
    /\ \A doc \in Docs : writes[doc] \in Nat
    /\ audits \in Seq(Range(audits))

CallSound(r) ==
    /\ DOMAIN calls[r] = DOMAIN NoCall
    /\ calls[r].phase # "none" =>
          calls[r].kind \in DOMAIN Asks /\ calls[r].input \in Asks[calls[r].kind]
    /\ calls[r].phase \in {"settings", "audit"} => calls[r].kind \notin Changes
    /\ calls[r].phase \in {"write", "commit"} =>
          /\ calls[r].kind \in Changes
          /\ calls[r].since \in 0 .. writes[DocOf(calls[r].kind)]
          /\ calls[r].since = writes[DocOf(calls[r].kind)] =>
                calls[r].seen = Now(DocOf(calls[r].kind))
    /\ calls[r].phase = "commit" => calls[r].since = writes[DocOf(calls[r].kind)]

OneHolds ==
    \A r, x \in Calls :
        /\ calls[r].phase = "commit" /\ calls[x].phase = "commit"
        /\ DocOf(calls[r].kind) = DocOf(calls[x].kind)
        => r = x

TrailSound ==
    \A doc \in Docs :
        /\ Cardinality(Trail(doc)) = writes[doc]
        /\ \A i, j \in Trail(doc) :
              i < j /\ Trail(doc) \cap (i + 1) .. (j - 1) = {} => audits[j].old = audits[i].new
        /\ \A i \in Trail(doc) :
              (\A j \in Trail(doc) : j <= i) =>
                  stored[doc] = audits[i].new /\ stored[doc] # NoDocument

ToldSound(r) ==
    /\ calls[r].phase # "ended" => Successes(r) = {}
    /\ calls[r].phase = "ended" =>
          /\ calls[r].answer.status = 200 =>
                \E i \in Successes(r) : /\ Successes(r) = {i}
                                        /\ audits[i].new = calls[r].answer.value
          /\ calls[r].answer.status \in {400, 403, 404, 503} => Successes(r) = {}
          /\ calls[r].answer.status = 400 =>
                /\ calls[r].kind = "replace"
                /\ calls[r].answer.value = MarkedLines(calls[r].input, Problems(calls[r].input))

AccessInv ==
    /\ StoreSound /\ OneHolds /\ TrailSound
    /\ \A r \in Calls : CallSound(r) /\ ToldSound(r)

-----------------------------------------------------------------------------
\* A sequence of anything is a sequence of what is in it.
LEMMA OwnRange ==
    ASSUME NEW S, NEW s \in Seq(S)
    PROVE  s \in Seq(Range(s))
  <1>1. Len(s) \in Nat /\ s \in [1 .. Len(s) -> S] /\ DOMAIN s = 1 .. Len(s)
    BY LenProperties
  <1> DEFINE R == Range(s)
  <1>2. \A i \in 1 .. Len(s) : s[i] \in R
    BY <1>1 DEF Range
  <1> HIDE DEF R
  <1>3. s \in [1 .. Len(s) -> R]
    BY <1>1, <1>2
  <1>4. s \in Seq(R)
    BY <1>1, <1>3
  <1>5. QED
    BY <1>4 DEF R

\* An audit event goes after those that are there.
LEMMA AuditAppended ==
    ASSUME audits \in Seq(Range(audits)), NEW e, audits' = Append(audits, e)
    PROVE  /\ Len(audits) \in Nat /\ DOMAIN audits = 1 .. Len(audits)
           /\ Len(audits') = Len(audits) + 1 /\ DOMAIN audits' = 1 .. (Len(audits) + 1)
           /\ \A i \in 1 .. Len(audits) : audits'[i] = audits[i]
           /\ audits'[Len(audits) + 1] = e
           /\ audits' \in Seq(Range(audits'))
  <1> DEFINE S == Range(audits) \cup {e}
  <1>1. audits \in Seq(S)
    BY SeqMonotonic
  <1>2. /\ Len(audits) \in Nat /\ DOMAIN audits = 1 .. Len(audits)
        /\ Len(audits') = Len(audits) + 1 /\ audits' \in Seq(S)
        /\ \A i \in 1 .. Len(audits) : audits'[i] = audits[i]
        /\ audits'[Len(audits) + 1] = e
    BY <1>1, AppendProperties, LenProperties
  <1>3. DOMAIN audits' = 1 .. (Len(audits) + 1)
    BY <1>2, LenProperties
  <1>4. audits' \in Seq(Range(audits'))
    BY <1>2, OwnRange
  <1>5. QED
    BY <1>2, <1>3, <1>4

\* A failure, or what another request did, changes nothing a request was told.
LEMMA SuccessesGrow ==
    ASSUME audits \in Seq(Range(audits)), NEW e, audits' = Append(audits, e), NEW r
    PROVE  /\ e.status # "success" \/ e.by # r => Successes(r)' = Successes(r)
           /\ e.status = "success" /\ e.by = r =>
                 Successes(r)' = Successes(r) \cup {Len(audits) + 1}
           /\ \A i \in Successes(r) : audits'[i] = audits[i]
  <1>1. /\ Len(audits) \in Nat /\ DOMAIN audits = 1 .. Len(audits)
        /\ DOMAIN audits' = 1 .. (Len(audits) + 1)
        /\ \A i \in 1 .. Len(audits) : audits'[i] = audits[i]
        /\ audits'[Len(audits) + 1] = e
    BY AuditAppended
  <1>2. QED
    BY <1>1 DEF Successes

LEMMA TrailGrows ==
    ASSUME audits \in Seq(Range(audits)), NEW e, audits' = Append(audits, e), NEW doc
    PROVE  /\ ~(e.status = "success" /\ e.kind \in Changes /\ DocOf(e.kind) = doc) =>
                 Trail(doc)' = Trail(doc)
           /\ e.status = "success" /\ e.kind \in Changes /\ DocOf(e.kind) = doc =>
                 Trail(doc)' = Trail(doc) \cup {Len(audits) + 1}
           /\ \A i \in Trail(doc) : i \in 1 .. Len(audits) /\ audits'[i] = audits[i]
  <1>1. /\ Len(audits) \in Nat /\ DOMAIN audits = 1 .. Len(audits)
        /\ DOMAIN audits' = 1 .. (Len(audits) + 1)
        /\ \A i \in 1 .. Len(audits) : audits'[i] = audits[i]
        /\ audits'[Len(audits) + 1] = e
    BY AuditAppended
  <1>2. QED
    BY <1>1 DEF Trail

-----------------------------------------------------------------------------

\* The lines kept of the first i, for each i up to n.
NoLines == <<>>

WithLine(lines, line) == IF line = "" THEN lines ELSE Append(lines, line)

IsKept(kept, s, n) ==
    kept = [i \in 0 .. n |->
              IF i = 0 THEN NoLines
              ELSE WithLine(kept[i - 1], s[i])]

LEMMA KeptExists ==
    ASSUME NEW s, NEW n \in Nat
    PROVE  \E kept : IsKept(kept, s, n)
  <1> DEFINE bad == {m \in Nat : ~\E kept : IsKept(kept, s, m)}
  <1> SUFFICES ASSUME bad # {} PROVE FALSE
    OBVIOUS
  <1>1. PICK m \in bad : \A k \in bad : m <= k
    BY LeastElement
  <1>2. CASE m = 0
    <2>1. IsKept([i \in 0 .. 0 |-> NoLines], s, 0)
      BY DEF IsKept
    <2>2. QED
      BY <2>1, <1>1, <1>2
  <1>3. CASE m # 0
    <2>1. m - 1 \in Nat /\ ~(m <= m - 1)
      BY <1>3
    <2>2. PICK kept : IsKept(kept, s, m - 1)
      BY <2>1, <1>1
    <2> DEFINE more == [i \in 0 .. m |->
                          IF i # m THEN kept[i]
                          ELSE WithLine(kept[m - 1], s[m])]
    <2>3. IsKept(more, s, m)
      <3>1. \A i \in 0 .. m - 1 :
               kept[i] = IF i = 0 THEN NoLines
                         ELSE WithLine(kept[i - 1], s[i])
        BY <2>1, <2>2 DEF IsKept
      <3>2. \A i \in 0 .. m :
               more[i] = IF i = 0 THEN NoLines
                         ELSE WithLine(more[i - 1], s[i])
        BY <2>1, <3>1
      <3>3. more = [i \in 0 .. m |-> more[i]]
        OBVIOUS
      <3> HIDE DEF more
      <3>4. QED
        BY <3>2, <3>3, Zenon DEF IsKept
    <2>4. QED
      BY <1>1, <2>3
  <1>4. QED
    BY <1>2, <1>3

LEMMA AppendedLine ==
    ASSUME NEW S, NEW q \in Seq(S), NEW e \in S
    PROVE  /\ \A v : v \in Range(Append(q, e)) <=> v \in Range(q) \/ v = e
           /\ \A v : v \in Duplicate(Append(q, e)) <=>
                        v \in Duplicate(q) \/ (v = e /\ e \in Range(q))
  <1> DEFINE more == Append(q, e)
  <1>1. /\ Len(q) \in Nat /\ DOMAIN q = 1 .. Len(q)
        /\ more \in Seq(S) /\ Len(more) = Len(q) + 1
        /\ \A i \in 1 .. Len(q) : more[i] = q[i]
        /\ more[Len(q) + 1] = e
    BY AppendProperties, LenProperties
  <1>2. DOMAIN more = 1 .. (Len(q) + 1)
    BY <1>1, LenProperties
  <1> HIDE DEF more
  <1>3. \A v : v \in Range(more) <=> v \in Range(q) \/ v = e
    BY <1>1, <1>2 DEF Range
  <1>4. ASSUME NEW v
        PROVE  v \in Duplicate(more) <=> v \in Duplicate(q) \/ (v = e /\ e \in Range(q))
    <2>1. ASSUME v \in Duplicate(more), v \notin Duplicate(q)
          PROVE  v = e /\ e \in Range(q)
      <3>1. PICK i, j \in DOMAIN more : i < j /\ more[i] = v /\ more[j] = v
        BY <2>1 DEF Duplicate
      <3>2. v \in Range(q) => ~(j \in 1 .. Len(q))
        BY <1>1, <2>1, <3>1, <1>2 DEF Duplicate
      <3>3. i \in 1 .. Len(q) /\ v = q[i]
        BY <1>1, <1>2, <3>1
      <3>4. QED
        BY <1>1, <1>2, <3>1, <3>2, <3>3 DEF Range
    <2>2. ASSUME v \in Duplicate(q)
          PROVE  v \in Duplicate(more)
      <3>1. PICK i, j \in DOMAIN q : i < j /\ q[i] = v /\ q[j] = v
        BY <2>2 DEF Duplicate
      <3>2. i \in DOMAIN more /\ j \in DOMAIN more /\ more[i] = v /\ more[j] = v
        BY <1>1, <1>2, <3>1
      <3>3. QED
        BY <3>1, <3>2 DEF Duplicate, Range
    <2>3. ASSUME v = e, e \in Range(q)
          PROVE  v \in Duplicate(more)
      <3>1. PICK i \in 1 .. Len(q) : q[i] = e
        BY <2>3, <1>1 DEF Range
      <3>2. /\ i \in DOMAIN more /\ (Len(q) + 1) \in DOMAIN more /\ i < Len(q) + 1
            /\ more[i] = v /\ more[Len(q) + 1] = v
        BY <1>1, <1>2, <2>3, <3>1
      <3>3. QED
        BY <3>2 DEF Duplicate, Range
    <2>4. QED
      BY <2>1, <2>2, <2>3
  <1>5. QED
    BY <1>3, <1>4 DEF more

\* What is left of a list when its blank lines do not count.
LEMMA NonBlankKeeps ==
    ASSUME NEW S, NEW s \in Seq(S)
    PROVE  /\ \A v : v \in Range(NonBlank(s)) <=> v # "" /\ \E a \in DOMAIN s : s[a] = v
           /\ \A v : v \in Duplicate(NonBlank(s)) <=>
                        v # "" /\ \E a, b \in DOMAIN s : a < b /\ s[a] = v /\ s[b] = v
  <1>1. Len(s) \in Nat /\ DOMAIN s = 1 .. Len(s) /\ \A i \in 1 .. Len(s) : s[i] \in S
    BY LenProperties
  <1> DEFINE kept == CHOOSE f : IsKept(f, s, Len(s))
  <1>2. IsKept(kept, s, Len(s))
    BY <1>1, KeptExists
  <1>3. NonBlank(s) = kept[Len(s)]
    BY Zenon DEF NonBlank, IsKept, NoLines, WithLine
  <1> HIDE DEF kept
  <1>4. \A i \in 0 .. Len(s) :
           kept[i] = IF i = 0 THEN NoLines
                     ELSE WithLine(kept[i - 1], s[i])
    BY <1>2 DEF IsKept
  <1> DEFINE InIt(v, i) == v # "" /\ \E a \in 1 .. i : s[a] = v
             Twice(v, i) == v # "" /\ \E a, b \in 1 .. i : a < b /\ s[a] = v /\ s[b] = v
             Fine(i) == /\ kept[i] \in Seq(S)
                        /\ \A v : v \in Range(kept[i]) <=> InIt(v, i)
                        /\ \A v : v \in Duplicate(kept[i]) <=> Twice(v, i)
             bad == {i \in 0 .. Len(s) : ~Fine(i)}
  <1>5. Fine(0)
    <2>1. kept[0] = <<>>
      BY <1>1, <1>4 DEF NoLines
    <2>2. <<>> \in Seq(S) /\ DOMAIN <<>> = {}
      OBVIOUS
    <2>3. Range(kept[0]) = {} /\ Duplicate(kept[0]) = {}
      BY <2>1, <2>2 DEF Range, Duplicate
    <2>4. \A v : ~InIt(v, 0) /\ ~Twice(v, 0)
      OBVIOUS
    <2> HIDE DEF InIt, Twice
    <2>5. QED
      BY <2>1, <2>2, <2>3, <2>4
  <1>6. ASSUME NEW m \in 1 .. Len(s), Fine(m - 1)
        PROVE  Fine(m)
    <2>1. m \in 0 .. Len(s) /\ m # 0 /\ m \in Nat /\ s[m] \in S
      BY <1>1
    <2>2. /\ \A a : a \in 1 .. m <=> a \in 1 .. (m - 1) \/ a = m
          /\ \A a \in 1 .. (m - 1) : a < m /\ ~(m < a)
          /\ ~(m < m)
      BY <2>1
    <2>3. kept[m] = IF s[m] = "" THEN kept[m - 1] ELSE Append(kept[m - 1], s[m])
      BY <1>4, <2>1, Zenon DEF WithLine
    <2>4. CASE s[m] = ""
      <3>1. \A v : (InIt(v, m) <=> InIt(v, m - 1)) /\ (Twice(v, m) <=> Twice(v, m - 1))
        BY <2>2, <2>4
      <3> HIDE DEF InIt, Twice
      <3>2. QED
        BY <1>6, <2>3, <2>4, <3>1
    <2>5. CASE s[m] # ""
      <3>1. \A v : InIt(v, m) <=> InIt(v, m - 1) \/ v = s[m]
        BY <2>2, <2>5
      <3>2. ASSUME NEW v
            PROVE  Twice(v, m) <=> Twice(v, m - 1) \/ (v = s[m] /\ InIt(s[m], m - 1))
        <4>1. ASSUME Twice(v, m), ~Twice(v, m - 1)
              PROVE  v = s[m] /\ InIt(s[m], m - 1)
          <5>1. PICK a, b \in 1 .. m : a < b /\ s[a] = v /\ s[b] = v
            BY <4>1
          <5>2. b = m /\ a \in 1 .. (m - 1)
            BY <2>2, <4>1, <5>1
          <5>3. QED
            BY <2>5, <5>1, <5>2
        <4>2. ASSUME Twice(v, m - 1)
              PROVE  Twice(v, m)
          BY <2>2, <4>2
        <4>3. ASSUME v = s[m], InIt(s[m], m - 1)
              PROVE  Twice(v, m)
          <5>1. PICK a \in 1 .. (m - 1) : s[a] = s[m]
            BY <4>3
          <5>2. a \in 1 .. m /\ m \in 1 .. m /\ a < m
            BY <2>2, <5>1
          <5>3. QED
            BY <2>5, <4>3, <5>1, <5>2
        <4>4. QED
          BY <4>1, <4>2, <4>3
      <3> HIDE DEF InIt, Twice
      <3> DEFINE q == kept[m - 1]
      <3>3. q \in Seq(S)
        BY <1>6
      <3> HIDE DEF q
      <3>4. /\ \A v : v \in Range(Append(q, s[m])) <=> v \in Range(q) \/ v = s[m]
            /\ \A v : v \in Duplicate(Append(q, s[m])) <=>
                  v \in Duplicate(q) \/ (v = s[m] /\ s[m] \in Range(q))
            /\ Append(q, s[m]) \in Seq(S)
        BY <2>1, <3>3, AppendedLine, AppendProperties
      <3>5. kept[m] = Append(q, s[m])
        BY <2>3, <2>5 DEF q
      <3>6. /\ \A v : v \in Range(q) <=> InIt(v, m - 1)
            /\ \A v : v \in Duplicate(q) <=> Twice(v, m - 1)
        BY <1>6 DEF q
      <3>7. QED
        BY <3>1, <3>2, <3>4, <3>5, <3>6
    <2>6. QED
      BY <2>4, <2>5
  <1> HIDE DEF Fine
  <1>7. bad = {}
    <2>1. SUFFICES ASSUME bad # {} PROVE FALSE
      OBVIOUS
    <2>2. bad \in SUBSET Nat
      BY <1>1
    <2>3. PICK m \in bad : \A k \in bad : m <= k
      <3> HIDE DEF bad
      <3> QED
        BY <2>1, <2>2, LeastElement
    <2>4. m \in 0 .. Len(s) /\ ~Fine(m)
      OBVIOUS
    <2>5. m # 0 /\ m \in 1 .. Len(s)
      BY <1>1, <1>5, <2>4
    <2>6. m - 1 \in 0 .. Len(s) /\ ~(m <= m - 1)
      BY <1>1, <2>5
    <2>7. Fine(m - 1)
      BY <2>3, <2>6
    <2>8. QED
      BY <1>6, <2>4, <2>5, <2>7
  <1>8. Fine(Len(s))
    <2>1. Len(s) \in 0 .. Len(s)
      BY <1>1
    <2>2. QED
      BY <1>7, <2>1
  <1>9. QED
    BY <1>1, <1>3, <1>8 DEF Fine

\* A list without its marked lines.
Unmarked(list) ==
    [k \in IdentifierKinds |->
       [i \in DOMAIN list[k] |->
          IF i \in MarkedLines(list, Problems(list))[k] THEN "" ELSE list[k][i]]]

\* errorsFor marks enough lines: without them the list has no problems.
LEMMA MarkedLinesAreTheProblems ==
    ASSUME NEW list \in Asks["replace"]
    PROVE  ~HasProblems(Unmarked(list))
  <1> DEFINE rest == Unmarked(list)
  <1>1. ASSUME NEW k \in IdentifierKinds
        PROVE  Invalid(NonBlank(rest[k])) = {} /\ Duplicate(NonBlank(rest[k])) = {}
    <2> DEFINE s == list[k]
               r == rest[k]
               marked == MarkedLines(list, Problems(list))[k]
    <2>1. s \in Seq(Range(s)) /\ Len(s) \in Nat /\ DOMAIN s = 1 .. Len(s)
      BY AccessAssumption, LenProperties
    <2>2. r = [i \in DOMAIN s |-> IF i \in marked THEN "" ELSE s[i]]
      BY DEF Unmarked
    <2>3. \A i \in DOMAIN s :
             i \in marked <=> /\ s[i] # ""
                              /\ \/ s[i] \in Invalid(NonBlank(s))
                                 \/ /\ s[i] \in Duplicate(NonBlank(s))
                                    /\ \E j \in 1 .. (i - 1) : s[j] = s[i]
      BY DEF MarkedLines, Problems, Normalised
    <2> DEFINE S == Range(s) \cup {""}
    <2>4. r \in Seq(S)
      <3>1. r \in [1 .. Len(s) -> S]
        BY <2>1, <2>2 DEF Range
      <3> HIDE DEF s, r, S
      <3>2. Len(s) \in Nat
        BY <2>1
      <3>3. QED
        BY <3>1, <3>2
    <2>5. DOMAIN r = DOMAIN s
      BY <2>2
    <2>6. ASSUME NEW i \in DOMAIN r, r[i] # ""
          PROVE  i \in DOMAIN s /\ r[i] = s[i] /\ i \notin marked
      BY <2>2, <2>5, <2>6
    <2> HIDE DEF s, r, marked, S
    <2>7. /\ \A v : v \in Range(NonBlank(s)) <=> v # "" /\ \E a \in DOMAIN s : s[a] = v
          /\ \A v : v \in Duplicate(NonBlank(s)) <=>
                       v # "" /\ \E a, b \in DOMAIN s : a < b /\ s[a] = v /\ s[b] = v
      BY <2>1, NonBlankKeeps
    <2>8. /\ \A v : v \in Range(NonBlank(r)) <=> v # "" /\ \E a \in DOMAIN r : r[a] = v
          /\ \A v : v \in Duplicate(NonBlank(r)) <=>
                       v # "" /\ \E a, b \in DOMAIN r : a < b /\ r[a] = v /\ r[b] = v
      BY <2>4, NonBlankKeeps
    <2>9. ASSUME NEW v \in Invalid(NonBlank(r))
          PROVE  FALSE
      <3>1. v \notin Identifiers /\ v # ""
        BY <2>8 DEF Invalid
      <3>2. PICK a \in DOMAIN r : r[a] = v
        BY <2>8 DEF Invalid
      <3>3. a \in DOMAIN s /\ s[a] = v /\ a \notin marked
        BY <2>6, <3>1, <3>2
      <3>4. v \in Invalid(NonBlank(s))
        BY <2>7, <3>1, <3>3 DEF Invalid
      <3>5. QED
        BY <2>3, <3>1, <3>3, <3>4
    <2>10. ASSUME NEW v \in Duplicate(NonBlank(r))
           PROVE  FALSE
      <3>1. PICK a, b \in DOMAIN r : v # "" /\ a < b /\ r[a] = v /\ r[b] = v
        BY <2>8
      <3>2. /\ a \in DOMAIN s /\ s[a] = v
            /\ b \in DOMAIN s /\ s[b] = v /\ b \notin marked
        BY <2>6, <3>1
      <3>3. v \in Duplicate(NonBlank(s))
        BY <2>7, <3>1, <3>2
      <3>4. a \in 1 .. (b - 1)
        <4>1. a \in 1 .. Len(s) /\ b \in 1 .. Len(s) /\ Len(s) \in Nat
          BY <2>1, <3>2
        <4>2. a < b
          BY <3>1, Zenon
        <4>3. QED
          BY <4>1, <4>2
      <3>5. QED
        BY <2>3, <3>1, <3>2, <3>3, <3>4
    <2>11. QED
      BY <2>9, <2>10 DEF r
  <1>2. ASSUME NEW k \in IdentifierKinds
        PROVE  Problems(rest)[k] = [invalid |-> {}, duplicate |-> {}]
    <2>1. Normalised(rest)[k] = NonBlank(rest[k])
      BY DEF Normalised
    <2>2. Problems(rest)[k] = [invalid |-> Invalid(Normalised(rest)[k]),
                               duplicate |-> Duplicate(Normalised(rest)[k])]
      BY DEF Problems
    <2>3. QED
      BY <1>1, <2>1, <2>2
  <1>3. QED
    BY <1>2 DEF HasProblems

-----------------------------------------------------------------------------
\* The request that moves, and the others.
LEMMA MovedCall ==
    ASSUME StoreSound, NEW r \in Calls, NEW c, Moves(r, c)
    PROVE  /\ DOMAIN calls' = Calls /\ calls'[r] = c
           /\ \A x \in Calls \ {r} : calls'[x] = calls[x]
  BY DEF StoreSound, Moves

\* What a step does to the trail: nothing, or an event of r is appended that is
\* no success of a change.
Unstored(r) ==
    /\ UNCHANGED <<stored, writes>>
    /\ \/ audits' = audits
       \/ \E e : /\ audits' = Append(audits, e) /\ e.by = r
                 /\ e.status = "success" => e.kind \notin Changes

LEMMA UnstoredKeeps ==
    ASSUME AccessInv, NEW r \in Calls, NEW c, Moves(r, c), Unstored(r)
    PROVE  /\ StoreSound' /\ TrailSound'
           /\ \A x \in Calls \ {r} : CallSound(x)' /\ ToldSound(x)'
  <1>1. /\ DOMAIN calls' = Calls /\ stored' = stored /\ writes' = writes
        /\ \A x \in Calls \ {r} : calls'[x] = calls[x]
    BY MovedCall DEF AccessInv, Unstored
  <1>2. /\ audits' \in Seq(Range(audits'))
        /\ \A doc : Trail(doc)' = Trail(doc) /\ \A i \in Trail(doc) : audits'[i] = audits[i]
        /\ \A x \in Calls \ {r} :
              /\ Successes(x)' = Successes(x)
              /\ \A i \in Successes(x) : audits'[i] = audits[i]
    <2>1. audits \in Seq(Range(audits))
      BY DEF AccessInv, StoreSound
    <2>2. CASE audits' = audits
      BY <2>1, <2>2 DEF Trail, Successes
    <2>3. ASSUME NEW e, audits' = Append(audits, e), e.by = r,
                 e.status = "success" => e.kind \notin Changes
          PROVE  /\ audits' \in Seq(Range(audits'))
                 /\ \A doc : /\ Trail(doc)' = Trail(doc)
                             /\ \A i \in Trail(doc) : audits'[i] = audits[i]
                 /\ \A x \in Calls \ {r} :
                       /\ Successes(x)' = Successes(x)
                       /\ \A i \in Successes(x) : audits'[i] = audits[i]
      <3>1. audits' \in Seq(Range(audits'))
        BY <2>1, <2>3, AuditAppended
      <3>2. \A doc : /\ Trail(doc)' = Trail(doc)
                     /\ \A i \in Trail(doc) : audits'[i] = audits[i]
        BY <2>1, <2>3, TrailGrows
      <3>3. \A x \in Calls \ {r} : /\ Successes(x)' = Successes(x)
                                   /\ \A i \in Successes(x) : audits'[i] = audits[i]
        BY <2>1, <2>3, SuccessesGrow
      <3>4. QED
        BY <3>1, <3>2, <3>3
    <2>4. QED
      BY <2>2, <2>3 DEF Unstored
  <1>3. StoreSound'
    BY <1>1, <1>2 DEF AccessInv, StoreSound
  <1>4. TrailSound'
    BY <1>1, <1>2 DEF AccessInv, TrailSound
  <1>5. ASSUME NEW x \in Calls \ {r}
        PROVE  CallSound(x)' /\ ToldSound(x)'
    <2>1. CallSound(x) /\ ToldSound(x)
      BY DEF AccessInv
    <2>2. CallSound(x)'
      BY <1>1, <2>1 DEF CallSound, Now
    <2>3. ToldSound(x)'
      BY <1>1, <1>2, <2>1 DEF ToldSound
    <2>4. QED
      BY <2>2, <2>3
  <1>6. QED
    BY <1>3, <1>4, <1>5

\* Only one request holds a document: the one that moves does not take it.
LEMMA StillOneHolds ==
    ASSUME AccessInv, NEW r \in Calls, NEW c, Moves(r, c), c.phase # "commit"
    PROVE  OneHolds'
  <1>1. /\ calls'[r] = c
        /\ \A x \in Calls \ {r} : calls'[x] = calls[x]
    BY MovedCall DEF AccessInv
  <1>2. QED
    BY <1>1 DEF AccessInv, OneHolds

\* A step that stores nothing keeps the invariant when the request that moves is sound.
LEMMA UnstoredStep ==
    ASSUME AccessInv, NEW r \in Calls, NEW c, Moves(r, c), Unstored(r), c.phase # "commit",
           CallSound(r)', ToldSound(r)'
    PROVE  AccessInv'
  BY UnstoredKeeps, StillOneHolds DEF AccessInv

\* A failure, audited or not, is no success.
LEMMA FailureUnstored ==
    ASSUME AccessInv, NEW r \in Calls, AuditsFailure(r), UNCHANGED <<stored, writes>>
    PROVE  Unstored(r) /\ Successes(r)' = Successes(r)
  <1> DEFINE e == Entry(r, "failure", NoDocument)
  <1>1. e.by = r /\ e.status = "failure"
    BY DEF Entry
  <1>2. audits \in Seq(Range(audits))
    BY DEF AccessInv, StoreSound
  <1>3. CASE audits' = audits
    BY <1>3 DEF Unstored, Successes
  <1>4. CASE audits' = Append(audits, e)
    <2> HIDE DEF e
    <2>1. Successes(r)' = Successes(r)
      BY <1>1, <1>2, <1>4, SuccessesGrow
    <2>2. QED
      BY <1>1, <1>4, <2>1 DEF Unstored
  <1>5. QED
    BY <1>3, <1>4 DEF AuditsFailure, Audited

\* A request that ends.
LEMMA FinishedCall ==
    ASSUME AccessInv, NEW r \in Calls, calls[r].phase # "none", NEW answer, Finishes(r, answer)
    PROVE  /\ Moves(r, [calls[r] EXCEPT !.phase = "ended", !.answer = answer])
           /\ calls'[r].phase = "ended" /\ calls'[r].answer = answer
           /\ calls'[r].kind = calls[r].kind /\ calls'[r].input = calls[r].input
           /\ [calls[r] EXCEPT !.phase = "ended", !.answer = answer].phase # "commit"
           /\ CallSound(r)'
  <1> DEFINE c == [calls[r] EXCEPT !.phase = "ended", !.answer = answer]
  <1>1. Moves(r, c) /\ CallSound(r)
    BY DEF Finishes, AccessInv
  <1>2. calls'[r] = c
    BY <1>1, MovedCall DEF AccessInv
  <1>3. /\ DOMAIN c = DOMAIN NoCall /\ c.phase = "ended" /\ c.answer = answer
        /\ c.kind = calls[r].kind /\ c.input = calls[r].input
    BY <1>1 DEF CallSound, NoCall
  <1> HIDE DEF c
  <1>4. CallSound(r)'
    BY <1>1, <1>2, <1>3 DEF CallSound
  <1>5. QED
    BY <1>1, <1>2, <1>3, <1>4 DEF c

LEMMA FailsKeeps ==
    ASSUME AccessInv, NEW r \in Calls, calls[r].phase \notin {"none", "ended"},
           NEW status, NEW value, Fails(r, Answer(status, value)), status # 200,
           status = 400 => /\ calls[r].kind = "replace"
                           /\ value = MarkedLines(calls[r].input, Problems(calls[r].input))
    PROVE  AccessInv'
  <1> DEFINE answer == Answer(status, value)
             c == [calls[r] EXCEPT !.phase = "ended", !.answer = answer]
  <1>1. Finishes(r, answer) /\ AuditsFailure(r) /\ UNCHANGED <<stored, writes>>
    BY DEF Fails
  <1>2. /\ Moves(r, c) /\ c.phase # "commit" /\ CallSound(r)'
        /\ calls'[r].phase = "ended" /\ calls'[r].answer = answer
        /\ calls'[r].kind = calls[r].kind /\ calls'[r].input = calls[r].input
    BY <1>1, FinishedCall
  <1>3. answer.status = status /\ answer.value = value
    BY DEF Answer
  <1>4. Unstored(r) /\ Successes(r)' = Successes(r)
    BY <1>1, FailureUnstored
  <1> HIDE DEF answer, c
  <1>5. Successes(r) = {}
    BY DEF AccessInv, ToldSound
  <1>6. ToldSound(r)'
    BY <1>2, <1>3, <1>4, <1>5 DEF ToldSound
  <1>7. QED
    BY <1>2, <1>4, <1>6, UnstoredStep

\* A request goes on: it is not told anything.
LEMMA GoesOnKeeps ==
    ASSUME AccessInv, NEW r \in Calls, calls[r].phase # "ended", NEW c, Moves(r, c),
           c.phase \notin {"ended", "commit"}, CallSound(r)', Unstored(r),
           Successes(r)' = Successes(r)
    PROVE  AccessInv'
  <1>1. calls'[r] = c
    BY MovedCall DEF AccessInv
  <1>2. Successes(r) = {}
    BY DEF AccessInv, ToldSound
  <1>3. ToldSound(r)'
    BY <1>1, <1>2 DEF ToldSound
  <1>4. QED
    BY <1>3, UnstoredStep

LEMMA NothingStored ==
    ASSUME NEW r \in Calls, UNCHANGED <<stored, writes, audits>>
    PROVE  Unstored(r) /\ Successes(r)' = Successes(r)
  BY DEF Unstored, Successes

LEMMA CallKeeps ==
    ASSUME AccessInv, NEW r \in Calls, NEW kind \in DOMAIN Asks, NEW input \in Asks[kind],
           Call(r, kind, input)
    PROVE  AccessInv'
  <1> DEFINE c == [NoCall EXCEPT !.kind = kind, !.input = input, !.phase = "resolve"]
  <1>1. /\ Moves(r, c) /\ calls[r].phase # "ended"
        /\ Unstored(r) /\ Successes(r)' = Successes(r)
    BY NothingStored DEF Call
  <1>2. /\ DOMAIN c = DOMAIN NoCall /\ c.phase = "resolve" /\ c.kind = kind /\ c.input = input
    BY DEF NoCall
  <1>3. calls'[r] = c
    BY <1>1, MovedCall DEF AccessInv
  <1> HIDE DEF c
  <1>4. CallSound(r)'
    BY <1>2, <1>3 DEF CallSound
  <1>5. QED
    BY <1>1, <1>2, <1>4, GoesOnKeeps

LEMMA RefuseAccessKeeps ==
    ASSUME AccessInv, NEW r \in Calls, RefuseAccess(r)
    PROVE  AccessInv'
  <1>1. PICK status \in Refusals(calls[r].kind) : Fails(r, Answer(status, NoDocument))
    BY DEF RefuseAccess
  <1>2. calls[r].phase \notin {"none", "ended"}
    BY DEF RefuseAccess
  <1>3. status # 200 /\ status # 400
    BY DEF Refusals
  <1>4. QED
    BY <1>1, <1>2, <1>3, FailsKeeps

LEMMA AdministerKeeps ==
    ASSUME AccessInv, NEW r \in Calls, Administer(r)
    PROVE  AccessInv'
  <1> DEFINE c == [calls[r] EXCEPT !.phase = "read"]
  <1>1. /\ Moves(r, c) /\ calls[r].phase = "resolve" /\ CallSound(r)
        /\ Unstored(r) /\ Successes(r)' = Successes(r)
    BY NothingStored DEF Administer, AccessInv
  <1>2. /\ DOMAIN c = DOMAIN NoCall /\ c.phase = "read"
        /\ c.kind = calls[r].kind /\ c.input = calls[r].input
    BY <1>1 DEF CallSound, NoCall
  <1>3. calls'[r] = c
    BY <1>1, MovedCall DEF AccessInv
  <1> HIDE DEF c
  <1>4. CallSound(r)'
    BY <1>1, <1>2, <1>3 DEF CallSound
  <1>5. QED
    BY <1>1, <1>2, <1>4, GoesOnKeeps

LEMMA FindKeeps ==
    ASSUME AccessInv, NEW r \in Calls, Find(r)
    PROVE  AccessInv'
  <1> DEFINE doc == DocOf(calls[r].kind)
             c == [calls[r] EXCEPT
                     !.seen = IF stored[doc] = NoDocument THEN DefaultOf(doc) ELSE stored[doc],
                     !.since = writes[doc],
                     !.phase = IF calls[r].kind \in Changes THEN "write"
                               ELSE IF calls[r].kind = "check" THEN "settings" ELSE "audit"]
  <1>1. calls[r].phase = "read" /\ CallSound(r)
    BY DEF Find, AccessInv
  <1>2. CASE Fails(r, Answer(500, NoDocument))
    BY <1>1, <1>2, FailsKeeps
  <1>3. CASE Moves(r, c) /\ UNCHANGED <<stored, writes, audits>>
    <2>1. /\ DOMAIN c = DOMAIN NoCall
          /\ c.phase = IF calls[r].kind \in Changes THEN "write"
                       ELSE IF calls[r].kind = "check" THEN "settings" ELSE "audit"
          /\ c.kind = calls[r].kind /\ c.input = calls[r].input
          /\ c.since = writes[doc] /\ c.seen = Now(doc)
      BY <1>1 DEF CallSound, NoCall, Now
    <2>2. calls'[r] = c /\ Unstored(r) /\ Successes(r)' = Successes(r)
      BY <1>3, MovedCall, NothingStored DEF AccessInv
    <2>3. doc \in Docs /\ writes[doc] \in Nat
      BY DEF DocOf, Docs, AccessInv, StoreSound
    <2>4. (\A d : Now(d)' = Now(d)) /\ writes' = writes
      BY <1>3 DEF Now
    <2> HIDE DEF c
    <2>5. CallSound(r)'
      BY <1>1, <2>1, <2>2, <2>3, <2>4 DEF CallSound
    <2>6. QED
      BY <1>1, <1>3, <2>1, <2>2, <2>5, GoesOnKeeps
  <1>4. QED
    BY <1>2, <1>3 DEF Find

LEMMA FindSettingsKeeps ==
    ASSUME AccessInv, NEW r \in Calls, FindSettings(r)
    PROVE  AccessInv'
  <1> DEFINE c == [calls[r] EXCEPT !.phase = "audit",
                     !.settings = IF stored["settings"] = NoDocument THEN ClosedSettings
                                  ELSE stored["settings"]]
  <1>1. calls[r].phase = "settings" /\ CallSound(r)
    BY DEF FindSettings, AccessInv
  <1>2. CASE Fails(r, Answer(500, NoDocument))
    BY <1>1, <1>2, FailsKeeps
  <1>3. CASE Moves(r, c) /\ UNCHANGED <<stored, writes, audits>>
    <2>1. /\ DOMAIN c = DOMAIN NoCall /\ c.phase = "audit"
          /\ c.kind = calls[r].kind /\ c.input = calls[r].input
      BY <1>1 DEF CallSound, NoCall
    <2>2. calls'[r] = c /\ Unstored(r) /\ Successes(r)' = Successes(r)
      BY <1>3, MovedCall, NothingStored DEF AccessInv
    <2> HIDE DEF c
    <2>3. CallSound(r)'
      BY <1>1, <2>1, <2>2 DEF CallSound
    <2>4. QED
      BY <1>1, <1>3, <2>1, <2>2, <2>3, GoesOnKeeps
  <1>4. QED
    BY <1>2, <1>3 DEF FindSettings

LEMMA RefuseListKeeps ==
    ASSUME AccessInv, NEW r \in Calls, RefuseList(r)
    PROVE  AccessInv'
  BY FailsKeeps DEF RefuseList

LEMMA WriteConflictsKeeps ==
    ASSUME AccessInv, NEW r \in Calls, WriteConflicts(r)
    PROVE  AccessInv'
  <1> DEFINE c == [calls[r] EXCEPT !.phase = "read", !.conflicts = @ + 1]
  <1>1. /\ Moves(r, c) /\ calls[r].phase = "write" /\ CallSound(r)
        /\ Unstored(r) /\ Successes(r)' = Successes(r)
    BY FailureUnstored DEF WriteConflicts, IsWriting, AccessInv
  <1>2. /\ DOMAIN c = DOMAIN NoCall /\ c.phase = "read"
        /\ c.kind = calls[r].kind /\ c.input = calls[r].input
    BY <1>1 DEF CallSound, NoCall
  <1>3. calls'[r] = c
    BY <1>1, MovedCall DEF AccessInv
  <1> HIDE DEF c
  <1>4. CallSound(r)'
    BY <1>1, <1>2, <1>3 DEF CallSound
  <1>5. QED
    BY <1>1, <1>2, <1>4, GoesOnKeeps

\* A change that takes its document has seen what is stored.
LEMMA ReplaceKeeps ==
    ASSUME AccessInv, NEW r \in Calls, Replace(r)
    PROVE  AccessInv'
  <1> DEFINE c == [calls[r] EXCEPT !.phase = "commit"]
  <1>1. /\ Moves(r, c) /\ calls[r].phase = "write" /\ CallSound(r)
        /\ UNCHANGED <<stored, writes, audits>>
        /\ Unstored(r) /\ Successes(r)' = Successes(r)
        /\ Holders(r) = {} /\ writes[DocOf(calls[r].kind)] = calls[r].since
    BY NothingStored DEF Replace, IsWriting, Conflicts, AccessInv
  <1>2. /\ DOMAIN c = DOMAIN NoCall /\ c.phase = "commit"
        /\ c.kind = calls[r].kind /\ c.input = calls[r].input
        /\ c.since = calls[r].since /\ c.seen = calls[r].seen
    BY <1>1 DEF CallSound, NoCall
  <1>3. calls'[r] = c /\ \A x \in Calls \ {r} : calls'[x] = calls[x]
    BY <1>1, MovedCall DEF AccessInv
  <1>4. (\A d : Now(d)' = Now(d)) /\ writes' = writes
    BY <1>1 DEF Now
  <1>5. Successes(r) = {}
    BY <1>1 DEF AccessInv, ToldSound
  <1>6. StoreSound' /\ TrailSound' /\ \A x \in Calls \ {r} : CallSound(x)' /\ ToldSound(x)'
    BY <1>1, UnstoredKeeps
  <1> HIDE DEF c
  <1>7. CallSound(r)'
    BY <1>1, <1>2, <1>3, <1>4 DEF CallSound
  <1>8. ToldSound(r)'
    BY <1>1, <1>2, <1>3, <1>5 DEF ToldSound
  <1>9. OneHolds'
    <2>1. \A x \in Calls \ {r} :
             ~(calls[x].phase = "commit" /\ DocOf(calls[x].kind) = DocOf(calls[r].kind))
      BY <1>1 DEF Holders
    <2>2. OneHolds
      BY DEF AccessInv
    <2>3. QED
      BY <1>2, <1>3, <2>1, <2>2 DEF OneHolds
  <1>10. QED
    BY <1>6, <1>7, <1>8, <1>9 DEF AccessInv

\* What is stored is a document.
LEMMA NewValueIsDocument ==
    ASSUME AccessInv, NEW r \in Calls, calls[r].phase = "commit"
    PROVE  NewValue(r) # NoDocument
  <1>1. /\ calls[r].kind \in {"replace", "save"}
        /\ calls[r].input \in Asks[calls[r].kind]
    BY DEF AccessInv, CallSound, Changes
  <1>2. QED
    BY <1>1, AccessAssumption DEF NewValue

\* The document and its audit event are stored together: the event begins from what
\* the last one left and ends with what is stored.
LEMMA StoresKeepsTrail ==
    ASSUME AccessInv, NEW r \in Calls, calls[r].phase = "commit", Stores(r)
    PROVE  /\ TrailSound'
           /\ DOMAIN stored' = Docs /\ DOMAIN writes' = Docs
           /\ \A doc \in Docs : writes'[doc] \in Nat
           /\ audits' \in Seq(Range(audits'))
           /\ \A doc \in Docs \ {DocOf(calls[r].kind)} :
                 stored'[doc] = stored[doc] /\ writes'[doc] = writes[doc]
           /\ writes'[DocOf(calls[r].kind)] = writes[DocOf(calls[r].kind)] + 1
           /\ \A x \in Calls \ {r} :
                 /\ Successes(x)' = Successes(x)
                 /\ \A i \in Successes(x) : audits'[i] = audits[i]
           /\ Successes(r)' = {Len(audits) + 1}
           /\ audits'[Len(audits) + 1].new = NewValue(r)
  <1>0. PICK d : d = DocOf(calls[r].kind)
    OBVIOUS
  <1> DEFINE new == NewValue(r)
             e == Entry(r, "success", new)
             last == Len(audits) + 1
  <1>1. /\ calls[r].kind \in Changes /\ d \in Docs
        /\ calls[r].since = writes[d] /\ calls[r].seen = Now(d)
    BY <1>0 DEF AccessInv, CallSound, DocOf, Docs
  <1>2. /\ DOMAIN stored = Docs /\ DOMAIN writes = Docs
        /\ \A doc \in Docs : writes[doc] \in Nat
        /\ audits \in Seq(Range(audits))
    BY DEF AccessInv, StoreSound
  <1>3. /\ stored' = [stored EXCEPT ![d] = new]
        /\ writes' = [writes EXCEPT ![d] = writes[d] + 1]
        /\ audits' = Append(audits, e)
    BY <1>0 DEF Stores, Audited
  <1>4. /\ e.by = r /\ e.status = "success" /\ e.kind = calls[r].kind
        /\ e.old = calls[r].seen /\ e.new = new
    BY DEF Entry
  <1>5. new # NoDocument
    BY NewValueIsDocument
  <1>6. /\ DOMAIN stored' = Docs /\ DOMAIN writes' = Docs
        /\ stored'[d] = new /\ writes'[d] = writes[d] + 1
        /\ \A doc \in Docs \ {d} : stored'[doc] = stored[doc] /\ writes'[doc] = writes[doc]
        /\ \A doc \in Docs : writes'[doc] \in Nat
    BY <1>1, <1>2, <1>3
  <1> HIDE DEF e, new
  <1>7. /\ Len(audits) \in Nat /\ DOMAIN audits = 1 .. Len(audits) /\ audits'[last] = e
        /\ audits' \in Seq(Range(audits'))
    BY <1>2, <1>3, AuditAppended
  <1>8. /\ Trail(d)' = Trail(d) \cup {last}
        /\ \A doc \in Docs \ {d} : Trail(doc)' = Trail(doc)
        /\ \A doc : \A i \in Trail(doc) : i \in 1 .. Len(audits) /\ audits'[i] = audits[i]
    <2>1. ASSUME NEW doc
          PROVE  /\ doc = d => Trail(doc)' = Trail(doc) \cup {last}
                 /\ doc # d => Trail(doc)' = Trail(doc)
                 /\ \A i \in Trail(doc) : i \in 1 .. Len(audits) /\ audits'[i] = audits[i]
      BY <1>0, <1>1, <1>2, <1>3, <1>4, TrailGrows
    <2>2. QED
      BY <2>1
  <1>9. TrailSound'
    <2>1. ASSUME NEW doc \in Docs \ {d}
          PROVE  /\ Cardinality(Trail(doc)') = writes'[doc]
                 /\ \A i, j \in Trail(doc)' :
                       i < j /\ Trail(doc)' \cap (i + 1) .. (j - 1) = {} =>
                           audits'[j].old = audits'[i].new
                 /\ \A i \in Trail(doc)' :
                       (\A j \in Trail(doc)' : j <= i) =>
                           stored'[doc] = audits'[i].new /\ stored'[doc] # NoDocument
      BY <1>6, <1>8 DEF AccessInv, TrailSound
    <2> DEFINE old == Trail(d)
    <2>2. /\ Cardinality(old) = writes[d]
          /\ \A i, j \in old :
                i < j /\ old \cap (i + 1) .. (j - 1) = {} => audits[j].old = audits[i].new
          /\ \A i \in old : (\A j \in old : j <= i) =>
                stored[d] = audits[i].new /\ stored[d] # NoDocument
      BY <1>1 DEF AccessInv, TrailSound
    <2>3. /\ old \subseteq 1 .. Len(audits) /\ last \notin old
          /\ \A i \in old : i < last /\ ~(last <= i) /\ i \in Nat
          /\ \A i \in old : audits'[i] = audits[i]
      BY <1>7, <1>8
    <2>4. Trail(d)' = old \cup {last}
      BY <1>8
    <2> HIDE DEF old, last
    <2>5. Cardinality(old \cup {last}) = writes'[d]
      <3>1. IsFiniteSet(1 .. Len(audits)) /\ old \in SUBSET (1 .. Len(audits))
        <4>1. 1 \in Int /\ Len(audits) \in Int
          BY <1>7
        <4>2. IsFiniteSet(1 .. Len(audits))
          BY <4>1, FS_Interval
        <4>3. QED
          BY <2>3, <4>2
      <3>2. IsFiniteSet(old)
        BY <3>1, FS_Subset
      <3>3. Cardinality(old \cup {last}) = Cardinality(old) + 1
        BY <2>3, <3>2, FS_AddElement
      <3>4. QED
        BY <1>6, <2>2, <3>3
    <2>6. ASSUME NEW i \in old \cup {last}, NEW j \in old \cup {last}, i < j,
                 (old \cup {last}) \cap (i + 1) .. (j - 1) = {}
          PROVE  audits'[j].old = audits'[i].new
      <3>1. i \in old
        BY <2>3, <2>6 DEF last
      <3>2. CASE j \in old
        BY <2>2, <2>3, <2>6, <3>1, <3>2
      <3>3. CASE j = last
        <4>1. \A k \in old : k <= i
          <5>1. SUFFICES ASSUME NEW k \in old, ~(k <= i)
                         PROVE  FALSE
            OBVIOUS
          <5>2. k \in (i + 1) .. (j - 1)
            <6>1. k \in Nat /\ i \in Nat /\ k < last /\ last \in Nat
              BY <1>7, <2>3, <3>1 DEF last
            <6>2. QED
              BY <3>3, <5>1, <6>1
          <5>3. QED
            BY <2>6, <5>2
        <4>2. stored[d] = audits[i].new /\ stored[d] # NoDocument
          BY <2>2, <3>1, <4>1
        <4>3. audits'[j].old = stored[d]
          BY <1>1, <1>4, <1>7, <3>3, <4>2 DEF Now
        <4>4. QED
          BY <2>3, <3>1, <4>2, <4>3
      <3>4. QED
        BY <2>6, <3>2, <3>3
    <2>7. ASSUME NEW i \in old \cup {last}, \A j \in old \cup {last} : j <= i
          PROVE  stored'[d] = audits'[i].new /\ stored'[d] # NoDocument
      <3>1. i = last
        BY <2>3, <2>7
      <3>2. QED
        BY <1>4, <1>5, <1>6, <1>7, <3>1
    <2>8. QED
      BY <2>1, <2>4, <2>5, <2>6, <2>7 DEF TrailSound
  <1>10. ASSUME NEW x \in Calls \ {r}
         PROVE  Successes(x)' = Successes(x) /\ \A i \in Successes(x) : audits'[i] = audits[i]
    BY <1>2, <1>3, <1>4, SuccessesGrow
  <1>11. Successes(r)' = {last} /\ audits'[last].new = NewValue(r)
    <2>1. Successes(r) = {}
      BY DEF AccessInv, ToldSound
    <2>2. Successes(r)' = Successes(r) \cup {last}
      BY <1>2, <1>3, <1>4, SuccessesGrow
    <2>3. QED
      BY <1>4, <1>7, <2>1, <2>2 DEF new
  <1>12. QED
    BY <1>0, <1>6, <1>7, <1>9, <1>10, <1>11

\* A commit ends the request that held the document; no other has seen what is stored now.
LEMMA StoresKeepsOthers ==
    ASSUME AccessInv, NEW r \in Calls, calls[r].phase = "commit", Stores(r),
           NEW c, Moves(r, c), c.phase = "ended"
    PROVE  StoreSound' /\ OneHolds' /\ \A x \in Calls \ {r} : CallSound(x)' /\ ToldSound(x)'
  <1>1. /\ DOMAIN calls' = Calls /\ \A x \in Calls \ {r} : calls'[x] = calls[x]
    BY MovedCall DEF AccessInv
  <1>2. StoreSound'
    BY <1>1, StoresKeepsTrail DEF StoreSound
  <1>3. OneHolds'
    BY StillOneHolds
  <1>4. ASSUME NEW x \in Calls \ {r}
        PROVE  CallSound(x)' /\ ToldSound(x)'
    <2>1. CallSound(x) /\ ToldSound(x) /\ calls'[x] = calls[x]
      BY <1>1 DEF AccessInv
    <2>2. Successes(x)' = Successes(x) /\ \A i \in Successes(x) : audits'[i] = audits[i]
      BY StoresKeepsTrail
    <2>3. ToldSound(x)'
      BY <2>1, <2>2 DEF ToldSound
    <2>4. PICK d : d = DocOf(calls[x].kind)
      OBVIOUS
    <2>5. d \in Docs /\ writes[d] \in Nat
      BY <2>4 DEF DocOf, Docs, AccessInv, StoreSound
    <2>6. CASE d # DocOf(calls[r].kind)
      <3>1. writes'[d] = writes[d] /\ stored'[d] = stored[d]
        BY <2>5, <2>6, StoresKeepsTrail
      <3>2. Now(d)' = Now(d)
        BY <3>1 DEF Now
      <3>3. CallSound(x)'
        BY <2>1, <2>4, <3>1, <3>2 DEF CallSound
      <3>4. QED
        BY <2>3, <3>3
    <2>7. CASE d = DocOf(calls[r].kind)
      <3>1. writes'[d] = writes[d] + 1
        BY <2>7, StoresKeepsTrail
      <3>2. calls[x].phase # "commit"
        BY <2>4, <2>7 DEF AccessInv, OneHolds
      <3>3. ASSUME NEW n \in 0 .. writes[d]
            PROVE  n \in 0 .. writes'[d] /\ n # writes'[d]
        BY <2>5, <3>1
      <3>4. CallSound(x)'
        BY <2>1, <2>4, <3>2, <3>3 DEF CallSound
      <3>5. QED
        BY <2>3, <3>4
    <2>8. QED
      BY <2>6, <2>7
  <1>5. QED
    BY <1>2, <1>3, <1>4

LEMMA CommitKeeps ==
    ASSUME AccessInv, NEW r \in Calls, Commit(r)
    PROVE  AccessInv'
  <1> DEFINE new == NewValue(r)
             answer == Answer(200, new)
             c == [calls[r] EXCEPT !.phase = "ended", !.answer = answer]
  <1>1. calls[r].phase = "commit" /\ Stores(r) /\ Finishes(r, answer)
    BY DEF Commit
  <1>2. /\ Moves(r, c) /\ CallSound(r)' /\ calls'[r].phase = "ended" /\ calls'[r].answer = answer
    BY <1>1, FinishedCall
  <1>3. c.phase = "ended"
    BY <1>2, MovedCall DEF AccessInv
  <1>4. answer.status = 200 /\ answer.value = new
    BY DEF Answer
  <1> HIDE DEF answer, c, new
  <1>5. StoreSound' /\ OneHolds' /\ \A x \in Calls \ {r} : CallSound(x)' /\ ToldSound(x)'
    BY <1>1, <1>2, <1>3, StoresKeepsOthers
  <1>6. ToldSound(r)'
    <2>1. Successes(r)' = {Len(audits) + 1} /\ audits'[Len(audits) + 1].new = new
      BY <1>1, StoresKeepsTrail DEF new
    <2>2. QED
      BY <1>2, <1>4, <2>1 DEF ToldSound
  <1>7. TrailSound'
    BY <1>1, StoresKeepsTrail
  <1>8. QED
    BY <1>2, <1>5, <1>6, <1>7 DEF AccessInv

\* What ends with 500 is told nothing, whatever was stored.
LEMMA ErrorIsTold ==
    ASSUME NEW r \in Calls, calls'[r].phase = "ended",
           calls'[r].answer = Answer(500, NoDocument)
    PROVE  ToldSound(r)'
  BY DEF ToldSound, Answer

LEMMA CommitFailsKeeps ==
    ASSUME AccessInv, NEW r \in Calls, CommitFails(r)
    PROVE  AccessInv'
  <1>0. PICK answer : answer = Answer(500, NoDocument)
    OBVIOUS
  <1> DEFINE c == [calls[r] EXCEPT !.phase = "ended", !.answer = answer]
  <1>1. calls[r].phase = "commit" /\ calls[r].phase # "none" /\ Finishes(r, answer)
    BY <1>0 DEF CommitFails
  <1>2. /\ Moves(r, c) /\ CallSound(r)' /\ calls'[r].phase = "ended" /\ calls'[r].answer = answer
        /\ c.phase # "commit"
    BY <1>1, FinishedCall
  <1>3. c.phase = "ended"
    BY <1>2, MovedCall DEF AccessInv
  <1>4. ToldSound(r)'
    BY <1>0, <1>2, ErrorIsTold
  <1> HIDE DEF c
  <1>5. CASE Stores(r)
    <2>1. /\ StoreSound' /\ OneHolds'
          /\ \A x \in Calls \ {r} : CallSound(x)' /\ ToldSound(x)'
      BY <1>1, <1>2, <1>3, <1>5, StoresKeepsOthers
    <2>2. TrailSound'
      BY <1>1, <1>5, StoresKeepsTrail
    <2>3. QED
      BY <1>2, <1>4, <2>1, <2>2 DEF AccessInv
  <1>6. CASE UNCHANGED <<stored, writes, audits>>
    BY <1>2, <1>4, <1>6, NothingStored, UnstoredStep
  <1>7. QED
    BY <1>5, <1>6 DEF CommitFails

LEMMA AuditReadKeeps ==
    ASSUME AccessInv, NEW r \in Calls, AuditRead(r) \/ AuditFails(r)
    PROVE  AccessInv'
  <1> DEFINE found == Found(r)
             e == Entry(r, "success", found)
  <1>1. /\ calls[r].phase = "audit" /\ calls[r].kind \notin Changes /\ Successes(r) = {}
        /\ audits \in Seq(Range(audits)) /\ UNCHANGED <<stored, writes>>
    BY DEF AuditRead, AuditFails, AccessInv, CallSound, ToldSound, StoreSound
  <1>2. /\ e.by = r /\ e.status = "success" /\ e.kind = calls[r].kind /\ e.new = found
    BY DEF Entry
  <1>3. audits' = audits \/ audits' = Append(audits, e)
    BY DEF AuditRead, AuditFails, Audited
  <1>4. AuditRead(r) => audits' = Append(audits, e) /\ Finishes(r, Answer(200, found))
    BY DEF AuditRead, Audited
  <1>5. AuditFails(r) => Finishes(r, Answer(500, NoDocument))
    BY DEF AuditFails
  <1> HIDE DEF found, e
  <1>6. Unstored(r)
    BY <1>1, <1>2, <1>3 DEF Unstored
  <1>7. CASE AuditRead(r)
    <2> DEFINE answer == Answer(200, found)
               c == [calls[r] EXCEPT !.phase = "ended", !.answer = answer]
    <2>1. /\ Moves(r, c) /\ CallSound(r)' /\ c.phase # "commit"
          /\ calls'[r].phase = "ended" /\ calls'[r].answer = answer
      BY <1>1, <1>4, <1>7, FinishedCall
    <2>2. answer.status = 200 /\ answer.value = found
      BY DEF Answer
    <2> HIDE DEF answer, c
    <2>3. Successes(r)' = {Len(audits) + 1}
      BY <1>1, <1>2, <1>4, <1>7, SuccessesGrow
    <2>4. audits'[Len(audits) + 1].new = found
      BY <1>1, <1>2, <1>4, <1>7, AuditAppended
    <2>5. ToldSound(r)'
      BY <2>1, <2>2, <2>3, <2>4 DEF ToldSound
    <2>6. QED
      BY <1>6, <2>1, <2>5, UnstoredStep
  <1>8. CASE AuditFails(r)
    <2>0. PICK answer : answer = Answer(500, NoDocument)
      OBVIOUS
    <2> DEFINE c == [calls[r] EXCEPT !.phase = "ended", !.answer = answer]
    <2>1. /\ Moves(r, c) /\ CallSound(r)' /\ c.phase # "commit"
          /\ calls'[r].phase = "ended" /\ calls'[r].answer = answer
      <3>1. calls[r].phase # "none" /\ Finishes(r, answer)
        BY <1>1, <1>5, <1>8, <2>0
      <3>2. QED
        BY <3>1, FinishedCall
    <2>2. ToldSound(r)'
      BY <2>0, <2>1, ErrorIsTold
    <2> HIDE DEF c
    <2>3. QED
      BY <1>6, <2>1, <2>2, UnstoredStep
  <1>9. QED
    BY <1>7, <1>8

-----------------------------------------------------------------------------
LEMMA AccessInitially == AccessInit => AccessInv
  <1> SUFFICES ASSUME AccessInit PROVE AccessInv
    OBVIOUS
  <1>1. /\ DOMAIN stored = Docs /\ DOMAIN writes = Docs /\ audits = <<>>
        /\ \A doc \in Docs : writes[doc] = 0
        /\ DOMAIN calls = Calls /\ \A r \in Calls : calls[r] = NoCall
    BY AccessAssumption DEF AccessInit, Docs
  <1>2. DOMAIN audits = {} /\ audits \in Seq(Range(audits))
    BY <1>1
  <1>3. \A r : Successes(r) = {}
    BY <1>2 DEF Successes
  <1>4. \A doc : Trail(doc) = {}
    BY <1>2 DEF Trail
  <1>5. NoCall.phase = "none"
    BY DEF NoCall
  <1>6. StoreSound /\ OneHolds
    BY <1>1, <1>2, <1>5 DEF StoreSound, OneHolds
  <1>7. TrailSound
    BY <1>1, <1>4, FS_EmptySet DEF TrailSound
  <1>8. ASSUME NEW r \in Calls
        PROVE  CallSound(r) /\ ToldSound(r)
    BY <1>1, <1>3, <1>5 DEF CallSound, ToldSound
  <1>9. QED
    BY <1>6, <1>7, <1>8 DEF AccessInv

LEMMA AccessUnchanged == AccessInv /\ UNCHANGED accessVars => AccessInv'
  <1> SUFFICES ASSUME AccessInv, UNCHANGED accessVars PROVE AccessInv'
    OBVIOUS
  <1>1. stored' = stored /\ writes' = writes /\ audits' = audits /\ calls' = calls
    BY DEF accessVars
  <1>2. StoreSound' /\ OneHolds'
    BY <1>1 DEF AccessInv, StoreSound, OneHolds
  <1>3. TrailSound'
    <2>1. \A doc : Trail(doc)' = Trail(doc)
      BY <1>1 DEF Trail
    <2>2. QED
      BY <1>1, <2>1 DEF AccessInv, TrailSound
  <1>4. ASSUME NEW r \in Calls
        PROVE  CallSound(r)' /\ ToldSound(r)'
    BY <1>1 DEF AccessInv, CallSound, ToldSound, Now, Successes
  <1>5. QED
    BY <1>2, <1>3, <1>4 DEF AccessInv

LEMMA AccessInvariant == AccessSpec => []AccessInv
  <1>1. AccessInv /\ [AccessNext]_accessVars => AccessInv'
    <2>1. ASSUME AccessInv, NEW r \in Calls, NEW kind \in DOMAIN Asks,
                 NEW input \in Asks[kind], Call(r, kind, input)
          PROVE  AccessInv'
      BY <2>1, CallKeeps
    <2>2. ASSUME AccessInv, NEW r \in Calls,
                 \/ RefuseAccess(r) \/ Administer(r) \/ Find(r) \/ FindSettings(r)
                 \/ RefuseList(r) \/ WriteConflicts(r) \/ Replace(r)
                 \/ Commit(r) \/ CommitFails(r) \/ AuditRead(r) \/ AuditFails(r)
          PROVE  AccessInv'
      BY <2>2, RefuseAccessKeeps, AdministerKeeps, FindKeeps, FindSettingsKeeps,
         RefuseListKeeps, WriteConflictsKeeps, ReplaceKeeps, CommitKeeps,
         CommitFailsKeeps, AuditReadKeeps
    <2>3. QED
      BY <2>1, <2>2, AccessUnchanged DEF AccessNext
  <1>2. QED
    BY <1>1, AccessInitially, PTL DEF AccessSpec

\* For any requests at once and any lists and settings: a change and its audit event
\* commit together and a change that has not seen the last one conflicts
\* (replaceGrantAllowListWithAudit, saveGrantSettingsUseCase), so the trail is the
\* history of the list and of the settings.
THEOREM TrailIsAlwaysTheHistory == AccessSpec => []TrailIsTheHistory
  <1>1. AccessInv => TrailIsTheHistory
    BY DEF AccessInv, StoreSound, TrailSound, TrailIsTheHistory
  <1>2. QED
    BY <1>1, AccessInvariant, PTL

\* Whatever a request is told was audited before, and of a form that comes back the
\* lines that errorsFor does not mark are a list that replaceGlobal accepts.
THEOREM ToldIsAudited == AccessSpec => []ToldAsAudited
  <1>1. ASSUME AccessInv
        PROVE  ToldAsAudited
    <2>1. SUFFICES ASSUME NEW r \in Calls, calls[r].phase = "ended"
                   PROVE  LET answer == calls[r].answer IN
                          /\ answer.status = 200 =>
                               \E i \in Successes(r) :
                                  Successes(r) = {i} /\ audits[i].new = answer.value
                          /\ answer.status \in {400, 403, 404, 503} => Successes(r) = {}
                          /\ answer.status = 400 =>
                               ~HasProblems([k \in IdentifierKinds |->
                                  [i \in DOMAIN calls[r].input[k] |->
                                     IF i \in answer.value[k] THEN ""
                                     ELSE calls[r].input[k][i]]])
      BY DEF ToldAsAudited
    <2>2. ToldSound(r) /\ CallSound(r)
      BY <1>1 DEF AccessInv
    <2>3. ASSUME calls[r].answer.status = 400
          PROVE  ~HasProblems([k \in IdentifierKinds |->
                    [i \in DOMAIN calls[r].input[k] |->
                       IF i \in calls[r].answer.value[k] THEN ""
                       ELSE calls[r].input[k][i]]])
      <3>1. /\ calls[r].input \in Asks["replace"]
            /\ calls[r].answer.value = MarkedLines(calls[r].input, Problems(calls[r].input))
        BY <2>1, <2>2, <2>3 DEF ToldSound, CallSound
      <3>2. ~HasProblems(Unmarked(calls[r].input))
        BY <3>1, MarkedLinesAreTheProblems
      <3>3. QED
        BY <3>1, <3>2 DEF Unmarked
    <2>4. QED
      BY <2>1, <2>2, <2>3 DEF ToldSound
  <1>2. QED
    BY <1>1, AccessInvariant, PTL
=============================================================================
