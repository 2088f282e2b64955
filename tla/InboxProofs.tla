---------------------------- MODULE InboxProofs ----------------------------
(***************************************************************************)
(* Proofs about the inbox of an application: how an event gets into it     *)
(* (InboxIntake) and what it does to the application there                 *)
(* (ApplicationStatus).                                                    *)
(***************************************************************************)
EXTENDS InboxIntake, ApplicationStatus, SequenceTheorems, WellFoundedInduction, TLAPS

-----------------------------------------------------------------------------
(***************************************************************************)
(* From the queue.  No event is lost between the queue and the inbox, and  *)
(* none is stored twice without two of its deliveries overlapping, for any *)
(* number of messages, events, subscribers and failures.                  *)
(***************************************************************************)
\* Two deliveries of event e are under way at once.
Overlap(e) ==
    \E s, t \in Subscribers, m, n \in Messages :
        /\ <<s, m>> # <<t, n>>
        /\ EventOf[m] = e /\ EventOf[n] = e
        /\ work[s][m] # "idle" /\ work[t][n] # "idle"

(***************************************************************************)
(* The inductive invariant.  A subscriber is about to delete only what is  *)
(* stored; deliveries that overlap are recorded; rows are there until they *)
(* expire, which no delivery outlives; and who is about to insert found no *)
(* row and is alone, unless deliveries overlapped.                         *)
(***************************************************************************)
AboutToDelete ==
    \A s \in Subscribers, m \in Messages :
        work[s][m] = "delete" => stored[EventOf[m]] > 0

OverlapIsRecorded == \A e \in Events : Overlap(e) => e \in crossed

Unsettled(e) ==
    \E m \in Messages :
        /\ EventOf[m] = e
        /\ queue[m] \in {"unsent", "queued", "inflight"} \/ WorkedOn(m)

RowsAreKept == \A e \in Events : Unsettled(e) /\ stored[e] > 0 => rows[e] > 0

InsertsOnce ==
    \A s \in Subscribers, m \in Messages :
        work[s][m] = "insert" =>
            stored[EventOf[m]] = 0 \/ EventOf[m] \in crossed

Receivable ==
    \A m \in Messages :
        /\ queue[m] \in {"unsent", "queued"} => reads[m] < MAX_READS

StoredRows == \A e \in Events : rows[e] > 0 => stored[e] > 0

IntakeInv ==
    /\ IntakeTypeOK
    /\ Receivable
    /\ StoredRows
    /\ DeletedWasStored
    /\ StoredOnce
    /\ AboutToDelete
    /\ OverlapIsRecorded
    /\ RowsAreKept
    /\ InsertsOnce

-----------------------------------------------------------------------------
\* What one call of processMessage changes in the work of the subscribers.
LEMMA StepFacts ==
    ASSUME IntakeTypeOK, NEW s \in Subscribers, NEW m \in Messages,
           NEW call \in Calls \cup {"idle"}, Step(s, m, call)
    PROVE  /\ work' \in [Subscribers -> [Messages -> Calls \cup {"idle"}]]
           /\ \A t \in Subscribers, n \in Messages :
                 work'[t][n] = IF t = s /\ n = m THEN call ELSE work[t][n]
  BY DEF IntakeTypeOK, Step

\* A subscriber that works on a message makes its next call, or stops working
\* on it: no new deliveries overlap, and an event that was settled stays so.
LEMMA WorkShrinks ==
    ASSUME IntakeTypeOK,
           \A t \in Subscribers, n \in Messages :
              work'[t][n] # "idle" => work[t][n] # "idle"
    PROVE  /\ \A m \in Messages : WorkedOn(m)' => WorkedOn(m)
           /\ \A e \in Events : Overlap(e)' => Overlap(e)
  BY DEF WorkedOn, Overlap

LEMMA IntakeInitially == IntakeInit => IntakeInv
  <1> SUFFICES ASSUME IntakeInit PROVE IntakeInv
    OBVIOUS
  <1> USE IntakeAssumption DEF IntakeInit
  <1>1. IntakeTypeOK
    BY DEF IntakeTypeOK, Places
  <1>2. Receivable /\ DeletedWasStored /\ StoredOnce
    BY DEF Receivable, DeletedWasStored, StoredOnce
  <1>3. AboutToDelete /\ InsertsOnce
    BY DEF AboutToDelete, InsertsOnce
  <1>4. OverlapIsRecorded
    BY DEF OverlapIsRecorded, Overlap
  <1>5. RowsAreKept /\ StoredRows
    BY DEF RowsAreKept, StoredRows
  <1>6. QED
    BY <1>1, <1>2, <1>3, <1>4, <1>5 DEF IntakeInv

\* A message changes its place and nothing else happens.
LEMMA QueueSteps ==
    ASSUME IntakeInv, NEW m \in Messages, Send(m) \/ BecomesVisible(m)
    PROVE  IntakeInv'
  <1> USE IntakeAssumption DEF IntakeInv, Send, BecomesVisible
  <1>1. IntakeTypeOK'
    BY DEF IntakeTypeOK, Places
  <1>2. Receivable'
    BY DEF IntakeTypeOK, Receivable
  <1>3. DeletedWasStored' /\ StoredOnce' /\ StoredRows' /\ AboutToDelete' /\ InsertsOnce'
    BY DEF StoredRows, IntakeTypeOK, DeletedWasStored, StoredOnce, AboutToDelete, InsertsOnce
  <1>4. OverlapIsRecorded'
    BY DEF OverlapIsRecorded, Overlap
  <1>5. RowsAreKept'
    <2>1. \A e \in Events : Unsettled(e)' => Unsettled(e)
      BY DEF IntakeTypeOK, Unsettled, WorkedOn
    <2>2. QED
      BY <2>1 DEF RowsAreKept
  <1>6. QED
    BY <1>1, <1>2, <1>3, <1>4, <1>5

\* The TTL index removes only rows that no delivery will look for.
LEMMA ExpirySteps ==
    ASSUME IntakeInv, NEW e \in Events, RowsExpire(e)
    PROVE  IntakeInv'
  <1> USE IntakeAssumption DEF IntakeInv, RowsExpire
  <1>1. IntakeTypeOK' /\ Receivable'
    BY DEF IntakeTypeOK, Receivable
  <1>2. DeletedWasStored' /\ StoredOnce' /\ StoredRows' /\ AboutToDelete' /\ InsertsOnce'
    BY DEF StoredRows, DeletedWasStored, StoredOnce, AboutToDelete, InsertsOnce
  <1>3. OverlapIsRecorded'
    BY DEF OverlapIsRecorded, Overlap
  <1>4. RowsAreKept'
    <2>1. ~Unsettled(e)
      BY DEF Settled, Unsettled, IntakeTypeOK, Places
    <2>2. \A d \in Events : Unsettled(d)' <=> Unsettled(d)
      BY DEF Unsettled, WorkedOn
    <2>3. QED
      BY <2>1, <2>2 DEF RowsAreKept, IntakeTypeOK
  <1>5. QED
    BY <1>1, <1>2, <1>3, <1>4

\* A receive puts queued messages to work; the deliveries it lets overlap are
\* recorded as it does.
LEMMA ReceiveSteps ==
    ASSUME IntakeInv, NEW s \in Subscribers, Receive(s)
    PROVE  IntakeInv'
  <1> USE IntakeAssumption DEF IntakeInv
  <1>1. PICK batch \in SUBSET {m \in Messages : queue[m] = "queued"} :
          /\ queue' = [m \in Messages |-> IF m \in batch THEN "inflight" ELSE queue[m]]
          /\ reads' = [m \in Messages |-> IF m \in batch THEN reads[m] + 1 ELSE reads[m]]
          /\ work' = [work EXCEPT ![s] = [m \in Messages |->
                                             IF m \in batch THEN "find" ELSE "idle"]]
          /\ crossed' = crossed \cup {EventOf[m] : m \in {b \in batch : \E o \in Messages :
                             /\ EventOf[o] = EventOf[b]
                             /\ WorkedOn(o) \/ o \in batch \ {b}}}
    BY DEF Receive
  <1>2. \A m \in Messages : work[s][m] = "idle"
    BY DEF Receive
  <1>3. UNCHANGED <<rows, stored, failures>>
    BY DEF Receive
  <1>4. \A t \in Subscribers, m \in Messages :
           work'[t][m] = IF t = s THEN (IF m \in batch THEN "find" ELSE "idle")
                                  ELSE work[t][m]
    BY <1>1 DEF IntakeTypeOK
  <1>5. crossed \subseteq crossed'
    BY <1>1
  <1>6. IntakeTypeOK'
    <2>1. queue' \in [Messages -> Places]
      BY <1>1 DEF IntakeTypeOK, Places
    <2>2. reads' \in [Messages -> 0..MAX_READS]
      BY <1>1 DEF IntakeTypeOK, Receivable
    <2>3. work' \in [Subscribers -> [Messages -> Calls \cup {"idle"}]]
      BY <1>1 DEF IntakeTypeOK, Calls
    <2>4. crossed' \subseteq Events
      BY <1>1 DEF IntakeTypeOK
    <2>5. QED
      BY <2>1, <2>2, <2>3, <2>4, <1>3 DEF IntakeTypeOK
  <1>7. Receivable'
    BY <1>1 DEF IntakeTypeOK, Receivable
  <1>8. DeletedWasStored' /\ StoredOnce' /\ StoredRows'
    BY <1>1, <1>3, <1>5 DEF StoredRows, DeletedWasStored, StoredOnce
  <1>9. AboutToDelete'
    BY <1>3, <1>4 DEF AboutToDelete
  <1>10. OverlapIsRecorded'
    <2> SUFFICES ASSUME NEW e \in Events, Overlap(e)'
                 PROVE  e \in crossed'
      BY DEF OverlapIsRecorded
    <2>1. PICK t \in Subscribers, u \in Subscribers, m \in Messages, n \in Messages :
            /\ <<t, m>> # <<u, n>>
            /\ EventOf[m] = e /\ EventOf[n] = e
            /\ work'[t][m] # "idle" /\ work'[u][n] # "idle"
      BY DEF Overlap
    <2>2. CASE t # s /\ u # s
      <3>1. Overlap(e)
        BY <2>1, <2>2, <1>4 DEF Overlap
      <3>2. QED
        BY <3>1, <1>5 DEF OverlapIsRecorded
    <2>3. CASE t = s /\ u # s
      <3>1. m \in batch /\ WorkedOn(n)
        BY <2>1, <2>3, <1>4 DEF WorkedOn
      <3>2. QED
        BY <3>1, <2>1, <1>1
    <2>4. CASE t # s /\ u = s
      <3>1. n \in batch /\ WorkedOn(m)
        BY <2>1, <2>4, <1>4 DEF WorkedOn
      <3>2. QED
        BY <3>1, <2>1, <1>1
    <2>5. CASE t = s /\ u = s
      <3>1. m \in batch /\ n \in batch \ {m}
        BY <2>1, <2>5, <1>4
      <3>2. QED
        BY <3>1, <2>1, <1>1
    <2>6. QED
      BY <2>2, <2>3, <2>4, <2>5
  <1>11. RowsAreKept'
    <2>1. \A e \in Events : Unsettled(e)' => Unsettled(e)
      BY <1>1, <1>4 DEF Unsettled, WorkedOn, IntakeTypeOK
    <2>2. QED
      BY <2>1, <1>3 DEF RowsAreKept
  <1>12. InsertsOnce'
    BY <1>3, <1>4, <1>5 DEF InsertsOnce
  <1>13. QED
    BY <1>6, <1>7, <1>8, <1>9, <1>10, <1>11, <1>12

\* findByMessageId sends a subscriber on to insert only when no row is there:
\* the event was never stored, for its rows stay while it is worked on.
LEMMA FindSteps ==
    ASSUME IntakeInv, NEW s \in Subscribers, NEW m \in Messages, FindByMessageId(s, m)
    PROVE  IntakeInv'
  <1> DEFINE call == IF rows[EventOf[m]] = 0 THEN "insert" ELSE "delete"
  <1> USE IntakeAssumption DEF IntakeInv
  <1>1. /\ work[s][m] = "find"
        /\ Step(s, m, call)
        /\ UNCHANGED <<queue, reads, rows, stored, failures, crossed>>
    BY DEF FindByMessageId
  <1>2. call \in Calls \cup {"idle"} /\ EventOf[m] \in Events
    BY DEF Calls
  <1>3. /\ work' \in [Subscribers -> [Messages -> Calls \cup {"idle"}]]
        /\ \A t \in Subscribers, n \in Messages :
              work'[t][n] = IF t = s /\ n = m THEN call ELSE work[t][n]
    BY <1>1, <1>2, StepFacts
  <1> HIDE DEF call
  <1>4. /\ \A n \in Messages : WorkedOn(n)' => WorkedOn(n)
        /\ \A e \in Events : Overlap(e)' => Overlap(e)
    BY <1>1, <1>3, WorkShrinks
  <1>5. rows[EventOf[m]] = 0 => stored[EventOf[m]] = 0
    <2>1. WorkedOn(m)
      BY <1>1 DEF WorkedOn
    <2>2. Unsettled(EventOf[m])
      BY <2>1 DEF Unsettled
    <2>3. QED
      BY <2>2, <1>2 DEF RowsAreKept, IntakeTypeOK
  <1>6. rows[EventOf[m]] > 0 => stored[EventOf[m]] > 0
    BY DEF StoredRows
  <1>7. IntakeTypeOK' /\ Receivable'
    BY <1>1, <1>3 DEF IntakeTypeOK, Receivable
  <1>8. DeletedWasStored' /\ StoredOnce'
    BY <1>1 DEF DeletedWasStored, StoredOnce
  <1>9. AboutToDelete' /\ InsertsOnce'
    BY <1>1, <1>2, <1>3, <1>5, <1>6 DEF AboutToDelete, InsertsOnce, call, IntakeTypeOK
  <1>10. OverlapIsRecorded'
    BY <1>1, <1>4 DEF OverlapIsRecorded
  <1>11. RowsAreKept'
    BY <1>1, <1>4 DEF RowsAreKept, Unsettled
  <1>12. StoredRows'
    BY <1>1 DEF StoredRows
  <1>13. QED
    BY <1>7, <1>8, <1>9, <1>10, <1>11, <1>12

\* The event of m gets a row, from a subscriber that then works on m no longer
\* or is about to delete it.
LEMMA InsertSteps ==
    ASSUME IntakeInv, NEW s \in Subscribers, NEW m \in Messages,
           work[s][m] = "insert", Insert(EventOf[m]),
           NEW call \in {"delete", "idle"}, Step(s, m, call),
           UNCHANGED <<queue, reads, crossed>>, failures' \in 0..MaxFailures
    PROVE  IntakeInv'
  <1> USE IntakeAssumption DEF IntakeInv
  <1>1. EventOf[m] \in Events /\ call \in Calls \cup {"idle"}
    BY DEF Calls
  <1>2. /\ work' \in [Subscribers -> [Messages -> Calls \cup {"idle"}]]
        /\ \A t \in Subscribers, n \in Messages :
              work'[t][n] = IF t = s /\ n = m THEN call ELSE work[t][n]
    BY <1>1, StepFacts
  <1>3. /\ rows' \in [Events -> Nat] /\ stored' \in [Events -> Nat]
        /\ \A e \in Events :
              /\ rows'[e] = IF e = EventOf[m] THEN rows[e] + 1 ELSE rows[e]
              /\ stored'[e] = IF e = EventOf[m] THEN stored[e] + 1 ELSE stored[e]
    BY <1>1 DEF Insert, IntakeTypeOK
  <1>4. /\ \A n \in Messages : WorkedOn(n)' => WorkedOn(n)
        /\ \A e \in Events : Overlap(e)' => Overlap(e)
    BY <1>2, WorkShrinks
  <1>5. IntakeTypeOK' /\ Receivable'
    BY <1>2, <1>3 DEF IntakeTypeOK, Receivable
  <1>6. \A e \in Events : /\ rows[e] \in Nat /\ stored[e] \in Nat
                          /\ stored'[e] >= stored[e] /\ rows'[e] >= rows[e]
    BY <1>3 DEF IntakeTypeOK
  <1>7. stored'[EventOf[m]] > 0 /\ rows'[EventOf[m]] > 0
    BY <1>1, <1>3, <1>6
  <1>8. DeletedWasStored'
    BY <1>3, <1>6, IntakeAssumption DEF DeletedWasStored
  <1>9. StoredRows'
    BY <1>3, <1>6, <1>7 DEF StoredRows
  <1>10. AboutToDelete'
    BY <1>2, <1>3, <1>6, <1>7 DEF AboutToDelete
  <1>11. StoredOnce'
    BY <1>1, <1>3, <1>6 DEF StoredOnce, InsertsOnce
  <1>12. OverlapIsRecorded'
    BY <1>4 DEF OverlapIsRecorded
  <1>13. RowsAreKept'
    BY <1>3, <1>4, <1>6, <1>7 DEF RowsAreKept, Unsettled
  <1>14. InsertsOnce'
    <2> SUFFICES ASSUME NEW t \in Subscribers, NEW n \in Messages, work'[t][n] = "insert"
                 PROVE  stored'[EventOf[n]] = 0 \/ EventOf[n] \in crossed'
      BY DEF InsertsOnce
    <2>1. work[t][n] = "insert" /\ <<t, n>> # <<s, m>>
      BY <1>2
    <2>2. CASE EventOf[n] # EventOf[m]
      BY <2>1, <2>2, <1>3 DEF InsertsOnce
    <2>3. CASE EventOf[n] = EventOf[m]
      <3>1. Overlap(EventOf[m])
        BY <2>1, <2>3 DEF Overlap
      <3>2. QED
        BY <3>1, <2>3, <1>1 DEF OverlapIsRecorded
    <2>4. QED
      BY <2>2, <2>3
  <1>15. QED
    BY <1>5, <1>8, <1>9, <1>10, <1>11, <1>12, <1>13, <1>14

\* The subscriber is done with m, which it may have deleted after storing it.
LEMMA EndSteps ==
    ASSUME IntakeInv, NEW s \in Subscribers, NEW m \in Messages,
           work[s][m] \in Calls, Step(s, m, "idle"),
           \/ UNCHANGED queue
           \/ work[s][m] = "delete" /\ queue' = [queue EXCEPT ![m] = "deleted"],
           UNCHANGED <<reads, rows, stored, crossed>>, failures' \in 0..MaxFailures
    PROVE  IntakeInv'
  <1> USE IntakeAssumption DEF IntakeInv
  <1>1. /\ work' \in [Subscribers -> [Messages -> Calls \cup {"idle"}]]
        /\ \A t \in Subscribers, n \in Messages :
              work'[t][n] = IF t = s /\ n = m THEN "idle" ELSE work[t][n]
    BY StepFacts
  <1>2. /\ \A n \in Messages : WorkedOn(n)' => WorkedOn(n)
        /\ \A e \in Events : Overlap(e)' => Overlap(e)
    BY <1>1, WorkShrinks
  <1>3. /\ queue' \in [Messages -> Places]
        /\ \A n \in Messages : \/ queue'[n] = queue[n]
                               \/ queue'[n] = "deleted" /\ stored[EventOf[n]] > 0
    BY DEF IntakeTypeOK, Places, AboutToDelete
  <1>4. IntakeTypeOK' /\ Receivable'
    BY <1>1, <1>3 DEF IntakeTypeOK, Receivable
  <1>5. DeletedWasStored' /\ StoredOnce' /\ StoredRows'
    BY <1>3 DEF DeletedWasStored, StoredOnce, StoredRows
  <1>6. AboutToDelete' /\ InsertsOnce'
    BY <1>1 DEF AboutToDelete, InsertsOnce
  <1>7. OverlapIsRecorded'
    BY <1>2 DEF OverlapIsRecorded
  <1>8. RowsAreKept'
    <2>1. \A e \in Events : Unsettled(e)' => Unsettled(e)
      BY <1>2, <1>3 DEF Unsettled
    <2>2. QED
      BY <2>1 DEF RowsAreKept
  <1>9. QED
    BY <1>4, <1>5, <1>6, <1>7, <1>8

\* A crash forgets all the work of a subscriber.
LEMMA CrashSteps ==
    ASSUME IntakeInv, NEW s \in Subscribers, Crash(s)
    PROVE  IntakeInv'
  <1> USE IntakeAssumption DEF IntakeInv, Crash, Throws
  <1>1. /\ work' \in [Subscribers -> [Messages -> Calls \cup {"idle"}]]
        /\ \A t \in Subscribers, n \in Messages :
              work'[t][n] = IF t = s THEN "idle" ELSE work[t][n]
    BY DEF IntakeTypeOK
  <1>2. /\ \A n \in Messages : WorkedOn(n)' => WorkedOn(n)
        /\ \A e \in Events : Overlap(e)' => Overlap(e)
    BY <1>1, WorkShrinks
  <1>3. IntakeTypeOK' /\ Receivable'
    BY <1>1 DEF IntakeTypeOK, Receivable
  <1>4. DeletedWasStored' /\ StoredOnce' /\ StoredRows'
    BY DEF DeletedWasStored, StoredOnce, StoredRows
  <1>5. AboutToDelete' /\ InsertsOnce'
    BY <1>1 DEF AboutToDelete, InsertsOnce
  <1>6. OverlapIsRecorded' /\ RowsAreKept'
    BY <1>2 DEF OverlapIsRecorded, RowsAreKept, Unsettled
  <1>7. QED
    BY <1>3, <1>4, <1>5, <1>6

LEMMA IntakeInvStep == IntakeInv /\ [IntakeNext]_intakeVars => IntakeInv'
  <1> SUFFICES ASSUME IntakeInv, [IntakeNext]_intakeVars PROVE IntakeInv'
    OBVIOUS
  <1> failures \in 0..MaxFailures /\ MaxFailures \in Nat
    BY IntakeAssumption DEF IntakeInv, IntakeTypeOK
  <1>1. ASSUME NEW m \in Messages, Send(m) \/ BecomesVisible(m) PROVE IntakeInv'
    BY <1>1, QueueSteps
  <1>2. ASSUME NEW e \in Events, RowsExpire(e) PROVE IntakeInv'
    BY <1>2, ExpirySteps
  <1>3. ASSUME NEW s \in Subscribers, Receive(s) PROVE IntakeInv'
    BY <1>3, ReceiveSteps
  <1>4. ASSUME NEW s \in Subscribers, Crash(s) PROVE IntakeInv'
    BY <1>4, CrashSteps
  <1>5. ASSUME NEW s \in Subscribers, NEW m \in Messages, FindByMessageId(s, m) PROVE IntakeInv'
    BY <1>5, FindSteps
  <1>6. ASSUME NEW s \in Subscribers, NEW m \in Messages, InsertOne(s, m) PROVE IntakeInv'
    BY <1>6, InsertSteps DEF InsertOne
  <1>7. ASSUME NEW s \in Subscribers, NEW m \in Messages, DeleteMessage(s, m) PROVE IntakeInv'
    BY <1>7, EndSteps DEF DeleteMessage, Calls
  <1>8. ASSUME NEW s \in Subscribers, NEW m \in Messages, ProcessingThrows(s, m) PROVE IntakeInv'
    <2>1. failures' \in 0..MaxFailures
      BY <1>8 DEF ProcessingThrows, Throws
    <2>2. CASE work[s][m] = "insert" /\ Insert(EventOf[m]) /\ UNCHANGED queue
      BY <1>8, <2>1, <2>2, InsertSteps DEF ProcessingThrows
    <2>3. CASE UNCHANGED <<rows, stored>>
      BY <1>8, <2>1, <2>3, EndSteps DEF ProcessingThrows
    <2>4. QED
      BY <1>8, <2>2, <2>3 DEF ProcessingThrows
  <1>9. CASE UNCHANGED intakeVars
    BY <1>9 DEF intakeVars, IntakeInv, IntakeTypeOK, Receivable, StoredRows,
                DeletedWasStored, StoredOnce, AboutToDelete, OverlapIsRecorded, Overlap,
                RowsAreKept, Unsettled, WorkedOn, InsertsOnce
  <1>10. QED
    BY <1>1, <1>2, <1>3, <1>4, <1>5, <1>6, <1>7, <1>8, <1>9 DEF IntakeNext, ProcessMessage

LEMMA IntakeInvariant == IntakeSpec => []IntakeInv
  BY IntakeInitially, IntakeInvStep, PTL DEF IntakeSpec

\* The state of the queue, the subscribers and the inbox has its type: no
\* message is received more than MAX_READS times.
THEOREM IntakeTypeCorrect == IntakeSpec => []IntakeTypeOK
  BY IntakeInvariant, PTL DEF IntakeInv

\* A message leaves the queue only when its event is in the inbox, whichever
\* call of processMessage fails and whoever deletes it.
THEOREM NothingIsLost == IntakeSpec => []DeletedWasStored
  BY IntakeInvariant, PTL DEF IntakeInv

\* saveInboxMessage stores an event twice only if two deliveries overlapped.
THEOREM NothingIsRepeated == IntakeSpec => []StoredOnce
  BY IntakeInvariant, PTL DEF IntakeInv

-----------------------------------------------------------------------------
(***************************************************************************)
(* To the application, for every lifecycle of a grant.                     *)
(*                                                                         *)
(* First what a transition does to a draft, whatever processes it runs, by *)
(* induction over their sequence: a set of drafts that the first one is in *)
(* and no process leads out of has the last one in it.                     *)
(***************************************************************************)
\* A nonempty set of naturals has a least element.
LEMMA LeastElement ==
    ASSUME NEW S \in SUBSET Nat, S # {}
    PROVE  \E x \in S : \A y \in S : x <= y
  <1> DEFINE R == {ss \in Nat \X Nat : ss[1] < ss[2]}
  <1>1. IsWellFoundedOn(R, Nat)
    BY NatLessThanWellFounded, Zenon DEF OpToRel
  <1>2. PICK x \in S : \A y \in S : ~(<<y, x>> \in R)
    <2> HIDE DEF R
    <2> QED
      BY <1>1, WFMin
  <1>3. \A y \in S : ~(y < x)
    BY <1>2
  <1>4. QED
    BY <1>3

\* The drafts after each of the first n processes.
IsRun(run, draft, processes, n) ==
    run = [i \in 0 .. n |->
             IF i = 0 THEN draft
             ELSE IF run[i - 1].ok THEN GrantProcess(run[i - 1], processes[i])
                  ELSE run[i - 1]]

LEMMA RunExists ==
    ASSUME NEW draft, NEW processes, NEW n \in Nat
    PROVE  \E run : IsRun(run, draft, processes, n)
  <1> DEFINE bad == {m \in Nat : ~\E run : IsRun(run, draft, processes, m)}
  <1> SUFFICES ASSUME bad # {} PROVE FALSE
    OBVIOUS
  <1>1. PICK m \in bad : \A k \in bad : m <= k
    BY LeastElement
  <1>2. CASE m = 0
    <2>1. IsRun([i \in 0 .. 0 |-> draft], draft, processes, 0)
      BY DEF IsRun
    <2>2. QED
      BY <2>1, <1>1, <1>2
  <1>3. CASE m # 0
    <2>1. m - 1 \in Nat /\ ~(m <= m - 1)
      BY <1>3
    <2>2. PICK run : IsRun(run, draft, processes, m - 1)
      BY <2>1, <1>1
    <2> DEFINE more == [i \in 0 .. m |->
                          IF i # m THEN run[i]
                          ELSE IF run[m - 1].ok THEN GrantProcess(run[m - 1], processes[m])
                               ELSE run[m - 1]]
    <2>3. IsRun(more, draft, processes, m)
      <3>1. \A i \in 0 .. m - 1 :
               run[i] = IF i = 0 THEN draft
                        ELSE IF run[i - 1].ok THEN GrantProcess(run[i - 1], processes[i])
                             ELSE run[i - 1]
        BY <2>1, <2>2 DEF IsRun
      <3>2. \A i \in 0 .. m :
               more[i] = IF i = 0 THEN draft
                         ELSE IF more[i - 1].ok THEN GrantProcess(more[i - 1], processes[i])
                              ELSE more[i - 1]
        BY <2>1, <3>1
      <3>3. more = [i \in 0 .. m |-> more[i]]
        OBVIOUS
      <3> HIDE DEF more
      <3>4. QED
        BY <3>2, <3>3, Zenon DEF IsRun
    <2>4. QED
      BY <1>1, <2>3
  <1>4. QED
    BY <1>2, <1>3

LEMMA RunOfProcesses ==
    ASSUME NEW draft, NEW processes \in Seq(Processes)
    PROVE  \E run : /\ IsRun(run, draft, processes, Len(processes))
                    /\ RunProcesses(draft, processes) = run[Len(processes)]
  <1> DEFINE run == CHOOSE r : IsRun(r, draft, processes, Len(processes))
  <1>1. IsRun(run, draft, processes, Len(processes))
    BY RunExists
  <1>2. RunProcesses(draft, processes) = run[Len(processes)]
    BY Zenon DEF RunProcesses, IsRun
  <1>3. QED
    BY <1>1, <1>2

\* The induction over the processes of a transition.
LEMMA RunStaysIn ==
    ASSUME NEW processes \in Seq(Processes), NEW D, NEW draft \in D,
           \A d \in D, i \in DOMAIN processes : d.ok => GrantProcess(d, processes[i]) \in D
    PROVE  RunProcesses(draft, processes) \in D
  <1>1. PICK run : /\ IsRun(run, draft, processes, Len(processes))
                   /\ RunProcesses(draft, processes) = run[Len(processes)]
    BY RunOfProcesses
  <1> DEFINE bad == {m \in 0 .. Len(processes) : run[m] \notin D}
  <1> SUFFICES ASSUME bad # {} PROVE FALSE
    BY <1>1
  <1>2. bad \in SUBSET Nat
    OBVIOUS
  <1>3. PICK m \in bad : \A k \in bad : m <= k
    BY <1>2, LeastElement
  <1>4. \A i \in 0 .. Len(processes) :
           run[i] = IF i = 0 THEN draft
                    ELSE IF run[i - 1].ok THEN GrantProcess(run[i - 1], processes[i])
                         ELSE run[i - 1]
    BY <1>1 DEF IsRun
  <1>5. CASE m = 0
    BY <1>3, <1>4, <1>5
  <1>6. CASE m # 0
    <2>1. m - 1 \in 0 .. Len(processes) /\ m \in DOMAIN processes /\ ~(m <= m - 1)
      BY <1>6
    <2>2. run[m - 1] \in D
      BY <2>1, <1>3
    <2>3. run[m] = IF run[m - 1].ok THEN GrantProcess(run[m - 1], processes[m])
                   ELSE run[m - 1]
      BY <2>1, <1>4
    <2>4. QED
      BY <2>1, <2>2, <2>3, <1>3
  <1>7. QED
    BY <1>5, <1>6

-----------------------------------------------------------------------------
Changes == [previous : Positions, current : Positions]

Drafts == [document : Document, commands : Seq(Command), published : Seq(Changes),
           case : AgreementStates \cup {None}, ok : BOOLEAN]

\* What every draft of a transition is, after any of its processes.
IsMoved(d, document, to, processes) ==
    /\ d.document.version = document.version
    /\ \/ d.document.position = to
       \/ /\ "REQUEST_APPLICATION_WITHDRAWAL" \in Range(processes)
          /\ d.document.position = Withdrawn(to)

IsChained(d, document) ==
    /\ d.published # <<>>
    /\ \A i \in DOMAIN d.published :
          d.published[i].previous = IF i = 1 THEN document.position
                                    ELSE d.published[i - 1].current
    /\ d.published[Len(d.published)].current = d.document.position

IsTold(d, document) ==
    IF d.case = None THEN d.document.history = document.history
    ELSE LatestStatus(d.document.history) = d.case

DraftsOf(document, to, processes) ==
    {d \in Drafts : /\ IsMoved(d, document, to, processes)
                    /\ IsChained(d, document)
                    /\ IsTold(d, document)}

LEMMA WithdrawnFacts ==
    ASSUME NEW to \in Statuses
    PROVE  Withdrawn(to) \in Positions /\ Withdrawn(Withdrawn(to)) = Withdrawn(to)
  <1>1. to = [stage |-> to.stage, status |-> to.status]
    BY StatusAssumption
  <1>2. Withdrawn(to) = [stage |-> to.stage, status |-> "APPLICATION_WITHDRAWN"]
    BY <1>1 DEF Withdrawn
  <1>3. QED
    BY <1>2 DEF Withdrawn, Positions

LEMMA RecordedFacts ==
    ASSUME NEW history \in Seq(AgreementStates), NEW status \in AgreementStates
    PROVE  /\ Append(history, status) \in Seq(AgreementStates)
           /\ LatestStatus(Append(history, status)) = status
  BY DEF LatestStatus

LEMMA RecordedStays ==
    ASSUME NEW document \in Document, NEW to \in Statuses,
           NEW processes \in Seq(Processes),
           NEW d \in DraftsOf(document, to, processes), NEW status \in AgreementStates
    PROVE  Recorded(d, status) \in DraftsOf(document, to, processes)
  <1> DEFINE new == Recorded(d, status)
             history == Append(d.document.history, status)
  <1>1. d \in Drafts /\ d.document \in Document
    BY DEF DraftsOf, Drafts
  <1>2. /\ history \in Seq(AgreementStates)
        /\ LatestStatus(history) = status
    BY <1>1, RecordedFacts DEF Document
  <1>3. /\ new.document = [d.document EXCEPT !.history = history]
        /\ new.case = status /\ new.ok = d.ok
        /\ new.published = d.published /\ new.commands = d.commands
    BY <1>1 DEF Recorded, Drafts, Document
  <1>4. new \in Drafts
    BY <1>1, <1>2 DEF Recorded, Drafts, Document
  <1>5. new.document.position = d.document.position /\ new.document.history = history
        /\ new.document.version = d.document.version
    BY <1>1, <1>3 DEF Document
  <1>6. status # None
    BY StatusAssumption
  <1>7. QED
    BY <1>2, <1>3, <1>4, <1>5, <1>6 DEF DraftsOf, IsMoved, IsChained, IsTold

LEMMA ThrownStays ==
    ASSUME NEW document, NEW to, NEW processes, NEW d \in DraftsOf(document, to, processes)
    PROVE  Thrown(d) \in DraftsOf(document, to, processes)
  BY DEF Thrown, DraftsOf, Drafts, IsMoved, IsChained, IsTold

LEMMA CommandedStays ==
    ASSUME NEW document, NEW to, NEW processes, NEW d \in DraftsOf(document, to, processes),
           NEW command \in Command
    PROVE  Commanded(d, command) \in DraftsOf(document, to, processes)
  <1> DEFINE new == Commanded(d, command)
  <1>1. d \in Drafts
    BY DEF DraftsOf
  <1>2. Append(d.commands, command) \in Seq(Command)
    BY <1>1 DEF Drafts
  <1>3. new = [d EXCEPT !.commands = Append(d.commands, command)]
    BY DEF Commanded
  <1>4. /\ new \in Drafts /\ new.document = d.document
        /\ new.published = d.published /\ new.case = d.case
    <2> HIDE DEF new
    <2> QED
      BY <1>1, <1>2, <1>3 DEF Drafts
  <1>5. QED
    BY <1>4 DEF DraftsOf, IsMoved, IsChained, IsTold

\* The withdrawal is one move more, published from where the first one led.
LEMMA WithdrawalStays ==
    ASSUME NEW document \in Document, NEW to \in Statuses,
           NEW processes \in Seq(Processes),
           "REQUEST_APPLICATION_WITHDRAWAL" \in Range(processes),
           NEW d \in DraftsOf(document, to, processes)
    PROVE  WithdrawApplication(d) \in DraftsOf(document, to, processes)
  <1>1. CASE GetActiveAgreement(d)
    BY <1>1, CommandedStays DEF WithdrawApplication, Command, AgreementStates
  <1>2. CASE ~GetActiveAgreement(d)
    <2> DEFINE from == d.document.position
               change == [previous |-> from, current |-> Withdrawn(from)]
               new == [d EXCEPT !.document.position = Withdrawn(from),
                                !.published = Append(@, change)]
    <2>1. WithdrawApplication(d) = new
      BY <1>2 DEF WithdrawApplication
    <2>2. d \in Drafts /\ d.document \in Document /\ d.published \in Seq(Changes)
      BY DEF DraftsOf, Drafts
    <2>3. Withdrawn(from) = Withdrawn(to) /\ Withdrawn(from) \in Positions
      BY WithdrawnFacts DEF DraftsOf, IsMoved
    <2>4. change \in Changes
      BY <2>2, <2>3 DEF Changes, Document
    <2>5. /\ new.published = Append(d.published, change)
          /\ new.document = [d.document EXCEPT !.position = Withdrawn(from)]
          /\ new.case = d.case /\ new.ok = d.ok /\ new.commands = d.commands
      BY <2>2 DEF Drafts
    <2>6. new \in Drafts
      <3>1. Append(d.published, change) \in Seq(Changes)
        BY <2>2, <2>4
      <3>2. [d.document EXCEPT !.position = Withdrawn(from)] \in Document
        BY <2>2, <2>3 DEF Document
      <3>3. new = [d EXCEPT !.document = [d.document EXCEPT !.position = Withdrawn(from)],
                            !.published = Append(d.published, change)]
        BY <2>2 DEF Drafts
      <3> HIDE DEF new
      <3>4. QED
        BY <2>2, <3>1, <3>2, <3>3 DEF Drafts
    <2>7. /\ new.document.position = Withdrawn(from)
          /\ new.document.history = d.document.history
          /\ new.document.version = d.document.version
      BY <2>2, <2>5 DEF Document
    <2>8. IsMoved(new, document, to, processes)
      BY <2>3, <2>7 DEF IsMoved, DraftsOf
    <2>9. IsChained(new, document)
      <3> HIDE DEF new, from
      <3> DEFINE n == Len(d.published)
      <3>1. n \in Nat \ {0} /\ d.published[n].current = from
        BY <2>2 DEF DraftsOf, IsChained, from
      <3>2. /\ Len(new.published) = n + 1
            /\ new.published[n + 1] = change
            /\ \A i \in 1 .. n : new.published[i] = d.published[i]
            /\ DOMAIN new.published = 1 .. n + 1 /\ DOMAIN d.published = 1 .. n
        BY <2>2, <2>4, <2>5
      <3>3. \A i \in 1 .. n : d.published[i].previous = IF i = 1 THEN document.position
                                                       ELSE d.published[i - 1].current
        BY <3>2 DEF DraftsOf, IsChained
      <3>4. ASSUME NEW i \in 1 .. n + 1
            PROVE  new.published[i].previous = IF i = 1 THEN document.position
                                               ELSE new.published[i - 1].current
        <4>1. CASE i \in 1 .. n
          <5>1. i # 1 => i - 1 \in 1 .. n
            BY <4>1
          <5>2. QED
            BY <4>1, <5>1, <3>2, <3>3
        <4>2. CASE i = n + 1
          <5>1. i # 1 /\ i - 1 = n /\ n \in 1 .. n
            BY <4>2, <3>1
          <5>2. new.published[i].previous = from
            BY <4>2, <3>2
          <5>3. QED
            BY <5>1, <5>2, <3>1, <3>2
        <4>3. QED
          BY <4>1, <4>2, <3>1
      <3>5. new.published[n + 1].current = new.document.position
        BY <3>2, <2>7
      <3>6. new.published # <<>>
        BY <3>1, <3>2
      <3>7. QED
        BY <3>2, <3>4, <3>5, <3>6 DEF IsChained
    <2>10. IsTold(new, document)
      BY <2>5, <2>7 DEF IsTold, DraftsOf
    <2>11. QED
      BY <2>1, <2>6, <2>8, <2>9, <2>10 DEF DraftsOf
  <1>3. QED
    BY <1>1, <1>2

LEMMA ProcessStays ==
    ASSUME NEW document \in Document, NEW to \in Statuses,
           NEW processes \in Seq(Processes),
           NEW d \in DraftsOf(document, to, processes), NEW i \in DOMAIN processes
    PROVE  GrantProcess(d, processes[i]) \in DraftsOf(document, to, processes)
  <1> DEFINE p == processes[i]
             D == DraftsOf(document, to, processes)
  <1> HIDE DEF D
  <1>1. \A status \in AgreementStates : Recorded(d, status) \in D
    BY RecordedStays DEF D
  <1>2. Thrown(d) \in D
    BY ThrownStays DEF D
  <1>3. \A command \in Command : Commanded(d, command) \in D
    BY CommandedStays DEF D
  <1>4. d \in D
    BY DEF D
  <1>5. p \in Processes
    OBVIOUS
  <1> HIDE DEF p
  <1> SUFFICES GrantProcess(d, p) \in D
    BY DEF D, p
  <1>6. CASE p = "GENERATE_OFFER"
    BY <1>3, <1>6 DEF GrantProcess, CreateAgreementCommand, Command
  <1>7. CASE p = "STORE_AGREEMENT_CASE"
    BY <1>1, <1>2, <1>7 DEF GrantProcess, AddAgreement, AgreementStates
  <1>8. CASE p = "ACCEPT_AGREEMENT"
    BY <1>1, <1>2, <1>8 DEF GrantProcess, AcceptAgreement, RecordOnAgreement, AgreementStates
  <1>9. CASE p = "CANCEL_AGREEMENT"
    BY <1>1, <1>2, <1>9 DEF GrantProcess, CancelAgreement, RecordOnAgreement, AgreementStates
  <1>10. CASE p = "WITHDRAW_AGREEMENT"
    BY <1>1, <1>2, <1>10
       DEF GrantProcess, WithdrawAgreement, RecordOnAgreement, AgreementStates
  <1>11. CASE p = "APPLY_AGREEMENT_TERMINATION"
    BY <1>1, <1>2, <1>11
       DEF GrantProcess, ApplyAgreementTermination, RecordOnAgreement, AgreementStates
  <1>12. CASE p = "REQUEST_APPLICATION_WITHDRAWAL"
    <2>1. p \in Range(processes)
      BY DEF Range, p
    <2>2. WithdrawApplication(d) \in D
      BY <1>12, <2>1, WithdrawalStays DEF D
    <2>3. QED
      BY <1>12, <2>2 DEF GrantProcess
  <1>13. CASE p = "REQUEST_AGREEMENT_CANCELLATION"
    BY <1>3, <1>4, <1>13
       DEF GrantProcess, RequestAgreementCancellation, Command, AgreementStates
  <1>14. CASE p = "REQUEST_AGREEMENT_TERMINATION"
    BY <1>3, <1>4, <1>14
       DEF GrantProcess, RequestAgreementTermination, Command, AgreementStates
  <1>15. QED
    BY <1>5, <1>6, <1>7, <1>8, <1>9, <1>10, <1>11, <1>12, <1>13, <1>14 DEF Processes

LEMMA FirstStays ==
    ASSUME NEW document \in Document, NEW to \in Statuses, NEW processes
    PROVE  /\ Draft(document, to) \in DraftsOf(document, to, processes)
           /\ Draft(document, to).document.history = document.history
           /\ Draft(document, to).case = None
  <1> DEFINE first == Draft(document, to)
             change == [previous |-> document.position, current |-> to]
  <1>1. document.position \in Positions /\ to \in Positions
    BY DEF Document, Positions
  <1>2. change \in Changes /\ first.published = <<change>>
    BY <1>1 DEF Changes, Draft
  <1>3. /\ first.document = [document EXCEPT !.position = to]
        /\ first.commands = <<>> /\ first.case = None /\ first.ok = TRUE
    BY DEF Draft
  <1>4. /\ first.document \in Document
        /\ first.document.position = to
        /\ first.document.version = document.version
        /\ first.document.history = document.history
    BY <1>1, <1>3 DEF Document
  <1>5. first \in Drafts
    BY <1>2, <1>3, <1>4 DEF Drafts, Draft
  <1>6. IsChained(first, document)
    BY <1>2, <1>4 DEF IsChained
  <1>7. QED
    BY <1>3, <1>4, <1>5, <1>6 DEF DraftsOf, IsMoved, IsTold

\* What a transition leaves behind: a document at the target or withdrawn from
\* it, events that begin where the document was and lead to where it is, and
\* the status CW is told whenever the history of the agreement grew.
LEMMA TransitionFacts ==
    ASSUME NEW document \in Document, NEW to \in Statuses,
           IsValidTransition(document.position, to) # {}
    PROVE  \E t \in IsValidTransition(document.position, to) :
              TransitionOf(document, to) \in DraftsOf(document, to, t.processes)
  <1> DEFINE t == CHOOSE u \in IsValidTransition(document.position, to) : TRUE
             first == Draft(document, to)
  <1>1. /\ t \in IsValidTransition(document.position, to)
        /\ t \in Transitions /\ t.processes \in Seq(Processes)
        /\ TransitionOf(document, to) = RunProcesses(first, t.processes)
    BY StatusAssumption DEF IsValidTransition, TransitionOf, ProcessesOf
  <1> HIDE DEF t, first
  <1>2. first \in DraftsOf(document, to, t.processes)
    BY FirstStays DEF first
  <1>3. RunProcesses(first, t.processes) \in DraftsOf(document, to, t.processes)
    <2>1. \A d \in DraftsOf(document, to, t.processes), i \in DOMAIN t.processes :
             GrantProcess(d, t.processes[i]) \in DraftsOf(document, to, t.processes)
      BY <1>1, ProcessStays
    <2>2. QED
      BY <1>1, <1>2, <2>1, RunStaysIn
  <1>4. QED
    BY <1>1, <1>3

\* A transition none of whose processes enters a state leaves the history alone.
LEMMA TransitionKeepsHistory ==
    ASSUME NEW document \in Document, NEW to \in Statuses,
           IsValidTransition(document.position, to) # {},
           \A t \in IsValidTransition(document.position, to) :
               Range(t.processes) \cap Recording = {}
    PROVE  TransitionOf(document, to).document.history = document.history
  <1> DEFINE t == CHOOSE u \in IsValidTransition(document.position, to) : TRUE
             first == Draft(document, to)
             D == {d \in DraftsOf(document, to, t.processes) :
                      d.document.history = document.history}
  <1>1. /\ t \in IsValidTransition(document.position, to)
        /\ t \in Transitions /\ t.processes \in Seq(Processes)
        /\ TransitionOf(document, to) = RunProcesses(first, t.processes)
    BY StatusAssumption DEF IsValidTransition, TransitionOf, ProcessesOf
  <1> HIDE DEF t, first
  <1>2. first \in D
    BY FirstStays DEF first
  <1>3. ASSUME NEW d \in D, NEW i \in DOMAIN t.processes
        PROVE  GrantProcess(d, t.processes[i]) \in D
    <2> DEFINE p == t.processes[i]
    <2>1. p \in Processes \ Recording
      BY <1>1 DEF Range
    <2>2. GrantProcess(d, p) \in DraftsOf(document, to, t.processes)
      BY <1>1, ProcessStays
    <2> HIDE DEF p
    <2>3. d \in Drafts /\ d.document \in Document
      BY DEF DraftsOf, Drafts
    <2>4. \A command : Commanded(d, command).document = d.document
      BY <2>3 DEF Commanded, Drafts
    <2>5. WithdrawApplication(d).document.history = d.document.history
      <3>1. CASE GetActiveAgreement(d)
        BY <2>4, <3>1 DEF WithdrawApplication
      <3>2. CASE ~GetActiveAgreement(d)
        <4>1. WithdrawApplication(d).document
                 = [d.document EXCEPT !.position = Withdrawn(d.document.position)]
          BY <2>3, <3>2 DEF WithdrawApplication, Drafts
        <4>2. QED
          BY <2>3, <4>1 DEF Document
      <3>3. QED
        BY <3>1, <3>2
    <2>6. GrantProcess(d, p).document.history = d.document.history
      BY <2>1, <2>4, <2>5 DEF GrantProcess, Processes, Recording, CreateAgreementCommand,
         RequestAgreementCancellation, RequestAgreementTermination
    <2>7. QED
      BY <2>2, <2>6 DEF p
  <1>4. RunProcesses(first, t.processes) \in D
    <2> HIDE DEF D
    <2>1. QED
      BY <1>1, <1>2, <1>3, RunStaysIn
  <1>5. QED
    BY <1>1, <1>4

-----------------------------------------------------------------------------
(***************************************************************************)
(* Types.  A handler at work has exactly one event of the inbox claimed,   *)
(* and a copy of the application from its read to its move.                *)
(***************************************************************************)
ClaimsSound ==
    /\ \A h \in Handlers :
          task[h].pc = "idle" <=> \A i \in DOMAIN inbox : inbox[i].by # h
    /\ \A i, j \in DOMAIN inbox :
          inbox[i].by = inbox[j].by /\ inbox[i].by # None => i = j
    /\ \A h \in Handlers : task[h].seen # None <=> task[h].pc \in {"resolved", "move"}

TypeInv == TypeOK /\ ClaimsSound

Pcs == {"idle", "read", "resolved", "move", "done"}

LEMMA TaskFacts ==
    ASSUME TypeInv, NEW h \in Handlers
    PROVE  /\ task[h] \in [pc : Pcs, seen : Document \cup {None}]
           /\ task[h] = Idle <=> task[h].pc = "idle"
           /\ task[h].pc \in {"resolved", "move"} => task[h].seen \in Document
  BY DEF TypeInv, TypeOK, ClaimsSound, Idle, Pcs

LEMMA ClaimedFacts ==
    ASSUME TypeInv, NEW h \in Handlers, task[h].pc # "idle"
    PROVE  /\ Claimed(h) \in DOMAIN inbox
           /\ \A i \in DOMAIN inbox : inbox[i].by = h <=> i = Claimed(h)
  <1>1. \E i \in DOMAIN inbox : inbox[i].by = h
    BY DEF TypeInv, ClaimsSound
  <1>2. Claimed(h) \in DOMAIN inbox /\ inbox[Claimed(h)].by = h
    BY <1>1 DEF Claimed
  <1>3. h # None
    BY StatusAssumption
  <1>4. QED
    BY <1>2, <1>3 DEF TypeInv, ClaimsSound

LEMMA RemoveAtFacts ==
    ASSUME NEW S, NEW s \in Seq(S), NEW i \in DOMAIN s
    PROVE  /\ RemoveAt(s, i) \in Seq(S)
           /\ DOMAIN RemoveAt(s, i) = 1 .. Len(s) - 1
           /\ \A j \in 1 .. Len(s) - 1 :
                 RemoveAt(s, i)[j] = IF j < i THEN s[j] ELSE s[j + 1]
  <1> DEFINE a == SubSeq(s, 1, i - 1)
             b == SubSeq(s, i + 1, Len(s))
  <1>1. i \in 1 .. Len(s) /\ Len(s) \in Nat
    OBVIOUS
  <1>2. a \in Seq(S) /\ Len(a) = i - 1 /\ \A j \in 1 .. i - 1 : a[j] = s[j]
    BY <1>1
  <1>3. b \in Seq(S) /\ Len(b) = Len(s) - i /\ \A j \in 1 .. Len(s) - i : b[j] = s[i + j]
    BY <1>1
  <1>4. RemoveAt(s, i) = a \o b
    BY DEF RemoveAt
  <1> HIDE DEF a, b
  <1>5. /\ a \o b \in Seq(S) /\ Len(a \o b) = Len(a) + Len(b)
        /\ \A j \in 1 .. Len(a) + Len(b) :
              (a \o b)[j] = IF j <= Len(a) THEN a[j] ELSE b[j - Len(a)]
    BY <1>2, <1>3, ConcatProperties
  <1>6. Len(a) + Len(b) = Len(s) - 1
    BY <1>1, <1>2, <1>3
  <1>7. ASSUME NEW j \in 1 .. Len(s) - 1
        PROVE  (a \o b)[j] = IF j < i THEN s[j] ELSE s[j + 1]
    <2>1. CASE j < i
      BY <1>1, <1>2, <1>5, <1>6, <2>1
    <2>2. CASE ~(j < i)
      <3>1. j - (i - 1) \in 1 .. Len(s) - i /\ i + (j - (i - 1)) = j + 1 /\ ~(j <= Len(a))
        BY <1>1, <1>2, <2>2
      <3>2. b[j - (i - 1)] = s[i + (j - (i - 1))]
        BY <1>3, <3>1
      <3>3. QED
        BY <1>2, <1>5, <1>6, <2>2, <3>1, <3>2
    <2>3. QED
      BY <2>1, <2>2
  <1>8. DOMAIN (a \o b) = 1 .. Len(s) - 1
    BY <1>5, <1>6
  <1>9. QED
    BY <1>4, <1>5, <1>7, <1>8

\* Every event of the inbox was there before.
EventsKept ==
    \A i \in DOMAIN inbox' : \E j \in DOMAIN inbox :
        inbox'[i].source = inbox[j].source /\ inbox'[i].code = inbox[j].code

LEMMA Removing ==
    ASSUME TypeInv, NEW h \in Handlers, task[h].pc # "idle",
           inbox' = RemoveAt(inbox, Claimed(h)), Set(h, Idle)
    PROVE  inbox' \in Seq(Event) /\ ClaimsSound' /\ EventsKept
  <1> DEFINE c == Claimed(h)
             old(j) == IF j < c THEN j ELSE j + 1
  <1>1. /\ c \in DOMAIN inbox /\ c \in Nat
        /\ \A i \in DOMAIN inbox : inbox[i].by = h <=> i = c
    BY ClaimedFacts DEF TypeInv, TypeOK
  <1>2. inbox \in Seq(Event) /\ DOMAIN inbox = 1 .. Len(inbox) /\ Len(inbox) \in Nat
    BY DEF TypeInv, TypeOK
  <1>3. /\ inbox' \in Seq(Event) /\ DOMAIN inbox' = 1 .. Len(inbox) - 1
        /\ \A j \in DOMAIN inbox' : inbox'[j] = inbox[old(j)]
    BY <1>1, <1>2, RemoveAtFacts
  <1>4. \A j \in DOMAIN inbox' : old(j) \in DOMAIN inbox /\ old(j) # c
    BY <1>1, <1>2, <1>3
  <1>5. \A i \in DOMAIN inbox : i # c => \E j \in DOMAIN inbox' : old(j) = i
    <2> SUFFICES ASSUME NEW i \in DOMAIN inbox, i # c
                 PROVE  \E j \in DOMAIN inbox' : old(j) = i
      OBVIOUS
    <2>1. CASE i < c
      BY <1>1, <1>2, <1>3, <2>1
    <2>2. CASE c < i
      <3>1. i - 1 \in DOMAIN inbox' /\ old(i - 1) = i
        BY <1>1, <1>2, <1>3, <2>2
      <3>2. QED
        BY <3>1
    <2>3. QED
      BY <1>1, <1>2, <2>1, <2>2
  <1>6. \A j, k \in DOMAIN inbox' : old(j) = old(k) => j = k
    BY <1>1, <1>2, <1>3
  <1> HIDE DEF old, c
  <1>7. /\ \A x \in Handlers : task'[x] = IF x = h THEN Idle ELSE task[x]
        /\ Idle.pc = "idle" /\ Idle.seen = None
    BY DEF Set, TypeInv, TypeOK, Idle
  <1>8. ASSUME NEW x \in Handlers
        PROVE  task'[x].pc = "idle" <=> \A i \in DOMAIN inbox' : inbox'[i].by # x
    <2>1. CASE x = h
      BY <1>1, <1>3, <1>4, <1>7, <2>1
    <2>2. CASE x # h
      <3>1. task[x].pc = "idle" <=> \A i \in DOMAIN inbox : inbox[i].by # x
        BY DEF TypeInv, ClaimsSound
      <3>2. (\A i \in DOMAIN inbox : inbox[i].by # x)
               <=> \A i \in DOMAIN inbox' : inbox'[i].by # x
        BY <1>1, <1>3, <1>4, <1>5, <2>2
      <3>3. QED
        BY <3>1, <3>2, <2>2, <1>7
    <2>3. QED
      BY <2>1, <2>2
  <1>9. \A i, j \in DOMAIN inbox' :
           inbox'[i].by = inbox'[j].by /\ inbox'[i].by # None => i = j
    BY <1>3, <1>4, <1>6 DEF TypeInv, ClaimsSound
  <1>10. \A x \in Handlers : task'[x].seen # None <=> task'[x].pc \in {"resolved", "move"}
    BY <1>7 DEF TypeInv, ClaimsSound
  <1>11. EventsKept
    BY <1>3, <1>4 DEF EventsKept
  <1>12. QED
    BY <1>3, <1>8, <1>9, <1>10, <1>11 DEF ClaimsSound

LEMMA Returning ==
    ASSUME TypeInv, NEW h \in Handlers, task[h].pc # "idle", NEW e \in Event,
           e.by = None, e.source = inbox[Claimed(h)].source,
           e.code = inbox[Claimed(h)].code,
           inbox' = [inbox EXCEPT ![Claimed(h)] = e], Set(h, Idle)
    PROVE  inbox' \in Seq(Event) /\ ClaimsSound' /\ EventsKept
  <1> DEFINE c == Claimed(h)
  <1>1. c \in DOMAIN inbox /\ \A i \in DOMAIN inbox : inbox[i].by = h <=> i = c
    BY ClaimedFacts
  <1>2. inbox \in Seq(Event)
    BY DEF TypeInv, TypeOK
  <1> HIDE DEF c
  <1>3. inbox' = [inbox EXCEPT ![c] = e]
    BY DEF c
  <1>4. /\ inbox' \in Seq(Event) /\ DOMAIN inbox' = DOMAIN inbox
        /\ \A i \in DOMAIN inbox : inbox'[i] = IF i = c THEN e ELSE inbox[i]
    <2>1. c \in 1 .. Len(inbox)
      BY <1>1, <1>2
    <2>2. [inbox EXCEPT ![c] = e] \in Seq(Event)
      BY <1>2, <2>1, ExceptSeq
    <2>3. QED
      BY <1>3, <2>2
  <1>5. /\ \A x \in Handlers : task'[x] = IF x = h THEN Idle ELSE task[x]
        /\ Idle.pc = "idle" /\ Idle.seen = None
    BY DEF Set, TypeInv, TypeOK, Idle
  <1>6. \A x \in Handlers : x # None
    BY StatusAssumption
  <1>7. \A x \in Handlers : task'[x].pc = "idle" <=> \A i \in DOMAIN inbox' : inbox'[i].by # x
    BY <1>1, <1>4, <1>5, <1>6 DEF TypeInv, ClaimsSound
  <1>8. \A i, j \in DOMAIN inbox' :
           inbox'[i].by = inbox'[j].by /\ inbox'[i].by # None => i = j
    BY <1>1, <1>4 DEF TypeInv, ClaimsSound
  <1>9. \A x \in Handlers : task'[x].seen # None <=> task'[x].pc \in {"resolved", "move"}
    BY <1>5 DEF TypeInv, ClaimsSound
  <1>10. EventsKept
    BY <1>1, <1>4 DEF EventsKept, c
  <1>11. QED
    BY <1>4, <1>7, <1>8, <1>9, <1>10 DEF ClaimsSound

LEMMA Failing ==
    ASSUME TypeInv, NEW h \in Handlers, task[h].pc # "idle", Failed(h)
    PROVE  /\ inbox' \in Seq(Event) /\ ClaimsSound' /\ EventsKept
           /\ dead' \subseteq {"CW", "AS"} \X Codes
           /\ task' = [task EXCEPT ![h] = Idle]
  <1> DEFINE i == Claimed(h)
             e == inbox[i]
             back == [e EXCEPT !.by = None, !.failed = TRUE, !.attempts = @ + 1]
  <1>1. i \in DOMAIN inbox /\ e \in Event
    BY ClaimedFacts DEF TypeInv, TypeOK
  <1>2. e.source \in {"CW", "AS"} /\ e.code \in Codes /\ e.attempts \in 0 .. MaxAttempts - 1
    BY <1>1 DEF Event
  <1>3. Set(h, Idle)
    BY DEF Failed
  <1>4. CASE e.attempts + 1 >= MaxAttempts
    <2>1. inbox' = RemoveAt(inbox, i) /\ dead' = dead \cup {<<e.source, e.code>>}
      BY <1>4 DEF Failed
    <2>2. inbox' \in Seq(Event) /\ ClaimsSound' /\ EventsKept
      BY <2>1, <1>3, Removing
    <2>3. dead' \subseteq {"CW", "AS"} \X Codes
      BY <2>1, <1>2 DEF TypeInv, TypeOK
    <2>4. QED
      BY <2>2, <2>3, <1>3 DEF Set
  <1>5. CASE ~(e.attempts + 1 >= MaxAttempts)
    <2>1. inbox' = [inbox EXCEPT ![i] = back] /\ dead' = dead
      BY <1>5 DEF Failed
    <2>2. /\ back \in Event /\ back.by = None
          /\ back.source = e.source /\ back.code = e.code
      <3>1. e.attempts + 1 \in 0 .. MaxAttempts - 1
        BY <1>2, <1>5, StatusAssumption
      <3>2. QED
        BY <1>1, <3>1 DEF Event
    <2>3. inbox' \in Seq(Event) /\ ClaimsSound' /\ EventsKept
      <3> HIDE DEF back
      <3>1. QED
        BY <2>1, <2>2, <1>3, Returning
    <2>4. QED
      BY <2>1, <2>3, <1>3 DEF Set, TypeInv, TypeOK
  <1>6. QED
    BY <1>4, <1>5

\* An event arrives that nobody has claimed.
LEMMA Arriving ==
    ASSUME TypeInv, NEW source \in {"CW", "AS"}, NEW code \in Codes,
           Arrive(source, code), task' = task
    PROVE  /\ inbox' \in Seq(Event) /\ ClaimsSound'
           /\ \A i \in DOMAIN inbox' :
                 \/ inbox'[i].source = source /\ inbox'[i].code = code
                 \/ i \in DOMAIN inbox /\ inbox'[i] = inbox[i]
  <1> DEFINE e == [source |-> source, code |-> code, failed |-> FALSE, by |-> None,
                   attempts |-> 0]
  <1>1. e \in Event /\ e.by = None /\ e.source = source /\ e.code = code
    BY StatusAssumption DEF Event
  <1>2. inbox \in Seq(Event) /\ inbox' = Append(inbox, e)
    BY DEF TypeInv, TypeOK, Arrive
  <1> HIDE DEF e
  <1>3. /\ inbox' \in Seq(Event)
        /\ \A i \in DOMAIN inbox' : \/ i \in DOMAIN inbox /\ inbox'[i] = inbox[i]
                                   \/ inbox'[i] = e
        /\ \A i, j \in DOMAIN inbox' : i \notin DOMAIN inbox /\ j \notin DOMAIN inbox => i = j
        /\ \A i \in DOMAIN inbox : i \in DOMAIN inbox' /\ inbox'[i] = inbox[i]
        /\ \A i \in DOMAIN inbox' : i \notin DOMAIN inbox => inbox'[i] = e
    BY <1>1, <1>2
  <1>4. \A x \in Handlers : x # None
    BY StatusAssumption
  <1>5. ClaimsSound'
    BY <1>1, <1>3, <1>4 DEF TypeInv, ClaimsSound
  <1>6. QED
    BY <1>1, <1>3, <1>5

LEMMA Advancing ==
    ASSUME TypeInv, NEW h \in Handlers, task[h].pc # "idle", NEW t,
           t \in [pc : Pcs \ {"idle"}, seen : Document \cup {None}],
           t.seen # None <=> t.pc \in {"resolved", "move"},
           Set(h, t), inbox' = inbox
    PROVE  inbox' \in Seq(Event) /\ ClaimsSound' /\ EventsKept
  <1>1. \A x \in Handlers : task'[x] = IF x = h THEN t ELSE task[x]
    BY DEF Set, TypeInv, TypeOK
  <1>2. t.pc # "idle"
    OBVIOUS
  <1>3. ClaimsSound'
    BY <1>1, <1>2 DEF TypeInv, ClaimsSound
  <1>4. inbox' \in Seq(Event) /\ EventsKept
    BY DEF TypeInv, TypeOK, EventsKept
  <1>5. QED
    BY <1>3, <1>4

LEMMA Claiming ==
    ASSUME TypeInv, NEW h \in Handlers, Claim(h)
    PROVE  inbox' \in Seq(Event) /\ ClaimsSound' /\ EventsKept
  <1>1. PICK c \in DOMAIN inbox : /\ inbox[c].by = None
                                  /\ inbox' = [inbox EXCEPT ![c].by = h]
    BY DEF Claim
  <1> DEFINE e == [inbox[c] EXCEPT !.by = h]
  <1>2. inbox \in Seq(Event) /\ inbox[c] \in Event
    BY DEF TypeInv, TypeOK
  <1>3. e \in Event /\ e.by = h /\ e.source = inbox[c].source /\ e.code = inbox[c].code
    BY <1>2 DEF Event
  <1>4. inbox' = [inbox EXCEPT ![c] = e]
    BY <1>1
  <1> HIDE DEF e
  <1>5. /\ inbox' \in Seq(Event) /\ DOMAIN inbox' = DOMAIN inbox
        /\ \A i \in DOMAIN inbox : inbox'[i] = IF i = c THEN e ELSE inbox[i]
    BY <1>2, <1>3, <1>4, ExceptSeq
  <1>6. /\ task[h].pc = "idle"
        /\ \A x \in Handlers :
              task'[x] = IF x = h THEN [pc |-> "read", seen |-> None] ELSE task[x]
    BY DEF Claim, Set, Idle, TypeInv, TypeOK
  <1>7. \A x \in Handlers : x # None
    BY StatusAssumption
  <1>8. \A x \in Handlers : task'[x].pc = "idle" <=> \A i \in DOMAIN inbox' : inbox'[i].by # x
    BY <1>1, <1>3, <1>5, <1>6, <1>7 DEF TypeInv, ClaimsSound
  <1>9. \A i, j \in DOMAIN inbox' :
           inbox'[i].by = inbox'[j].by /\ inbox'[i].by # None => i = j
    BY <1>1, <1>3, <1>5, <1>6 DEF TypeInv, ClaimsSound
  <1>10. \A x \in Handlers : task'[x].seen # None <=> task'[x].pc \in {"resolved", "move"}
    BY <1>6 DEF TypeInv, ClaimsSound
  <1>11. EventsKept
    BY <1>3, <1>5 DEF EventsKept
  <1>12. QED
    BY <1>5, <1>8, <1>9, <1>10, <1>11 DEF ClaimsSound

LEMMA Resubmitting ==
    ASSUME TypeInv, Resubmit
    PROVE  inbox' \in Seq(Event) /\ ClaimsSound' /\ EventsKept
  <1>1. inbox \in Seq(Event) /\ task' = task
    BY DEF TypeInv, TypeOK, Resubmit
  <1>2. \A i \in DOMAIN inbox : /\ inbox[i] \in Event
                                /\ [inbox[i] EXCEPT !.failed = FALSE] \in Event
    <2>1. \A e \in Event : [e EXCEPT !.failed = FALSE] \in Event
      BY DEF Event
    <2>2. \A i \in DOMAIN inbox : inbox[i] \in Event
      BY <1>1
    <2>3. QED
      BY <2>1, <2>2
  <1>3. /\ DOMAIN inbox' = DOMAIN inbox
        /\ \A i \in DOMAIN inbox : inbox'[i] = [inbox[i] EXCEPT !.failed = FALSE]
    BY DEF Resubmit
  <1>4. \A i \in DOMAIN inbox : /\ inbox'[i].by = inbox[i].by
                                /\ inbox'[i].source = inbox[i].source
                                /\ inbox'[i].code = inbox[i].code
    BY <1>2, <1>3 DEF Event
  <1>5. inbox' \in Seq(Event)
    BY <1>1, <1>2 DEF Resubmit
  <1>6. EventsKept
    BY <1>3, <1>4 DEF EventsKept
  <1>7. ClaimsSound'
    BY <1>1, <1>3, <1>4 DEF TypeInv, ClaimsSound
  <1>8. QED
    BY <1>5, <1>6, <1>7

-----------------------------------------------------------------------------
\* What the commit of a draft does to what others know of the application.
LEMMA Committing ==
    ASSUME TypeInv, NEW document \in Document, NEW to \in Statuses,
           IsValidTransition(document.position, to) # {},
           CommitDraft(TransitionOf(document, to))
    PROVE  /\ application' \in Document
           /\ application'.version = document.version
           /\ ValidMove(document.position, application'.position)
           /\ commands' \in Seq(Command)
           /\ subscriber' \in [position : Positions, gap : BOOLEAN]
           /\ subscriber'.position = application'.position
           /\ subscriber.position = document.position => subscriber'.gap = subscriber.gap
           /\ caseworking' \in AgreementStates \cup {None}
           /\ \/ caseworking' = LatestStatus(application'.history)
              \/ /\ caseworking' = caseworking
                 /\ application'.history = document.history
  <1> DEFINE d == TransitionOf(document, to)
             n == Len(d.published)
  <1>1. PICK t \in IsValidTransition(document.position, to) :
           d \in DraftsOf(document, to, t.processes)
    BY TransitionFacts
  <1> HIDE DEF d
  <1>2. /\ d \in Drafts /\ d.document \in Document /\ d.published \in Seq(Changes)
        /\ d.commands \in Seq(Command) /\ d.case \in AgreementStates \cup {None}
    BY <1>1 DEF DraftsOf, Drafts
  <1>3. /\ application' = d.document
        /\ commands' = commands \o d.commands
        /\ subscriber' = Received(subscriber, d.published)
        /\ caseworking' = IF d.case = None THEN caseworking ELSE d.case
    BY DEF CommitDraft, d
  <1>4. ValidMove(document.position, d.document.position)
    BY <1>1 DEF DraftsOf, IsMoved, ValidMove, IsValidTransition
  <1>5. /\ n \in DOMAIN d.published /\ d.published[n] \in Changes
        /\ d.published[n].current = d.document.position
    BY <1>1, <1>2 DEF DraftsOf, IsChained
  <1>6. subscriber.gap \in BOOLEAN
    BY DEF TypeInv, TypeOK
  <1>7. /\ subscriber'.position = d.document.position
        /\ subscriber' \in [position : Positions, gap : BOOLEAN]
        /\ subscriber'.gap = \/ subscriber.gap
                             \/ \E i \in DOMAIN d.published : d.published[i].previous #
                                   IF i = 1 THEN subscriber.position
                                   ELSE d.published[i - 1].current
    BY <1>2, <1>3, <1>5, <1>6 DEF Received, Document
  <1>8. ASSUME subscriber.position = document.position
        PROVE  subscriber'.gap = subscriber.gap
    <2>1. \A i \in DOMAIN d.published :
             d.published[i].previous = IF i = 1 THEN subscriber.position
                                       ELSE d.published[i - 1].current
      BY <1>1, <1>8 DEF DraftsOf, IsChained
    <2>2. QED
      BY <1>6, <1>7, <2>1
  <1>9. commands' \in Seq(Command)
    BY <1>2, <1>3 DEF TypeInv, TypeOK
  <1>10. IsTold(d, document) /\ d.document.version = document.version
    BY <1>1 DEF DraftsOf, IsMoved
  <1>11. QED
    BY <1>2, <1>3, <1>4, <1>7, <1>8, <1>9, <1>10 DEF IsTold, TypeInv, TypeOK

-----------------------------------------------------------------------------
\* The parts of the types that only some actions disturb.
RestTyped ==
    /\ application \in Document
    /\ commands \in Seq(Command)
    /\ subscriber \in [position : Positions, gap : BOOLEAN]
    /\ caseworking \in AgreementStates \cup {None}
    /\ agreement \in Seq(AgreementStates)
    /\ latest \in Versions
    /\ requests \in 0 .. MaxRequests
    /\ faults \in 0 .. MaxFaults

LEMMA Typed == TypeInv => RestTyped
  BY DEF TypeInv, TypeOK, RestTyped

LEMMA StillTyped ==
    ASSUME RestTyped', ClaimsSound', inbox' \in Seq(Event),
           dead' \subseteq {"CW", "AS"} \X Codes,
           task' \in [Handlers -> [pc : Pcs, seen : Document \cup {None}]]
    PROVE  TypeInv'
  BY DEF TypeInv, TypeOK, RestTyped, Pcs

LEMMA TaskTyped ==
    ASSUME TypeInv, NEW h \in Handlers, NEW t \in [pc : Pcs, seen : Document \cup {None}],
           task' = [task EXCEPT ![h] = t]
    PROVE  task' \in [Handlers -> [pc : Pcs, seen : Document \cup {None}]]
  BY DEF TypeInv, TypeOK, Pcs

LEMMA IdleTyped == Idle \in [pc : Pcs, seen : Document \cup {None}]
  BY DEF Idle, Pcs

LEMMA FailingTyped ==
    ASSUME TypeInv, NEW h \in Handlers, task[h].pc # "idle", Failed(h), RestTyped'
    PROVE  TypeInv'
  <1>1. /\ inbox' \in Seq(Event) /\ ClaimsSound'
        /\ dead' \subseteq {"CW", "AS"} \X Codes
        /\ task' = [task EXCEPT ![h] = Idle]
    BY Failing
  <1>2. QED
    BY <1>1, IdleTyped, TaskTyped, StillTyped

LEMMA AdvancingTyped ==
    ASSUME TypeInv, NEW h \in Handlers, task[h].pc # "idle", NEW t,
           t \in [pc : Pcs \ {"idle"}, seen : Document \cup {None}],
           t.seen # None <=> t.pc \in {"resolved", "move"},
           Set(h, t), UNCHANGED <<inbox, dead>>, RestTyped'
    PROVE  TypeInv'
  <1>1. inbox' \in Seq(Event) /\ ClaimsSound'
    BY Advancing
  <1>2. task' \in [Handlers -> [pc : Pcs, seen : Document \cup {None}]]
    BY TaskTyped DEF Set, Pcs
  <1>3. QED
    BY <1>1, <1>2, StillTyped DEF TypeInv, TypeOK

LEMMA ArrivingTyped ==
    ASSUME TypeInv, NEW source \in {"CW", "AS"}, NEW code \in Codes,
           Arrive(source, code), UNCHANGED <<task, dead>>, RestTyped'
    PROVE  TypeInv'
  <1>1. inbox' \in Seq(Event) /\ ClaimsSound'
    BY Arriving
  <1>2. QED
    BY <1>1, StillTyped DEF TypeInv, TypeOK, Pcs

\* The steps of a handler that reached its transition and did not throw.
LEMMA HandlerMoves ==
    ASSUME TypeInv, NEW h \in Handlers, IsMapped(h),
           Target(h) \notin {None, task[h].seen.position}
    PROVE  /\ task[h].pc = "move" /\ task[h].seen \in Document
           /\ Target(h) \in Statuses
  <1>1. task[h].pc = "move"
    BY DEF IsMapped
  <1>2. \E m \in Mappings : Target(h) = m.to
    BY DEF IsMapped, Target, FindExternalStatusMapping
  <1>3. QED
    BY <1>1, <1>2, TaskFacts, StatusAssumption

LEMMA HandlerTyped ==
    ASSUME TypeInv, NEW h \in Handlers, Handle(h) \/ HandlerFails(h)
    PROVE  TypeInv'
  <1> USE DEF RestTyped
  <1>0. RestTyped
    BY Typed
  <1>1. CASE Claim(h)
    <2>1. inbox' \in Seq(Event) /\ ClaimsSound'
      BY <1>1, Claiming
    <2>2. task' \in [Handlers -> [pc : Pcs, seen : Document \cup {None}]]
      BY <1>1, TaskTyped DEF Claim, Set, Pcs
    <2>3. QED
      BY <1>0, <1>1, <2>1, <2>2, StillTyped DEF Claim, TypeInv, TypeOK
  <1>2. CASE ReadApplication(h)
    <2> DEFINE t == [pc |-> "resolved", seen |-> application]
    <2>2. application # None
      BY <1>0, StatusAssumption
    <2> HIDE DEF t
    <2>3. /\ t \in [pc : Pcs \ {"idle"}, seen : Document \cup {None}]
          /\ t.seen # None <=> t.pc \in {"resolved", "move"}
      BY <1>0, <2>2 DEF Pcs, t
    <2>4. task[h].pc # "idle" /\ Set(h, t) /\ UNCHANGED <<inbox, dead>> /\ RestTyped'
      BY <1>0, <1>2 DEF ReadApplication, t
    <2>5. QED
      BY <2>3, <2>4, AdvancingTyped
  <1>3. CASE ResolveGrant(h)
    <2> DEFINE t == [pc |-> "move", seen |-> [task[h].seen EXCEPT !.version = latest]]
    <2>1. task[h].seen \in Document /\ task[h].pc = "resolved"
      BY <1>3, TaskFacts DEF ResolveGrant
    <2>3. [task[h].seen EXCEPT !.version = latest] \in Document
      BY <1>0, <2>1 DEF Document
    <2>4. application' \in Document
      BY <1>0, <1>3 DEF ResolveGrant, Document
    <2> HIDE DEF t
    <2>5. /\ t \in [pc : Pcs \ {"idle"}, seen : Document \cup {None}]
          /\ t.seen # None <=> t.pc \in {"resolved", "move"}
      BY <2>3, StatusAssumption DEF Pcs, t
    <2>6. task[h].pc # "idle" /\ Set(h, t) /\ UNCHANGED <<inbox, dead>> /\ RestTyped'
      BY <1>0, <1>3, <2>4 DEF ResolveGrant, t
    <2>7. QED
      BY <2>5, <2>6, AdvancingTyped
  <1>4. ASSUME task[h].pc # "idle", Set(h, Returned), UNCHANGED <<inbox, dead>>, RestTyped'
        PROVE  TypeInv'
    <2> DEFINE t == Returned
    <2> HIDE DEF t
    <2>2. /\ t \in [pc : Pcs \ {"idle"}, seen : Document \cup {None}]
          /\ t.seen # None <=> t.pc \in {"resolved", "move"}
      BY DEF Pcs, Returned, t
    <2>3. Set(h, t)
      BY <1>4 DEF t
    <2>4. QED
      BY <1>4, <2>2, <2>3, AdvancingTyped
  <1>5. CASE Acknowledge(h)
    BY <1>0, <1>4, <1>5 DEF Acknowledge
  <1>6. CASE StayInPosition(h)
    BY <1>0, <1>4, <1>6 DEF StayInPosition, IsMapped
  <1>7. CASE TransitionApplication(h)
    <2>1. /\ task[h].pc = "move" /\ task[h].seen \in Document /\ Target(h) \in Statuses
      BY <1>7, HandlerMoves DEF TransitionApplication
    <2> DEFINE d == TransitionOf(task[h].seen, Target(h))
    <2> HIDE DEF d
    <2>2. CASE d.ok
      <3>1. CommitDraft(d) /\ Set(h, Returned) /\ UNCHANGED <<inbox, dead>>
        BY <1>7, <2>2 DEF TransitionApplication, d
      <3>2. IsValidTransition(task[h].seen.position, Target(h)) # {}
        BY <1>7 DEF TransitionApplication
      <3>3. RestTyped'
        BY <1>0, <1>7, <2>1, <3>1, <3>2, Committing DEF TransitionApplication, d
      <3>4. QED
        BY <1>4, <2>1, <3>1, <3>3
    <2>3. CASE ~d.ok
      BY <1>0, <1>7, <2>1, <2>3, FailingTyped DEF TransitionApplication, d
    <2>4. QED
      BY <2>2, <2>3
  <1>8. CASE UnableToProcess(h)
    BY <1>0, <1>8, FailingTyped DEF UnableToProcess, IsMapped
  <1>9. CASE MarkComplete(h)
    <2>1. inbox' \in Seq(Event) /\ ClaimsSound'
      BY <1>9, Removing DEF MarkComplete
    <2>2. task' \in [Handlers -> [pc : Pcs, seen : Document \cup {None}]]
      BY <1>9, IdleTyped, TaskTyped DEF MarkComplete, Set
    <2>3. QED
      BY <1>0, <1>9, <2>1, <2>2, StillTyped DEF MarkComplete, TypeInv, TypeOK
  <1>10. CASE HandlerFails(h)
    <2>1. faults' \in 0 .. MaxFaults
      BY <1>0, <1>10, StatusAssumption DEF HandlerFails
    <2>2. task[h].pc # "idle"
      BY <1>10, TaskFacts DEF HandlerFails
    <2>3. QED
      BY <1>0, <1>10, <2>1, <2>2, FailingTyped DEF HandlerFails
  <1>11. QED
    BY <1>1, <1>2, <1>3, <1>5, <1>6, <1>7, <1>8, <1>9, <1>10
       DEF Handle, ApplyExternalStateChange

\* Agreements appends a state to the agreement and reports it.
LEMMA Moving ==
    ASSUME TypeInv, NEW state \in AgreementStates, MoveAgreement(state),
           UNCHANGED <<task, dead>>
    PROVE  /\ agreement' \in Seq(AgreementStates)
           /\ inbox' \in Seq(Event) /\ ClaimsSound'
  <1>1. state \in Codes /\ Arrive("AS", state)
    BY DEF Codes, MoveAgreement
  <1>2. agreement' \in Seq(AgreementStates)
    BY DEF MoveAgreement, TypeInv, TypeOK
  <1>3. QED
    BY <1>1, <1>2, Arriving

\* What a command does to the agreement.
LEMMA Commanding ==
    ASSUME TypeInv, HandleCommand
    PROVE  /\ commands # <<>> /\ commands' = Tail(commands)
           /\ commands' \in Seq(Command) /\ Range(commands') \subseteq Range(commands)
           /\ \/ UNCHANGED <<agreement, inbox>>
              \/ \E state \in AgreementStates :
                    /\ MoveAgreement(state)
                    /\ \/ "create" \in Range(commands) /\ agreement = <<>> /\ state = "offered"
                       \/ state \in Lifecycle(LatestStatus(agreement))
  <1>1. /\ commands # <<>> /\ commands \in Seq(Command) /\ commands' = Tail(commands)
        /\ Head(commands) \in Command
    BY DEF HandleCommand, TypeInv, TypeOK
  <1>2. commands' \in Seq(Command) /\ Range(commands') \subseteq Range(commands)
    BY <1>1 DEF Range
  <1>3. Head(commands) \in Range(commands)
    BY <1>1 DEF Range
  <1> DEFINE state == IF Head(commands) = "create" THEN "offered" ELSE Head(commands)
  <1>4. state \in AgreementStates
    BY <1>1 DEF Command, AgreementStates
  <1>5. CASE \/ Head(commands) = "create" /\ agreement = <<>>
             \/ Head(commands) \in Lifecycle(LatestStatus(agreement))
    <2>1. MoveAgreement(state)
      BY <1>5 DEF HandleCommand
    <2>2. Head(commands) \in Lifecycle(LatestStatus(agreement)) => Head(commands) # "create"
      BY DEF Lifecycle
    <2> HIDE DEF state
    <2>3. \/ "create" \in Range(commands) /\ agreement = <<>> /\ state = "offered"
          \/ state \in Lifecycle(LatestStatus(agreement))
      BY <1>3, <1>5, <2>2 DEF state
    <2>4. QED
      BY <1>1, <1>2, <1>4, <2>1, <2>3
  <1>6. CASE ~(\/ Head(commands) = "create" /\ agreement = <<>>
               \/ Head(commands) \in Lifecycle(LatestStatus(agreement)))
    BY <1>1, <1>2, <1>6 DEF HandleCommand
  <1>7. QED
    BY <1>5, <1>6

\* The final claim commits a transition from the application as it is.
LEMMA ClaimCommits ==
    ASSUME TypeInv, SubmitFinalClaim
    PROVE  /\ ClaimApproval.to \in Statuses
           /\ IsValidTransition(application.position, ClaimApproval.to) # {}
           /\ TransitionOf(application, ClaimApproval.to).ok
           /\ CommitDraft(TransitionOf(application, ClaimApproval.to))
           /\ UNCHANGED <<inbox, dead, task, agreement, latest, requests, faults>>
  <1>1. PICK t \in Transitions : t.from = ClaimApproval.from /\ t.to = ClaimApproval.to
    BY StatusAssumption DEF SubmitFinalClaim
  <1>2. ClaimApproval.to \in Statuses
    BY <1>1, StatusAssumption
  <1>3. t \in IsValidTransition(application.position, ClaimApproval.to)
    BY <1>1 DEF SubmitFinalClaim, IsValidTransition
  <1>4. QED
    BY <1>2, <1>3 DEF SubmitFinalClaim

LEMMA TypeStep ==
    ASSUME TypeInv, [Next]_vars
    PROVE  TypeInv'
  <1> USE DEF RestTyped
  <1>0. RestTyped
    BY Typed
  <1>1. ASSUME UNCHANGED <<inbox, task, dead>>, RestTyped'
        PROVE  TypeInv'
    BY <1>1 DEF TypeInv, TypeOK, ClaimsSound
  <1>2. ASSUME NEW h \in Handlers, Handle(h) \/ HandlerFails(h)
        PROVE  TypeInv'
    BY <1>2, HandlerTyped
  <1>3. CASE Resubmit
    <2>1. inbox' \in Seq(Event) /\ ClaimsSound'
      BY <1>3, Resubmitting
    <2>2. QED
      BY <1>0, <1>3, <2>1 DEF Resubmit, TypeInv, TypeOK
  <1>4. CASE SubmitFinalClaim
    <2>1. RestTyped' /\ UNCHANGED <<inbox, task, dead>>
      BY <1>0, <1>4, ClaimCommits, Committing
    <2>2. QED
      BY <1>1, <2>1
  <1>5. CASE GetApplicationStatus
    <2>1. application' \in Document
      BY <1>0, <1>5 DEF GetApplicationStatus, Document
    <2>2. QED
      BY <1>0, <1>1, <1>5, <2>1 DEF GetApplicationStatus
  <1>6. CASE PublishVersion
    <2>1. latest' \in Versions
      BY <1>0, <1>6, StatusAssumption DEF PublishVersion, Versions
    <2>2. QED
      BY <1>0, <1>1, <1>6, <2>1 DEF PublishVersion
  <1>7. CASE HandleCommand
    <2>1. /\ commands' \in Seq(Command)
          /\ UNCHANGED <<agreement, inbox>> \/ \E state \in AgreementStates : MoveAgreement(state)
      BY <1>7, Commanding
    <2>2. UNCHANGED <<application, dead, task, subscriber, caseworking, latest, requests, faults>>
      BY <1>7 DEF HandleCommand
    <2>3. CASE UNCHANGED <<agreement, inbox>>
      BY <1>0, <1>1, <2>1, <2>2, <2>3
    <2>4. CASE \E state \in AgreementStates : MoveAgreement(state)
      <3>1. agreement' \in Seq(AgreementStates) /\ inbox' \in Seq(Event) /\ ClaimsSound'
        BY <2>2, <2>4, Moving
      <3>2. QED
        BY <1>0, <2>1, <2>2, <3>1 DEF TypeInv, TypeOK
    <2>5. QED
      BY <2>1, <2>3, <2>4
  <1>8. CASE AcceptOffer
    <2>1. MoveAgreement("accepted") /\ "accepted" \in AgreementStates
      BY <1>8 DEF AcceptOffer, AgreementStates
    <2>2. UNCHANGED <<application, dead, task, commands, subscriber, caseworking, latest,
                     requests, faults>>
      BY <1>8 DEF AcceptOffer
    <2>3. agreement' \in Seq(AgreementStates) /\ inbox' \in Seq(Event) /\ ClaimsSound'
      BY <2>1, <2>2, Moving
    <2>4. QED
      BY <1>0, <2>2, <2>3 DEF TypeInv, TypeOK
  <1>9. CASE CaseStatusUpdated
    <2>1. PICK code \in Codes : Arrive("CW", code)
      BY <1>9 DEF CaseStatusUpdated, Codes
    <2>2. RestTyped' /\ UNCHANGED <<task, dead>>
      BY <1>0, <1>9, StatusAssumption DEF CaseStatusUpdated
    <2>3. QED
      BY <2>1, <2>2, ArrivingTyped
  <1>10. CASE Duplicate
    <2>1. PICK i \in DOMAIN inbox : Arrive(inbox[i].source, inbox[i].code)
      BY <1>10 DEF Duplicate
    <2>2. inbox[i].source \in {"CW", "AS"} /\ inbox[i].code \in Codes
      <3>1. inbox[i] \in Event
        BY DEF TypeInv, TypeOK
      <3>2. QED
        BY <3>1 DEF Event
    <2>3. RestTyped' /\ UNCHANGED <<task, dead>>
      BY <1>0, <1>10, StatusAssumption DEF Duplicate
    <2>4. QED
      BY <2>1, <2>2, <2>3, ArrivingTyped
  <1>11. CASE UNCHANGED vars
    BY <1>0, <1>1, <1>11 DEF vars
  <1>12. QED
    BY <1>2, <1>3, <1>4, <1>5, <1>6, <1>7, <1>8, <1>9, <1>10, <1>11 DEF Next

LEMMA Initially == Init => TypeInv
  <1> SUFFICES ASSUME Init PROVE TypeInv
    OBVIOUS
  <1>1. PICK s \in Starts :
           /\ application = [position |-> s.position, history |-> s.states, version |-> 1]
           /\ subscriber = [position |-> s.position, gap |-> FALSE]
           /\ caseworking = LatestStatus(s.states)
           /\ agreement = s.states
    BY DEF Init
  <1>2. /\ s.position \in Positions /\ s.states \in Seq(AgreementStates)
        /\ 1 \in Versions
    BY StatusAssumption DEF Positions, Versions
  <1>3. LatestStatus(s.states) \in AgreementStates \cup {None}
    BY <1>2 DEF LatestStatus
  <1>4. /\ application \in Document
        /\ subscriber \in [position : Positions, gap : BOOLEAN]
        /\ caseworking \in AgreementStates \cup {None}
        /\ agreement \in Seq(AgreementStates)
    BY <1>1, <1>2, <1>3 DEF Document
  <1>5. /\ inbox = <<>> /\ dead = {} /\ commands = <<>>
        /\ task = [h \in Handlers |-> Idle]
        /\ latest = 1 /\ requests = 0 /\ faults = 0
    BY DEF Init
  <1>6. TypeOK
    BY <1>2, <1>4, <1>5, StatusAssumption DEF TypeOK, Idle
  <1>7. ClaimsSound
    BY <1>5 DEF ClaimsSound, Idle
  <1>8. QED
    BY <1>6, <1>7 DEF TypeInv

\* Every variable has its type: an event in the inbox is claimed by at most one
\* handler, which has no other, and what applyExternalStateChange writes is a
\* position of the grant or the withdrawal of one.
THEOREM StatusTypeCorrect == Spec => []TypeOK
  <1>1. TypeInv => TypeOK
    BY DEF TypeInv
  <1>2. QED
    BY <1>1, Initially, TypeStep, PTL DEF Spec

-----------------------------------------------------------------------------
(***************************************************************************)
(* The moves of the application.  Every step leaves it where it is, or     *)
(* commits a transition, from the copy of a handler or from the document   *)
(* itself.                                                                 *)
(***************************************************************************)
Commits(document, to) ==
    /\ document \in Document /\ to \in Statuses
    /\ IsValidTransition(document.position, to) # {}
    /\ TransitionOf(document, to).ok
    /\ CommitDraft(TransitionOf(document, to))

Stays ==
    /\ application'.position = application.position
    /\ application'.history = application.history
    /\ UNCHANGED <<subscriber, caseworking>>

\* A handler may only pick up the application, drop its copy, or roll it forward.
Looks(h) ==
    /\ \A g \in Handlers : g # h => task'[g] = task[g]
    /\ \/ task'[h].seen = None
       \/ task'[h].seen = application /\ UNCHANGED application
       \/ /\ task[h].seen \in Document
          /\ task'[h].seen = [task[h].seen EXCEPT !.version = latest]

HandlerMove(h) ==
    /\ task[h].pc = "move"
    /\ Commits(task[h].seen, Target(h))
    /\ IsMapped(h) /\ Target(h) \notin {None, task[h].seen.position}
    /\ task' = [task EXCEPT ![h] = Returned]
    /\ UNCHANGED <<inbox, agreement, latest>>

ClaimMove ==
    /\ ClaimApproval # None /\ application.position = ClaimApproval.from
    /\ Commits(application, ClaimApproval.to)
    /\ UNCHANGED <<inbox, task, agreement, latest>>

\* A step that neither commits nor changes what Agreements has.
Quiet ==
    /\ Stays
    /\ application' = application \/ application' = [application EXCEPT !.version = latest]
    /\ UNCHANGED <<commands, agreement>>
    /\ UNCHANGED task \/ \E h \in Handlers : Looks(h)

LEMMA SettingFacts ==
    ASSUME TypeInv, NEW h \in Handlers, NEW t, task' = [task EXCEPT ![h] = t]
    PROVE  task'[h] = t /\ \A g \in Handlers : g # h => task'[g] = task[g]
  BY DEF TypeInv, TypeOK

LEMMA HandlerSteps ==
    ASSUME TypeInv, NEW h \in Handlers, Handle(h) \/ HandlerFails(h)
    PROVE  HandlerMove(h) \/ (Quiet /\ EventsKept)
  <1> USE DEF Quiet, Stays
  <1>1. ASSUME Stays, UNCHANGED <<application, commands, agreement>>, NEW t, t.seen = None,
               task' = [task EXCEPT ![h] = t]
        PROVE  Quiet
    BY <1>1, SettingFacts DEF Looks
  <1>2. Idle.seen = None /\ Returned.seen = None /\ [pc |-> "read", seen |-> None].seen = None
    BY DEF Idle, Returned
  <1>3. UNCHANGED inbox => EventsKept
    BY DEF EventsKept
  <1>4. CASE Claim(h)
    BY <1>1, <1>2, <1>4, Claiming DEF Claim, Set
  <1>5. CASE ReadApplication(h)
    <2> DEFINE t == [pc |-> "resolved", seen |-> application]
    <2>1. task' = [task EXCEPT ![h] = t] /\ t.seen = application
      BY <1>5 DEF ReadApplication, Set
    <2> HIDE DEF t
    <2>2. task'[h].seen = application /\ \A g \in Handlers : g # h => task'[g] = task[g]
      BY <2>1, SettingFacts
    <2>3. QED
      BY <1>3, <1>5, <2>2 DEF ReadApplication, Looks
  <1>6. CASE ResolveGrant(h)
    <2>1. task[h].seen \in Document
      BY <1>6, TaskFacts DEF ResolveGrant
    <2>2. task'[h].seen = [task[h].seen EXCEPT !.version = latest]
          /\ \A g \in Handlers : g # h => task'[g] = task[g]
      <3> DEFINE t == [pc |-> "move", seen |-> [task[h].seen EXCEPT !.version = latest]]
      <3>1. /\ task' = [task EXCEPT ![h] = t]
            /\ t.seen = [task[h].seen EXCEPT !.version = latest]
        BY <1>6 DEF ResolveGrant, Set
      <3> HIDE DEF t
      <3>2. QED
        BY <3>1, SettingFacts
    <2>3. \/ application' = application
          \/ application' = [application EXCEPT !.version = latest]
      BY <1>6 DEF ResolveGrant
    <2>4. application \in Document
      BY DEF TypeInv, TypeOK
    <2>5. Stays
      BY <1>6, <2>3, <2>4 DEF ResolveGrant, Document
    <2>6. QED
      BY <1>3, <1>6, <2>1, <2>2, <2>3, <2>5 DEF ResolveGrant, Looks
  <1>7. CASE Acknowledge(h)
    BY <1>1, <1>2, <1>3, <1>7 DEF Acknowledge, Set
  <1>8. CASE StayInPosition(h)
    BY <1>1, <1>2, <1>3, <1>8 DEF StayInPosition, Set
  <1>9. CASE TransitionApplication(h)
    <2>1. /\ task[h].pc = "move" /\ task[h].seen \in Document /\ Target(h) \in Statuses
          /\ IsValidTransition(task[h].seen.position, Target(h)) # {}
          /\ IsMapped(h) /\ Target(h) \notin {None, task[h].seen.position}
      BY <1>9, HandlerMoves DEF TransitionApplication
    <2> DEFINE d == TransitionOf(task[h].seen, Target(h))
    <2> HIDE DEF d
    <2>2. CASE d.ok
      <3>1. CommitDraft(d) /\ Set(h, Returned) /\ UNCHANGED <<inbox, agreement, latest>>
        BY <1>9, <2>2 DEF TransitionApplication, d
      <3>2. QED
        BY <2>1, <2>2, <3>1 DEF HandlerMove, Commits, Set, d
    <2>3. CASE ~d.ok
      <3>1. Failed(h) /\ UNCHANGED <<application, commands, subscriber, caseworking, agreement>>
        BY <1>9, <2>3 DEF TransitionApplication, d
      <3>2. QED
        BY <1>1, <1>2, <2>1, <3>1, Failing
    <2>4. QED
      BY <2>2, <2>3
  <1>10. CASE UnableToProcess(h)
    BY <1>1, <1>2, <1>10, Failing DEF UnableToProcess, IsMapped
  <1>11. CASE MarkComplete(h)
    BY <1>1, <1>2, <1>11, Removing DEF MarkComplete, Set
  <1>12. CASE HandlerFails(h)
    <2>1. task[h].pc # "idle"
      BY <1>12, TaskFacts DEF HandlerFails
    <2>2. QED
      BY <1>1, <1>2, <1>12, <2>1, Failing DEF HandlerFails
  <1>13. QED
    BY <1>4, <1>5, <1>6, <1>7, <1>8, <1>9, <1>10, <1>11, <1>12
       DEF Handle, ApplyExternalStateChange

\* What the requests of others and Agreements do, the final claim apart.
LEMMA OtherSteps ==
    ASSUME TypeInv, \/ Resubmit \/ GetApplicationStatus \/ PublishVersion \/ HandleCommand
                    \/ AcceptOffer \/ CaseStatusUpdated \/ Duplicate \/ UNCHANGED vars
    PROVE  Stays /\ UNCHANGED task /\ application'.position = application.position
           /\ (application' = application
               \/ application' = [application EXCEPT !.version = latest])
  <1>1. CASE GetApplicationStatus
    <2>1. application \in Document
      BY DEF TypeInv, TypeOK
    <2>2. QED
      BY <1>1, <2>1 DEF GetApplicationStatus, Stays, Document
  <1>2. QED
    BY <1>1 DEF Resubmit, PublishVersion, HandleCommand, AcceptOffer, CaseStatusUpdated,
                Duplicate, vars, Stays

LEMMA ClaimSteps ==
    ASSUME TypeInv, SubmitFinalClaim
    PROVE  ClaimMove
  <1>1. application \in Document
    BY DEF TypeInv, TypeOK
  <1>2. QED
    BY <1>1, ClaimCommits DEF SubmitFinalClaim, ClaimMove, Commits

LEMMA Moves ==
    ASSUME TypeInv, [Next]_vars
    PROVE  Stays \/ ClaimMove \/ \E h \in Handlers : HandlerMove(h)
  <1>1. ASSUME NEW h \in Handlers, Handle(h) \/ HandlerFails(h)
        PROVE  Stays \/ HandlerMove(h)
    BY <1>1, HandlerSteps DEF Quiet
  <1>2. QED
    BY <1>1, OtherSteps, ClaimSteps DEF Next

SubscriberTold == subscriber.position = application.position

LEMMA CommitTells ==
    ASSUME TypeInv, NEW document, NEW to, Commits(document, to)
    PROVE  /\ ValidMove(document.position, application'.position)
           /\ subscriber'.position = application'.position
           /\ subscriber.position = document.position => subscriber'.gap = subscriber.gap
           /\ \/ caseworking' = LatestStatus(application'.history)
              \/ /\ caseworking' = caseworking
                 /\ application'.history = document.history
  BY Committing DEF Commits

LEMMA SubscriberStep ==
    ASSUME TypeInv, SubscriberTold, [Next]_vars
    PROVE  SubscriberTold'
  BY Moves, CommitTells DEF HandlerMove, ClaimMove, Stays, SubscriberTold

LEMMA ChainedStep ==
    ASSUME TypeInv, SubscriberTold, [Next]_vars, ~StaleRead
    PROVE  /\ ValidMove(application.position, application'.position)
           /\ subscriber'.gap = subscriber.gap
  <1>1. CASE Stays
    BY <1>1 DEF Stays, ValidMove
  <1>2. CASE ClaimMove
    BY <1>2, CommitTells DEF ClaimMove, SubscriberTold
  <1>3. ASSUME NEW h \in Handlers, HandlerMove(h)
        PROVE  /\ ValidMove(application.position, application'.position)
               /\ subscriber'.gap = subscriber.gap
    <2>1. task[h].seen \in Document /\ task[h].seen # None
      BY <1>3, TaskFacts, StatusAssumption DEF HandlerMove
    <2>2. task[h].seen.position = application.position
      BY <2>1 DEF StaleRead
    <2>3. QED
      BY <1>3, <2>2, CommitTells DEF HandlerMove, SubscriberTold
  <1>4. QED
    BY <1>1, <1>2, <1>3, Moves

LEMMA SubscriberInitially == Init => SubscriberTold
  BY DEF Init, SubscriberTold

\* Unless a handler holds an overtaken copy, transitionApplicationUseCase moves
\* the application along the lifecycle from where it is, and the events it
\* publishes begin where the last ones ended: for any lifecycle, any processes
\* and any number of handlers, retries and repeats.
THEOREM MovesAreAlwaysChained == Spec => MovesAreChained
  <1> DEFINE Inv == TypeInv /\ SubscriberTold
  <1>1. Init => Inv
    BY Initially, SubscriberInitially
  <1>2. Inv /\ [Next]_vars => Inv'
    BY TypeStep, SubscriberStep
  <1>3. Inv /\ [Next]_vars =>
           [~StaleRead => /\ ValidMove(application.position, application'.position)
                          /\ subscriber'.gap = subscriber.gap]_vars
    BY ChainedStep
  <1> HIDE DEF Inv
  <1>4. QED
    BY <1>1, <1>2, <1>3, PTL DEF Spec, MovesAreChained

-----------------------------------------------------------------------------
(***************************************************************************)
(* What CW is told.  The events of one application are claimed in turn     *)
(* (the FIFO lock of the inbox), so one handler at a time has a copy; the  *)
(* final claim may overtake it, and then leaves its history alone.         *)
(***************************************************************************)
OneAtATime == \A g, h \in Handlers : g = h

CopiesHaveTheHistory ==
    \A h \in Handlers : task[h].seen # None => task[h].seen.history = application.history

CaseworkingTold == caseworking = LatestStatus(application.history)

LEMMA ClaimMoveKeepsHistory ==
    ASSUME FinalClaimRecordsNothing, ClaimMove
    PROVE  application'.history = application.history
  <1>1. \A t \in IsValidTransition(application.position, ClaimApproval.to) :
            Range(t.processes) \cap Recording = {}
    BY DEF FinalClaimRecordsNothing, ClaimMove
  <1>2. QED
    BY <1>1, TransitionKeepsHistory DEF ClaimMove, Commits, CommitDraft

LEMMA HandlerMoved ==
    ASSUME TypeInv, NEW h \in Handlers, HandlerMove(h)
    PROVE  task'[h].seen = None /\ \A g \in Handlers : g # h => task'[g] = task[g]
  <1>1. task' = [task EXCEPT ![h] = Returned] /\ Returned.seen = None
    BY DEF HandlerMove, Returned
  <1>2. QED
    BY <1>1, SettingFacts

\* A copy that survives a step was there before, but for its version, or is the
\* application as it is.
CopiesFollow ==
    \A h \in Handlers : task'[h].seen # None =>
        \/ /\ task[h].seen \in Document
           /\ task'[h].seen.position = task[h].seen.position
           /\ task'[h].seen.history = task[h].seen.history
        \/ task'[h].seen = application /\ UNCHANGED <<application, commands, agreement>>

LEMMA CopiesAfterStep ==
    ASSUME TypeInv, [Next]_vars
    PROVE  CopiesFollow
  <1>1. \A h \in Handlers : task[h].seen # None => task[h].seen \in Document
    BY TaskFacts DEF TypeInv, ClaimsSound
  <1>2. ASSUME UNCHANGED task
        PROVE  CopiesFollow
    BY <1>1, <1>2 DEF CopiesFollow
  <1>3. ASSUME NEW h \in Handlers, Looks(h), UNCHANGED <<commands, agreement>>
        PROVE  CopiesFollow
    <2>1. \A document \in Document : document # None =>
             /\ [document EXCEPT !.version = latest].position = document.position
             /\ [document EXCEPT !.version = latest].history = document.history
      BY DEF Document
    <2>2. \A g \in Handlers : g # h => task'[g] = task[g]
      BY <1>3 DEF Looks
    <2>3. CASE task'[h].seen = None
      BY <1>1, <2>2, <2>3 DEF CopiesFollow
    <2>4. CASE task'[h].seen = application /\ UNCHANGED application
      BY <1>1, <1>3, <2>2, <2>4 DEF CopiesFollow
    <2>5. CASE /\ task[h].seen \in Document
               /\ task'[h].seen = [task[h].seen EXCEPT !.version = latest]
      <3>1. /\ task'[h].seen.position = task[h].seen.position
            /\ task'[h].seen.history = task[h].seen.history
        BY <2>1, <2>5, StatusAssumption
      <3>2. QED
        BY <1>1, <2>2, <2>5, <3>1 DEF CopiesFollow
    <2>6. QED
      BY <1>3, <2>3, <2>4, <2>5 DEF Looks
  <1>4. ASSUME NEW h \in Handlers, HandlerMove(h)
        PROVE  CopiesFollow
    <2>1. task'[h].seen = None /\ \A g \in Handlers : g # h => task'[g] = task[g]
      BY <1>4, HandlerMoved
    <2>2. QED
      BY <1>1, <2>1 DEF CopiesFollow
  <1>5. ASSUME NEW h \in Handlers, Handle(h) \/ HandlerFails(h)
        PROVE  CopiesFollow
    <2>1. CASE HandlerMove(h)
      BY <1>4, <2>1
    <2>2. CASE Quiet
      BY <1>2, <1>3, <2>2 DEF Quiet
    <2>3. QED
      BY <1>5, <2>1, <2>2, HandlerSteps
  <1>6. QED
    BY <1>2, <1>5, OtherSteps, ClaimSteps DEF Next, ClaimMove

LEMMA CaseworkingStep ==
    ASSUME OneAtATime, FinalClaimRecordsNothing, TypeInv, CopiesHaveTheHistory,
           CaseworkingTold, [Next]_vars
    PROVE  CopiesHaveTheHistory' /\ CaseworkingTold'
  <1>1. CASE Stays
    <2>1. CaseworkingTold'
      BY <1>1 DEF Stays, CaseworkingTold
    <2>2. ASSUME NEW h \in Handlers, task'[h].seen # None
          PROVE  task'[h].seen.history = application'.history
      <3>1. \/ task[h].seen \in Document /\ task'[h].seen.history = task[h].seen.history
            \/ task'[h].seen = application
        BY <2>2, CopiesAfterStep DEF CopiesFollow
      <3>2. QED
        BY <1>1, <3>1, StatusAssumption DEF Stays, CopiesHaveTheHistory
    <2>3. QED
      BY <2>1, <2>2 DEF CopiesHaveTheHistory
  <1>2. CASE ClaimMove
    <2>1. application'.history = application.history
      BY <1>2, ClaimMoveKeepsHistory
    <2>2. CopiesHaveTheHistory'
      BY <1>2, <2>1 DEF ClaimMove, CopiesHaveTheHistory
    <2>3. QED
      BY <1>2, <2>1, <2>2, CommitTells DEF ClaimMove, CaseworkingTold
  <1>3. ASSUME NEW h \in Handlers, HandlerMove(h)
        PROVE  CopiesHaveTheHistory' /\ CaseworkingTold'
    <2>1. task[h].seen # None /\ task[h].seen.history = application.history
      BY <1>3, TaskFacts, StatusAssumption DEF HandlerMove, CopiesHaveTheHistory
    <2>2. \A g \in Handlers : task'[g].seen = None
      BY <1>3, HandlerMoved DEF OneAtATime
    <2>3. QED
      BY <1>3, <2>1, <2>2, CommitTells
         DEF HandlerMove, CopiesHaveTheHistory, CaseworkingTold
  <1>4. QED
    BY <1>1, <1>2, <1>3, Moves

\* As the events of an application are handled one at a time, and where the
\* final claim enters no state of the agreement, what transitionApplicationUseCase
\* and its processes publish is what is stored: the subscriber has the position,
\* and CW the state of the agreement, even when a stale copy was written back.
THEOREM ToldIsStored ==
    ASSUME OneAtATime, FinalClaimRecordsNothing
    PROVE  Spec => []ToldWhatIsStored
  <1> DEFINE Inv == TypeInv /\ SubscriberTold /\ CopiesHaveTheHistory /\ CaseworkingTold
  <1>1. Init => Inv
    <2>1. Init => CaseworkingTold /\ CopiesHaveTheHistory
      BY DEF Init, CaseworkingTold, CopiesHaveTheHistory, Idle
    <2>2. QED
      BY <2>1, Initially, SubscriberInitially
  <1>2. Inv /\ [Next]_vars => Inv'
    BY TypeStep, SubscriberStep, CaseworkingStep
  <1>3. Inv => ToldWhatIsStored
    BY DEF SubscriberTold, CaseworkingTold, ToldWhatIsStored
  <1> HIDE DEF Inv
  <1>4. QED
    BY <1>1, <1>2, <1>3, PTL DEF Spec

-----------------------------------------------------------------------------
(***************************************************************************)
(* The agreement goes through its states once, each has its place in the   *)
(* history, and so a reported state that may come next is the next one.    *)
(***************************************************************************)
Place(state) ==
    CASE state = "offered" -> 1 [] state = "terminated" -> 3 [] OTHER -> 2

LEMMA CoursePlaces ==
    ASSUME NEW s \in Seq(AgreementStates), IsCourse(s), NEW i \in DOMAIN s
    PROVE  Place(s[i]) = i
  <1>1. ASSUME NEW j \in DOMAIN s, NEW k \in DOMAIN s, j = k + 1
        PROVE  s[j] \in Lifecycle(s[k])
    <2>1. j # 1 /\ j - 1 = k
      BY <1>1
    <2>2. QED
      BY <2>1 DEF IsCourse
  <1>2. \A j \in DOMAIN s : j # 1 => j - 1 \in DOMAIN s
    OBVIOUS
  <1>3. 1 \in DOMAIN s => s[1] = "offered"
    BY DEF IsCourse
  <1>4. \A a, b : b \in Lifecycle(a) =>
           \/ a = "offered" /\ b \in {"accepted", "withdrawn", "cancelled"}
           \/ a = "accepted" /\ b = "terminated"
    BY DEF Lifecycle
  <1>5. CASE i = 1
    BY <1>3, <1>5 DEF Place
  <1>6. CASE i = 2
    <2>1. 1 \in DOMAIN s /\ 2 \in DOMAIN s /\ 2 = 1 + 1
      BY <1>6
    <2>2. s[2] \in Lifecycle(s[1]) /\ s[1] = "offered"
      BY <1>1, <1>3, <2>1
    <2>3. QED
      BY <1>4, <1>6, <2>2 DEF Place
  <1>7. CASE i = 3
    <2>1. /\ 1 \in DOMAIN s /\ 2 \in DOMAIN s /\ 3 \in DOMAIN s
          /\ 2 = 1 + 1 /\ 3 = 2 + 1
      BY <1>7
    <2>2. s[2] \in Lifecycle(s[1]) /\ s[1] = "offered" /\ s[3] \in Lifecycle(s[2])
      BY <1>1, <1>3, <2>1
    <2>3. s[3] = "terminated"
      BY <1>4, <2>2
    <2>4. QED
      BY <1>7, <2>3 DEF Place
  <1>8. CASE i \notin {1, 2, 3}
    <2>1. /\ i - 1 \in DOMAIN s /\ i - 2 \in DOMAIN s /\ i - 3 \in DOMAIN s
          /\ i = (i - 1) + 1 /\ i - 1 = (i - 2) + 1 /\ i - 2 = (i - 3) + 1
      BY <1>8
    <2>2. /\ s[i] \in Lifecycle(s[i - 1]) /\ s[i - 1] \in Lifecycle(s[i - 2])
          /\ s[i - 2] \in Lifecycle(s[i - 3])
      BY <1>1, <2>1
    <2>3. QED
      BY <1>4, <2>2
  <1>9. QED
    BY <1>5, <1>6, <1>7, <1>8

LEMMA PrefixElements ==
    ASSUME NEW S, NEW s \in Seq(S), NEW t \in Seq(S)
    PROVE  IsPrefix(s, t) <=> /\ Len(s) <= Len(t)
                              /\ \A i \in 1 .. Len(s) : s[i] = t[i]
  <1>1. ASSUME Len(s) <= Len(t)
        PROVE  SubSeq(s, 1, Len(s)) = SubSeq(t, 1, Len(s))
                  <=> \A i \in 1 .. Len(s) : s[i] = t[i]
    <2> DEFINE a == SubSeq(s, 1, Len(s))
               b == SubSeq(t, 1, Len(s))
    <2>1. a \in Seq(S) /\ Len(a) = Len(s) /\ \A i \in 1 .. Len(s) : a[i] = s[i]
      OBVIOUS
    <2>2. b \in Seq(S) /\ Len(b) = Len(s) /\ \A i \in 1 .. Len(s) : b[i] = t[i]
      BY <1>1
    <2> HIDE DEF a, b
    <2>3. a = b <=> \A i \in 1 .. Len(s) : a[i] = b[i]
      BY <2>1, <2>2, SeqEqual
    <2>4. QED
      BY <2>1, <2>2, <2>3 DEF a, b
  <1>2. QED
    BY <1>1 DEF IsPrefix

LEMMA PrefixGrows ==
    ASSUME NEW s \in Seq(AgreementStates), NEW t \in Seq(AgreementStates),
           NEW state \in Range(t), IsPrefix(s, t), IsCourse(Append(s, state)), IsCourse(t)
    PROVE  IsPrefix(Append(s, state), t)
  <1> DEFINE more == Append(s, state)
             n == Len(s) + 1
  <1>1. PICK i \in DOMAIN t : t[i] = state
    BY DEF Range
  <1>2. /\ state \in AgreementStates /\ more \in Seq(AgreementStates)
        /\ Len(more) = n /\ n \in DOMAIN more /\ more[n] = state
        /\ \A j \in 1 .. Len(s) : more[j] = s[j]
    BY <1>1
  <1>3. i = n
    <2> HIDE DEF more
    <2>1. Place(t[i]) = i /\ Place(more[n]) = n
      BY <1>2, CoursePlaces DEF more
    <2>2. QED
      BY <1>1, <1>2, <2>1
  <1>4. Len(s) <= Len(t) /\ \A j \in 1 .. Len(s) : s[j] = t[j]
    BY PrefixElements
  <1> HIDE DEF more
  <1>5. Len(more) <= Len(t) /\ \A j \in 1 .. Len(more) : more[j] = t[j]
    BY <1>1, <1>2, <1>3, <1>4
  <1>6. QED
    BY <1>2, <1>5, PrefixElements DEF more

LEMMA AppendedFacts ==
    ASSUME NEW s \in Seq(AgreementStates), NEW state \in AgreementStates
    PROVE  /\ IsPrefix(s, Append(s, state))
           /\ Range(Append(s, state)) = Range(s) \cup {state}
           /\ \A t \in Seq(AgreementStates) : IsPrefix(t, s) => IsPrefix(t, Append(s, state))
  <1> DEFINE more == Append(s, state)
  <1>1. /\ more \in Seq(AgreementStates) /\ Len(more) = Len(s) + 1
        /\ DOMAIN more = 1 .. Len(s) + 1 /\ DOMAIN s = 1 .. Len(s)
        /\ \A j \in 1 .. Len(s) : more[j] = s[j]
        /\ more[Len(s) + 1] = state
    OBVIOUS
  <1> HIDE DEF more
  <1>2. IsPrefix(s, more)
    BY <1>1, PrefixElements
  <1>3. Range(more) = Range(s) \cup {state}
    <2>1. Len(s) + 1 \in DOMAIN more /\ DOMAIN s \subseteq DOMAIN more
          /\ \A j \in DOMAIN more : j \in DOMAIN s \/ j = Len(s) + 1
      BY <1>1
    <2>2. QED
      BY <1>1, <2>1 DEF Range
  <1>4. ASSUME NEW t \in Seq(AgreementStates), IsPrefix(t, s)
        PROVE  IsPrefix(t, more)
    <2>1. Len(t) <= Len(s) /\ \A i \in 1 .. Len(t) : t[i] = s[i]
      BY <1>4, PrefixElements
    <2>2. Len(t) <= Len(more) /\ \A i \in 1 .. Len(t) : t[i] = more[i]
      BY <1>1, <2>1
    <2>3. QED
      BY <1>1, <2>2, PrefixElements
  <1>5. QED
    BY <1>2, <1>3, <1>4 DEF more

\* A state that may follow the last one makes the course one longer.
LEMMA CourseGrows ==
    ASSUME NEW s \in Seq(AgreementStates), IsCourse(s), NEW state \in AgreementStates,
           \/ s = <<>> /\ state = "offered"
           \/ state \in Lifecycle(LatestStatus(s))
    PROVE  IsCourse(Append(s, state))
  <1>1. Lifecycle(None) = {}
    BY StatusAssumption DEF Lifecycle, AgreementStates
  <1>2. CASE s = <<>>
    BY <1>1, <1>2 DEF IsCourse, LatestStatus
  <1>3. CASE s # <<>>
    <2>1. Len(s) \in Nat \ {0} /\ state \in Lifecycle(s[Len(s)])
      BY <1>3 DEF LatestStatus
    <2> DEFINE more == Append(s, state)
    <2>2. /\ DOMAIN more = 1 .. Len(s) + 1 /\ DOMAIN s = 1 .. Len(s)
          /\ \A j \in 1 .. Len(s) : more[j] = s[j]
          /\ more[Len(s) + 1] = state
      OBVIOUS
    <2> HIDE DEF more
    <2>3. ASSUME NEW i \in DOMAIN more
          PROVE  more[i] \in IF i = 1 THEN {"offered"} ELSE Lifecycle(more[i - 1])
      <3>1. CASE i \in DOMAIN s
        <4>1. s[i] \in IF i = 1 THEN {"offered"} ELSE Lifecycle(s[i - 1])
          BY <3>1 DEF IsCourse
        <4>2. i # 1 => i - 1 \in 1 .. Len(s)
          BY <2>2, <3>1
        <4>3. QED
          BY <2>2, <3>1, <4>1, <4>2
      <3>2. CASE i = Len(s) + 1
        BY <2>1, <2>2, <3>2
      <3>3. QED
        BY <2>2, <3>1, <3>2
    <2>4. QED
      BY <2>3 DEF IsCourse, more
  <1>4. QED
    BY <1>2, <1>3

-----------------------------------------------------------------------------
\* Every status event of Agreements reports a state the agreement has been in.
Reported ==
    /\ IsCourse(agreement)
    /\ \A i \in DOMAIN inbox : inbox[i].source = "AS" => inbox[i].code \in Range(agreement)

LEMMA MovingReports ==
    ASSUME TypeInv, Reported, NEW state \in AgreementStates, MoveAgreement(state),
           UNCHANGED task,
           \/ agreement = <<>> /\ state = "offered"
           \/ state \in Lifecycle(LatestStatus(agreement))
    PROVE  Reported' /\ agreement' = Append(agreement, state)
  <1>1. agreement \in Seq(AgreementStates) /\ agreement' = Append(agreement, state)
        /\ Arrive("AS", state) /\ state \in Codes
    BY DEF TypeInv, TypeOK, MoveAgreement, Codes
  <1>2. IsCourse(agreement')
    BY <1>1, CourseGrows DEF Reported
  <1>3. Range(agreement') = Range(agreement) \cup {state}
    BY <1>1, AppendedFacts
  <1>4. \A i \in DOMAIN inbox' :
           \/ inbox'[i].source = "AS" /\ inbox'[i].code = state
           \/ i \in DOMAIN inbox /\ inbox'[i] = inbox[i]
    BY <1>1, Arriving
  <1>5. QED
    BY <1>1, <1>2, <1>3, <1>4 DEF Reported

\* Agreements moves the agreement by its own lifecycle, and only forwards.
LEMMA ReportedStep ==
    ASSUME TypeInv, Reported, [Next]_vars
    PROVE  /\ Reported'
           /\ \/ UNCHANGED agreement
              \/ /\ \E state \in AgreementStates : agreement' = Append(agreement, state)
                 /\ UNCHANGED <<application, task>>
                 /\ \/ agreement # <<>> \/ "create" \in Range(commands)
  <1>1. ASSUME UNCHANGED agreement, EventsKept
        PROVE  Reported'
    <2>1. \A i \in DOMAIN inbox' : inbox'[i].source = "AS" => inbox'[i].code \in Range(agreement')
      BY <1>1 DEF EventsKept, Reported
    <2>2. QED
      BY <1>1, <2>1 DEF Reported
  <1>2. ASSUME UNCHANGED <<agreement, inbox>>
        PROVE  Reported'
    BY <1>2 DEF Reported
  <1>3. ASSUME NEW h \in Handlers, Handle(h) \/ HandlerFails(h)
        PROVE  Reported' /\ UNCHANGED agreement
    BY <1>1, <1>2, <1>3, HandlerSteps DEF HandlerMove, Quiet
  <1>4. CASE Resubmit
    BY <1>1, <1>4, Resubmitting DEF Resubmit
  <1>5. CASE SubmitFinalClaim \/ GetApplicationStatus \/ PublishVersion \/ UNCHANGED vars
    BY <1>2, <1>5 DEF SubmitFinalClaim, GetApplicationStatus, PublishVersion, vars
  <1>6. CASE HandleCommand
    <2>1. UNCHANGED <<application, task>>
      BY <1>6 DEF HandleCommand
    <2>2. CASE UNCHANGED <<agreement, inbox>>
      BY <1>2, <2>2
    <2>3. CASE \E state \in AgreementStates :
                  /\ MoveAgreement(state)
                  /\ \/ "create" \in Range(commands) /\ agreement = <<>> /\ state = "offered"
                     \/ state \in Lifecycle(LatestStatus(agreement))
      <3>1. PICK state \in AgreementStates :
               /\ MoveAgreement(state)
               /\ \/ "create" \in Range(commands) /\ agreement = <<>> /\ state = "offered"
                  \/ state \in Lifecycle(LatestStatus(agreement))
        BY <2>3
      <3>2. Reported' /\ agreement' = Append(agreement, state)
        BY <2>1, <3>1, MovingReports
      <3>3. Lifecycle(None) = {}
        BY StatusAssumption DEF Lifecycle, AgreementStates
      <3>4. agreement # <<>> \/ "create" \in Range(commands)
        BY <3>1, <3>3 DEF LatestStatus
      <3>5. QED
        BY <2>1, <3>2, <3>4
    <2>4. QED
      BY <1>6, <2>2, <2>3, Commanding
  <1>7. CASE AcceptOffer
    <2>1. /\ MoveAgreement("accepted") /\ "accepted" \in AgreementStates
          /\ "accepted" \in Lifecycle(LatestStatus(agreement))
          /\ UNCHANGED <<application, task>>
      BY <1>7 DEF AcceptOffer, AgreementStates, Lifecycle
    <2>2. Reported' /\ agreement' = Append(agreement, "accepted")
      BY <2>1, MovingReports
    <2>3. agreement # <<>>
      BY <1>7, StatusAssumption DEF AcceptOffer, LatestStatus, AgreementStates
    <2>4. QED
      BY <2>1, <2>2, <2>3
  <1>8. CASE CaseStatusUpdated
    <2>1. PICK code \in Codes : Arrive("CW", code)
      BY <1>8 DEF CaseStatusUpdated, Codes
    <2>2. UNCHANGED <<task, agreement>>
      BY <1>8 DEF CaseStatusUpdated
    <2>3. \A i \in DOMAIN inbox' : inbox'[i].source = "AS" =>
             i \in DOMAIN inbox /\ inbox'[i] = inbox[i]
      BY <2>1, <2>2, Arriving
    <2>4. QED
      BY <2>2, <2>3 DEF Reported
  <1>9. CASE Duplicate
    <2>1. PICK i \in DOMAIN inbox : Arrive(inbox[i].source, inbox[i].code)
      BY <1>9 DEF Duplicate
    <2>2. UNCHANGED <<task, agreement>>
      BY <1>9 DEF Duplicate
    <2>3. inbox[i].source \in {"CW", "AS"} /\ inbox[i].code \in Codes
      <3>1. inbox[i] \in Event
        BY DEF TypeInv, TypeOK
      <3>2. QED
        BY <3>1 DEF Event
    <2>4. EventsKept
      BY <2>1, <2>2, <2>3, Arriving DEF EventsKept
    <2>5. QED
      BY <1>1, <2>2, <2>4
  <1>10. QED
    BY <1>3, <1>4, <1>5, <1>6, <1>7, <1>8, <1>9
       DEF Next, Resubmit, SubmitFinalClaim, GetApplicationStatus, PublishVersion, vars,
           CaseStatusUpdated, Duplicate

-----------------------------------------------------------------------------
(***************************************************************************)
(* The agreement on the application, for a lawful lifecycle.               *)
(***************************************************************************)
HeldThere(Held) ==
    /\ application.history \in Held[application.position]
    /\ \A h \in Handlers : task[h].seen # None =>
           task[h].seen.history \in Held[task[h].seen.position]

HistoriesFollow ==
    /\ IsPrefix(application.history, agreement)
    /\ \A h \in Handlers : task[h].seen # None => IsPrefix(task[h].seen.history, agreement)

\* What a lawful transition leaves, whichever copy it starts from.
LEMMA Landing ==
    ASSUME NEW Held, NEW Fresh, TypeInv, NEW document, NEW to, NEW histories,
           Commits(document, to), Lands(Held, Fresh, document, to, histories)
    PROVE  /\ application' \in Document
           /\ application'.history \in histories \cap Held[application'.position]
           /\ application'.position \in Fresh =>
                  /\ document.position \in Fresh
                  /\ "create" \in Range(commands') => "create" \in Range(commands)
  <1> DEFINE d == TransitionOf(document, to)
  <1>1. d.ok /\ application' = d.document /\ commands' = commands \o d.commands
    BY DEF Commits, CommitDraft
  <1>2. /\ d.document.history \in histories \cap Held[d.document.position]
        /\ d.document.position \in Fresh =>
               document.position \in Fresh /\ "create" \notin Range(d.commands)
    BY DEF Commits, Lands
  <1>3. d.commands \in Seq(Command) /\ application' \in Document
    BY TransitionFacts, Committing DEF Commits, DraftsOf, Drafts
  <1> HIDE DEF d
  <1>4. Range(commands \o d.commands) \subseteq Range(commands) \cup Range(d.commands)
    <2>1. commands \in Seq(Command)
      BY DEF TypeInv, TypeOK
    <2>2. QED
      BY <1>3, <2>1, RangeConcatenation
  <1>5. QED
    BY <1>1, <1>2, <1>3, <1>4

\* The document of a copy, as the clauses of MovesLawful name it.
LEMMA LawfulDocument ==
    ASSUME NEW Held, NEW Fresh, MovesLawful(Held, Fresh), NEW document \in Document,
           document.history \in Held[document.position]
    PROVE  /\ \A m \in Mappings :
                 m.stage = document.position.stage /\ m.to \notin {None, document.position} =>
                     Lands(Held, Fresh, document, m.to,
                           IF m.source = "AS"
                           THEN {document.history, Append(document.history, m.code)}
                           ELSE {document.history})
           /\ ClaimApproval # None /\ document.position = ClaimApproval.from =>
                 Lands(Held, Fresh, document, ClaimApproval.to, {document.history})
  <1>1. document = [position |-> document.position, history |-> document.history,
                    version |-> document.version]
    BY DEF Document
  <1>2. document.position \in Positions /\ document.version \in Versions
    BY DEF Document
  <1>3. QED
    BY <1>1, <1>2, Zenon DEF MovesLawful

\* A handler's move enters the state its event reports, or nothing.
LEMMA HandlerLands ==
    ASSUME NEW Held, NEW Fresh, MovesLawful(Held, Fresh), TypeInv, HeldThere(Held),
           NEW h \in Handlers, HandlerMove(h)
    PROVE  LET e == inbox[Claimed(h)]
               seen == task[h].seen
           IN  /\ seen \in Document /\ seen # None
               /\ Lands(Held, Fresh, seen, Target(h),
                        IF e.source = "AS" THEN {seen.history, Append(seen.history, e.code)}
                        ELSE {seen.history})
               /\ Claimed(h) \in DOMAIN inbox
  <1> DEFINE e == inbox[Claimed(h)]
             seen == task[h].seen
  <1>1. seen \in Document /\ seen # None /\ task[h].pc = "move"
    BY TaskFacts, StatusAssumption DEF HandlerMove
  <1>2. seen.history \in Held[seen.position]
    BY <1>1 DEF HeldThere
  <1>3. PICK m \in Mappings : /\ m.stage = seen.position.stage /\ m.source = e.source
                              /\ m.code = e.code /\ m.to = Target(h)
    BY DEF HandlerMove, IsMapped, Target, FindExternalStatusMapping
  <1>4. Target(h) \notin {None, seen.position}
    BY DEF HandlerMove
  <1>5. Lands(Held, Fresh, seen, m.to,
              IF m.source = "AS" THEN {seen.history, Append(seen.history, m.code)}
              ELSE {seen.history})
    BY <1>1, <1>2, <1>3, <1>4, LawfulDocument, Zenon
  <1>6. Claimed(h) \in DOMAIN inbox
    BY <1>1, ClaimedFacts
  <1>7. QED
    BY <1>1, <1>3, <1>5, <1>6, Zenon

LEMMA ClaimLands ==
    ASSUME NEW Held, NEW Fresh, MovesLawful(Held, Fresh), TypeInv, HeldThere(Held), ClaimMove
    PROVE  Lands(Held, Fresh, application, ClaimApproval.to, {application.history})
  <1>1. application \in Document
    BY DEF TypeInv, TypeOK
  <1>2. QED
    BY <1>1, LawfulDocument, Zenon DEF ClaimMove, HeldThere

LEMMA HeldStep ==
    ASSUME NEW Held, NEW Fresh, MovesLawful(Held, Fresh), TypeInv, HeldThere(Held), [Next]_vars
    PROVE  HeldThere(Held)'
  <1>1. application'.history \in Held[application'.position]
    <2>1. CASE Stays
      BY <2>1 DEF Stays, HeldThere
    <2>2. CASE ClaimMove
      BY <2>2, ClaimLands, Landing DEF ClaimMove
    <2>3. ASSUME NEW h \in Handlers, HandlerMove(h)
          PROVE  application'.history \in Held[application'.position]
      BY <2>3, HandlerLands, Landing DEF HandlerMove
    <2>4. QED
      BY <2>1, <2>2, <2>3, Moves
  <1>2. ASSUME NEW h \in Handlers, task'[h].seen # None
        PROVE  task'[h].seen.history \in Held[task'[h].seen.position]
    <2>1. CASE /\ task[h].seen \in Document
               /\ task'[h].seen.position = task[h].seen.position
               /\ task'[h].seen.history = task[h].seen.history
      BY <2>1, StatusAssumption DEF HeldThere
    <2>2. CASE task'[h].seen = application
      BY <2>2 DEF HeldThere
    <2>3. QED
      BY <1>2, <2>1, <2>2, CopiesAfterStep DEF CopiesFollow
  <1>3. QED
    BY <1>1, <1>2 DEF HeldThere

\* From a copy whose history is the beginning of the agreement's, the handler
\* writes one that is, however old the copy and however late the event.
LEMMA HandlerFollows ==
    ASSUME NEW Held, NEW Fresh, HeldLawful(Held, Fresh), MovesLawful(Held, Fresh), TypeInv,
           HeldThere(Held), Reported, HistoriesFollow, NEW h \in Handlers, HandlerMove(h)
    PROVE  IsPrefix(application'.history, agreement)
  <1> DEFINE e == inbox[Claimed(h)]
             seen == task[h].seen
             histories == IF e.source = "AS" THEN {seen.history, Append(seen.history, e.code)}
                          ELSE {seen.history}
  <1>1. /\ seen \in Document /\ seen # None /\ Claimed(h) \in DOMAIN inbox
        /\ Lands(Held, Fresh, seen, Target(h), histories)
    BY HandlerLands, Zenon
  <1>2. Commits(seen, Target(h))
    BY DEF HandlerMove
  <1>3. /\ application' \in Document
        /\ application'.history \in histories
        /\ application'.history \in Held[application'.position]
    <2> HIDE DEF histories, seen
    <2>1. QED
      BY <1>1, <1>2, Landing
  <1>4. IsCourse(application'.history) /\ application'.history \in Seq(AgreementStates)
    BY <1>3 DEF HeldLawful, Document
  <1>5. IsPrefix(seen.history, agreement)
    BY <1>1 DEF HistoriesFollow
  <1>6. CASE application'.history = seen.history
    BY <1>5, <1>6
  <1>7. CASE e.source = "AS" /\ application'.history = Append(seen.history, e.code)
    <2>1. e.code \in Range(agreement)
      BY <1>1, <1>7 DEF Reported
    <2>2. seen.history \in Seq(AgreementStates) /\ agreement \in Seq(AgreementStates)
          /\ IsCourse(agreement)
      BY <1>1 DEF Document, TypeInv, TypeOK, Reported
    <2>3. QED
      BY <1>4, <1>5, <1>7, <2>1, <2>2, PrefixGrows
  <1>8. QED
    BY <1>3, <1>6, <1>7

LEMMA FollowStep ==
    ASSUME NEW Held, NEW Fresh, HeldLawful(Held, Fresh), MovesLawful(Held, Fresh), TypeInv,
           HeldThere(Held), Reported, HistoriesFollow, [Next]_vars
    PROVE  HistoriesFollow'
  <1>1. application'.history \in Seq(AgreementStates)
    BY TypeStep DEF TypeInv, TypeOK, Document
  <1>2. application.history \in Seq(AgreementStates) /\ agreement \in Seq(AgreementStates)
    BY DEF TypeInv, TypeOK, Document
  <1>3. \A t \in Seq(AgreementStates) : IsPrefix(t, agreement) => IsPrefix(t, agreement')
    BY <1>2, AppendedFacts, ReportedStep
  <1>4. IsPrefix(application'.history, agreement)
    <2>1. CASE Stays
      BY <2>1 DEF Stays, HistoriesFollow
    <2>2. CASE ClaimMove
      <3>1. application'.history = application.history
        BY <2>2, ClaimLands, Landing DEF ClaimMove
      <3>2. QED
        BY <3>1 DEF HistoriesFollow
    <2>3. ASSUME NEW h \in Handlers, HandlerMove(h)
          PROVE  IsPrefix(application'.history, agreement)
      BY <2>3, HandlerFollows
    <2>4. QED
      BY <2>1, <2>2, <2>3, Moves
  <1>5. ASSUME NEW h \in Handlers, task'[h].seen # None
        PROVE  IsPrefix(task'[h].seen.history, agreement')
    <2>1. CASE task[h].seen \in Document /\ task'[h].seen.history = task[h].seen.history
      <3>1. IsPrefix(task[h].seen.history, agreement)
        BY <2>1, StatusAssumption DEF HistoriesFollow
      <3>2. task[h].seen.history \in Seq(AgreementStates)
        BY <2>1 DEF Document
      <3>3. QED
        BY <1>3, <2>1, <3>1, <3>2
    <2>2. CASE task'[h].seen = application
      BY <1>2, <1>3, <2>2 DEF HistoriesFollow
    <2>3. QED
      BY <1>5, <2>1, <2>2, CopiesAfterStep DEF CopiesFollow
  <1>6. QED
    BY <1>1, <1>3, <1>4, <1>5 DEF HistoriesFollow

LEMMA FollowInitially ==
    ASSUME NEW Held, NEW Fresh, StartsLawful(Held, Fresh), HeldLawful(Held, Fresh), Init
    PROVE  HeldThere(Held) /\ Reported /\ HistoriesFollow
  <1>1. PICK s \in Starts :
           /\ application = [position |-> s.position, history |-> s.states, version |-> 1]
           /\ agreement = s.states
    BY DEF Init
  <1>2. /\ s.position \in Positions /\ s.states \in Seq(AgreementStates)
        /\ s.states \in Held[s.position] /\ IsCourse(s.states)
    BY StatusAssumption DEF StartsLawful, HeldLawful, Positions
  <1>3. inbox = <<>> /\ \A h \in Handlers : task[h].seen = None
    BY DEF Init, Idle
  <1>4. IsPrefix(s.states, s.states)
    BY <1>2, PrefixElements
  <1>5. QED
    BY <1>1, <1>2, <1>3, <1>4 DEF HeldThere, Reported, HistoriesFollow

\* For a lawful lifecycle and any number of handlers: whatever events of
\* Agreements are repeated, retried, overtaken or dead, and whichever stale copy
\* applyExternalStateChange writes back, the history of the agreement on the
\* application is the beginning of the agreement's own.
THEOREM HistoryAlwaysFollows ==
    ASSUME NEW Held, NEW Fresh, Lawful(Held, Fresh)
    PROVE  Spec => []HistoryFollows
  <1> DEFINE Inv == TypeInv /\ HeldThere(Held) /\ Reported /\ HistoriesFollow
  <1>1. Init => Inv
    BY Initially, FollowInitially DEF Lawful
  <1>2. Inv /\ [Next]_vars => Inv'
    BY TypeStep, HeldStep, ReportedStep, FollowStep DEF Lawful
  <1>3. Inv => HistoryFollows
    BY DEF HistoriesFollow, HistoryFollows
  <1> HIDE DEF Inv
  <1>4. QED
    BY <1>1, <1>2, <1>3, PTL DEF Spec

-----------------------------------------------------------------------------
(***************************************************************************)
(* The withdrawal.  In a fresh position there is no agreement and none has *)
(* been asked for, so that the application can be withdrawn at once; from  *)
(* the others it is withdrawn by what Agreements answers.                  *)
(***************************************************************************)
FreshHasNone(Fresh) ==
    /\ application.position \in Fresh => agreement = <<>> /\ "create" \notin Range(commands)
    /\ \A h \in Handlers : task[h].seen # None /\ task[h].seen.position \in Fresh =>
           application.position \in Fresh

\* No step asks for an agreement but a move, and none moves an agreement that
\* is not there without being asked.
LEMMA CommandsStep ==
    ASSUME TypeInv, [Next]_vars
    PROVE  \/ "create" \in Range(commands') => "create" \in Range(commands)
           \/ ClaimMove \/ \E h \in Handlers : HandlerMove(h)
  <1>1. ASSUME NEW h \in Handlers, Handle(h) \/ HandlerFails(h)
        PROVE  UNCHANGED commands \/ HandlerMove(h)
    BY <1>1, HandlerSteps DEF Quiet
  <1>2. CASE HandleCommand
    BY <1>2, Commanding
  <1>3. QED
    BY <1>1, <1>2, ClaimSteps
       DEF Next, Resubmit, GetApplicationStatus, PublishVersion, AcceptOffer,
           CaseStatusUpdated, Duplicate, vars

LEMMA FreshStep ==
    ASSUME NEW Held, NEW Fresh, Lawful(Held, Fresh), OneAtATime, TypeInv, HeldThere(Held),
           Reported, FreshHasNone(Fresh), [Next]_vars
    PROVE  FreshHasNone(Fresh)'
  <1>1. ASSUME application'.position \in Fresh
        PROVE  /\ application.position \in Fresh
               /\ "create" \notin Range(commands')
    <2>1. CASE ClaimMove
      <3>1. application.position \in Fresh
        BY <1>1, <2>1, ClaimLands, Landing DEF ClaimMove, Lawful
      <3>2. QED
        BY <2>1, <3>1 DEF ClaimMove, Lawful
    <2>2. ASSUME NEW h \in Handlers, HandlerMove(h)
          PROVE  /\ application.position \in Fresh
                 /\ "create" \notin Range(commands')
      <3>1. /\ task[h].seen # None /\ task[h].seen.position \in Fresh
            /\ "create" \in Range(commands') => "create" \in Range(commands)
        BY <1>1, <2>2, HandlerLands, Landing DEF HandlerMove, Lawful
      <3>2. QED
        BY <3>1 DEF FreshHasNone
    <2>3. CASE Stays /\ ("create" \in Range(commands') => "create" \in Range(commands))
      BY <1>1, <2>3 DEF Stays, FreshHasNone
    <2>4. QED
      BY <2>1, <2>2, <2>3, Moves, CommandsStep
  <1>2. ASSUME application'.position \in Fresh
        PROVE  agreement' = <<>>
    <2>1. agreement = <<>> /\ "create" \notin Range(commands)
      BY <1>1, <1>2 DEF FreshHasNone
    <2>2. QED
      BY <2>1, ReportedStep
  <1>3. ASSUME NEW h \in Handlers, task'[h].seen # None, task'[h].seen.position \in Fresh
        PROVE  application'.position \in Fresh
    <2>1. CASE task'[h].seen = application /\ UNCHANGED application
      BY <1>3, <2>1
    <2>2. CASE task[h].seen \in Document /\ task'[h].seen.position = task[h].seen.position
      <3>1. application.position \in Fresh
        BY <1>3, <2>2, StatusAssumption DEF FreshHasNone
      <3>2. ~ClaimMove
        BY <3>1 DEF ClaimMove, Lawful
      <3>3. \A g \in Handlers : ~HandlerMove(g)
        BY <1>3, HandlerMoved DEF OneAtATime
      <3>4. QED
        BY <3>1, <3>2, <3>3, Moves DEF Stays
    <2>3. QED
      BY <1>3, <2>1, <2>2, CopiesAfterStep DEF CopiesFollow
  <1>4. QED
    BY <1>1, <1>2, <1>3 DEF FreshHasNone

\* A course that is over has no longer one.
LEMMA OverIsLast ==
    ASSUME NEW s \in Seq(AgreementStates), NEW t \in Seq(AgreementStates),
           IsPrefix(s, t), IsCourse(t), LatestStatus(s) \in Over
    PROVE  LatestStatus(t) \in Over
  <1>1. \A state \in Over : Lifecycle(state) = {}
    BY DEF Over, Lifecycle
  <1>2. None \notin Over
    BY StatusAssumption DEF Over, AgreementStates
  <1>3. s # <<>> /\ s[Len(s)] \in Over
    BY <1>2 DEF LatestStatus
  <1>4. /\ Len(s) \in Nat \ {0} /\ Len(t) \in Nat /\ Len(s) <= Len(t)
        /\ t[Len(s)] = s[Len(s)]
    BY <1>3, PrefixElements
  <1>5. Len(t) = Len(s)
    <2> SUFFICES ASSUME Len(s) < Len(t) PROVE FALSE
      BY <1>4
    <2> DEFINE i == Len(s) + 1
    <2>1. i \in DOMAIN t /\ i # 1 /\ i - 1 = Len(s)
      BY <1>4
    <2>2. t[i] \in Lifecycle(t[Len(s)])
      <3> HIDE DEF i
      <3>1. QED
        BY <2>1 DEF IsCourse
    <2>3. QED
      BY <1>1, <1>3, <1>4, <2>2
  <1>6. QED
    BY <1>3, <1>4, <1>5 DEF LatestStatus

LEMMA WithdrawnIsOver ==
    ASSUME NEW Held, NEW Fresh, HeldLawful(Held, Fresh), TypeInv, HeldThere(Held), Reported,
           HistoriesFollow, FreshHasNone(Fresh)
    PROVE  WithdrawnHasNoLiveAgreement
  <1> SUFFICES ASSUME application.position.status = "APPLICATION_WITHDRAWN"
               PROVE  LatestStatus(agreement) \notin {"offered", "accepted"}
    BY DEF WithdrawnHasNoLiveAgreement
  <1>1. CASE application.position \in Fresh
    BY <1>1, StatusAssumption DEF FreshHasNone, LatestStatus, AgreementStates
  <1>2. CASE application.position \notin Fresh
    <2>1. /\ application.position \in Positions /\ agreement \in Seq(AgreementStates)
          /\ application.history \in Seq(AgreementStates)
      BY DEF TypeInv, TypeOK, Document
    <2>2. LatestStatus(application.history) \in Over
      BY <1>2, <2>1 DEF HeldLawful, HeldThere
    <2>3. LatestStatus(agreement) \in Over
      BY <2>1, <2>2, OverIsLast DEF HistoriesFollow, Reported
    <2>4. QED
      BY <2>3 DEF Over
  <1>3. QED
    BY <1>1, <1>2

\* For a lawful lifecycle, the events of an application being handled one at a
\* time: withdrawApplicationUseCase never leaves a withdrawn application with an
\* agreement on offer or in force, whatever the applicant accepts meanwhile.
THEOREM WithdrawnNeverHasLiveAgreement ==
    ASSUME NEW Held, NEW Fresh, Lawful(Held, Fresh), OneAtATime
    PROVE  Spec => []WithdrawnHasNoLiveAgreement
  <1> DEFINE Inv == /\ TypeInv /\ HeldThere(Held) /\ Reported /\ HistoriesFollow
                    /\ FreshHasNone(Fresh)
  <1>1. Init => Inv
    <2>1. Init => FreshHasNone(Fresh)
      BY DEF Init, Idle, FreshHasNone, Lawful, StartsLawful, Range
    <2>2. QED
      BY <2>1, Initially, FollowInitially DEF Lawful
  <1>2. Inv /\ [Next]_vars => Inv'
    BY TypeStep, HeldStep, ReportedStep, FollowStep, FreshStep DEF Lawful
  <1>3. Inv => WithdrawnHasNoLiveAgreement
    BY WithdrawnIsOver DEF Lawful
  <1> HIDE DEF Inv
  <1>4. QED
    BY <1>1, <1>2, <1>3, PTL DEF Spec
=============================================================================
