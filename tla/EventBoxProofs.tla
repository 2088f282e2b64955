--------------------------- MODULE EventBoxProofs ---------------------------
(***************************************************************************)
(* Proofs about EventBox, for every set of rows, pollers, operators and    *)
(* tokens, every retry cap and every batch size.                           *)
(*                                                                         *)
(* First the types, action by action.  Then every step is reduced once to  *)
(* what it does to one row and to one batch (RowChanges, BatchChanges);    *)
(* each safety invariant is an argument about those few changes, not about *)
(* some twenty actions.                                                    *)
(***************************************************************************)
EXTENDS EventBoxImplements, SequenceTheorems, TLAPS

(***************************************************************************)
(* Every update of a row yields a row.                                     *)
(***************************************************************************)
LEMMA TriedType ==
    ASSUME NEW tries \in Tries
    PROVE  Tried(tries) \in Tries
  BY DEF Tried, Tries

LEMMA NewRowType ==
    ASSUME NEW status \in Statuses \cup NoDocument,
           NEW payload \in Payloads \cup {None}
    PROVE  NewRow(status, payload) \in Row
  BY DEF NewRow, Row, NoTries, NoClaim, Tries, Claim

LEMMA ReleaseType ==
    ASSUME NEW rw \in Row, NEW status \in Statuses, NEW tries \in Tries,
           NEW expireAt \in BOOLEAN, NEW payload \in Payloads \cup {None}
    PROVE  Release(rw, status, tries, expireAt, payload) \in Row
  BY DEF Release, Row, NoClaim, Claim

LEMMA ClaimedType ==
    ASSUME NEW rw \in Row, NEW t \in Tokens
    PROVE  Claimed(rw, t) \in Row
  BY DEF Claimed, Row, Claim, Statuses

LEMMA OverdueType ==
    ASSUME NEW rw \in Row
    PROVE  Overdue(rw) \in Row
  BY DEF Overdue, Row, Claim

LEMMA MovedToType ==
    ASSUME NEW rw \in Row, NEW status \in Statuses
    PROVE  MovedTo(rw, status) \in Row
  <1>1. /\ rw.tries \in Tries
        /\ rw.expireAt \in BOOLEAN
        /\ rw.payload \in Payloads \cup {None}
    BY DEF Row
  <1> QED BY <1>1, ReleaseType DEF MovedTo

LEMMA MarkedType ==
    ASSUME NEW rw \in Row, NEW doc \in Doc, NEW o
    PROVE  Marked(rw, doc, o) \in Row
  <1>1. /\ doc.tries \in Tries
        /\ doc.payload \in Payloads
        /\ Tried(doc.tries) \in Tries
    BY TriedType DEF Doc
  <1>2. {"COMPLETED", "DEAD_LETTER", "FAILED"} \subseteq Statuses
    BY DEF Statuses
  <1>3. MarkAsComplete(rw, doc) \in Row
    BY <1>1, <1>2, ReleaseType DEF MarkAsComplete
  <1>4. MarkAsFailed(rw, doc, o) \in Row
    BY <1>1, <1>2, ReleaseType DEF MarkAsFailed
  <1> QED BY <1>3, <1>4 DEF Marked

LEMMA SweepRowType ==
    ASSUME NEW call \in RowSweeps, NEW rw \in Row
    PROVE  SweepRow(call, rw) \in Row
  <1>1. /\ rw.expireAt \in BOOLEAN
        /\ rw.payload \in Payloads \cup {None}
        /\ Tried(rw.tries) \in Tries
    BY TriedType DEF Row
  <1>2. {"PUBLISHED", "RESUBMITTED", "DEAD_LETTER", "FAILED"} \subseteq Statuses
    BY DEF Statuses
  <1>3. UpdateResubmittedEvents(rw) \in Row
    BY <1>2, MovedToType DEF UpdateResubmittedEvents
  <1>4. UpdateFailedEvents(rw) \in Row
    BY <1>2, MovedToType DEF UpdateFailedEvents
  <1>5. UpdateDeadEvents(rw) \in Row
    BY <1>2, MovedToType DEF UpdateDeadEvents
  <1>6. ProcessExpiredEvents(rw) \in Row
    BY <1>1, <1>2, ReleaseType DEF ProcessExpiredEvents
  <1> QED BY <1>3, <1>4, <1>5, <1>6 DEF SweepRow, RowSweeps

LEMMA DeadLetteredType ==
    ASSUME NEW rw \in Row
    PROVE  DeadLettered(rw) \in Row
  BY MovedToType DEF DeadLettered, Statuses

LEMMA OperatorUpdateType ==
    ASSUME NEW rw \in Row
    PROVE  /\ RedriveUpdate(rw) \in Row
           /\ PurgeUpdate(rw) \in Row
           /\ \A p \in Payloads : EditUpdate(rw, p) \in Row
  <1>1. RedriveUpdate(rw) \in Row
    BY DEF RedriveUpdate, Row, Statuses, NoTries, NoClaim, Tries, Claim
  <1>2. PurgeUpdate(rw) \in Row
    BY DEF PurgeUpdate, Row, Statuses
  <1>3. ASSUME NEW p \in Payloads
        PROVE  EditUpdate(rw, p) \in Row
    BY DEF EditUpdate, Row
  <1> QED BY <1>1, <1>2, <1>3

-----------------------------------------------------------------------------
(***************************************************************************)
(* Type correctness.  It is not inductive alone: what a step writes into a *)
(* row comes from the poller's own variables, so they must be known to be  *)
(* set at the calls that use them.                                         *)
(***************************************************************************)
HasRow == {"deadletter", "lock", "claim", "handle", "mark", "free", "unwind"}

Bookkeeping ==
    /\ \A r \in Rows : row[r].status \in Statuses => row[r].payload \in Payloads
    /\ \A w \in Workers :
          /\ pc[w] \in HasRow => found[w] \in Rows /\ token[w] \in Tokens
          /\ pc[w] \in HasRow \ {"deadletter"} => SegregationRef[found[w]] \in Refs
          /\ pc[w] \in {"handle", "mark"} => batch[w] # <<>>
          /\ batch[w] # <<>> => pc[w] \in {"claim", "handle", "mark"}
          /\ pc[w] = "claim" => left[w] > 0

TypeInv == TypeOK /\ Bookkeeping

\* Whatever ends a tick leaves a poller in a typed state that knows nothing.
LEMMA EndTickType ==
    ASSUME TypeInv, NEW w \in Workers, EndTick(w)
    PROVE  /\ pc' \in [Workers -> Calls]
           /\ token' \in [Workers -> Tokens \cup {None}]
           /\ found' \in [Workers -> Rows \cup {None}]
           /\ batch' \in [Workers -> Seq(Doc)]
           /\ left' \in [Workers -> Nat]
           /\ outcome' \in [Workers -> Outcomes \cup {"none", "retryable"}]
           /\ pc'[w] = "poll" /\ batch'[w] = <<>>
           /\ \A v \in Workers \ {w} :
                 /\ pc'[v] = pc[v] /\ found'[v] = found[v] /\ token'[v] = token[v]
                 /\ batch'[v] = batch[v] /\ left'[v] = left[v]
                 /\ outcome'[v] = outcome[v]
  <1>1. <<>> \in Seq(Doc)
    OBVIOUS
  <1> QED BY <1>1 DEF TypeInv, TypeOK, EndTick, Calls

\* A step that changes no poller's memory keeps Bookkeeping if it keeps rows
\* with a payload.
LEMMA RowStep ==
    ASSUME TypeInv, UNCHANGED tickVars, row' \in [Rows -> Row],
           \A r \in Rows : row'[r].status \in Statuses => row'[r].payload \in Payloads
    PROVE  Bookkeeping'
  BY DEF TypeInv, Bookkeeping, tickVars

\* A step that ends a tick has only its effect on the rows and locks to answer for.
LEMMA TickEnds ==
    ASSUME TypeInv, NEW w \in Workers, EndTick(w),
           row' \in [Rows -> Row],
           \A r \in Rows : row'[r].status \in Statuses => row'[r].payload \in Payloads,
           lock' \in [Refs -> {"free", "held", "stale"}],
           faults' \in 0..MaxFaults,
           UNCHANGED <<editor, operations, historyVars>>
    PROVE  TypeInv'
  <1>1. TypeOK'
    BY EndTickType DEF TypeInv, TypeOK, historyVars
  <1>2. ASSUME NEW v \in Workers
        PROVE  /\ pc'[v] \in HasRow => found'[v] \in Rows /\ token'[v] \in Tokens
               /\ pc'[v] \in HasRow \ {"deadletter"} => SegregationRef[found'[v]] \in Refs
               /\ pc'[v] \in {"handle", "mark"} => batch'[v] # <<>>
               /\ batch'[v] # <<>> => pc'[v] \in {"claim", "handle", "mark"}
               /\ pc'[v] = "claim" => left'[v] > 0
    <2>1. CASE v = w
      BY <2>1, EndTickType DEF HasRow
    <2>2. CASE v # w
      <3>1. /\ pc'[v] = pc[v] /\ found'[v] = found[v] /\ token'[v] = token[v]
            /\ batch'[v] = batch[v] /\ left'[v] = left[v]
        BY <2>2, EndTickType
      <3> QED BY <3>1 DEF TypeInv, Bookkeeping
    <2> QED BY <2>1, <2>2
  <1> QED BY <1>1, <1>2 DEF TypeInv, Bookkeeping

LEMMA TypeInit == Init => TypeInv
  <1> SUFFICES ASSUME Init PROVE TypeInv
    OBVIOUS
  <1>1. row \in [Rows -> Row]
    BY NewRowType DEF Init, NoDocument
  <1>2. TypeOK
    BY <1>1, BoxAssumption DEF Init, TypeOK, Calls
  <1>3. Bookkeeping
    BY DEF Init, Bookkeeping, HasRow, NewRow, Statuses
  <1> QED BY <1>2, <1>3 DEF TypeInv

\* Which rows a sweep touches, and that it never touches their payload.
LEMMA SweepRowPayload ==
    ASSUME NEW call \in RowSweeps, NEW rw \in Row
    PROVE  /\ SweepRow(call, rw).payload = rw.payload
           /\ SweepRow(call, rw).status \in Statuses => rw.status \in Statuses
           /\ rw.status \in NoDocument \cup Terminal => SweepRow(call, rw) = rw
  <1>1. /\ UpdateResubmittedEvents(rw).payload = rw.payload
        /\ UpdateFailedEvents(rw).payload = rw.payload
        /\ UpdateDeadEvents(rw).payload = rw.payload
        /\ ProcessExpiredEvents(rw).payload = rw.payload
    BY DEF UpdateResubmittedEvents, UpdateFailedEvents, UpdateDeadEvents,
           ProcessExpiredEvents, MovedTo, Release
  <1>2. rw.status \in NoDocument \cup Terminal =>
          /\ UpdateResubmittedEvents(rw) = rw
          /\ UpdateFailedEvents(rw) = rw
          /\ UpdateDeadEvents(rw) = rw
          /\ ProcessExpiredEvents(rw) = rw
    BY DEF UpdateResubmittedEvents, UpdateFailedEvents, UpdateDeadEvents,
           ProcessExpiredEvents, NoDocument, Terminal
  <1>3. rw.status \in Statuses \/ rw.status \in NoDocument
    BY DEF Row
  <1> QED BY <1>1, <1>2, <1>3 DEF SweepRow, RowSweeps, Statuses, NoDocument

-----------------------------------------------------------------------------
LEMMA GetNextAvailableType ==
    ASSUME TypeInv, NEW w \in Workers, GetNextAvailable(w)
    PROVE  TypeInv'
  <1>1. CASE NextMessages = {} /\ pc' = [pc EXCEPT ![w] = "resubmitted"]
             /\ UNCHANGED <<token, found>>
    BY <1>1 DEF TypeInv, TypeOK, Bookkeeping, HasRow, Calls, RowSweeps,
                GetNextAvailable, historyVars
  <1>2. ASSUME NEW r \in Rows, NEW t \in Tokens,
               found' = [found EXCEPT ![w] = r],
               token' = [token EXCEPT ![w] = t],
               pc' = [pc EXCEPT ![w] = IF SegregationRef[r] = None
                                        THEN "deadletter" ELSE "lock"]
        PROVE  TypeInv'
    <2>1. TypeOK'
      BY <1>2 DEF TypeInv, TypeOK, Calls, GetNextAvailable, historyVars
    <2>2. SegregationRef[r] # None => SegregationRef[r] \in Refs
      BY BoxAssumption
    <2>3. Bookkeeping'
      BY <1>2, <2>2 DEF TypeInv, TypeOK, Bookkeeping, HasRow, GetNextAvailable, historyVars
    <2> QED BY <2>1, <2>3 DEF TypeInv
  <1> QED BY <1>1, <1>2 DEF GetNextAvailable, Earliest, NextMessages, FreshTokens

LEMMA DeadLetterEventType ==
    ASSUME TypeInv, NEW w \in Workers, DeadLetterEvent(w)
    PROVE  TypeInv'
  <1>1. row' \in [Rows -> Row]
    BY DeadLetteredType DEF TypeInv, TypeOK, DeadLetterEvent
  <1>2. \A r \in Rows : row'[r].status \in Statuses => row'[r].payload \in Payloads
    BY DEF TypeInv, TypeOK, Bookkeeping, DeadLetterEvent, DeadLettered, MovedTo,
           Release, Row
  <1> QED BY <1>1, <1>2, TickEnds DEF DeadLetterEvent, TypeInv, TypeOK

LEMMA SetFifoLockType ==
    ASSUME TypeInv, NEW w \in Workers, SetFifoLock(w)
    PROVE  TypeInv'
  <1>1. CASE lock[Ref(w)] = "free"
    <2>1. /\ lock' = [lock EXCEPT ![Ref(w)] = "held"]
          /\ pc' = [pc EXCEPT ![w] = "claim"]
          /\ left' = [left EXCEPT ![w] = NUMBER_OF_RECORDS]
          /\ UNCHANGED <<token, found, batch, outcome>>
          /\ UNCHANGED <<row, editor, faults, operations, historyVars>>
      BY <1>1 DEF SetFifoLock
    <2>2. lock' \in [Refs -> {"free", "held", "stale"}]
      BY <2>1 DEF TypeInv, TypeOK
    <2>3. left' \in [Workers -> Nat] /\ NUMBER_OF_RECORDS > 0
      BY <2>1, BoxAssumption DEF TypeInv, TypeOK
    <2>4. pc' \in [Workers -> Calls]
      BY <2>1 DEF TypeInv, TypeOK, Calls
    <2>5. TypeOK'
      BY <2>1, <2>2, <2>3, <2>4 DEF TypeInv, TypeOK, historyVars
    <2>6. Bookkeeping'
      BY <1>1, <2>1, <2>3 DEF TypeInv, TypeOK, Bookkeeping, HasRow, SetFifoLock
    <2> QED BY <2>5, <2>6 DEF TypeInv
  <1>2. CASE lock[Ref(w)] # "free"
    <2>1. EndTick(w) /\ UNCHANGED <<lock, row, editor, faults, operations, historyVars>>
      BY <1>2 DEF SetFifoLock
    <2> QED BY <2>1, TickEnds DEF TypeInv, TypeOK, Bookkeeping
  <1> QED BY <1>1, <1>2

\* One iteration of the claim loop, whether or not its reply arrives.
LEMMA ClaimOneType ==
    ASSUME TypeInv, NEW w \in Workers, pc[w] = "claim",
           NEW r \in Claimable(Ref(w))
    PROVE  /\ [row EXCEPT ![r] = Claimed(@, token[w])] \in [Rows -> Row]
           /\ row[r].payload \in Payloads
           /\ DocOf(r) \in Doc
           /\ Claimed(row[r], token[w]).payload = row[r].payload
  <1>1. r \in Rows /\ row[r].status = "PUBLISHED" /\ token[w] \in Tokens
    BY DEF Claimable, IsAvailable, TypeInv, Bookkeeping, HasRow
  <1>2. row[r] \in Row /\ row[r].tries \in Tries
    BY <1>1 DEF TypeInv, TypeOK, Row
  <1>3. row[r].payload \in Payloads
    BY <1>1 DEF TypeInv, Bookkeeping, Statuses
  <1>4. DocOf(r) \in Doc
    BY <1>1, <1>2, <1>3 DEF DocOf, Doc
  <1>5. [row EXCEPT ![r] = Claimed(@, token[w])] \in [Rows -> Row]
    BY <1>1, <1>2, ClaimedType DEF TypeInv, TypeOK
  <1> QED BY <1>3, <1>4, <1>5 DEF Claimed

LEMMA ClaimEventsType ==
    ASSUME TypeInv, NEW w \in Workers, ClaimEvents(w)
    PROVE  TypeInv'
  <1>1. /\ left[w] > 0 /\ left[w] \in Nat
        /\ batch[w] \in Seq(Doc)
    BY DEF ClaimEvents, TypeInv, TypeOK, Bookkeeping
  <1>2. CASE UNCHANGED <<row, batch>>
    <2>1. TypeOK'
      BY <1>1, <1>2 DEF TypeInv, TypeOK, Calls, ClaimEvents, MoreToClaim, historyVars
    <2>2. Bookkeeping'
      BY <1>1, <1>2 DEF TypeInv, TypeOK, Bookkeeping, HasRow, ClaimEvents, MoreToClaim
    <2> QED BY <2>1, <2>2 DEF TypeInv
  <1>3. ASSUME NEW r \in Claimable(Ref(w)),
               row' = [row EXCEPT ![r] = Claimed(@, token[w])],
               batch' = [batch EXCEPT ![w] = Append(@, DocOf(r))]
        PROVE  TypeInv'
    <2>1. /\ row' \in [Rows -> Row] /\ row[r].payload \in Payloads
          /\ DocOf(r) \in Doc /\ Claimed(row[r], token[w]).payload = row[r].payload
      BY <1>3, ClaimOneType DEF ClaimEvents
    <2>2. Append(batch[w], DocOf(r)) \in Seq(Doc) /\ Append(batch[w], DocOf(r)) # <<>>
      BY <1>1, <2>1
    <2>3. TypeOK'
      BY <1>1, <1>3, <2>1, <2>2 DEF TypeInv, TypeOK, Calls, ClaimEvents, MoreToClaim, historyVars
    <2>4. \A s \in Rows : row'[s].status \in Statuses => row'[s].payload \in Payloads
      BY <1>3, <2>1 DEF TypeInv, TypeOK, Bookkeeping
    <2>5. Bookkeeping'
      BY <1>1, <1>3, <2>2, <2>4 DEF TypeInv, TypeOK, Bookkeeping, HasRow, ClaimEvents, MoreToClaim
    <2> QED BY <2>3, <2>5 DEF TypeInv
  <1> QED BY <1>2, <1>3 DEF ClaimEvents, Earliest

LEMMA HandleEventType ==
    ASSUME TypeInv, NEW w \in Workers, HandleEvent(w)
    PROVE  TypeInv'
  <1>1. Head(batch[w]) \in Doc
    BY DEF HandleEvent, TypeInv, TypeOK, Bookkeeping
  <1>2. Head(batch[w]).id \in Rows /\ Head(batch[w]).payload \in Payloads
    BY <1>1 DEF Doc
  <1>3. delivered' \in [Rows -> SUBSET Payloads]
    BY <1>2 DEF HandleEvent, TypeInv, TypeOK
  <1>4. TypeOK'
    BY <1>3 DEF TypeInv, TypeOK, Calls, HandleEvent
  <1>5. Bookkeeping'
    BY DEF TypeInv, TypeOK, Bookkeeping, HasRow, HandleEvent
  <1> QED BY <1>4, <1>5 DEF TypeInv

\* The fenced write of a poller's document, in whatever way it ends.
LEMMA UpdateType ==
    ASSUME TypeInv, NEW doc \in Doc, NEW t, NEW o
    PROVE  /\ Update(doc, t, o) \in [Rows -> Row]
           /\ \A r \in Rows : Update(doc, t, o)[r].status \in Statuses
                                => Update(doc, t, o)[r].payload \in Payloads
  <1>1. doc.id \in Rows /\ doc.payload \in Payloads
    BY DEF Doc
  <1>2. Update(doc, t, o) \in [Rows -> Row]
    BY <1>1, MarkedType DEF Update, TypeInv, TypeOK
  <1>3. Marked(row[doc.id], doc, o).payload = doc.payload
    BY DEF Marked, MarkAsComplete, MarkAsFailed, Release
  <1>4. ASSUME NEW r \in Rows, Update(doc, t, o)[r].status \in Statuses
        PROVE  Update(doc, t, o)[r].payload \in Payloads
    BY <1>1, <1>3, <1>4 DEF Update, TypeInv, TypeOK, Bookkeeping
  <1> QED BY <1>2, <1>4

LEMMA MarkEventType ==
    ASSUME TypeInv, NEW w \in Workers, MarkEvent(w)
    PROVE  TypeInv'
  <1>1. batch[w] \in Seq(Doc) /\ batch[w] # <<>>
    BY DEF MarkEvent, TypeInv, TypeOK, Bookkeeping
  <1>2. Head(batch[w]) \in Doc /\ Tail(batch[w]) \in Seq(Doc)
    BY <1>1
  <1>6. Tail(batch[w]) = <<>> <=> Len(batch[w]) = 1
    <2>1. Len(Tail(batch[w])) = Len(batch[w]) - 1 /\ Len(batch[w]) \in Nat
      BY <1>1, HeadTailProperties, LenProperties
    <2>2. /\ Tail(batch[w]) # <<>> => Len(Tail(batch[w])) \in Nat \ {0}
          /\ Tail(batch[w]) = <<>> => Len(Tail(batch[w])) = 0
      BY <1>2, EmptySeq
    <2> QED BY <2>1, <2>2
  <1>3. /\ row' \in [Rows -> Row]
        /\ \A r \in Rows : row'[r].status \in Statuses => row'[r].payload \in Payloads
    BY <1>2, UpdateType DEF MarkEvent
  <1>4. TypeOK'
    BY <1>2, <1>3 DEF TypeInv, TypeOK, Calls, MarkEvent, historyVars
  <1>5. Bookkeeping'
    BY <1>2, <1>6, <1>3 DEF TypeInv, TypeOK, Bookkeeping, HasRow, MarkEvent
  <1> QED BY <1>4, <1>5 DEF TypeInv

LEMMA FreeFifoLockType ==
    ASSUME TypeInv, NEW w \in Workers, FreeFifoLock(w)
    PROVE  TypeInv'
  <1>1. lock' \in [Refs -> {"free", "held", "stale"}]
    BY DEF FreeFifoLock, TypeInv, TypeOK
  <1>2. CASE pc[w] = "free"
    <2>1. TypeOK'
      BY <1>1, <1>2 DEF TypeInv, TypeOK, Calls, RowSweeps, FreeFifoLock, historyVars
    <2>2. /\ pc' = [pc EXCEPT ![w] = "resubmitted"] /\ pc \in [Workers -> Calls]
          /\ token' = [token EXCEPT ![w] = None] /\ token \in [Workers -> Tokens \cup {None}]
          /\ found' = [found EXCEPT ![w] = None] /\ found \in [Workers -> Rows \cup {None}]
          /\ UNCHANGED <<row, batch, left>>
      BY <1>2 DEF TypeInv, TypeOK, FreeFifoLock
    <2>3. \A r \in Rows : row'[r].status \in Statuses => row'[r].payload \in Payloads
      BY <2>2 DEF TypeInv, Bookkeeping
    <2>4. ASSUME NEW v \in Workers
          PROVE  /\ pc'[v] \in HasRow => found'[v] \in Rows /\ token'[v] \in Tokens
                 /\ pc'[v] \in HasRow \ {"deadletter"} => SegregationRef[found'[v]] \in Refs
                 /\ pc'[v] \in {"handle", "mark"} => batch'[v] # <<>>
                 /\ batch'[v] # <<>> => pc'[v] \in {"claim", "handle", "mark"}
                 /\ pc'[v] = "claim" => left'[v] > 0
      BY <1>2, <2>2 DEF TypeInv, Bookkeeping, HasRow
    <2>5. Bookkeeping'
      BY <2>3, <2>4 DEF Bookkeeping
    <2> QED BY <2>1, <2>5 DEF TypeInv
  <1>3. CASE pc[w] = "unwind"
    <2>1. EndTick(w) /\ UNCHANGED <<row, editor, faults, operations, historyVars>>
      BY <1>3 DEF FreeFifoLock
    <2> QED BY <1>1, <2>1, TickEnds DEF TypeInv, TypeOK, Bookkeeping
  <1> QED BY <1>2, <1>3 DEF FreeFifoLock

\* A sweep over all rows, or over the part of them it reached.
LEMMA SweepRowsType ==
    ASSUME TypeInv, NEW call \in RowSweeps, NEW S \in SUBSET Rows,
           row' = [r \in Rows |-> IF r \in S THEN SweepRow(call, row[r]) ELSE row[r]]
    PROVE  /\ row' \in [Rows -> Row]
           /\ \A r \in Rows : row'[r].status \in Statuses => row'[r].payload \in Payloads
  <1>1. ASSUME NEW r \in Rows
        PROVE  /\ row[r] \in Row /\ SweepRow(call, row[r]) \in Row
               /\ row'[r].status \in Statuses => row'[r].payload \in Payloads
    BY SweepRowType, SweepRowPayload DEF TypeInv, TypeOK, Bookkeeping
  <1> QED BY <1>1

LEMMA SweepType ==
    ASSUME TypeInv, NEW w \in Workers, Sweep(w)
    PROVE  TypeInv'
  <1>1. pc[w] \in RowSweeps /\ AfterSweep[pc[w]] \in Calls \ HasRow
                            /\ AfterSweep[pc[w]] # "claim"
    BY DEF Sweep, RowSweeps, AfterSweep, Calls, HasRow
  <1>2. row' = [r \in Rows |-> IF r \in Rows THEN SweepRow(pc[w], row[r]) ELSE row[r]]
    BY DEF Sweep
  <1>3. /\ row' \in [Rows -> Row]
        /\ \A r \in Rows : row'[r].status \in Statuses => row'[r].payload \in Payloads
    BY <1>1, <1>2, SweepRowsType
  <1>4. TypeOK'
    BY <1>1, <1>3 DEF TypeInv, TypeOK, Sweep, historyVars
  <1>5. batch[w] = <<>>
    BY <1>1 DEF TypeInv, Bookkeeping, RowSweeps
  <1>6. Bookkeeping'
    BY <1>1, <1>3, <1>5 DEF TypeInv, TypeOK, Bookkeeping, HasRow, Sweep
  <1> QED BY <1>4, <1>6 DEF TypeInv

LEMMA CleanupStaleLocksType ==
    ASSUME TypeInv, NEW w \in Workers, CleanupStaleLocks(w)
    PROVE  TypeInv'
  <1>1. lock' \in [Refs -> {"free", "held", "stale"}]
    BY DEF CleanupStaleLocks, TypeInv, TypeOK
  <1>2. EndTick(w) /\ UNCHANGED <<row, editor, faults, operations, historyVars>>
    BY DEF CleanupStaleLocks
  <1> QED BY <1>1, <1>2, TickEnds DEF TypeInv, TypeOK, Bookkeeping

-----------------------------------------------------------------------------
LEMMA CrashType ==
    ASSUME TypeInv, NEW w \in Workers, Crash(w)
    PROVE  TypeInv'
  <1>1. faults' \in 0..MaxFaults
    BY BoxAssumption DEF Crash, Throws, TypeInv, TypeOK
  <1> QED BY <1>1, TickEnds DEF Crash, TypeInv, TypeOK, Bookkeeping

LEMMA ClaimThrowsType ==
    ASSUME TypeInv, NEW w \in Workers, ClaimThrows(w)
    PROVE  TypeInv'
  <1>1. faults' \in 0..MaxFaults
    BY BoxAssumption DEF ClaimThrows, Throws, TypeInv, TypeOK
  <1>2. /\ row' \in [Rows -> Row]
        /\ \A r \in Rows : row'[r].status \in Statuses => row'[r].payload \in Payloads
    <2>1. CASE UNCHANGED row
      BY <2>1 DEF TypeInv, TypeOK, Bookkeeping
    <2>2. ASSUME NEW r \in Claimable(Ref(w)),
                 row' = [row EXCEPT ![r] = Claimed(@, token[w])]
          PROVE  /\ row' \in [Rows -> Row]
                 /\ \A s \in Rows : row'[s].status \in Statuses
                                       => row'[s].payload \in Payloads
      <3>1. /\ row' \in [Rows -> Row] /\ row[r].payload \in Payloads
            /\ Claimed(row[r], token[w]).payload = row[r].payload
        BY <2>2, ClaimOneType DEF ClaimThrows
      <3> QED BY <2>2, <3>1 DEF TypeInv, TypeOK, Bookkeeping
    <2> QED BY <2>1, <2>2 DEF ClaimThrows, Earliest
  <1>3. <<>> \in Seq(Doc)
    OBVIOUS
  <1>4. TypeOK'
    BY <1>1, <1>2, <1>3 DEF TypeInv, TypeOK, Calls, ClaimThrows, historyVars
  <1>5. Bookkeeping'
    BY <1>2 DEF TypeInv, TypeOK, Bookkeeping, HasRow, ClaimThrows
  <1> QED BY <1>4, <1>5 DEF TypeInv

LEMMA MarkThrowsType ==
    ASSUME TypeInv, NEW w \in Workers, MarkThrows(w)
    PROVE  TypeInv'
  <1>1. faults' \in 0..MaxFaults
    BY BoxAssumption DEF MarkThrows, Throws, TypeInv, TypeOK
  <1>2. batch[w] \in Seq(Doc) /\ batch[w] # <<>>
    BY DEF MarkThrows, TypeInv, TypeOK, Bookkeeping
  <1>3. Head(batch[w]) \in Doc
    BY <1>2
  <1>4. /\ row' \in [Rows -> Row]
        /\ \A r \in Rows : row'[r].status \in Statuses => row'[r].payload \in Payloads
    <2>1. CASE UNCHANGED row
      BY <2>1 DEF TypeInv, TypeOK, Bookkeeping
    <2>2. CASE row' = Update(Head(batch[w]), token[w], outcome[w])
      BY <2>2, <1>3, UpdateType
    <2> QED BY <2>1, <2>2 DEF MarkThrows
  <1>5. <<>> \in Seq(Doc)
    OBVIOUS
  <1>8. /\ batch' \in [Workers -> Seq(Doc)]
        /\ pc' \in [Workers -> Calls]
        /\ outcome' \in [Workers -> Outcomes \cup {"none", "retryable"}]
    <2>1. CASE outcome' = [outcome EXCEPT ![w] = "retryable"] /\ UNCHANGED <<batch, pc>>
      BY <2>1 DEF TypeInv, TypeOK
    <2>2. CASE /\ outcome' = [outcome EXCEPT ![w] = "none"]
               /\ batch' = [batch EXCEPT ![w] = <<>>]
               /\ pc' = [pc EXCEPT ![w] = "unwind"]
      <3>1. pc' \in [Workers -> Calls]
        BY <2>2 DEF TypeInv, TypeOK, Calls
      <3>2. batch' \in [Workers -> Seq(Doc)]
        BY <2>2, <1>5 DEF TypeInv, TypeOK
      <3>3. outcome' \in [Workers -> Outcomes \cup {"none", "retryable"}]
        BY <2>2 DEF TypeInv, TypeOK
      <3> QED BY <3>1, <3>2, <3>3
    <2> QED BY <2>1, <2>2 DEF MarkThrows
  <1>6. TypeOK'
    BY <1>1, <1>4, <1>8 DEF TypeInv, TypeOK, MarkThrows, historyVars
  <1>7. Bookkeeping'
    BY <1>4 DEF TypeInv, TypeOK, Bookkeeping, HasRow, MarkThrows
  <1> QED BY <1>6, <1>7 DEF TypeInv

LEMMA SweepThrowsType ==
    ASSUME TypeInv, NEW w \in Workers, SweepThrows(w)
    PROVE  TypeInv'
  <1>1. faults' \in 0..MaxFaults
    BY BoxAssumption DEF SweepThrows, Throws, TypeInv, TypeOK
  <1>2. PICK S \in SUBSET Rows :
          row' = [r \in Rows |-> IF r \in S THEN SweepRow(pc[w], row[r]) ELSE row[r]]
    BY DEF SweepThrows
  <1>3. /\ row' \in [Rows -> Row]
        /\ \A r \in Rows : row'[r].status \in Statuses => row'[r].payload \in Payloads
    BY <1>2, SweepRowsType DEF SweepThrows
  <1> QED BY <1>1, <1>3, TickEnds DEF SweepThrows, TypeInv, TypeOK

-----------------------------------------------------------------------------
LEMMA EnvironmentType ==
    ASSUME TypeInv, NEW r \in Rows,
           InsertOne(r) \/ ClaimTimesOut(r) \/ DeleteExpired(r)
    PROVE  TypeInv'
  <1>1. CASE InsertOne(r)
    <2>1. NewRow("PUBLISHED", FirstPayload[r]) \in Row
          /\ FirstPayload[r] \in Payloads
      BY NewRowType, BoxAssumption DEF Statuses
    <2>2. row' \in [Rows -> Row] /\ Append(arrivals, r) \in Seq(Rows)
      BY <1>1, <2>1 DEF InsertOne, TypeInv, TypeOK
    <2>3. \A s \in Rows : row'[s].status \in Statuses => row'[s].payload \in Payloads
      BY <1>1, <2>1 DEF InsertOne, NewRow, TypeInv, TypeOK, Bookkeeping
    <2>4. TypeOK'
      BY <1>1, <2>2 DEF InsertOne, TypeInv, TypeOK, tickVars
    <2>5. UNCHANGED tickVars
      BY <1>1 DEF InsertOne
    <2> QED BY <2>2, <2>3, <2>4, <2>5, RowStep DEF TypeInv
  <1>2. CASE ClaimTimesOut(r)
    <2>1. row' \in [Rows -> Row]
      BY <1>2, OverdueType DEF ClaimTimesOut, TypeInv, TypeOK
    <2>2. \A s \in Rows : row'[s].status \in Statuses => row'[s].payload \in Payloads
      BY <1>2 DEF ClaimTimesOut, Overdue, TypeInv, TypeOK, Bookkeeping
    <2>3. TypeOK'
      BY <1>2, <2>1 DEF ClaimTimesOut, TypeInv, TypeOK, tickVars, historyVars
    <2>4. UNCHANGED tickVars
      BY <1>2 DEF ClaimTimesOut
    <2> QED BY <2>1, <2>2, <2>3, <2>4, RowStep DEF TypeInv
  <1>3. CASE DeleteExpired(r)
    <2>1. NewRow("DELETED", None) \in Row
      BY NewRowType DEF NoDocument
    <2>2. row' \in [Rows -> Row]
      BY <1>3, <2>1 DEF DeleteExpired, TypeInv, TypeOK
    <2>3. \A s \in Rows : row'[s].status \in Statuses => row'[s].payload \in Payloads
      BY <1>3 DEF DeleteExpired, NewRow, Statuses, TypeInv, TypeOK, Bookkeeping
    <2>4. TypeOK'
      BY <1>3, <2>2 DEF DeleteExpired, TypeInv, TypeOK, tickVars, historyVars
    <2>5. UNCHANGED tickVars
      BY <1>3 DEF DeleteExpired
    <2> QED BY <2>2, <2>3, <2>4, <2>5, RowStep DEF TypeInv
  <1> QED BY <1>1, <1>2, <1>3

LEMMA LockGoesStaleType ==
    ASSUME TypeInv, NEW g \in Refs, LockGoesStale(g)
    PROVE  TypeInv'
  <1>1. TypeOK'
    BY DEF LockGoesStale, TypeInv, TypeOK, tickVars, historyVars
  <1>2. UNCHANGED tickVars /\ UNCHANGED row
    BY DEF LockGoesStale
  <1> QED BY <1>1, <1>2, RowStep DEF TypeInv, TypeOK, Bookkeeping

Editors == [Operators -> [row : Rows \cup {None}, revision : Nat, fresh : BOOLEAN]]

LEMMA OutdateType ==
    ASSUME TypeInv, NEW r, Outdate(r)
    PROVE  editor' \in Editors
  <1>1. ASSUME NEW e \in Operators
        PROVE  /\ editor[e] \in [row : Rows \cup {None}, revision : Nat, fresh : BOOLEAN]
               /\ editor'[e] \in [row : Rows \cup {None}, revision : Nat, fresh : BOOLEAN]
    BY DEF Outdate, TypeInv, TypeOK
  <1> QED BY <1>1 DEF Outdate, Editors

LEMMA CloseEditorType ==
    ASSUME TypeInv, NEW e, NEW r, CloseEditor(e, r)
    PROVE  editor' \in Editors
  <1>1. ASSUME NEW o \in Operators
        PROVE  /\ editor[o] \in [row : Rows \cup {None}, revision : Nat, fresh : BOOLEAN]
               /\ editor'[o] \in [row : Rows \cup {None}, revision : Nat, fresh : BOOLEAN]
    BY DEF CloseEditor, TypeInv, TypeOK
  <1> QED BY <1>1 DEF CloseEditor, Editors

\* An operator's write to one row whose payload is known.
LEMMA OperatorWrite ==
    ASSUME TypeInv, NEW r \in Rows, NEW rw \in Row, rw.payload \in Payloads,
           row' = [row EXCEPT ![r] = rw], editor' \in Editors, Operates,
           UNCHANGED <<lock, tickVars, faults, historyVars>>
    PROVE  TypeInv'
  <1>1. row' \in [Rows -> Row]
    BY DEF TypeInv, TypeOK
  <1>2. \A s \in Rows : row'[s].status \in Statuses => row'[s].payload \in Payloads
    BY DEF TypeInv, TypeOK, Bookkeeping
  <1>3. operations' \in 0..MaxOperations
    BY BoxAssumption DEF Operates, TypeInv, TypeOK
  <1>4. TypeOK'
    BY <1>1, <1>3 DEF TypeInv, TypeOK, tickVars, historyVars, Editors
  <1> QED BY <1>1, <1>2, <1>4, RowStep DEF TypeInv

LEMMA OperatorStepType ==
    ASSUME TypeInv, OperatorStep
    PROVE  TypeInv'
  <1>1. ASSUME NEW r \in Rows, RedriveById(r)
        PROVE  TypeInv'
    <2>1. row[r] \in Row /\ row[r].payload \in Payloads
      BY <1>1 DEF RedriveById, REDRIVABLE_STATUSES, Statuses, TypeInv, TypeOK, Bookkeeping
    <2>2. RedriveUpdate(row[r]) \in Row /\ RedriveUpdate(row[r]).payload = row[r].payload
      BY <2>1, OperatorUpdateType DEF RedriveUpdate
    <2>3. editor' \in Editors
      BY <1>1, OutdateType DEF RedriveById
    <2> QED BY <1>1, <2>1, <2>2, <2>3, OperatorWrite DEF RedriveById
  <1>2. ASSUME NEW r \in Rows, PurgeById(r)
        PROVE  TypeInv'
    <2>1. row[r] \in Row /\ row[r].payload \in Payloads
      BY <1>2 DEF PurgeById, Statuses, TypeInv, TypeOK, Bookkeeping
    <2>2. PurgeUpdate(row[r]) \in Row /\ PurgeUpdate(row[r]).payload = row[r].payload
      BY <2>1, OperatorUpdateType DEF PurgeUpdate
    <2>3. editor' \in Editors
      BY <1>2, OutdateType DEF PurgeById
    <2> QED BY <1>2, <2>1, <2>2, <2>3, OperatorWrite DEF PurgeById
  <1>3. ASSUME NEW e \in Operators, NEW r \in Rows, OpenEditor(e, r)
        PROVE  TypeInv'
    <2>1. row[r] \in Row /\ row[r].revision \in Nat
      BY DEF TypeInv, TypeOK, Row
    <2>2. editor' \in Editors
      BY <1>3, <2>1 DEF OpenEditor, Editors, TypeInv, TypeOK
    <2>3. TypeOK' /\ UNCHANGED tickVars /\ UNCHANGED row
      BY <1>3, <2>2 DEF OpenEditor, TypeInv, TypeOK, Editors, tickVars, historyVars
    <2> QED BY <2>3, RowStep DEF TypeInv, TypeOK, Bookkeeping
  <1>4. ASSUME NEW e \in Operators, NEW p \in Payloads, EditPayloadById(e, p)
        PROVE  TypeInv'
    <2>1. editor[e].row \in Rows
      BY <1>4 DEF EditPayloadById, TypeInv, TypeOK
    <2>2. /\ EditUpdate(row[editor[e].row], p) \in Row
          /\ EditUpdate(row[editor[e].row], p).payload = p
      BY <2>1, OperatorUpdateType DEF EditUpdate, TypeInv, TypeOK
    <2>3. editor' \in Editors
      BY <1>4, CloseEditorType DEF EditPayloadById
    <2> QED BY <1>4, <2>1, <2>2, <2>3, OperatorWrite DEF EditPayloadById
  <1>5. ASSUME NEW e \in Operators, AbandonEdit(e)
        PROVE  TypeInv'
    <2>1. editor' \in Editors
      BY <1>5 DEF AbandonEdit, Editors, TypeInv, TypeOK
    <2>2. TypeOK' /\ UNCHANGED tickVars /\ UNCHANGED row
      BY <1>5, <2>1 DEF AbandonEdit, TypeInv, TypeOK, Editors, tickVars, historyVars
    <2> QED BY <2>2, RowStep DEF TypeInv, TypeOK, Bookkeeping
  <1> QED BY <1>1, <1>2, <1>3, <1>4, <1>5 DEF OperatorStep

-----------------------------------------------------------------------------
LEMMA TypeStep == TypeInv /\ [Next]_vars => TypeInv'
  <1> SUFFICES ASSUME TypeInv, [Next]_vars PROVE TypeInv'
    OBVIOUS
  <1>1. ASSUME NEW w \in Workers, WorkerStep(w)
        PROVE  TypeInv'
    BY <1>1, GetNextAvailableType, DeadLetterEventType, SetFifoLockType,
       ClaimEventsType, HandleEventType, MarkEventType, FreeFifoLockType,
       SweepType, CleanupStaleLocksType DEF WorkerStep
  <1>2. ASSUME NEW w \in Workers, FaultStep(w)
        PROVE  TypeInv'
    BY <1>2, CrashType, ClaimThrowsType, MarkThrowsType, SweepThrowsType DEF FaultStep
  <1>3. CASE UNCHANGED vars
    BY <1>3 DEF vars, tickVars, historyVars, TypeInv, TypeOK, Bookkeeping
  <1> QED BY <1>1, <1>2, <1>3, EnvironmentType, LockGoesStaleType, OperatorStepType
          DEF Next

\* Whatever the pollers, the operators, the failures and the clock do, every
\* variable keeps its type, and a poller has its row, its token and its batch
\* at every call that uses them.
THEOREM TypeCorrect == Spec => []TypeOK
  <1>1. Spec => []TypeInv
    BY TypeInit, TypeStep, PTL DEF Spec
  <1>2. TypeInv => TypeOK
    BY DEF TypeInv
  <1> QED BY <1>1, <1>2, PTL

-----------------------------------------------------------------------------
Inserted(r) == /\ row[r].status = "ABSENT"
               /\ row'[r] = NewRow("PUBLISHED", FirstPayload[r])

\* A claim whose reply is lost leaves no copy.
Taken(r) == \E w \in Workers : /\ pc[w] = "claim"
                               /\ IsAvailable(row[r])
                               /\ row'[r] = Claimed(row[r], token[w])
                               /\ \/ batch'[w] = <<>>
                                  \/ batch'[w] = Append(batch[w], DocOf(r))

Written(r) == \E w \in Workers : /\ pc[w] = "mark"
                                 /\ Head(batch[w]).id = r
                                 /\ row[r].claim.by = token[w]
                                 /\ row'[r] = Marked(row[r], Head(batch[w]), outcome[w])

Swept(r) == \E call \in RowSweeps : row'[r] = SweepRow(call, row[r])

GivenUp(r) == \E w \in Workers : /\ pc[w] = "deadletter"
                                 /\ found[w] = r
                                 /\ row'[r] = DeadLettered(row[r])

TimedOut(r) == row[r].claim.by # None /\ row'[r] = Overdue(row[r])

Removed(r) == /\ row[r].expireAt
              /\ row[r].status \in {"COMPLETED", "PURGED"}
              /\ row'[r] = NewRow("DELETED", None)

Redriven(r) == /\ row[r].status \in REDRIVABLE_STATUSES
               /\ row'[r] = RedriveUpdate(row[r])

Purged(r) == row[r].status = "DEAD_LETTER" /\ row'[r] = PurgeUpdate(row[r])

Edited(r) == /\ row[r].status \in REDRIVABLE_STATUSES
             /\ \E p \in Payloads : row'[r] = EditUpdate(row[r], p)

RowChange(r) ==
    \/ row'[r] = row[r] \/ Inserted(r) \/ Taken(r) \/ Written(r) \/ Swept(r)
    \/ GivenUp(r) \/ TimedOut(r) \/ Removed(r) \/ Redriven(r) \/ Purged(r) \/ Edited(r)

\* Where the rows of a step come from: one lemma per way a step writes rows.
LEMMA NothingWritten ==
    ASSUME UNCHANGED row, NEW r \in Rows
    PROVE  RowChange(r)
  BY DEF RowChange

LEMMA ClaimWrites ==
    ASSUME TypeInv, NEW w \in Workers, pc[w] = "claim", NEW s \in Claimable(Ref(w)),
           row' = [row EXCEPT ![s] = Claimed(@, token[w])],
           batch' = [batch EXCEPT ![w] = <<>>]
             \/ batch' = [batch EXCEPT ![w] = Append(@, DocOf(s))],
           NEW r \in Rows
    PROVE  RowChange(r)
  BY DEF RowChange, Taken, Claimable, TypeInv, TypeOK

LEMMA MarkWrites ==
    ASSUME TypeInv, NEW w \in Workers, pc[w] = "mark",
           row' = Update(Head(batch[w]), token[w], outcome[w]), NEW r \in Rows
    PROVE  RowChange(r)
  BY DEF RowChange, Written, Update, TypeInv, TypeOK

LEMMA SweepWrites ==
    ASSUME TypeInv, NEW call \in RowSweeps, NEW S \in SUBSET Rows,
           row' = [r \in Rows |-> IF r \in S THEN SweepRow(call, row[r]) ELSE row[r]],
           NEW r \in Rows
    PROVE  RowChange(r)
  BY DEF RowChange, Swept

LEMMA RowChanges ==
    ASSUME TypeInv, [Next]_vars, NEW r \in Rows
    PROVE  RowChange(r)
  <1>1. ASSUME NEW w \in Workers, WorkerStep(w)
        PROVE  RowChange(r)
    <2>1. CASE GetNextAvailable(w)
      BY <2>1, NothingWritten DEF GetNextAvailable
    <2>2. CASE DeadLetterEvent(w)
      BY <2>2 DEF DeadLetterEvent, RowChange, GivenUp, TypeInv, TypeOK
    <2>3. CASE SetFifoLock(w)
      BY <2>3, NothingWritten DEF SetFifoLock
    <2>4. CASE ClaimEvents(w)
      BY <2>4, NothingWritten, ClaimWrites DEF ClaimEvents, Earliest
    <2>5. CASE HandleEvent(w)
      BY <2>5, NothingWritten DEF HandleEvent
    <2>6. CASE MarkEvent(w)
      BY <2>6, MarkWrites DEF MarkEvent
    <2>7. CASE FreeFifoLock(w)
      BY <2>7, NothingWritten DEF FreeFifoLock
    <2>8. CASE Sweep(w)
      BY <2>8 DEF Sweep, RowChange, Swept
    <2>9. CASE CleanupStaleLocks(w)
      BY <2>9, NothingWritten DEF CleanupStaleLocks
    <2> QED BY <1>1, <2>1, <2>2, <2>3, <2>4, <2>5, <2>6, <2>7, <2>8, <2>9
            DEF WorkerStep
  <1>2. ASSUME NEW w \in Workers, FaultStep(w)
        PROVE  RowChange(r)
    <2>1. CASE Crash(w)
      BY <2>1, NothingWritten DEF Crash
    <2>2. CASE ClaimThrows(w)
      BY <2>2, NothingWritten, ClaimWrites DEF ClaimThrows, Earliest
    <2>3. CASE MarkThrows(w)
      BY <2>3, NothingWritten, MarkWrites DEF MarkThrows
    <2>4. CASE SweepThrows(w)
      BY <2>4, SweepWrites DEF SweepThrows
    <2> QED BY <1>2, <2>1, <2>2, <2>3, <2>4 DEF FaultStep
  <1>3. ASSUME NEW s \in Rows, InsertOne(s) \/ ClaimTimesOut(s) \/ DeleteExpired(s)
        PROVE  RowChange(r)
    BY <1>3 DEF InsertOne, ClaimTimesOut, DeleteExpired, RowChange, Inserted,
                TimedOut, Removed, TypeInv, TypeOK
  <1>4. ASSUME NEW g \in Refs, LockGoesStale(g)
        PROVE  RowChange(r)
    BY <1>4, NothingWritten DEF LockGoesStale
  <1>5. ASSUME NEW s \in Rows, RedriveById(s) \/ PurgeById(s)
        PROVE  RowChange(r)
    BY <1>5 DEF RedriveById, PurgeById, RowChange, Redriven, Purged, TypeInv, TypeOK
  <1>6. ASSUME NEW e \in Operators, NEW p \in Payloads, EditPayloadById(e, p)
        PROVE  RowChange(r)
    BY <1>6 DEF EditPayloadById, IsEditable, RowChange, Edited, TypeInv, TypeOK
  <1>7. ASSUME NEW e \in Operators, AbandonEdit(e) \/ \E s \in Rows : OpenEditor(e, s)
        PROVE  RowChange(r)
    BY <1>7, NothingWritten DEF AbandonEdit, OpenEditor
  <1>8. CASE UNCHANGED vars
    BY <1>8, NothingWritten DEF vars
  <1> QED BY <1>1, <1>2, <1>3, <1>4, <1>5, <1>6, <1>7, <1>8 DEF Next, OperatorStep

\* What a step does to the copies a poller holds.
BatchChange(w) ==
    \/ batch'[w] = batch[w]
    \/ batch'[w] = <<>>
    \/ pc[w] = "mark" /\ batch'[w] = Tail(batch[w])
    \/ /\ pc[w] = "claim"
       /\ \E s \in Rows : /\ IsAvailable(row[s])
                          /\ row'[s] = Claimed(row[s], token[w])
                          /\ batch'[w] = Append(batch[w], DocOf(s))

LEMMA BatchChanges ==
    ASSUME TypeInv, [Next]_vars, NEW w \in Workers
    PROVE  BatchChange(w)
  <1>1. ASSUME NEW v \in Workers, WorkerStep(v)
        PROVE  BatchChange(w)
    <2>1. CASE EndTick(v)
      BY <2>1, EndTickType DEF BatchChange
    <2>2. CASE UNCHANGED batch
      BY <2>2 DEF BatchChange
    <2>3. CASE ClaimEvents(v)
      <3>1. ASSUME NEW s \in Claimable(Ref(v)),
                   row' = [row EXCEPT ![s] = Claimed(@, token[v])],
                   batch' = [batch EXCEPT ![v] = Append(@, DocOf(s))]
            PROVE  BatchChange(w)
        <4>1. /\ s \in Rows /\ IsAvailable(row[s])
              /\ row'[s] = Claimed(row[s], token[v])
          BY <3>1 DEF Claimable, TypeInv, TypeOK
        <4>2. CASE w = v
          BY <2>3, <3>1, <4>1, <4>2 DEF ClaimEvents, BatchChange, TypeInv, TypeOK
        <4>3. CASE w # v
          BY <3>1, <4>3 DEF BatchChange, TypeInv, TypeOK
        <4> QED BY <4>2, <4>3
      <3> QED BY <2>2, <2>3, <3>1 DEF ClaimEvents, Earliest
    <2>4. CASE MarkEvent(v)
      BY <2>4 DEF MarkEvent, BatchChange, TypeInv, TypeOK
    <2>5. CASE DeadLetterEvent(v) \/ CleanupStaleLocks(v)
      BY <2>1, <2>5 DEF DeadLetterEvent, CleanupStaleLocks
    <2>6. CASE GetNextAvailable(v) \/ HandleEvent(v) \/ Sweep(v)
      BY <2>2, <2>6 DEF GetNextAvailable, HandleEvent, Sweep
    <2>7. CASE SetFifoLock(v)
      BY <2>1, <2>2, <2>7 DEF SetFifoLock
    <2>8. CASE FreeFifoLock(v)
      BY <2>1, <2>2, <2>8 DEF FreeFifoLock
    <2> QED BY <1>1, <2>3, <2>4, <2>5, <2>6, <2>7, <2>8 DEF WorkerStep
  <1>2. ASSUME NEW v \in Workers, FaultStep(v)
        PROVE  BatchChange(w)
    <2>1. CASE EndTick(v)
      BY <2>1, EndTickType DEF BatchChange
    <2>2. CASE UNCHANGED batch
      BY <2>2 DEF BatchChange
    <2>3. CASE batch' = [batch EXCEPT ![v] = <<>>]
      BY <2>3 DEF BatchChange, TypeInv, TypeOK
    <2> QED BY <1>2, <2>1, <2>2, <2>3
            DEF FaultStep, Crash, ClaimThrows, MarkThrows, SweepThrows
  <1>3. ASSUME UNCHANGED tickVars
        PROVE  BatchChange(w)
    BY <1>3 DEF BatchChange, tickVars
  <1>4. (\E r \in Rows : InsertOne(r) \/ ClaimTimesOut(r) \/ DeleteExpired(r))
          \/ (\E g \in Refs : LockGoesStale(g)) \/ OperatorStep \/ UNCHANGED vars
            => UNCHANGED tickVars
    BY DEF InsertOne, ClaimTimesOut, DeleteExpired, LockGoesStale, OperatorStep,
           RedriveById, PurgeById, OpenEditor, EditPayloadById, AbandonEdit, vars
  <1> QED BY <1>1, <1>2, <1>3, <1>4 DEF Next

-----------------------------------------------------------------------------
(***************************************************************************)
(* Claims and attempts.  A row is sound when its claim and its counters    *)
(* fit its status; a copy a poller holds has an attempt left to record.    *)
(***************************************************************************)
Counted(tries) ==
    /\ tries.attempts <= MAX_RETRIES
    /\ tries.history = IF tries.attempts < MAX_ATTEMPT_HISTORY
                       THEN tries.attempts ELSE MAX_ATTEMPT_HISTORY

Sound(rw) ==
    /\ rw.claim.by # None <=> rw.status = "PROCESSING"
    /\ rw.claim.overdue => rw.claim.by # None
    /\ rw.status = "PROCESSING" => rw.tries.attempts < MAX_RETRIES
    /\ Counted(rw.tries)

Spendable(tries) == Counted(tries) /\ tries.attempts < MAX_RETRIES

ClaimInv ==
    /\ \A r \in Rows : Sound(row[r])
    /\ \A w \in Workers : \A i \in 1..Len(batch[w]) : Spendable(batch[w][i].tries)

LEMMA TriedCounted ==
    ASSUME NEW tries \in Tries, Spendable(tries)
    PROVE  Counted(Tried(tries))
  BY BoxAssumption DEF Tries, Spendable, Counted, Tried

LEMMA SoundRelease ==
    ASSUME NEW rw, NEW status, status # "PROCESSING", NEW tries, Counted(tries),
           NEW expireAt, NEW payload
    PROVE  Sound(Release(rw, status, tries, expireAt, payload))
  BY DEF Sound, Release, NoClaim

LEMMA SoundNoTries == Counted(NoTries)
  BY BoxAssumption DEF Counted, NoTries

\* A sound row stays sound, whatever a step does to it.
LEMMA SoundRow ==
    ASSUME TypeInv, ClaimInv, NEW r \in Rows, RowChange(r)
    PROVE  Sound(row'[r])
  <1>1. row[r] \in Row /\ Sound(row[r])
    BY DEF TypeInv, TypeOK, ClaimInv
  <1>2. CASE Inserted(r) \/ Removed(r)
    BY <1>2, SoundNoTries DEF Inserted, Removed, NewRow, Sound, NoClaim
  <1>3. CASE Taken(r)
    <2>1. PICK w \in Workers : /\ pc[w] = "claim" /\ IsAvailable(row[r])
                               /\ row'[r] = Claimed(row[r], token[w])
      BY <1>3 DEF Taken
    <2>2. token[w] # None
      BY <2>1, BoxAssumption DEF TypeInv, Bookkeeping, HasRow
    <2> QED BY <1>1, <2>1, <2>2 DEF IsAvailable, Claimed, Sound
  <1>4. CASE Written(r)
    <2>1. PICK w \in Workers : /\ pc[w] = "mark"
                               /\ row'[r] = Marked(row[r], Head(batch[w]), outcome[w])
      BY <1>4 DEF Written
    <2>2. batch[w] \in Seq(Doc) /\ batch[w] # <<>>
      BY <2>1 DEF TypeInv, TypeOK, Bookkeeping
    <2>3. /\ Head(batch[w]) \in Doc /\ Head(batch[w]) = batch[w][1]
          /\ 1 \in 1..Len(batch[w])
      BY <2>2, HeadTailProperties, EmptySeq
    <2>4. /\ Head(batch[w]).tries \in Tries
          /\ Spendable(Head(batch[w]).tries)
      BY <2>3 DEF Doc, ClaimInv
    <2>5. Counted(Tried(Head(batch[w]).tries)) /\ Counted(Head(batch[w]).tries)
      BY <2>4, TriedCounted DEF Spendable
    <2> QED BY <2>1, <2>5, SoundRelease DEF Marked, MarkAsComplete, MarkAsFailed
  <1>5. CASE Swept(r)
    <2>1. row[r].tries \in Tries
      BY <1>1 DEF Row
    <2>2. Sound(UpdateResubmittedEvents(row[r]))
      BY <1>1, SoundRelease DEF UpdateResubmittedEvents, MovedTo, Sound
    <2>3. Sound(UpdateFailedEvents(row[r]))
      BY <1>1, SoundRelease DEF UpdateFailedEvents, MovedTo, Sound
    <2>4. Sound(UpdateDeadEvents(row[r]))
      BY <1>1, SoundRelease DEF UpdateDeadEvents, MovedTo, Sound
    <2>5. row[r].claim.overdue => Counted(Tried(row[r].tries))
      BY <1>1, <2>1, TriedCounted DEF Sound, Spendable
    <2>6. Sound(ProcessExpiredEvents(row[r]))
      BY <1>1, <2>5, SoundRelease DEF ProcessExpiredEvents
    <2> QED BY <1>5, <2>2, <2>3, <2>4, <2>6 DEF Swept, SweepRow, RowSweeps
  <1>6. CASE GivenUp(r)
    BY <1>1, <1>6, SoundRelease DEF GivenUp, DeadLettered, MovedTo, Sound
  <1>7. CASE TimedOut(r)
    BY <1>1, <1>7 DEF TimedOut, Overdue, Sound
  <1>8. CASE Redriven(r)
    BY <1>8, SoundNoTries DEF Redriven, RedriveUpdate, Sound, NoClaim
  <1>9. CASE Purged(r)
    BY <1>1, <1>9 DEF Purged, PurgeUpdate, Sound
  <1>10. CASE Edited(r)
    BY <1>1, <1>10 DEF Edited, EditUpdate, Sound
  <1> QED BY <1>1, <1>2, <1>3, <1>4, <1>5, <1>6, <1>7, <1>8, <1>9, <1>10 DEF RowChange

\* A copy is taken of a row with an attempt left, and is not changed after.
LEMMA SpendableBatch ==
    ASSUME TypeInv, ClaimInv, NEW w \in Workers, BatchChange(w),
           batch'[w] \in Seq(Doc), NEW i \in 1..Len(batch'[w])
    PROVE  Spendable(batch'[w][i].tries)
  <1>1. batch[w] \in Seq(Doc)
    BY DEF TypeInv, TypeOK
  <1>2. CASE batch'[w] = batch[w]
    BY <1>2 DEF ClaimInv
  <1>3. CASE batch'[w] = <<>>
    BY <1>3, EmptySeq
  <1>4. CASE pc[w] = "mark" /\ batch'[w] = Tail(batch[w])
    <2>1. batch[w] # <<>>
      BY <1>4 DEF TypeInv, Bookkeeping
    <2>2. batch'[w][i] = batch[w][i + 1] /\ i + 1 \in 1..Len(batch[w])
      BY <1>1, <1>4, <2>1, HeadTailProperties, LenProperties
    <2> QED BY <2>2 DEF ClaimInv
  <1>5. ASSUME NEW s \in Rows, IsAvailable(row[s]),
               batch'[w] = Append(batch[w], DocOf(s))
        PROVE  Spendable(batch'[w][i].tries)
    <2>1. /\ Len(batch'[w]) = Len(batch[w]) + 1 /\ Len(batch[w]) \in Nat
          /\ \A j \in 1..Len(batch[w]) : batch'[w][j] = batch[w][j]
          /\ batch'[w][Len(batch[w]) + 1] = DocOf(s)
      BY <1>1, <1>5
    <2>2. CASE i \in 1..Len(batch[w])
      BY <2>1, <2>2 DEF ClaimInv
    <2>3. CASE i = Len(batch[w]) + 1
      BY <1>5, <2>1, <2>3 DEF DocOf, IsAvailable, ClaimInv, Sound, Spendable
    <2> QED BY <2>1, <2>2, <2>3
  <1> QED BY <1>2, <1>3, <1>4, <1>5 DEF BatchChange

LEMMA ClaimStep == TypeInv /\ ClaimInv /\ [Next]_vars => ClaimInv'
  <1> SUFFICES ASSUME TypeInv, ClaimInv, [Next]_vars PROVE ClaimInv'
    OBVIOUS
  <1>1. TypeInv'
    BY TypeStep
  <1>2. ASSUME NEW r \in Rows PROVE Sound(row'[r])
    BY RowChanges, SoundRow
  <1>3. ASSUME NEW w \in Workers, NEW i \in 1..Len(batch'[w])
        PROVE  Spendable(batch'[w][i].tries)
    BY <1>1, BatchChanges, SpendableBatch DEF TypeInv, TypeOK
  <1> QED BY <1>2, <1>3 DEF ClaimInv, Sound, Spendable, Counted

LEMMA ClaimInit == Init => ClaimInv
  <1> SUFFICES ASSUME Init PROVE ClaimInv
    OBVIOUS
  <1>1. \A r \in Rows : Sound(row[r])
    BY SoundNoTries DEF Init, NewRow, NoClaim, Sound
  <1>2. \A w \in Workers : Len(batch[w]) = 0
    BY DEF Init
  <1> QED BY <1>1, <1>2 DEF ClaimInv

\* A row carries a claim exactly while it is PROCESSING and below the retry
\* cap, so that no sweep but the expiry sweep takes it from its handler.
THEOREM ClaimsLive == Spec => []ClaimsAreLive
  <1>1. Spec => [](TypeInv /\ ClaimInv)
    BY TypeInit, TypeStep, ClaimInit, ClaimStep, PTL DEF Spec
  <1>2. TypeInv /\ ClaimInv => ClaimsAreLive
    BY DEF ClaimInv, Sound, ClaimsAreLive
  <1> QED BY <1>1, <1>2, PTL

\* Counter and history agree, and no row is tried more often than the cap
\* allows, for every retry cap and every length of the history.
THEOREM AttemptsCounted == Spec => []AttemptsAreCounted
  <1>1. Spec => [](TypeInv /\ ClaimInv)
    BY TypeInit, TypeStep, ClaimInit, ClaimStep, PTL DEF Spec
  <1>2. TypeInv /\ ClaimInv => AttemptsAreCounted
    BY DEF ClaimInv, Sound, Counted, AttemptsAreCounted
  <1> QED BY <1>1, <1>2, PTL

-----------------------------------------------------------------------------
(***************************************************************************)
(* What one poller remembers changes only in its own steps.                *)
(***************************************************************************)
Keeps(w) ==
    /\ pc'[w] = pc[w] /\ token'[w] = token[w] /\ found'[w] = found[w]
    /\ batch'[w] = batch[w] /\ outcome'[w] = outcome[w]

LEMMA OthersKeep ==
    ASSUME TypeInv, [Next]_vars, NEW w \in Workers
    PROVE  WorkerStep(w) \/ FaultStep(w) \/ Keeps(w)
  <1>1. ASSUME NEW v \in Workers, v # w, WorkerStep(v)
        PROVE  Keeps(w)
    <2>1. CASE EndTick(v)
      BY <1>1, <2>1, EndTickType DEF Keeps
    <2>2. CASE GetNextAvailable(v)
      BY <1>1, <2>2 DEF GetNextAvailable, Keeps, TypeInv, TypeOK
    <2>3. CASE SetFifoLock(v)
      BY <1>1, <2>1, <2>3 DEF SetFifoLock, Keeps, TypeInv, TypeOK
    <2>4. CASE ClaimEvents(v)
      BY <1>1, <2>4 DEF ClaimEvents, Keeps, TypeInv, TypeOK
    <2>5. CASE HandleEvent(v)
      BY <1>1, <2>5 DEF HandleEvent, Keeps, TypeInv, TypeOK
    <2>6. CASE MarkEvent(v)
      BY <1>1, <2>6 DEF MarkEvent, Keeps, TypeInv, TypeOK
    <2>7. CASE FreeFifoLock(v)
      BY <1>1, <2>1, <2>7 DEF FreeFifoLock, Keeps, TypeInv, TypeOK
    <2>8. CASE Sweep(v)
      BY <1>1, <2>8 DEF Sweep, Keeps, TypeInv, TypeOK
    <2>9. CASE DeadLetterEvent(v) \/ CleanupStaleLocks(v)
      BY <2>1, <2>9 DEF DeadLetterEvent, CleanupStaleLocks
    <2> QED BY <1>1, <2>2, <2>3, <2>4, <2>5, <2>6, <2>7, <2>8, <2>9 DEF WorkerStep
  <1>2. ASSUME NEW v \in Workers, v # w, FaultStep(v)
        PROVE  Keeps(w)
    <2>1. CASE EndTick(v)
      BY <1>2, <2>1, EndTickType DEF Keeps
    <2>2. CASE ClaimThrows(v)
      BY <1>2, <2>2 DEF ClaimThrows, Keeps, TypeInv, TypeOK
    <2>3. CASE MarkThrows(v)
      BY <1>2, <2>3 DEF MarkThrows, Keeps, TypeInv, TypeOK
    <2>4. CASE Crash(v) \/ SweepThrows(v)
      BY <2>1, <2>4 DEF Crash, SweepThrows
    <2> QED BY <1>2, <2>2, <2>3, <2>4 DEF FaultStep
  <1>3. ASSUME UNCHANGED tickVars
        PROVE  Keeps(w)
    BY <1>3 DEF Keeps, tickVars
  <1>4. (\E r \in Rows : InsertOne(r) \/ ClaimTimesOut(r) \/ DeleteExpired(r))
          \/ (\E g \in Refs : LockGoesStale(g)) \/ OperatorStep \/ UNCHANGED vars
            => UNCHANGED tickVars
    BY DEF InsertOne, ClaimTimesOut, DeleteExpired, LockGoesStale, OperatorStep,
           RedriveById, PurgeById, OpenEditor, EditPayloadById, AbandonEdit, vars
  <1> QED BY <1>1, <1>2, <1>3, <1>4 DEF Next

-----------------------------------------------------------------------------
(***************************************************************************)
(* Completion.  A poller about to record a success holds a copy whose      *)
(* payload was delivered.                                                  *)
(***************************************************************************)
DeliveryInv ==
    /\ CompletedWasDelivered
    /\ \A w \in Workers : pc[w] = "mark" /\ outcome[w] = "ok" =>
           Head(batch[w]).payload \in delivered[Head(batch[w]).id]

LEMMA DeliveredGrows ==
    ASSUME TypeInv, [Next]_vars, NEW r \in Rows
    PROVE  delivered[r] \subseteq delivered'[r]
  <1>1. ASSUME NEW w \in Workers, HandleEvent(w)
        PROVE  delivered[r] \subseteq delivered'[r]
    BY <1>1 DEF HandleEvent, TypeInv, TypeOK
  <1>2. (\E w \in Workers : HandleEvent(w)) \/ UNCHANGED delivered
    BY DEF Next, vars, WorkerStep, FaultStep, OperatorStep, historyVars, GetNextAvailable,
           DeadLetterEvent, SetFifoLock, ClaimEvents, MarkEvent, FreeFifoLock, Sweep,
           CleanupStaleLocks, Crash, ClaimThrows, MarkThrows, SweepThrows, InsertOne,
           ClaimTimesOut, DeleteExpired, LockGoesStale, RedriveById, PurgeById,
           OpenEditor, EditPayloadById, AbandonEdit
  <1> QED BY <1>1, <1>2

\* A row that is COMPLETED after a step was delivered with its payload.
LEMMA CompletedRow ==
    ASSUME TypeInv, ClaimInv, DeliveryInv, [Next]_vars, NEW r \in Rows,
           row'[r].status = "COMPLETED"
    PROVE  row'[r].payload \in delivered'[r]
  <1>1. row[r] \in Row /\ Sound(row[r])
    BY DEF TypeInv, TypeOK, ClaimInv
  <1>2. SUFFICES row'[r].payload \in delivered[r]
    BY DeliveredGrows
  <1>3. CASE Written(r)
    <2>1. PICK w \in Workers : /\ pc[w] = "mark" /\ Head(batch[w]).id = r
                               /\ row'[r] = Marked(row[r], Head(batch[w]), outcome[w])
      BY <1>3 DEF Written
    <2>2. outcome[w] = "ok" /\ row'[r].payload = Head(batch[w]).payload
      BY <2>1 DEF Marked, MarkAsComplete, MarkAsFailed, Release
    <2> QED BY <2>1, <2>2 DEF DeliveryInv
  <1>4. CASE Swept(r)
    <2>1. PICK call \in RowSweeps : row'[r] = SweepRow(call, row[r])
      BY <1>4 DEF Swept
    <2>2. row[r].status = "COMPLETED"
      BY <2>1 DEF SweepRow, RowSweeps, UpdateResubmittedEvents, UpdateFailedEvents,
                  UpdateDeadEvents, ProcessExpiredEvents, MovedTo, Release
    <2> QED BY <1>1, <2>1, <2>2, SweepRowPayload DEF DeliveryInv, CompletedWasDelivered
  <1>5. CASE row'[r] = row[r]
    BY <1>5 DEF DeliveryInv, CompletedWasDelivered
  <1>6. ~(Inserted(r) \/ Taken(r) \/ Removed(r) \/ Redriven(r) \/ Purged(r) \/ Edited(r))
    <2>1. ~Inserted(r) /\ ~Removed(r)
      <3>1. /\ NewRow("PUBLISHED", FirstPayload[r]).status = "PUBLISHED"
            /\ NewRow("DELETED", None).status = "DELETED"
        BY DEF NewRow
      <3> QED BY <3>1 DEF Inserted, Removed
    <2>2. ~Taken(r)
      <3>1. \A w \in Workers : Claimed(row[r], token[w]).status = "PROCESSING"
        BY DEF Claimed
      <3> QED BY <3>1 DEF Taken
    <2>3. ~Redriven(r) /\ ~Purged(r)
      <3>1. /\ RedriveUpdate(row[r]).status = "RESUBMITTED"
            /\ PurgeUpdate(row[r]).status = "PURGED"
        BY DEF RedriveUpdate, PurgeUpdate
      <3> QED BY <3>1 DEF Redriven, Purged
    <2>4. ~Edited(r)
      <3>1. \A p \in Payloads : EditUpdate(row[r], p).status = row[r].status
        BY DEF EditUpdate
      <3> QED BY <3>1 DEF Edited, REDRIVABLE_STATUSES
    <2> QED BY <2>1, <2>2, <2>3, <2>4
  <1>7. ~TimedOut(r)
    BY <1>1 DEF TimedOut, Overdue, Sound
  <1>8. GivenUp(r) => row'[r] = row[r]
    BY DEF GivenUp, DeadLettered, MovedTo, Release
  <1> QED BY <1>3, <1>4, <1>5, <1>6, <1>7, <1>8, RowChanges DEF RowChange

LEMMA MarkingDelivered ==
    ASSUME TypeInv, DeliveryInv, [Next]_vars, NEW w \in Workers,
           pc'[w] = "mark", outcome'[w] = "ok"
    PROVE  Head(batch'[w]).payload \in delivered'[Head(batch'[w]).id]
  <1>1. CASE HandleEvent(w)
    <2>1. Head(batch[w]) \in Doc
      BY <1>1 DEF HandleEvent, TypeInv, TypeOK, Bookkeeping
    <2>2. batch' = batch /\ Head(batch[w]).id \in Rows
      BY <1>1, <2>1 DEF HandleEvent, Doc
    <2>3. delivered' = [delivered EXCEPT ![Head(batch[w]).id] =
                           @ \cup {Head(batch[w]).payload}]
      BY <1>1 DEF HandleEvent, TypeInv, TypeOK
    <2> QED BY <2>2, <2>3 DEF TypeInv, TypeOK
  <1>2. CASE Keeps(w)
    <2>1. Head(batch[w]) \in Doc
      BY <1>2 DEF Keeps, TypeInv, TypeOK, Bookkeeping
    <2>2. Head(batch[w]).id \in Rows
      BY <2>1 DEF Doc
    <2> QED BY <1>2, <2>2, DeliveredGrows DEF Keeps, DeliveryInv
  <1>3. CASE WorkerStep(w) /\ ~HandleEvent(w)
    <2>1. ~EndTick(w)
      BY EndTickType
    <2> QED BY <1>3, <2>1 DEF WorkerStep, GetNextAvailable, DeadLetterEvent, SetFifoLock,
               ClaimEvents, MarkEvent, FreeFifoLock, Sweep, CleanupStaleLocks, AfterSweep,
               RowSweeps, TypeInv, TypeOK
  <1>4. CASE FaultStep(w)
    <2>1. ~EndTick(w)
      BY EndTickType
    <2> QED BY <1>4, <2>1 DEF FaultStep, Crash, ClaimThrows, MarkThrows, SweepThrows,
               TypeInv, TypeOK
  <1> QED BY <1>1, <1>2, <1>3, <1>4, OthersKeep

LEMMA DeliveryStep == TypeInv /\ ClaimInv /\ DeliveryInv /\ [Next]_vars => DeliveryInv'
  BY CompletedRow, MarkingDelivered DEF DeliveryInv, CompletedWasDelivered

\* A row is recorded COMPLETED only with a payload that a handler succeeded
\* with, however late the write and whatever operators did meanwhile.
THEOREM CompletedDelivered == Spec => []CompletedWasDelivered
  <1>1. Init => DeliveryInv
    BY DEF Init, DeliveryInv, CompletedWasDelivered, NewRow
  <1>2. Spec => [](TypeInv /\ ClaimInv /\ DeliveryInv)
    BY <1>1, TypeInit, TypeStep, ClaimInit, ClaimStep, DeliveryStep, PTL DEF Spec
  <1>3. DeliveryInv => CompletedWasDelivered
    BY DEF DeliveryInv
  <1> QED BY <1>2, <1>3, PTL

-----------------------------------------------------------------------------
(***************************************************************************)
(* Finished rows.  Rows written through the model always have a            *)
(* segregationRef; for them no poller ever gets to deadLetterEvent.        *)
(***************************************************************************)
EveryRowHasRef == \A r \in Rows : SegregationRef[r] # None

Expiring(rw) == rw.expireAt <=> rw.status \in {"COMPLETED", "PURGED"}

FinishedInv ==
    /\ \A w \in Workers : pc[w] # "deadletter"
    /\ \A r \in Rows : Expiring(row[r])

LEMMA NoDeadLetter ==
    ASSUME EveryRowHasRef, TypeInv, [Next]_vars, NEW w \in Workers, pc[w] # "deadletter"
    PROVE  pc'[w] # "deadletter"
  <1>1. CASE Keeps(w)
    BY <1>1 DEF Keeps
  <1>2. CASE GetNextAvailable(w)
    BY <1>2 DEF GetNextAvailable, Earliest, NextMessages, EveryRowHasRef, TypeInv, TypeOK
  <1>3. CASE WorkerStep(w) /\ ~GetNextAvailable(w)
    <2>1. EndTick(w) => pc'[w] = "poll"
      BY EndTickType
    <2> QED BY <1>3, <2>1 DEF WorkerStep, DeadLetterEvent, SetFifoLock, ClaimEvents,
               HandleEvent, MarkEvent, FreeFifoLock, Sweep, CleanupStaleLocks, AfterSweep,
               RowSweeps, TypeInv, TypeOK
  <1>4. CASE FaultStep(w)
    <2>1. EndTick(w) => pc'[w] = "poll"
      BY EndTickType
    <2> QED BY <1>4, <2>1 DEF FaultStep, Crash, ClaimThrows, MarkThrows, SweepThrows,
               TypeInv, TypeOK
  <1> QED BY <1>1, <1>2, <1>3, <1>4, OthersKeep

LEMMA ExpiringRelease ==
    ASSUME NEW rw, NEW status, NEW tries, NEW payload, NEW expireAt \in BOOLEAN,
           expireAt <=> status \in {"COMPLETED", "PURGED"}
    PROVE  Expiring(Release(rw, status, tries, expireAt, payload))
  BY DEF Expiring, Release

LEMMA ExpiringRow ==
    ASSUME TypeInv, ClaimInv, FinishedInv, NEW r \in Rows, RowChange(r)
    PROVE  Expiring(row'[r])
  <1>1. row[r] \in Row /\ Sound(row[r]) /\ Expiring(row[r]) /\ row[r].expireAt \in BOOLEAN
    BY DEF TypeInv, TypeOK, ClaimInv, FinishedInv, Row
  <1>2. CASE Inserted(r) \/ Removed(r)
    BY <1>2 DEF Inserted, Removed, NewRow, Expiring
  <1>3. CASE Taken(r)
    <2>1. \A w \in Workers : IsAvailable(row[r]) => Expiring(Claimed(row[r], token[w]))
      BY <1>1 DEF Claimed, Expiring, IsAvailable
    <2> QED BY <1>3, <2>1 DEF Taken
  <1>4. CASE Written(r)
    <2>1. PICK w \in Workers : row'[r] = Marked(row[r], Head(batch[w]), outcome[w])
      BY <1>4 DEF Written
    <2>2. /\ Expiring(MarkAsComplete(row[r], Head(batch[w])))
          /\ Expiring(MarkAsFailed(row[r], Head(batch[w]), outcome[w]))
      BY ExpiringRelease DEF MarkAsComplete, MarkAsFailed
    <2> QED BY <2>1, <2>2 DEF Marked
  <1>5. CASE Swept(r)
    <2>1. Expiring(UpdateResubmittedEvents(row[r]))
      BY <1>1, ExpiringRelease DEF UpdateResubmittedEvents, MovedTo, Expiring
    <2>2. Expiring(UpdateFailedEvents(row[r]))
      BY <1>1, ExpiringRelease DEF UpdateFailedEvents, MovedTo, Expiring
    <2>3. Expiring(UpdateDeadEvents(row[r]))
      BY <1>1, ExpiringRelease DEF UpdateDeadEvents, MovedTo, Expiring, Terminal
    <2>4. Expiring(ProcessExpiredEvents(row[r]))
      BY <1>1, ExpiringRelease DEF ProcessExpiredEvents, Expiring, Terminal
    <2> QED BY <1>5, <2>1, <2>2, <2>3, <2>4 DEF Swept, SweepRow, RowSweeps
  <1>6. ~GivenUp(r)
    BY DEF GivenUp, FinishedInv
  <1>7. CASE TimedOut(r)
    BY <1>1, <1>7 DEF TimedOut, Overdue, Expiring
  <1>8. CASE Redriven(r)
    BY <1>8 DEF Redriven, RedriveUpdate, Expiring
  <1>9. CASE Purged(r)
    BY <1>9 DEF Purged, PurgeUpdate, Expiring
  <1>10. CASE Edited(r)
    <2>1. \A p \in Payloads : Expiring(EditUpdate(row[r], p))
      BY <1>1 DEF EditUpdate, Expiring
    <2> QED BY <1>10, <2>1 DEF Edited
  <1> QED BY <1>1, <1>2, <1>3, <1>4, <1>5, <1>6, <1>7, <1>8, <1>9, <1>10 DEF RowChange

LEMMA FinishedInductive ==
    ASSUME EveryRowHasRef
    PROVE  /\ Init => FinishedInv
           /\ TypeInv /\ ClaimInv /\ FinishedInv /\ [Next]_vars => FinishedInv'
  <1>1. Init => FinishedInv
    BY DEF Init, FinishedInv, Expiring, NewRow
  <1>2. TypeInv /\ ClaimInv /\ FinishedInv /\ [Next]_vars => FinishedInv'
    BY RowChanges, ExpiringRow, NoDeadLetter DEF FinishedInv, Expiring
  <1> QED BY <1>1, <1>2

\* In a box without legacy rows a deletion date is set exactly on the finished
\* rows, so retention never deletes a row that went back to work.
THEOREM OnlyFinishedExpire ==
    ASSUME EveryRowHasRef
    PROVE  Spec => []OnlyFinishedRowsExpire
  <1>1. Spec => [](TypeInv /\ ClaimInv /\ FinishedInv)
    BY TypeInit, TypeStep, ClaimInit, ClaimStep, FinishedInductive, PTL DEF Spec
  <1>2. FinishedInv => OnlyFinishedRowsExpire
    BY DEF FinishedInv, Expiring, OnlyFinishedRowsExpire
  <1> QED BY <1>1, <1>2, PTL

\* What any step may do to a finished row.
LEMMA FinishedRow ==
    ASSUME TypeInv, ClaimInv, FinishedInv, NEW r \in Rows, RowChange(r)
    PROVE  /\ row[r].status = "COMPLETED" => row'[r].status \in {"COMPLETED", "DELETED"}
           /\ row[r].status = "PURGED" =>
                 \/ row'[r].status \in {"PURGED", "DELETED"}
                 \/ /\ row'[r].status = "RESUBMITTED"
                    /\ row'[r].revision > row[r].revision
  <1> SUFFICES ASSUME row[r].status \in {"COMPLETED", "PURGED"}
               PROVE  \/ row'[r].status \in {row[r].status, "DELETED"}
                      \/ /\ row[r].status = "PURGED"
                         /\ row'[r].status = "RESUBMITTED"
                         /\ row'[r].revision > row[r].revision
    OBVIOUS
  <1>1. /\ row[r] \in Row /\ Sound(row[r])
        /\ row[r].status \notin {"PROCESSING", "PUBLISHED", "ABSENT", "DEAD_LETTER"}
    BY DEF TypeInv, TypeOK, ClaimInv
  <1>2. row[r].claim.by = None
    BY <1>1 DEF Sound
  <1>3. ~Inserted(r) /\ ~Taken(r) /\ ~TimedOut(r) /\ ~Purged(r) /\ ~GivenUp(r)
    BY <1>1, <1>2 DEF Inserted, Taken, IsAvailable, TimedOut, Purged, GivenUp, FinishedInv
  <1>4. ~Written(r)
    <2>1. ASSUME NEW w \in Workers, pc[w] = "mark" PROVE token[w] # None
      BY <2>1, BoxAssumption DEF TypeInv, Bookkeeping, HasRow
    <2> QED BY <1>2, <2>1 DEF Written
  <1>5. Swept(r) => row'[r] = row[r]
    BY <1>1, SweepRowPayload DEF Swept, Terminal
  <1>6. Removed(r) => row'[r].status = "DELETED"
    BY DEF Removed, NewRow
  <1>7. Redriven(r) => /\ row[r].status = "PURGED" /\ row'[r].status = "RESUBMITTED"
                       /\ row'[r].revision > row[r].revision
    <2>1. /\ RedriveUpdate(row[r]).status = "RESUBMITTED"
          /\ RedriveUpdate(row[r]).revision = row[r].revision + 1
          /\ row[r].revision \in Nat
      BY <1>1 DEF RedriveUpdate, Row
    <2> QED BY <2>1 DEF Redriven, REDRIVABLE_STATUSES
  <1>8. Edited(r) => row'[r].status = row[r].status
    <2>1. \A p \in Payloads : EditUpdate(row[r], p).status = row[r].status
      BY DEF EditUpdate
    <2> QED BY <2>1 DEF Edited
  <1> QED BY <1>3, <1>4, <1>5, <1>6, <1>7, <1>8 DEF RowChange

\* No sweep and no late writer brings a finished row back: a completed row is
\* only ever deleted, a purged one comes back by a redrive alone.
THEOREM FinishedStays ==
    ASSUME EveryRowHasRef
    PROVE  Spec => FinishedStaysFinished
  <1>1. Spec => [](TypeInv /\ ClaimInv /\ FinishedInv)
    BY TypeInit, TypeStep, ClaimInit, ClaimStep, FinishedInductive, PTL DEF Spec
  <1>2. TypeInv /\ ClaimInv /\ FinishedInv /\ [Next]_vars =>
          [\A r \in Rows :
             /\ row[r].status = "COMPLETED" => row'[r].status \in {"COMPLETED", "DELETED"}
             /\ row[r].status = "PURGED" =>
                   \/ row'[r].status \in {"PURGED", "DELETED"}
                   \/ row'[r].status = "RESUBMITTED"
                      /\ row'[r].revision > row[r].revision]_vars
    BY RowChanges, FinishedRow
  <1> QED BY <1>1, <1>2, PTL DEF Spec, FinishedStaysFinished

-----------------------------------------------------------------------------
(***************************************************************************)
(* Copies.  Pollers never share a token, and a row that carries a token    *)
(* still is what its poller read last.                                     *)
(***************************************************************************)
TokensDiffer ==
    \A v, w \in Workers : v # w /\ token[v] # None => token[v] # token[w]

CopyInv == TokensDiffer /\ NewestCopyIsCurrent

\* A poller's token changes only when its tick begins or ends.
LEMMA TokenChanges ==
    ASSUME TypeInv, [Next]_vars, NEW w \in Workers
    PROVE  \/ token'[w] = token[w]
           \/ token'[w] = None /\ batch'[w] = <<>>
           \/ /\ token'[w] \in FreshTokens /\ batch'[w] = <<>>
              /\ \A v \in Workers \ {w} : token'[v] = token[v]
  <1>1. EndTick(w) => token'[w] = None /\ batch'[w] = <<>>
    BY DEF EndTick, TypeInv, TypeOK
  <1>2. CASE GetNextAvailable(w)
    <2>1. batch[w] = <<>> /\ batch' = batch
      BY <1>2 DEF GetNextAvailable, TypeInv, Bookkeeping
    <2> QED BY <1>2, <2>1 DEF GetNextAvailable, TypeInv, TypeOK
  <1>3. CASE FreeFifoLock(w)
    <2>1. pc[w] = "free" => batch[w] = <<>>
      BY DEF TypeInv, Bookkeeping
    <2> QED BY <1>1, <1>3, <2>1 DEF FreeFifoLock, TypeInv, TypeOK
  <1>4. CASE WorkerStep(w) /\ ~GetNextAvailable(w) /\ ~FreeFifoLock(w)
    BY <1>1, <1>4 DEF WorkerStep, DeadLetterEvent, SetFifoLock, ClaimEvents, HandleEvent,
                      MarkEvent, Sweep, CleanupStaleLocks
  <1>5. CASE FaultStep(w)
    BY <1>1, <1>5 DEF FaultStep, Crash, ClaimThrows, MarkThrows, SweepThrows
  <1> QED BY <1>2, <1>3, <1>4, <1>5, OthersKeep DEF Keeps

LEMMA TokensStep ==
    ASSUME TypeInv, TokensDiffer, [Next]_vars
    PROVE  TokensDiffer'
  <1> SUFFICES ASSUME NEW v \in Workers, NEW w \in Workers, v # w, token'[v] # None
               PROVE  token'[v] # token'[w]
    BY DEF TokensDiffer
  <1>1. FreshTokens \cap {token[u] : u \in Workers} = {}
    BY DEF FreshTokens
  <1> QED BY <1>1, TokenChanges DEF TokensDiffer

\* Only a claim puts a token on a row, and while one is on it no other step
\* changes what a copy holds.
LEMMA KeepsCopy ==
    ASSUME TypeInv, ClaimInv, NEW r \in Rows, RowChange(r), ~Taken(r),
           row'[r].claim.by # None
    PROVE  /\ row'[r].claim.by = row[r].claim.by
           /\ row'[r].payload = row[r].payload
           /\ row'[r].tries = row[r].tries
  <1>1. row[r] \in Row /\ Sound(row[r])
    BY DEF TypeInv, TypeOK, ClaimInv
  <1>2. \A status, tries, expireAt, payload :
          Release(row[r], status, tries, expireAt, payload).claim.by = None
    BY DEF Release, NoClaim
  <1>3. ~Inserted(r) /\ ~Removed(r) /\ ~Redriven(r)
    BY DEF Inserted, Removed, Redriven, NewRow, RedriveUpdate, NoClaim
  <1>4. ~Written(r)
    <2>1. ASSUME NEW doc, NEW o PROVE Marked(row[r], doc, o).claim.by = None
      BY DEF Marked, MarkAsComplete, MarkAsFailed, Release, NoClaim
    <2> QED BY <2>1 DEF Written
  <1>5. Swept(r) => row'[r] = row[r]
    <2>1. UpdateResubmittedEvents(row[r]) = row[r]
            \/ UpdateResubmittedEvents(row[r]).claim.by = None
      BY <1>2 DEF UpdateResubmittedEvents, MovedTo
    <2>2. UpdateFailedEvents(row[r]) = row[r]
            \/ UpdateFailedEvents(row[r]).claim.by = None
      BY <1>2 DEF UpdateFailedEvents, MovedTo
    <2>3. UpdateDeadEvents(row[r]) = row[r] \/ UpdateDeadEvents(row[r]).claim.by = None
      BY <1>2 DEF UpdateDeadEvents, MovedTo
    <2>4. ProcessExpiredEvents(row[r]) = row[r]
            \/ ProcessExpiredEvents(row[r]).claim.by = None
      BY <1>2 DEF ProcessExpiredEvents
    <2> QED BY <2>1, <2>2, <2>3, <2>4 DEF Swept, SweepRow, RowSweeps
  <1>6. GivenUp(r) => row'[r] = row[r]
    BY <1>2 DEF GivenUp, DeadLettered, MovedTo
  <1>7. CASE TimedOut(r)
    BY <1>7 DEF TimedOut, Overdue
  <1>8. CASE Purged(r)
    BY <1>8 DEF Purged, PurgeUpdate
  <1>9. ~Edited(r)
    <2>1. \A p \in Payloads : EditUpdate(row[r], p).claim = row[r].claim
      BY DEF EditUpdate
    <2> QED BY <1>1, <2>1 DEF Edited, REDRIVABLE_STATUSES, Sound
  <1> QED BY <1>3, <1>4, <1>5, <1>6, <1>7, <1>8, <1>9 DEF RowChange

\* A row that carries a poller's token after a step the poller did not claim it
\* in carried it before, and holds what it held.
LEMMA KeepsOwnRow ==
    ASSUME TypeInv, ClaimInv, TokensDiffer, [Next]_vars, NEW w \in Workers,
           token[w] \in Tokens, NEW r \in Rows, row'[r].claim.by = token[w],
           batch'[w] # <<>>, pc[w] = "claim" => batch'[w] # Append(batch[w], DocOf(r))
    PROVE  /\ row[r].claim.by = token[w]
           /\ row'[r].payload = row[r].payload
           /\ row'[r].tries = row[r].tries
  <1>1. RowChange(r) /\ token[w] # None
    BY RowChanges, BoxAssumption
  <1>2. ~Taken(r)
    <2> SUFFICES ASSUME NEW v \in Workers, pc[v] = "claim",
                        row'[r] = Claimed(row[r], token[v]),
                        \/ batch'[v] = <<>>
                        \/ batch'[v] = Append(batch[v], DocOf(r))
                 PROVE  FALSE
      BY DEF Taken
    <2>1. token[v] = token[w]
      BY DEF Claimed
    <2>2. v = w
      BY <1>1, <2>1 DEF TokensDiffer
    <2> QED BY <2>2
  <1> QED BY <1>1, <1>2, KeepsCopy

LEMMA CopyStep ==
    ASSUME TypeInv, TypeInv', ClaimInv, CopyInv, [Next]_vars
    PROVE  NewestCopyIsCurrent'
  <1> SUFFICES ASSUME NEW w \in Workers, NEW i \in 1..Len(batch'[w]),
                      row'[batch'[w][i].id].claim.by = token'[w],
                      \A j \in 1..Len(batch'[w]) :
                         j > i => batch'[w][j].id # batch'[w][i].id
               PROVE  /\ batch'[w][i].payload = row'[batch'[w][i].id].payload
                      /\ batch'[w][i].tries = row'[batch'[w][i].id].tries
    BY DEF NewestCopyIsCurrent, IsCurrent
  <1> DEFINE doc == batch'[w][i]
             r == doc.id
  <1>1. /\ batch[w] \in Seq(Doc) /\ batch'[w] \in Seq(Doc) /\ batch'[w] # <<>>
        /\ doc \in Doc /\ r \in Rows
    <2>1. batch[w] \in Seq(Doc) /\ batch'[w] \in Seq(Doc)
      BY DEF TypeInv, TypeOK
    <2>2. batch'[w] # <<>>
      BY EmptySeq
    <2>3. doc \in Doc
      BY <2>1
    <2>4. r \in Rows
      BY <2>3 DEF Doc
    <2> QED BY <2>1, <2>2, <2>3, <2>4
  <1>2. token'[w] = token[w] /\ token[w] \in Tokens
    <2>1. token'[w] \in Tokens
      BY <1>1 DEF TypeInv, Bookkeeping, HasRow
    <2> QED BY <1>1, <2>1, TokenChanges
  <1>3. ASSUME NEW k \in 1..Len(batch[w]), batch[w][k] = doc,
               \A j \in 1..Len(batch[w]) : j > k => batch[w][j].id # r,
               pc[w] = "claim" => batch'[w] # Append(batch[w], DocOf(r))
        PROVE  doc.payload = row'[r].payload /\ doc.tries = row'[r].tries
    <2>1. /\ row[r].claim.by = token[w]
          /\ row'[r].payload = row[r].payload /\ row'[r].tries = row[r].tries
      BY <1>1, <1>2, <1>3, KeepsOwnRow DEF CopyInv
    <2>2. IsCurrent(batch[w][k])
      BY <1>3, <2>1 DEF CopyInv, NewestCopyIsCurrent
    <2> QED BY <1>3, <2>1, <2>2 DEF IsCurrent
  <1>4. CASE batch'[w] = batch[w]
    <2>1. batch'[w] # Append(batch[w], DocOf(r))
      <3>1. Len(Append(batch[w], DocOf(r))) = Len(batch[w]) + 1 /\ Len(batch[w]) \in Nat
        BY <1>1
      <3> QED BY <1>4, <3>1
    <2> QED BY <1>3, <1>4, <2>1
  <1>5. ASSUME pc[w] = "mark", batch'[w] = Tail(batch[w])
        PROVE  doc.payload = row'[r].payload /\ doc.tries = row'[r].tries
    <2>1. batch[w] # <<>>
      BY <1>5 DEF TypeInv, Bookkeeping
    <2>2. /\ Len(batch'[w]) = Len(batch[w]) - 1 /\ Len(batch[w]) \in Nat
          /\ \A j \in 1..Len(batch'[w]) : batch'[w][j] = batch[w][j + 1]
      BY <1>1, <1>5, <2>1, HeadTailProperties, LenProperties
    <2>3. i + 1 \in 1..Len(batch[w]) /\ batch[w][i + 1] = doc
      BY <2>2
    <2>4. ASSUME NEW j \in 1..Len(batch[w]), j > i + 1
          PROVE  batch[w][j].id # r
      <3>1. j - 1 \in 1..Len(batch'[w]) /\ j - 1 > i /\ (j - 1) + 1 = j
        BY <2>2, <2>4
      <3> QED BY <2>2, <3>1
    <2>5. pc[w] # "claim"
      BY <1>5
    <2> HIDE DEF doc, r
    <2> QED BY <1>3, <2>3, <2>4, <2>5
  <1>6. ASSUME NEW s \in Rows, row'[s] = Claimed(row[s], token[w]),
               batch'[w] = Append(batch[w], DocOf(s))
        PROVE  doc.payload = row'[r].payload /\ doc.tries = row'[r].tries
    <2>1. /\ Len(batch'[w]) = Len(batch[w]) + 1 /\ Len(batch[w]) \in Nat
          /\ \A j \in 1..Len(batch[w]) : batch'[w][j] = batch[w][j]
          /\ batch'[w][Len(batch[w]) + 1] = DocOf(s)
      BY <1>1, <1>6
    <2>2. DocOf(s).id = s
      BY DEF DocOf
    <2>3. CASE i = Len(batch[w]) + 1
      BY <1>6, <2>1, <2>3 DEF DocOf, Claimed
    <2>4. CASE i \in 1..Len(batch[w])
      <3>1. Len(batch[w]) + 1 \in 1..Len(batch'[w]) /\ Len(batch[w]) + 1 > i
        BY <2>1, <2>4
      <3>2. r # s
        BY <2>1, <2>2, <3>1
      <3>3. DocOf(r) # DocOf(s)
        BY <3>2 DEF DocOf
      <3>4. Append(batch[w], DocOf(r))[Len(batch[w]) + 1] = DocOf(r)
        BY <1>1
      <3>5. batch'[w] # Append(batch[w], DocOf(r))
        BY <2>1, <3>3, <3>4
      <3>6. \A j \in 1..Len(batch[w]) : j > i => batch[w][j].id # r
        BY <2>1
      <3>7. batch[w][i] = doc
        BY <2>1, <2>4
      <3> HIDE DEF doc, r
      <3> QED BY <1>3, <2>4, <3>5, <3>6, <3>7
    <2> QED BY <2>1, <2>3, <2>4
  <1>7. BatchChange(w)
    BY BatchChanges
  <1> QED BY <1>1, <1>4, <1>5, <1>6, <1>7 DEF BatchChange

\* The write of a poller's newest copy is made from the row as it is stored:
\* it neither undoes an edit nor counts an attempt from a stale total.
THEOREM NewestCopyCurrent == Spec => []NewestCopyIsCurrent
  <1>1. Init => TypeInv /\ ClaimInv
    BY TypeInit, ClaimInit
  <1>2. Init => CopyInv
    <2>1. Len(<<>>) = 0
      OBVIOUS
    <2> QED BY <2>1 DEF Init, CopyInv, TokensDiffer, NewestCopyIsCurrent
  <1>3. TypeInv /\ ClaimInv /\ CopyInv /\ [Next]_vars
          => TypeInv' /\ ClaimInv' /\ CopyInv'
    BY TypeStep, ClaimStep, CopyStep, TokensStep DEF CopyInv
  <1>4. CopyInv => NewestCopyIsCurrent
    BY DEF CopyInv
  <1> QED BY <1>1, <1>2, <1>3, <1>4, PTL DEF Spec

\* What every fenced write of a poller relies on, for every set of rows, pollers
\* and operators: live claims, counted attempts and a current newest copy.
THEOREM RowsSound == Spec => []RowsAreSound
  <1>1. ClaimsAreLive /\ AttemptsAreCounted /\ NewestCopyIsCurrent => RowsAreSound
    BY DEF RowsAreSound
  <1> QED BY <1>1, ClaimsLive, AttemptsCounted, NewestCopyCurrent, PTL

-----------------------------------------------------------------------------
(***************************************************************************)
(* Mutual exclusion.  The FIFO lock names no owner, so all it can promise  *)
(* is that a poller at work finds its own lock held; that lasts while no   *)
(* lock goes stale, because only its holder frees a lock that is not.      *)
(***************************************************************************)
LockInv ==
    /\ \A g \in Refs : lock[g] # "stale"
    /\ \A w \in Workers : Working(w) => lock[Ref(w)] = "held"
    /\ OnePollerPerRef

\* v is at work only if it was, on the same row.
SameWork(v) == Working(v)' => Working(v) /\ found'[v] = found[v]

TakesLock(w) ==
    /\ lock[Ref(w)] = "free"
    /\ lock' = [lock EXCEPT ![Ref(w)] = "held"]
    /\ found'[w] = found[w] /\ Ref(w) \in Refs
    /\ \A v \in Workers \ {w} : SameWork(v)

GivesLock(w) ==
    /\ Working(w) /\ ~Working(w)'
    /\ lock' = [lock EXCEPT ![Ref(w)] = "free"]
    /\ \A v \in Workers \ {w} : SameWork(v)

\* With no deadline passing, a step takes one lock, gives one back, or leaves
\* the locks and everyone's work as they are.
LEMMA LockMoves ==
    ASSUME TypeInv, LockInv, ~DeadlinesPass, [Next]_vars
    PROVE  \/ lock' = lock /\ \A v \in Workers : SameWork(v)
           \/ \E w \in Workers : TakesLock(w) \/ GivesLock(w)
  <1> USE DEF SameWork, Working
  <1>1. ASSUME NEW w \in Workers, EndTick(w)
        PROVE  \A v \in Workers : SameWork(v) /\ ~Working(w)'
    BY <1>1, EndTickType
  <1>2. ASSUME NEW w \in Workers, SetFifoLock(w)
        PROVE  TakesLock(w) \/ (lock' = lock /\ \A v \in Workers : SameWork(v))
    <2>1. pc[w] = "lock" /\ Ref(w) \in Refs
      BY <1>2 DEF SetFifoLock, TypeInv, Bookkeeping, HasRow, Ref
    <2>2. CASE EndTick(w) /\ UNCHANGED lock
      BY <1>1, <2>2
    <2>3. CASE /\ lock[Ref(w)] = "free"
               /\ lock' = [lock EXCEPT ![Ref(w)] = "held"]
               /\ pc' = [pc EXCEPT ![w] = "claim"]
               /\ UNCHANGED found
      <3>1. \A v \in Workers \ {w} : SameWork(v)
        BY <2>3 DEF TypeInv, TypeOK
      <3> QED BY <2>1, <2>3, <3>1 DEF TakesLock
    <2> QED BY <1>2, <2>2, <2>3 DEF SetFifoLock
  <1>3. ASSUME NEW w \in Workers, FreeFifoLock(w)
        PROVE  GivesLock(w)
    BY <1>1, <1>3 DEF FreeFifoLock, GivesLock, TypeInv, TypeOK
  <1>4. ASSUME NEW w \in Workers, CleanupStaleLocks(w)
        PROVE  lock' = lock /\ \A v \in Workers : SameWork(v)
    BY <1>1, <1>4 DEF CleanupStaleLocks, LockInv, TypeInv, TypeOK
  <1>5. ASSUME NEW w \in Workers, WorkerStep(w),
               ~SetFifoLock(w), ~FreeFifoLock(w), ~CleanupStaleLocks(w)
        PROVE  lock' = lock /\ \A v \in Workers : SameWork(v)
    BY <1>1, <1>5 DEF WorkerStep, GetNextAvailable, DeadLetterEvent, ClaimEvents,
       HandleEvent, MarkEvent, Sweep, RowSweeps, AfterSweep, TypeInv, TypeOK
  <1>6. ASSUME NEW w \in Workers, FaultStep(w)
        PROVE  lock' = lock /\ \A v \in Workers : SameWork(v)
    BY <1>1, <1>6 DEF FaultStep, Crash, ClaimThrows, MarkThrows, SweepThrows,
       TypeInv, TypeOK
  <1>7. ASSUME UNCHANGED <<lock, tickVars>>
        PROVE  lock' = lock /\ \A v \in Workers : SameWork(v)
    BY <1>7 DEF tickVars
  <1>8. CASE \/ \E r \in Rows : InsertOne(r) \/ ClaimTimesOut(r) \/ DeleteExpired(r)
             \/ \E g \in Refs : LockGoesStale(g)
             \/ OperatorStep \/ UNCHANGED vars
    BY <1>7, <1>8 DEF InsertOne, ClaimTimesOut, DeleteExpired, LockGoesStale, OperatorStep,
       RedriveById, PurgeById, OpenEditor, EditPayloadById, AbandonEdit, vars
  <1> QED BY <1>2, <1>3, <1>4, <1>5, <1>6, <1>8 DEF Next

LEMMA LockStep ==
    ASSUME TypeInv, LockInv, ~DeadlinesPass, [Next]_vars
    PROVE  LockInv'
  <1>1. lock \in [Refs -> {"free", "held", "stale"}]
    BY DEF TypeInv, TypeOK
  <1>2. \A v \in Workers : Working(v) => Ref(v) \in Refs
    BY DEF TypeInv, Bookkeeping, HasRow, Working, Ref
  <1>3. \A v \in Workers : found'[v] = found[v] => Ref(v)' = Ref(v)
    BY DEF Ref
  <1>4. CASE lock' = lock /\ \A v \in Workers : SameWork(v)
    BY <1>3, <1>4 DEF LockInv, SameWork, OnePollerPerRef
  <1>5. ASSUME NEW w \in Workers, TakesLock(w)
        PROVE  LockInv'
    BY <1>1, <1>2, <1>3, <1>5 DEF LockInv, SameWork, OnePollerPerRef, TakesLock
  <1>6. ASSUME NEW w \in Workers, GivesLock(w)
        PROVE  LockInv'
    BY <1>1, <1>2, <1>3, <1>6 DEF LockInv, SameWork, OnePollerPerRef, GivesLock
  <1> QED BY <1>4, <1>5, <1>6, LockMoves

\* Where no claim outlives its time, two pollers are never at work on events of
\* one segregationRef, through crashes, failing calls and partial sweeps.  (The
\* lock has no owner, so past a deadline this is lost: see ProcessedInOrder.)
THEOREM LocksExclude ==
    ASSUME ~DeadlinesPass
    PROVE  Spec => []OnePollerPerRef
  <1>1. Init => TypeInv /\ LockInv
    <2>1. Init => LockInv
      BY DEF Init, LockInv, OnePollerPerRef, Working
    <2> QED BY <2>1, TypeInit
  <1>2. TypeInv /\ LockInv /\ [Next]_vars => TypeInv' /\ LockInv'
    BY TypeStep, LockStep
  <1>3. LockInv => OnePollerPerRef
    BY DEF LockInv
  <1> QED BY <1>1, <1>2, <1>3, PTL DEF Spec

-----------------------------------------------------------------------------
(***************************************************************************)
(* Edits.  A copy whose payload is not the first one was taken of a row    *)
(* that had kept the first one, and a row keeps it until it is deleted.    *)
(***************************************************************************)
Kept(r, rw) ==
    /\ rw.status = "ABSENT" => rw.original = None
    /\ rw.status \notin NoDocument =>
          /\ rw.original \in {None, FirstPayload[r]}
          /\ rw.payload # FirstPayload[r] => rw.original = FirstPayload[r]

KeepsFirst(r, rw) == rw.original = FirstPayload[r] \/ rw.status = "DELETED"

CopyKept(doc) ==
    doc.payload # FirstPayload[doc.id] => KeepsFirst(doc.id, row[doc.id])

OriginalInv ==
    /\ \A r \in Rows : Kept(r, row[r])
    /\ \A w \in Workers : \A i \in 1..Len(batch[w]) : CopyKept(batch[w][i])

\* A deleted row stays deleted.
LEMMA DeletedStays ==
    ASSUME TypeInv, ClaimInv, NEW r \in Rows, row[r].status = "DELETED", RowChange(r)
    PROVE  row'[r].status = "DELETED"
  <1>1. row[r] \in Row /\ row[r].claim.by = None
    BY DEF TypeInv, TypeOK, ClaimInv, Sound
  <1>2. ~Inserted(r) /\ ~Taken(r) /\ ~TimedOut(r) /\ ~Removed(r) /\ ~Redriven(r)
          /\ ~Purged(r) /\ ~Edited(r)
    BY <1>1 DEF Inserted, Taken, IsAvailable, TimedOut, Removed, Redriven, Purged, Edited,
                REDRIVABLE_STATUSES
  <1>3. ~Written(r)
    <2>1. ASSUME NEW w \in Workers, pc[w] = "mark" PROVE token[w] # None
      BY <2>1, BoxAssumption DEF TypeInv, Bookkeeping, HasRow
    <2> QED BY <1>1, <2>1 DEF Written
  <1>4. Swept(r) => row'[r] = row[r]
    BY <1>1, SweepRowPayload DEF Swept, NoDocument
  <1>5. GivenUp(r) => row'[r] = row[r]
    BY DEF GivenUp, DeadLettered, NoDocument
  <1> QED BY <1>2, <1>3, <1>4, <1>5 DEF RowChange

\* What a write of a poller leaves of the editor's columns.
LEMMA ReleaseKeeps ==
    ASSUME NEW rw, NEW status, NEW tries, NEW expireAt, NEW payload
    PROVE  /\ Release(rw, status, tries, expireAt, payload).original = rw.original
           /\ Release(rw, status, tries, expireAt, payload).revision = rw.revision
           /\ Release(rw, status, tries, expireAt, payload).payload = payload
           /\ Release(rw, status, tries, expireAt, payload).status = status
  BY DEF Release

\* The fenced write brings the copy's payload and no editor's column.
LEMMA MarkedKeeps ==
    ASSUME NEW rw, NEW doc, NEW o
    PROVE  /\ Marked(rw, doc, o).original = rw.original
           /\ Marked(rw, doc, o).revision = rw.revision
           /\ Marked(rw, doc, o).payload = doc.payload
           /\ Marked(rw, doc, o).status \in Statuses
  <1>1. CASE o = "ok"
    BY <1>1 DEF Marked, MarkAsComplete, Release, Statuses
  <1>2. CASE o # "ok"
    <2> DEFINE status == IF o = "permanent" THEN "DEAD_LETTER" ELSE "FAILED"
               tries  == Tried(doc.tries)
    <2>1. status \in Statuses
      BY DEF Statuses
    <2>2. Marked(rw, doc, o) = Release(rw, status, tries, FALSE, doc.payload)
      BY <1>2, Zenon DEF Marked, MarkAsFailed
    <2> HIDE DEF status, tries
    <2> QED BY <2>1, <2>2 DEF Release
  <1> QED BY <1>1, <1>2

\* Sweeps and claims change neither the payload nor what was kept of it.
Untouched(rw, new) ==
    /\ new.payload = rw.payload /\ new.original = rw.original /\ new.revision = rw.revision
    /\ rw.status \in NoDocument => new.status = rw.status
    /\ new.status \in NoDocument => rw.status \in NoDocument

LEMMA SweepKeeps ==
    ASSUME NEW rw \in Row, NEW call \in RowSweeps
    PROVE  Untouched(rw, SweepRow(call, rw))
  <1>1. Untouched(rw, UpdateResubmittedEvents(rw))
    BY ReleaseKeeps DEF Untouched, UpdateResubmittedEvents, MovedTo, NoDocument
  <1>2. Untouched(rw, UpdateFailedEvents(rw))
    BY ReleaseKeeps DEF Untouched, UpdateFailedEvents, MovedTo, NoDocument
  <1>3. Untouched(rw, UpdateDeadEvents(rw))
    BY ReleaseKeeps DEF Untouched, UpdateDeadEvents, MovedTo, NoDocument
  <1>4. Untouched(rw, ProcessExpiredEvents(rw))
    BY ReleaseKeeps DEF Untouched, ProcessExpiredEvents, NoDocument
  <1> QED BY <1>1, <1>2, <1>3, <1>4 DEF SweepRow, RowSweeps

\* Any step on a row that exists and is not deleted, but for an edit and a
\* poller's fenced write.
LEMMA QuietRow ==
    ASSUME TypeInv, ClaimInv, NEW r \in Rows, RowChange(r)
    PROVE  \/ row'[r] = row[r] \/ Inserted(r) \/ Written(r) \/ Removed(r) \/ Edited(r)
           \/ Redriven(r) \/ Purged(r)
           \/ Untouched(row[r], row'[r])
  <1>1. row[r] \in Row
    BY DEF TypeInv, TypeOK
  <1>2. Taken(r) => Untouched(row[r], row'[r])
    BY DEF Taken, Claimed, Untouched, IsAvailable, NoDocument
  <1>3. Swept(r) => Untouched(row[r], row'[r])
    BY <1>1, SweepKeeps DEF Swept
  <1>4. GivenUp(r) => Untouched(row[r], row'[r])
    BY ReleaseKeeps DEF GivenUp, DeadLettered, MovedTo, Untouched, NoDocument
  <1>5. TimedOut(r) => Untouched(row[r], row'[r])
    BY DEF TimedOut, Overdue, Untouched
  <1> QED BY <1>2, <1>3, <1>4, <1>5 DEF RowChange

LEMMA OriginalRow ==
    ASSUME TypeInv, ClaimInv, OriginalInv, NEW r \in Rows, RowChange(r)
    PROVE  /\ Kept(r, row'[r])
           /\ KeepsFirst(r, row[r]) => KeepsFirst(r, row'[r])
  <1>1. /\ Kept(r, row[r]) /\ Sound(row[r])
        /\ FirstPayload[r] \in Payloads /\ FirstPayload[r] # None
    BY BoxAssumption DEF OriginalInv, ClaimInv
  <1>2. CASE row'[r] = row[r] \/ Untouched(row[r], row'[r])
    BY <1>1, <1>2 DEF Kept, KeepsFirst, Untouched, NoDocument
  <1>3. CASE Inserted(r)
    BY <1>1, <1>3 DEF Inserted, NewRow, Kept, KeepsFirst, NoDocument
  <1>4. CASE Written(r)
    <2>1. PICK w \in Workers : /\ pc[w] = "mark" /\ Head(batch[w]).id = r
                               /\ row[r].claim.by = token[w]
                               /\ row'[r] = Marked(row[r], Head(batch[w]), outcome[w])
      BY <1>4 DEF Written
    <2>2. batch[w] \in Seq(Doc) /\ batch[w] # <<>> /\ token[w] # None
      BY <2>1, BoxAssumption DEF TypeInv, TypeOK, Bookkeeping, HasRow
    <2>3. Head(batch[w]) = batch[w][1] /\ 1 \in 1..Len(batch[w])
      BY <2>2, HeadTailProperties, EmptySeq
    <2>4. row[r].status = "PROCESSING"
      BY <2>1, <2>2, <1>1 DEF Sound
    <2>5. Head(batch[w]).payload # FirstPayload[r] => row[r].original = FirstPayload[r]
      BY <2>1, <2>3, <2>4 DEF OriginalInv, CopyKept, KeepsFirst
    <2>6. /\ row'[r].payload = Head(batch[w]).payload /\ row'[r].original = row[r].original
          /\ row'[r].status \notin NoDocument
      BY <2>1, MarkedKeeps DEF Statuses, NoDocument
    <2> QED BY <1>1, <2>4, <2>5, <2>6 DEF Kept, KeepsFirst, NoDocument
  <1>5. CASE Removed(r)
    BY <1>5 DEF Removed, NewRow, Kept, KeepsFirst, NoDocument
  <1>6. CASE Redriven(r)
    BY <1>1, <1>6 DEF Redriven, RedriveUpdate, REDRIVABLE_STATUSES, Kept, KeepsFirst, NoDocument
  <1>7. CASE Purged(r)
    BY <1>1, <1>7 DEF Purged, PurgeUpdate, Kept, KeepsFirst, NoDocument
  <1>8. CASE Edited(r)
    <2>1. PICK p \in Payloads : row'[r] = EditUpdate(row[r], p)
      BY <1>8 DEF Edited
    <2>2. row[r].status \in REDRIVABLE_STATUSES
      BY <1>8 DEF Edited
    <2>3. /\ row'[r].status = row[r].status
          /\ row'[r].original = IF row[r].original = None THEN row[r].payload ELSE row[r].original
      BY <2>1 DEF EditUpdate
    <2> QED BY <1>1, <2>2, <2>3 DEF REDRIVABLE_STATUSES, Kept, KeepsFirst, NoDocument
  <1> QED BY <1>2, <1>3, <1>4, <1>5, <1>6, <1>7, <1>8, QuietRow

LEMMA OriginalBatch ==
    ASSUME TypeInv, ClaimInv, OriginalInv, NEW w \in Workers, BatchChange(w),
           batch'[w] \in Seq(Doc), NEW i \in 1..Len(batch'[w]),
           \A r \in Rows : KeepsFirst(r, row[r]) => KeepsFirst(r, row'[r])
    PROVE  CopyKept(batch[w][i])'
  <1>1. batch[w] \in Seq(Doc) /\ batch'[w][i] \in Doc /\ batch'[w][i].id \in Rows
    <2>1. batch[w] \in Seq(Doc)
      BY DEF TypeInv, TypeOK
    <2>2. batch'[w][i] \in Doc
      BY ElementOfSeq
    <2> QED BY <2>1, <2>2 DEF Doc
  <1>2. ASSUME NEW j \in 1..Len(batch[w]), batch'[w][i] = batch[w][j]
        PROVE  CopyKept(batch[w][i])'
    BY <1>1, <1>2 DEF OriginalInv, CopyKept
  <1>3. CASE batch'[w] = batch[w]
    BY <1>2, <1>3
  <1>4. CASE batch'[w] = <<>>
    BY <1>4, EmptySeq
  <1>5. CASE pc[w] = "mark" /\ batch'[w] = Tail(batch[w])
    <2>1. batch[w] # <<>>
      BY <1>5 DEF TypeInv, Bookkeeping
    <2>2. batch'[w][i] = batch[w][i + 1] /\ i + 1 \in 1..Len(batch[w])
      BY <1>1, <1>5, <2>1, HeadTailProperties, LenProperties
    <2> QED BY <1>2, <2>2
  <1>6. ASSUME NEW s \in Rows, IsAvailable(row[s]), batch'[w] = Append(batch[w], DocOf(s))
        PROVE  CopyKept(batch[w][i])'
    <2>1. /\ Len(batch'[w]) = Len(batch[w]) + 1 /\ Len(batch[w]) \in Nat
          /\ \A j \in 1..Len(batch[w]) : batch'[w][j] = batch[w][j]
          /\ batch'[w][Len(batch[w]) + 1] = DocOf(s)
      BY <1>1, <1>6
    <2>2. CASE i \in 1..Len(batch[w])
      BY <1>2, <2>1, <2>2
    <2>3. CASE i = Len(batch[w]) + 1
      <3>1. batch'[w][i].id = s /\ batch'[w][i].payload = row[s].payload
        BY <2>1, <2>3 DEF DocOf
      <3>2. row[s].payload # FirstPayload[s] => KeepsFirst(s, row[s])
        BY <1>6 DEF OriginalInv, Kept, KeepsFirst, IsAvailable, NoDocument
      <3> QED BY <3>1, <3>2 DEF CopyKept
    <2> QED BY <2>1, <2>2, <2>3
  <1> QED BY <1>3, <1>4, <1>5, <1>6 DEF BatchChange

LEMMA OriginalStep == TypeInv /\ ClaimInv /\ OriginalInv /\ [Next]_vars => OriginalInv'
  <1> SUFFICES ASSUME TypeInv, ClaimInv, OriginalInv, [Next]_vars PROVE OriginalInv'
    OBVIOUS
  <1>1. TypeInv'
    BY TypeStep
  <1>2. \A r \in Rows : /\ Kept(r, row'[r])
                        /\ KeepsFirst(r, row[r]) => KeepsFirst(r, row'[r])
    BY RowChanges, OriginalRow
  <1>3. ASSUME NEW w \in Workers, NEW i \in 1..Len(batch'[w])
        PROVE  CopyKept(batch[w][i])'
    BY <1>1, <1>2, BatchChanges, OriginalBatch DEF TypeInv, TypeOK
  <1> QED BY <1>2, <1>3 DEF OriginalInv, Kept

\* However a row is edited, purged, redriven and written by late pollers, the
\* payload it arrived with is not lost while the row is there.
THEOREM OriginalsKept == Spec => []OriginalIsKept
  <1>1. Init => OriginalInv
    BY DEF Init, OriginalInv, Kept, NewRow, NoDocument
  <1>2. Spec => [](TypeInv /\ ClaimInv /\ OriginalInv)
    BY <1>1, TypeInit, TypeStep, ClaimInit, ClaimStep, OriginalStep, PTL DEF Spec
  <1>3. OriginalInv => OriginalIsKept
    BY DEF OriginalInv, Kept, OriginalIsKept
  <1> QED BY <1>2, <1>3, PTL

-----------------------------------------------------------------------------
(***************************************************************************)
(* Editors.  A revision only grows while the row is there, so an editor    *)
(* that no longer shows its row holds a revision the row has passed.       *)
(***************************************************************************)
EditorSound(ed) ==
    ed.row # None =>
        /\ row[ed.row].status # "ABSENT"
        /\ \/ row[ed.row].status = "DELETED"
           \/ row[ed.row].revision > ed.revision
           \/ row[ed.row].revision = ed.revision /\ ed.fresh

EditorInv == \A e \in Operators : EditorSound(editor[e])

\* What a step does to an editor.
EditorChange(e) ==
    \/ editor'[e] = editor[e]
    \/ editor'[e].row = None
    \/ \E r \in Rows : /\ row[r].status \notin NoDocument /\ row'[r] = row[r]
                       /\ editor'[e] = [row |-> r, revision |-> row[r].revision, fresh |-> TRUE]
    \/ /\ editor[e].row \in Rows
       /\ editor'[e].row = editor[e].row /\ editor'[e].revision = editor[e].revision
       /\ row[editor[e].row].status \in REDRIVABLE_STATUSES
       /\ row'[editor[e].row].status \notin NoDocument
       /\ row'[editor[e].row].revision = row[editor[e].row].revision + 1

\* A step that does not delete a row never lowers its revision.
LEMMA RevisionsGrow ==
    ASSUME TypeInv, ClaimInv, NEW r \in Rows, RowChange(r), row[r].status # "ABSENT"
    PROVE  \/ row'[r].status = "DELETED"
           \/ /\ row[r].status # "DELETED" /\ row'[r].status # "ABSENT"
              /\ row'[r].revision >= row[r].revision
  <1>1. row[r] \in Row /\ row[r].revision \in Nat
    BY DEF TypeInv, TypeOK, Row
  <1>2. CASE row[r].status = "DELETED"
    BY <1>2, DeletedStays
  <1>3. CASE row[r].status # "DELETED" /\ (row'[r] = row[r] \/ Untouched(row[r], row'[r]))
    BY <1>1, <1>3 DEF Untouched, NoDocument
  <1>4. CASE Written(r)
    <2>1. PICK w \in Workers : row'[r] = Marked(row[r], Head(batch[w]), outcome[w])
      BY <1>4 DEF Written
    <2>2. row'[r].revision = row[r].revision /\ row'[r].status # "ABSENT"
      BY <2>1, MarkedKeeps DEF Statuses
    <2> QED BY <2>2, <1>1, <1>2
  <1>5. CASE Removed(r)
    BY <1>5 DEF Removed, NewRow
  <1>6. CASE Redriven(r)
    BY <1>1, <1>2, <1>6 DEF Redriven, RedriveUpdate
  <1>7. CASE Purged(r)
    BY <1>1, <1>2, <1>7 DEF Purged, PurgeUpdate
  <1>8. CASE Edited(r)
    <2>1. PICK p \in Payloads : row'[r] = EditUpdate(row[r], p)
      BY <1>8 DEF Edited
    <2>2. row'[r].revision = row[r].revision + 1 /\ row'[r].status = row[r].status
      BY <2>1 DEF EditUpdate
    <2> QED BY <2>2, <1>1, <1>2
  <1>9. ~Inserted(r)
    BY DEF Inserted
  <1> QED BY <1>2, <1>3, <1>4, <1>5, <1>6, <1>7, <1>8, <1>9, QuietRow

\* An operation on r makes every editor open on it stale, by a new revision.
LEMMA OutdatedEditors ==
    ASSUME TypeInv, NEW r \in Rows, NEW rw \in Row, row' = [row EXCEPT ![r] = rw],
           rw.revision = row[r].revision + 1, rw.status \notin NoDocument,
           row[r].status \in REDRIVABLE_STATUSES, NEW e \in Operators,
           \/ editor'[e].row = None
           \/ editor[e].row = r /\ editor'[e] = [editor[e] EXCEPT !.fresh = FALSE]
           \/ editor'[e] = editor[e]
    PROVE  EditorChange(e)
  <1>1. row'[r] = rw /\ editor[e] \in [row : Rows \cup {None}, revision : Nat, fresh : BOOLEAN]
    BY DEF TypeInv, TypeOK
  <1> QED BY <1>1 DEF EditorChange

LEMMA EditorChanges ==
    ASSUME TypeInv, [Next]_vars, NEW e \in Operators
    PROVE  EditorChange(e)
  <1>1. CASE UNCHANGED editor
    BY <1>1 DEF EditorChange
  <1>2. ASSUME NEW r \in Rows, RedriveById(r)
        PROVE  EditorChange(e)
    <2>1. PICK rw \in Row : rw = RedriveUpdate(row[r])
      <3>1. row[r] \in Row /\ row[r].payload \in Payloads
        BY <1>2 DEF RedriveById, REDRIVABLE_STATUSES, Statuses, TypeInv, TypeOK, Bookkeeping
      <3> QED BY <3>1, OperatorUpdateType DEF RedriveUpdate
    <2>2. rw.revision = row[r].revision + 1 /\ rw.status \notin NoDocument
      BY <2>1 DEF RedriveUpdate, NoDocument
    <2>3. \/ editor[e].row = r /\ editor'[e] = [editor[e] EXCEPT !.fresh = FALSE]
          \/ editor'[e] = editor[e]
      BY <1>2 DEF RedriveById, Outdate
    <2> QED BY <1>2, <2>1, <2>2, <2>3, OutdatedEditors DEF RedriveById
  <1>3. ASSUME NEW r \in Rows, PurgeById(r)
        PROVE  EditorChange(e)
    <2>1. row[r] \in Row /\ row[r].payload \in Payloads
      BY <1>3 DEF PurgeById, Statuses, TypeInv, TypeOK, Bookkeeping
    <2>2. PICK rw \in Row : rw = PurgeUpdate(row[r])
      BY <2>1, OperatorUpdateType DEF PurgeUpdate
    <2>3. rw.revision = row[r].revision + 1 /\ rw.status \notin NoDocument
      BY <2>2 DEF PurgeUpdate, NoDocument
    <2>4. \/ editor[e].row = r /\ editor'[e] = [editor[e] EXCEPT !.fresh = FALSE]
          \/ editor'[e] = editor[e]
      BY <1>3 DEF PurgeById, Outdate
    <2> QED BY <1>3, <2>2, <2>3, <2>4, OutdatedEditors DEF PurgeById, REDRIVABLE_STATUSES
  <1>4. ASSUME NEW o \in Operators, NEW p \in Payloads, EditPayloadById(o, p)
        PROVE  EditorChange(e)
    <2> DEFINE r == editor[o].row
    <2>1. r \in Rows /\ row[r] \in Row
      BY <1>4 DEF EditPayloadById, TypeInv, TypeOK
    <2>2. /\ row[r].status \in REDRIVABLE_STATUSES
          /\ row' = [row EXCEPT ![r] = EditUpdate(row[r], p)]
          /\ CloseEditor(o, r)
      BY <1>4 DEF EditPayloadById, IsEditable
    <2> HIDE DEF r
    <2>3. PICK rw \in Row : rw = EditUpdate(row[r], p)
      BY <2>1, <1>4, OperatorUpdateType DEF EditUpdate, TypeInv, TypeOK
    <2>4. rw.revision = row[r].revision + 1 /\ rw.status \notin NoDocument
      BY <2>2, <2>3 DEF EditUpdate, NoDocument, REDRIVABLE_STATUSES
    <2>5. \/ editor'[e].row = None
          \/ editor[e].row = r /\ editor'[e] = [editor[e] EXCEPT !.fresh = FALSE]
          \/ editor'[e] = editor[e]
      BY <2>2 DEF CloseEditor
    <2> QED BY <2>1, <2>2, <2>3, <2>4, <2>5, OutdatedEditors
  <1>5. ASSUME NEW o \in Operators, NEW r \in Rows, OpenEditor(o, r)
        PROVE  EditorChange(e)
    BY <1>5 DEF OpenEditor, EditorChange, TypeInv, TypeOK
  <1>6. ASSUME NEW o \in Operators, AbandonEdit(o)
        PROVE  EditorChange(e)
    BY <1>6 DEF AbandonEdit, EditorChange, TypeInv, TypeOK
  <1>7. ASSUME NEW w \in Workers, WorkerStep(w) \/ FaultStep(w)
        PROVE  UNCHANGED editor
    BY <1>7 DEF WorkerStep, FaultStep, GetNextAvailable, DeadLetterEvent, SetFifoLock,
       ClaimEvents, HandleEvent, MarkEvent, FreeFifoLock, Sweep, CleanupStaleLocks,
       Crash, ClaimThrows, MarkThrows, SweepThrows
  <1>8. (\E r \in Rows : InsertOne(r) \/ ClaimTimesOut(r) \/ DeleteExpired(r))
          \/ (\E g \in Refs : LockGoesStale(g)) \/ UNCHANGED vars
            => UNCHANGED editor
    BY DEF InsertOne, ClaimTimesOut, DeleteExpired, LockGoesStale, vars
  <1> QED BY <1>1, <1>2, <1>3, <1>4, <1>5, <1>6, <1>7, <1>8 DEF Next, OperatorStep

LEMMA EditorStep == TypeInv /\ ClaimInv /\ EditorInv /\ [Next]_vars => EditorInv'
  <1> SUFFICES ASSUME TypeInv, ClaimInv, EditorInv, [Next]_vars, NEW e \in Operators
               PROVE  EditorSound(editor[e])'
    BY DEF EditorInv
  <1>1. /\ EditorSound(editor[e]) /\ EditorChange(e)
        /\ editor[e].row \in Rows \cup {None} /\ editor[e].revision \in Nat
    BY EditorChanges DEF EditorInv, TypeInv, TypeOK
  <1>2. \A r \in Rows : /\ row[r].revision \in Nat /\ row'[r].revision \in Nat
                        /\ row[r].status # "ABSENT" =>
                             \/ row'[r].status = "DELETED"
                             \/ /\ row[r].status # "DELETED" /\ row'[r].status # "ABSENT"
                                /\ row'[r].revision >= row[r].revision
    <2>1. TypeInv'
      BY TypeStep
    <2> QED BY <2>1, RowChanges, RevisionsGrow DEF TypeInv, TypeOK, Row
  <1>3. CASE editor'[e].row = None
    BY <1>3 DEF EditorSound
  <1>4. CASE editor'[e] = editor[e]
    BY <1>1, <1>2, <1>4 DEF EditorSound
  <1>5. CASE \E r \in Rows :
                /\ row[r].status \notin NoDocument /\ row'[r] = row[r]
                /\ editor'[e] = [row |-> r, revision |-> row[r].revision, fresh |-> TRUE]
    BY <1>5 DEF EditorSound, NoDocument
  <1>6. CASE /\ editor[e].row \in Rows
             /\ editor'[e].row = editor[e].row /\ editor'[e].revision = editor[e].revision
             /\ row[editor[e].row].status \in REDRIVABLE_STATUSES
             /\ row'[editor[e].row].status \notin NoDocument
             /\ row'[editor[e].row].revision = row[editor[e].row].revision + 1
    <2>1. editor[e].row # None
      BY <1>6, BoxAssumption
    <2>2. row[editor[e].row].revision >= editor[e].revision
      BY <1>1, <1>2, <1>6, <2>1 DEF EditorSound, REDRIVABLE_STATUSES
    <2>3. row'[editor[e].row].revision > editor'[e].revision
      BY <1>1, <1>2, <1>6, <2>2
    <2> QED BY <1>6, <2>3 DEF EditorSound, NoDocument
  <1> QED BY <1>1, <1>3, <1>4, <1>5, <1>6 DEF EditorChange

\* payloadRevision lets no edit through that was made on a page the row has
\* left behind, also when purges and redrives brought the status back.
THEOREM EditsSeeTheRow == Spec => NoBlindEdit
  <1>1. Init => EditorInv
    BY DEF Init, EditorInv, EditorSound
  <1>2. Spec => [](TypeInv /\ ClaimInv /\ EditorInv)
    BY <1>1, TypeInit, TypeStep, ClaimInit, ClaimStep, EditorStep, PTL DEF Spec
  <1>3. ASSUME EditorInv, NEW e \in Operators, NEW p \in Payloads, EditPayloadById(e, p), TypeInv
        PROVE  editor[e].fresh
    <2>1. /\ editor[e].row # None /\ editor[e].row \in Rows
          /\ row[editor[e].row].status \in REDRIVABLE_STATUSES
          /\ row[editor[e].row].revision = editor[e].revision
          /\ editor[e].revision \in Nat
      BY <1>3 DEF EditPayloadById, IsEditable, TypeInv, TypeOK
    <2> QED BY <1>3, <2>1 DEF EditorInv, EditorSound, REDRIVABLE_STATUSES
  <1>4. TypeInv /\ EditorInv /\ [Next]_vars =>
          [\A e \in Operators : \A p \in Payloads :
              EditPayloadById(e, p) => editor[e].fresh]_vars
    BY <1>3
  <1> QED BY <1>2, <1>4, PTL DEF Spec, NoBlindEdit

-----------------------------------------------------------------------------
(***************************************************************************)
(* The promise of the box.  Every step is a step of EventDelivery or none, *)
(* but for the write of the older of two copies.  There are no two copies  *)
(* as long as no claim loop takes a row twice: its calls follow each other *)
(* much faster than a claim expires, and a row it has taken must expire    *)
(* and pass two sweeps to be there for it again.                           *)
(***************************************************************************)
NoneTwice ==
    \A w \in Workers : \A i, j \in 1..Len(batch[w]) :
        batch[w][i].id = batch[w][j].id => i = j

\* A copy is of a row that exists or existed.
PresentInv ==
    \A w \in Workers : \A i \in 1..Len(batch[w]) : row[batch[w][i].id].status # "ABSENT"

PromiseInv == TypeInv /\ ClaimInv /\ DeliveryInv /\ CopyInv /\ FinishedInv /\ PresentInv

\* A row that was inserted is never absent again.
LEMMA StaysPresent ==
    ASSUME TypeInv, NEW r \in Rows, RowChange(r), row[r].status # "ABSENT"
    PROVE  row'[r].status # "ABSENT"
  <1>1. row[r] \in Row
    BY DEF TypeInv, TypeOK
  <1>2. ~Inserted(r)
    BY DEF Inserted
  <1>3. /\ Taken(r) => row'[r].status # "ABSENT"
        /\ Removed(r) => row'[r].status # "ABSENT"
        /\ TimedOut(r) => row'[r].status # "ABSENT"
    <2>1. /\ \A t \in Tokens \cup {None} : Claimed(row[r], t).status = "PROCESSING"
          /\ NewRow("DELETED", None).status = "DELETED"
          /\ Overdue(row[r]).status = row[r].status
      BY DEF Claimed, NewRow, Overdue
    <2>2. \A w \in Workers : token[w] \in Tokens \cup {None}
      BY DEF TypeInv, TypeOK
    <2> QED BY <2>1, <2>2 DEF Taken, Removed, TimedOut
  <1>8. Redriven(r) \/ Purged(r) => row'[r].status # "ABSENT"
    BY DEF Redriven, RedriveUpdate, Purged, PurgeUpdate
  <1>4. Written(r) => row'[r].status # "ABSENT"
    BY MarkedKeeps DEF Written, Statuses
  <1>5. Swept(r) => row'[r].status # "ABSENT"
    BY <1>1, SweepKeeps DEF Swept, Untouched, NoDocument
  <1>6. GivenUp(r) => row'[r].status # "ABSENT"
    BY DEF GivenUp, DeadLettered, MovedTo, Release
  <1>7. Edited(r) => row'[r].status # "ABSENT"
    BY DEF Edited, EditUpdate
  <1> QED BY <1>2, <1>3, <1>4, <1>5, <1>6, <1>7, <1>8 DEF RowChange

LEMMA PresentBatch ==
    ASSUME TypeInv, PresentInv, NEW w \in Workers, BatchChange(w),
           batch'[w] \in Seq(Doc), NEW i \in 1..Len(batch'[w]),
           \A r \in Rows : row[r].status # "ABSENT" => row'[r].status # "ABSENT"
    PROVE  row'[batch'[w][i].id].status # "ABSENT"
  <1>1. batch[w] \in Seq(Doc) /\ batch'[w][i].id \in Rows
    <2>1. batch[w] \in Seq(Doc)
      BY DEF TypeInv, TypeOK
    <2>2. batch'[w][i] \in Doc
      BY ElementOfSeq
    <2> QED BY <2>1, <2>2 DEF Doc
  <1>2. ASSUME NEW j \in 1..Len(batch[w]), batch'[w][i] = batch[w][j]
        PROVE  row'[batch'[w][i].id].status # "ABSENT"
    BY <1>1, <1>2 DEF PresentInv
  <1>3. CASE batch'[w] = batch[w]
    BY <1>2, <1>3
  <1>4. CASE batch'[w] = <<>>
    BY <1>4, EmptySeq
  <1>5. CASE pc[w] = "mark" /\ batch'[w] = Tail(batch[w])
    <2>1. batch[w] # <<>>
      BY <1>5 DEF TypeInv, Bookkeeping
    <2>2. batch'[w][i] = batch[w][i + 1] /\ i + 1 \in 1..Len(batch[w])
      BY <1>1, <1>5, <2>1, HeadTailProperties, LenProperties
    <2> QED BY <1>2, <2>2
  <1>6. ASSUME NEW s \in Rows, IsAvailable(row[s]), batch'[w] = Append(batch[w], DocOf(s))
        PROVE  row'[batch'[w][i].id].status # "ABSENT"
    <2>1. /\ Len(batch'[w]) = Len(batch[w]) + 1 /\ Len(batch[w]) \in Nat
          /\ \A j \in 1..Len(batch[w]) : batch'[w][j] = batch[w][j]
          /\ batch'[w][Len(batch[w]) + 1] = DocOf(s)
      BY <1>1, <1>6
    <2>2. CASE i \in 1..Len(batch[w])
      BY <1>2, <2>1, <2>2
    <2>3. CASE i = Len(batch[w]) + 1
      BY <1>6, <2>1, <2>3 DEF DocOf, IsAvailable
    <2> QED BY <2>1, <2>2, <2>3
  <1> QED BY <1>3, <1>4, <1>5, <1>6 DEF BatchChange

LEMMA PresentStep == TypeInv /\ PresentInv /\ [Next]_vars => PresentInv'
  <1> SUFFICES ASSUME TypeInv, PresentInv, [Next]_vars PROVE PresentInv'
    OBVIOUS
  <1>1. TypeInv'
    BY TypeStep
  <1>2. \A r \in Rows : row[r].status # "ABSENT" => row'[r].status # "ABSENT"
    BY RowChanges, StaysPresent
  <1>3. ASSUME NEW w \in Workers, NEW i \in 1..Len(batch'[w])
        PROVE  row'[batch'[w][i].id].status # "ABSENT"
    BY <1>1, <1>2, BatchChanges, PresentBatch DEF TypeInv, TypeOK
  <1> QED BY <1>3 DEF PresentInv

-----------------------------------------------------------------------------
\* A step of the promise, or none.
Allowed == [Delivery!Next]_(Delivery!vars)

LEMMA Phases ==
    /\ PhaseOf("ABSENT") = "none" /\ PhaseOf("DELETED") = "gone"
    /\ PhaseOf("COMPLETED") = "done" /\ PhaseOf("DEAD_LETTER") = "dead"
    /\ PhaseOf("PURGED") = "discarded" /\ PhaseOf("PUBLISHED") = "pending"
    /\ PhaseOf("RESUBMITTED") = "pending"
  BY DEF PhaseOf

\* Behind the promise nothing happens to the row, or it is given up on.
Unseen(rw, new) ==
    /\ new.payload = rw.payload
    /\ \/ PhaseOf(new.status) = PhaseOf(rw.status)
       \/ PhaseOf(rw.status) = "pending" /\ PhaseOf(new.status) = "dead"

LEMMA UnseenAllowed ==
    ASSUME TypeInv, TypeInv', \A r \in Rows : Unseen(row[r], row'[r]), UNCHANGED delivered
    PROVE  Allowed
  <1> DEFINE R == {r \in Rows : Phase[r] = "pending" /\ Phase'[r] = "dead"}
  <1>1. Payload' = Payload
    BY DEF Payload, Unseen
  <1>2. /\ Phase = [r \in Rows |-> Phase[r]] /\ Phase' = [r \in Rows |-> Phase'[r]]
        /\ \A r \in Rows : /\ Phase[r] = PhaseOf(row[r].status)
                           /\ Phase'[r] = PhaseOf(row'[r].status)
    BY Zenon DEF Phase
  <1>3. \A r \in Rows : Phase'[r] = IF r \in R THEN "dead" ELSE Phase[r]
    BY <1>2 DEF Unseen
  <1>4. Phase' = [r \in Rows |-> IF r \in R THEN "dead" ELSE Phase[r]]
    BY <1>2, <1>3
  <1>5. Delivery!GiveUp(R)
    BY <1>1, <1>4 DEF Delivery!GiveUp
  <1>6. R \in SUBSET Rows
    OBVIOUS
  <1> HIDE DEF R
  <1> QED BY <1>5, <1>6 DEF Allowed, Delivery!Next

\* One row is written.
LEMMA OneRow ==
    ASSUME TypeInv, NEW r \in Rows, NEW rw, row' = [row EXCEPT ![r] = rw]
    PROVE  /\ Phase' = [Phase EXCEPT ![r] = PhaseOf(rw.status)]
           /\ Payload' = [Payload EXCEPT ![r] = rw.payload]
           /\ Phase[r] = PhaseOf(row[r].status) /\ Payload[r] = row[r].payload
  BY DEF TypeInv, TypeOK, Phase, Payload

LEMMA OneUnseen ==
    ASSUME TypeInv, TypeInv', NEW r \in Rows, NEW rw, row' = [row EXCEPT ![r] = rw],
           Unseen(row[r], rw), UNCHANGED delivered
    PROVE  Allowed
  <1>1. \A s \in Rows : Unseen(row[s], row'[s])
    BY DEF TypeInv, TypeOK, Unseen
  <1> QED BY <1>1, UnseenAllowed

\* What a poller does to a row while it works on it.
LEMMA WorkUnseen ==
    ASSUME NEW rw \in Row
    PROVE  /\ \A t \in Tokens : IsAvailable(rw) => Unseen(rw, Claimed(rw, t))
           /\ Unseen(rw, Overdue(rw))
           /\ \A call \in RowSweeps : Unseen(rw, SweepRow(call, rw))
  <1>1. \A t \in Tokens : IsAvailable(rw) => Unseen(rw, Claimed(rw, t))
    BY DEF IsAvailable, Claimed, Unseen, PhaseOf
  <1>2. Unseen(rw, Overdue(rw))
    BY DEF Overdue, Unseen
  <1>3. Unseen(rw, UpdateResubmittedEvents(rw))
    BY DEF UpdateResubmittedEvents, MovedTo, Release, Unseen, PhaseOf
  <1>4. Unseen(rw, UpdateFailedEvents(rw))
    BY DEF UpdateFailedEvents, MovedTo, Release, Unseen, PhaseOf
  <1>5. rw.status \notin Terminal \cup NoDocument => PhaseOf(rw.status) = "pending"
    BY DEF Terminal, NoDocument, PhaseOf
  <1>6. PhaseOf("DEAD_LETTER") = "dead" /\ PhaseOf("FAILED") = "pending"
    BY DEF PhaseOf
  <1>7. Unseen(rw, UpdateDeadEvents(rw))
    BY <1>5, <1>6 DEF UpdateDeadEvents, MovedTo, Release, Unseen
  <1>8. Unseen(rw, ProcessExpiredEvents(rw))
    BY <1>5, <1>6 DEF ProcessExpiredEvents, Release, Unseen
  <1> QED BY <1>1, <1>2, <1>3, <1>4, <1>7, <1>8 DEF SweepRow, RowSweeps

\* The fenced write: if the copy is the newest of its row the payload stays, and
\* a success was delivered.
LEMMA MarkAllowed ==
    ASSUME TypeInv, TypeInv', ClaimInv, DeliveryInv, CopyInv,
           NEW w \in Workers, pc[w] = "mark", UNCHANGED delivered,
           \A i \in 2..Len(batch[w]) : batch[w][i].id # batch[w][1].id,
           row' = Update(Head(batch[w]), token[w], outcome[w])
    PROVE  Allowed
  <1> DEFINE doc == Head(batch[w])
             r   == doc.id
             new == Marked(row[r], doc, outcome[w])
  <1>1. batch[w] \in Seq(Doc) /\ batch[w] # <<>> /\ token[w] # None
    BY BoxAssumption DEF TypeInv, TypeOK, Bookkeeping, HasRow
  <1>2. doc = batch[w][1] /\ 1 \in 1..Len(batch[w]) /\ Len(batch[w]) \in Nat
    BY <1>1, HeadTailProperties, EmptySeq, LenProperties
  <1>3. doc \in Doc /\ r \in Rows
    <2>1. doc \in Doc
      BY <1>1, <1>2, ElementOfSeq
    <2> QED BY <2>1 DEF Doc
  <1>4. CASE row[r].claim.by # token[w]
    <2>1. row' = row
      BY <1>4 DEF Update
    <2> QED BY <2>1, UnseenAllowed DEF Unseen
  <1>5. CASE row[r].claim.by = token[w]
    <2>1. row[r].status = "PROCESSING"
      BY <1>1, <1>3, <1>5 DEF ClaimInv, Sound
    <2>2. IsCurrent(batch[w][1])
      BY <1>2, <1>5 DEF CopyInv, NewestCopyIsCurrent
    <2>3. doc.payload = row[r].payload
      BY <1>2, <2>2 DEF IsCurrent
    <2>4. row' = [row EXCEPT ![r] = new]
      BY <1>5 DEF Update
    <2>5. new.payload = row[r].payload
      BY <2>3, MarkedKeeps
    <2>6. CASE outcome[w] = "ok"
      <3>1. new.status = "COMPLETED"
        BY <2>6 DEF Marked, MarkAsComplete, Release
      <3>2. row[r].payload \in delivered[r]
        BY <2>3, <2>6 DEF DeliveryInv
      <3> HIDE DEF doc, r, new
      <3>3. /\ Phase[r] = "pending" /\ Phase' = [Phase EXCEPT ![r] = "done"]
            /\ Payload[r] = row[r].payload
            /\ Payload' = [Payload EXCEPT ![r] = Payload[r]]
        BY <1>3, <2>1, <2>4, <2>5, <3>1, OneRow DEF PhaseOf
      <3>4. Payload' = Payload
        BY <3>3 DEF Payload
      <3> QED BY <1>3, <3>2, <3>3, <3>4
              DEF Allowed, Delivery!Next, Delivery!Finish, Delivery!Move
    <2>7. CASE outcome[w] # "ok"
      <3>1. new.status \in {"DEAD_LETTER", "FAILED"}
        BY <2>7 DEF Marked, MarkAsFailed, Release
      <3> HIDE DEF doc, r, new
      <3>2. Unseen(row[r], new)
        BY <2>1, <2>5, <3>1 DEF Unseen, PhaseOf
      <3> QED BY <1>3, <2>4, <3>2, OneUnseen
    <2> QED BY <2>6, <2>7
  <1> QED BY <1>4, <1>5

LEMMA HandleAllowed ==
    ASSUME TypeInv, PresentInv, NEW w \in Workers, HandleEvent(w)
    PROVE  Allowed
  <1>1. Phase' = Phase /\ Payload' = Payload
    BY DEF HandleEvent, Phase, Payload
  <1>2. PICK doc \in Doc : doc = Head(batch[w]) /\ row[doc.id].status # "ABSENT"
    <2>1. batch[w] \in Seq(Doc) /\ batch[w] # <<>>
      BY DEF HandleEvent, TypeInv, TypeOK, Bookkeeping
    <2>2. Head(batch[w]) = batch[w][1] /\ 1 \in 1..Len(batch[w])
      BY <2>1, HeadTailProperties, EmptySeq
    <2> QED BY <2>1, <2>2, ElementOfSeq DEF PresentInv
  <1>3. doc.id \in Rows /\ doc.payload \in Payloads
    BY DEF Doc
  <1>4. Phase[doc.id] # "none"
    <2>1. Phase[doc.id] = PhaseOf(row[doc.id].status)
      BY <1>3 DEF Phase
    <2> QED BY <1>2, <2>1 DEF PhaseOf
  <1>5. CASE UNCHANGED delivered
    BY <1>1, <1>5 DEF Allowed, Delivery!vars
  <1>6. CASE delivered' = [delivered EXCEPT ![doc.id] = @ \cup {doc.payload}]
    BY <1>1, <1>3, <1>4, <1>6 DEF Allowed, Delivery!Next, Delivery!Deliver
  <1> QED BY <1>2, <1>5, <1>6 DEF HandleEvent

\* What the producers, the operators and the retention do is what they are
\* promised: one action of EventDelivery each.
LEMMA InsertAllowed ==
    ASSUME TypeInv, NEW r \in Rows, InsertOne(r)
    PROVE  Allowed
  <1> DEFINE new == NewRow("PUBLISHED", FirstPayload[r])
  <1>1. row[r].status = "ABSENT" /\ row' = [row EXCEPT ![r] = new] /\ UNCHANGED delivered
    BY DEF InsertOne
  <1>2. new.status = "PUBLISHED" /\ new.payload = FirstPayload[r]
    BY DEF NewRow
  <1> HIDE DEF new
  <1>3. /\ Phase[r] = "none" /\ Phase' = [Phase EXCEPT ![r] = "pending"]
        /\ Payload' = [Payload EXCEPT ![r] = FirstPayload[r]]
    <2>1. /\ Phase' = [Phase EXCEPT ![r] = PhaseOf(new.status)]
          /\ Payload' = [Payload EXCEPT ![r] = new.payload]
          /\ Phase[r] = PhaseOf(row[r].status) /\ Payload[r] = row[r].payload
      BY <1>1, OneRow
    <2> QED BY <1>1, <1>2, <2>1, Phases
  <1> QED BY <1>1, <1>3 DEF Allowed, Delivery!Next, Delivery!Accept, Delivery!Move

LEMMA DeleteAllowed ==
    ASSUME TypeInv, NEW r \in Rows, DeleteExpired(r)
    PROVE  Allowed
  <1> DEFINE new == NewRow("DELETED", None)
  <1>1. /\ row[r].status \in {"COMPLETED", "PURGED"}
        /\ row' = [row EXCEPT ![r] = new] /\ UNCHANGED delivered
    BY DEF DeleteExpired, historyVars
  <1>2. new.status = "DELETED" /\ new.payload = None
    BY DEF NewRow
  <1> HIDE DEF new
  <1>3. /\ Phase[r] \in {"done", "discarded"} /\ Phase' = [Phase EXCEPT ![r] = "gone"]
        /\ Payload' = [Payload EXCEPT ![r] = None]
    <2>1. /\ Phase' = [Phase EXCEPT ![r] = PhaseOf(new.status)]
          /\ Payload' = [Payload EXCEPT ![r] = new.payload]
          /\ Phase[r] = PhaseOf(row[r].status) /\ Payload[r] = row[r].payload
      BY <1>1, OneRow
    <2> QED BY <1>1, <1>2, <2>1, Phases
  <1> QED BY <1>1, <1>3 DEF Allowed, Delivery!Next, Delivery!Remove, Delivery!Move

LEMMA RedriveAllowed ==
    ASSUME TypeInv, NEW r \in Rows, RedriveById(r)
    PROVE  Allowed
  <1> DEFINE new == RedriveUpdate(row[r])
  <1>1. /\ row[r].status \in {"DEAD_LETTER", "PURGED"}
        /\ row' = [row EXCEPT ![r] = new] /\ UNCHANGED delivered
    BY DEF RedriveById, REDRIVABLE_STATUSES, historyVars
  <1>2. new.status = "RESUBMITTED" /\ new.payload = row[r].payload
    BY DEF RedriveUpdate
  <1> HIDE DEF new
  <1>3. /\ Phase[r] \in {"dead", "discarded"} /\ Phase' = [Phase EXCEPT ![r] = "pending"]
        /\ Payload' = [Payload EXCEPT ![r] = Payload[r]]
    <2>1. /\ Phase' = [Phase EXCEPT ![r] = PhaseOf(new.status)]
          /\ Payload' = [Payload EXCEPT ![r] = new.payload]
          /\ Phase[r] = PhaseOf(row[r].status) /\ Payload[r] = row[r].payload
      BY <1>1, OneRow
    <2> QED BY <1>1, <1>2, <2>1, Phases
  <1>4. Payload' = Payload
    BY <1>3 DEF Payload
  <1> QED BY <1>1, <1>3, <1>4 DEF Allowed, Delivery!Next, Delivery!Redrive, Delivery!Move

LEMMA PurgeAllowed ==
    ASSUME TypeInv, NEW r \in Rows, PurgeById(r)
    PROVE  Allowed
  <1> DEFINE new == PurgeUpdate(row[r])
  <1>1. /\ row[r].status = "DEAD_LETTER"
        /\ row' = [row EXCEPT ![r] = new] /\ UNCHANGED delivered
    BY DEF PurgeById, historyVars
  <1>2. new.status = "PURGED" /\ new.payload = row[r].payload
    BY DEF PurgeUpdate
  <1> HIDE DEF new
  <1>3. /\ Phase[r] = "dead" /\ Phase' = [Phase EXCEPT ![r] = "discarded"]
        /\ Payload' = [Payload EXCEPT ![r] = Payload[r]]
    <2>1. /\ Phase' = [Phase EXCEPT ![r] = PhaseOf(new.status)]
          /\ Payload' = [Payload EXCEPT ![r] = new.payload]
          /\ Phase[r] = PhaseOf(row[r].status) /\ Payload[r] = row[r].payload
      BY <1>1, OneRow
    <2> QED BY <1>1, <1>2, <2>1, Phases
  <1>4. Payload' = Payload
    BY <1>3 DEF Payload
  <1> QED BY <1>1, <1>3, <1>4 DEF Allowed, Delivery!Next, Delivery!Discard, Delivery!Move

LEMMA EditAllowed ==
    ASSUME TypeInv, NEW e \in Operators, NEW p \in Payloads, EditPayloadById(e, p)
    PROVE  Allowed
  <1> DEFINE r   == editor[e].row
             new == EditUpdate(row[r], p)
  <1>1. /\ r \in Rows /\ row[r].status \in {"DEAD_LETTER", "PURGED"}
        /\ row' = [row EXCEPT ![r] = new] /\ UNCHANGED delivered
    BY DEF EditPayloadById, IsEditable, REDRIVABLE_STATUSES, historyVars, TypeInv, TypeOK
  <1>2. new.status = row[r].status /\ new.payload = p
    BY DEF EditUpdate
  <1> HIDE DEF r, new
  <1>3. /\ Phase[r] \in {"dead", "discarded"} /\ Phase' = [Phase EXCEPT ![r] = Phase[r]]
        /\ Payload' = [Payload EXCEPT ![r] = p]
    <2>1. /\ Phase' = [Phase EXCEPT ![r] = PhaseOf(new.status)]
          /\ Payload' = [Payload EXCEPT ![r] = new.payload]
          /\ Phase[r] = PhaseOf(row[r].status) /\ Payload[r] = row[r].payload
      BY <1>1, OneRow
    <2> QED BY <1>1, <1>2, <2>1, Phases
  <1>4. Phase' = Phase
    BY <1>3 DEF Phase
  <1> QED BY <1>1, <1>3, <1>4 DEF Allowed, Delivery!Next, Delivery!Edit

\* A poller's step: it writes success once, and all else it does is unseen.
LEMMA PollerAllowed ==
    ASSUME PromiseInv, TypeInv', ~OlderCopyIsWritten, [Next]_vars, NEW w \in Workers,
           WorkerStep(w) \/ FaultStep(w)
    PROVE  Allowed
  <1>1. TypeInv /\ ClaimInv /\ DeliveryInv /\ CopyInv /\ FinishedInv /\ PresentInv
    BY DEF PromiseInv
  <1>2. \A r \in Rows : row[r] \in Row
    BY <1>1 DEF TypeInv, TypeOK
  <1>3. CASE HandleEvent(w)
    BY <1>1, <1>3, HandleAllowed
  <1>4. CASE ~HandleEvent(w)
    <2>1. UNCHANGED delivered
      BY <1>4 DEF WorkerStep, FaultStep, historyVars, GetNextAvailable, DeadLetterEvent,
         SetFifoLock, ClaimEvents, MarkEvent, FreeFifoLock, Sweep, CleanupStaleLocks,
         Crash, ClaimThrows, MarkThrows, SweepThrows
    <2>2. ASSUME UNCHANGED row PROVE Allowed
      BY <1>1, <2>1, <2>2, UnseenAllowed DEF Unseen
    <2>3. ASSUME MarkEvent(w) \/ MarkThrows(w),
                 row' = Update(Head(batch[w]), token[w], outcome[w])
          PROVE  Allowed
      <3>1. pc[w] = "mark"
        BY <2>3 DEF MarkEvent, MarkThrows
      <3>2. \A i \in 2..Len(batch[w]) : batch[w][i].id # batch[w][1].id
        BY <2>3 DEF OlderCopyIsWritten
      <3> QED BY <1>1, <2>1, <2>3, <3>1, <3>2, MarkAllowed
    <2>4. ASSUME pc[w] = "claim", NEW r \in Claimable(Ref(w)),
                 row' = [row EXCEPT ![r] = Claimed(@, token[w])]
          PROVE  Allowed
      <3>1. r \in Rows /\ IsAvailable(row[r])
        BY DEF Claimable
      <3>2. token[w] \in Tokens
        BY <1>1, <2>4 DEF TypeInv, Bookkeeping, HasRow
      <3>3. Unseen(row[r], Claimed(row[r], token[w]))
        BY <1>2, <3>1, <3>2, WorkUnseen
      <3> QED BY <1>1, <2>1, <2>4, <3>1, <3>3, OneUnseen
    <2>5. ASSUME NEW call \in RowSweeps, NEW S \in SUBSET Rows,
                 row' = [r \in Rows |-> IF r \in S THEN SweepRow(call, row[r]) ELSE row[r]]
          PROVE  Allowed
      <3>1. \A r \in Rows : Unseen(row[r], row[r]) /\ Unseen(row[r], SweepRow(call, row[r]))
        BY <1>2, WorkUnseen DEF Unseen
      <3>2. \A r \in Rows : Unseen(row[r], row'[r])
        BY <2>5, <3>1
      <3> QED BY <1>1, <2>1, <3>2, UnseenAllowed
    <2>6. CASE Sweep(w)
      <3>1. row' = [r \in Rows |-> IF r \in Rows THEN SweepRow(pc[w], row[r]) ELSE row[r]]
        BY <2>6 DEF Sweep
      <3>2. pc[w] \in RowSweeps
        BY <2>6 DEF Sweep
      <3> QED BY <2>5, <3>1, <3>2
    <2>7. CASE DeadLetterEvent(w)
      BY <1>1, <2>7 DEF DeadLetterEvent, FinishedInv
    <2>8. CASE ClaimEvents(w) \/ ClaimThrows(w)
      BY <2>2, <2>4, <2>8 DEF ClaimEvents, ClaimThrows, Earliest
    <2>9. CASE MarkEvent(w) \/ MarkThrows(w)
      BY <2>2, <2>3, <2>9 DEF MarkEvent, MarkThrows
    <2>10. CASE SweepThrows(w)
      BY <2>5, <2>10 DEF SweepThrows
    <2> QED BY <1>4, <2>2, <2>6, <2>7, <2>8, <2>9, <2>10
            DEF WorkerStep, FaultStep, GetNextAvailable, SetFifoLock, FreeFifoLock,
                CleanupStaleLocks, Crash
  <1> QED BY <1>3, <1>4

LEMMA PromiseStep ==
    ASSUME PromiseInv, TypeInv', ~OlderCopyIsWritten, [Next]_vars
    PROVE  Allowed
  <1>1. TypeInv
    BY DEF PromiseInv
  <1>2. ASSUME NEW w \in Workers, WorkerStep(w) \/ FaultStep(w) PROVE Allowed
    BY <1>2, PollerAllowed
  <1>3. ASSUME NEW r \in Rows, InsertOne(r) \/ DeleteExpired(r) PROVE Allowed
    BY <1>1, <1>3, InsertAllowed, DeleteAllowed
  <1>4. ASSUME NEW r \in Rows, ClaimTimesOut(r) PROVE Allowed
    <2>1. row[r] \in Row /\ Unseen(row[r], Overdue(row[r]))
      BY <1>1, WorkUnseen DEF TypeInv, TypeOK
    <2> QED BY <1>1, <1>4, <2>1, OneUnseen DEF ClaimTimesOut, historyVars
  <1>5. ASSUME UNCHANGED row, UNCHANGED delivered PROVE Allowed
    BY <1>1, <1>5, UnseenAllowed DEF Unseen
  <1>6. ASSUME NEW r \in Rows, RedriveById(r) \/ PurgeById(r) PROVE Allowed
    BY <1>1, <1>6, RedriveAllowed, PurgeAllowed
  <1>7. ASSUME NEW e \in Operators, NEW p \in Payloads, EditPayloadById(e, p) PROVE Allowed
    BY <1>1, <1>7, EditAllowed
  <1>8. CASE UNCHANGED vars
    BY <1>5, <1>8 DEF vars, historyVars
  <1>9. ASSUME NEW g \in Refs, LockGoesStale(g) PROVE Allowed
    BY <1>5, <1>9 DEF LockGoesStale, historyVars
  <1>10. ASSUME NEW e \in Operators, AbandonEdit(e) \/ \E r \in Rows : OpenEditor(e, r)
         PROVE  Allowed
    BY <1>5, <1>10 DEF AbandonEdit, OpenEditor, historyVars
  <1> QED BY <1>2, <1>3, <1>4, <1>6, <1>7, <1>8, <1>9, <1>10 DEF Next, OperatorStep

\* The safety part of DeliveryPromise, for any size of a batch: with pollers,
\* locks, claims, sweeps, faults and operators the box does what EventDelivery
\* allows, and nothing else but writing the older of two copies a loop has taken.
\* EveryRowHasRef is what the row's schema asks for.
THEOREM PromiseIsKept ==
    ASSUME EveryRowHasRef
    PROVE  Spec => DeliverySafety
  <1>1. Init => PromiseInv
    <2>1. Init => DeliveryInv
      BY DEF Init, DeliveryInv, CompletedWasDelivered, NewRow
    <2>2. Len(<<>>) = 0
      OBVIOUS
    <2>3. Init => CopyInv /\ PresentInv
      BY <2>2 DEF Init, CopyInv, TokensDiffer, NewestCopyIsCurrent, PresentInv
    <2> QED BY <2>1, <2>3, TypeInit, ClaimInit, FinishedInductive DEF PromiseInv
  <1>2. PromiseInv /\ [Next]_vars => PromiseInv'
    BY TypeStep, ClaimStep, DeliveryStep, CopyStep, TokensStep, FinishedInductive, PresentStep
       DEF PromiseInv, CopyInv
  <1>3. Init => Delivery!Init
    <2>1. Init => \A r \in Rows : row[r].status = "ABSENT" /\ row[r].payload = None
      BY DEF Init, NewRow
    <2>2. Init => Phase = [r \in Rows |-> "none"] /\ Payload = [r \in Rows |-> None]
      BY <2>1, Phases DEF Phase, Payload
    <2> QED BY <2>2 DEF Init, Delivery!Init
  <1>4. PromiseInv /\ PromiseInv' /\ [Next]_vars
          => [Delivery!Next \/ OlderCopyIsWritten]_(Delivery!vars)
    BY PromiseStep DEF PromiseInv, Allowed
  <1> QED BY <1>1, <1>2, <1>3, <1>4, PTL DEF Spec, DeliverySafety

\* Where no claim loop takes a row twice, as with a batch of one or while no
\* claim expires under its loop, the box implements EventDelivery exactly.
THEOREM PromiseIsExact ==
    ASSUME EveryRowHasRef
    PROVE  Spec /\ []NoneTwice => ExactDelivery
  <1>1. Spec => DeliverySafety
    BY PromiseIsKept
  <1>2. Spec => []TypeInv
    BY TypeInit, TypeStep, PTL DEF Spec
  <1>3. TypeInv /\ NoneTwice => ~OlderCopyIsWritten
    <2> SUFFICES ASSUME TypeInv, NoneTwice, NEW w \in Workers,
                        NEW i \in 2..Len(batch[w]), batch[w][i].id = batch[w][1].id
                 PROVE  FALSE
      BY DEF OlderCopyIsWritten
    <2>1. Len(batch[w]) \in Nat
      BY LenProperties DEF TypeInv, TypeOK
    <2>2. i \in 1..Len(batch[w]) /\ 1 \in 1..Len(batch[w]) /\ i # 1
      BY <2>1
    <2> QED BY <2>2 DEF NoneTwice
  <1>4. ~OlderCopyIsWritten /\ [Delivery!Next \/ OlderCopyIsWritten]_(Delivery!vars)
          => [Delivery!Next]_(Delivery!vars)
    OBVIOUS
  <1> QED BY <1>1, <1>2, <1>3, <1>4, PTL DEF DeliverySafety, ExactDelivery, Delivery!Safety
=============================================================================
