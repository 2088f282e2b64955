------------------------- MODULE EventBoxImplements -------------------------
(***************************************************************************)
(* The event box keeps the promise of EventDelivery.                       *)
(***************************************************************************)
EXTENDS EventBox

\* What a status means to whoever put the event into the box.
PhaseOf(status) ==
    CASE status = "ABSENT"      -> "none"
      [] status = "DELETED"     -> "gone"
      [] status = "COMPLETED"   -> "done"
      [] status = "DEAD_LETTER" -> "dead"
      [] status = "PURGED"      -> "discarded"
      [] OTHER                  -> "pending"

Phase   == [r \in Rows |-> PhaseOf(row[r].status)]
Payload == [r \in Rows |-> row[r].payload]

Delivery == INSTANCE EventDelivery WITH phase <- Phase, payload <- Payload

\* A poller writes back a copy of a row of which it holds a newer one too: one
\* claim loop has taken the row twice, and both copies pass the fence.
OlderCopyIsWritten ==
    \E w \in Workers :
        /\ MarkEvent(w) \/ MarkThrows(w)
        /\ \E i \in 2..Len(batch[w]) : batch[w][i].id = batch[w][1].id

\* Every step of the pollers, locks, sweeps, faults and operators is one that
\* EventDelivery allows, whatever the size of a batch: at-least-once delivery of
\* the current payload, nothing lost, nothing resurrected, no edit undone. It
\* takes that rows have a segregationRef, and excuses one kind of step, the write
\* of the older of two copies.
DeliverySafety ==
    Delivery!Init /\ [][Delivery!Next \/ OlderCopyIsWritten]_(Delivery!vars)

\* The promise of the box: that, and no event stays pending for ever.
DeliveryPromise == DeliverySafety /\ Delivery!Settles

\* Where no claim loop takes a row twice, EventDelivery without excuse.
ExactDelivery == Delivery!Safety
=============================================================================
