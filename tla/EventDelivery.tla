--------------------------- MODULE EventDelivery ---------------------------
(***************************************************************************)
(* What an event box promises the code that puts events into it, with no   *)
(* pollers, locks, claims or retries: an accepted event is pending until   *)
(* it is done or given up on; it is done only once its current payload was *)
(* delivered (at least once); an event given up on waits for an operator,  *)
(* who alone may change its payload, discard it or make it pending again;  *)
(* only done and discarded events disappear.                               *)
(***************************************************************************)
CONSTANTS Rows, Payloads, FirstPayload, None

VARIABLES phase, payload, delivered

vars == <<phase, payload, delivered>>

Init ==
    /\ phase = [r \in Rows |-> "none"]
    /\ payload = [r \in Rows |-> None]
    /\ delivered = [r \in Rows |-> {}]

Move(r, from, to) ==
    /\ phase[r] \in from
    /\ phase' = [phase EXCEPT ![r] = to]

Accept(r) ==
    /\ Move(r, {"none"}, "pending")
    /\ payload' = [payload EXCEPT ![r] = FirstPayload[r]]
    /\ UNCHANGED delivered

\* A handler may still be running, with a payload since replaced, when the
\* event has long been settled some other way.
Deliver(r) ==
    /\ phase[r] # "none"
    /\ \E p \in Payloads : delivered' = [delivered EXCEPT ![r] = @ \cup {p}]
    /\ UNCHANGED <<phase, payload>>

Finish(r) ==
    /\ Move(r, {"pending"}, "done")
    /\ payload[r] \in delivered[r]
    /\ UNCHANGED <<payload, delivered>>

\* One sweep gives up on every event that has used up its attempts.
GiveUp(R) ==
    /\ \A r \in R : phase[r] = "pending"
    /\ phase' = [r \in Rows |-> IF r \in R THEN "dead" ELSE phase[r]]
    /\ UNCHANGED <<payload, delivered>>

Discard(r) ==
    /\ Move(r, {"dead"}, "discarded")
    /\ UNCHANGED <<payload, delivered>>

Redrive(r) ==
    /\ Move(r, {"dead", "discarded"}, "pending")
    /\ UNCHANGED <<payload, delivered>>

Edit(r) ==
    /\ phase[r] \in {"dead", "discarded"}
    /\ \E p \in Payloads : payload' = [payload EXCEPT ![r] = p]
    /\ UNCHANGED <<phase, delivered>>

Remove(r) ==
    /\ Move(r, {"done", "discarded"}, "gone")
    /\ payload' = [payload EXCEPT ![r] = None]
    /\ UNCHANGED delivered

Next ==
    \/ \E r \in Rows : \/ Accept(r) \/ Deliver(r) \/ Finish(r)
                       \/ Discard(r) \/ Redrive(r) \/ Edit(r) \/ Remove(r)
    \/ \E R \in SUBSET Rows : GiveUp(R)

Safety == Init /\ [][Next]_vars

\* No event stays pending for ever.
Settles == \A r \in Rows : phase[r] = "pending" ~> phase[r] # "pending"

Spec == Safety /\ Settles
=============================================================================
