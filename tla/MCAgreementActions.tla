------------------------- MODULE MCAgreementActions -------------------------
(***************************************************************************)
(* The default lifecycle of an agreement, with an action that updates the  *)
(* offer and leaves its state.                                             *)
(***************************************************************************)
EXTENDS AgreementActions, TLC

CONSTANTS a1, a2, u1, c1, c2   \* requests

On_(state, action, target) == [state |-> state, action |-> action, target |-> target]

Default ==
    {On_("offered", "accept", "accepted"), On_("offered", "withdraw", "withdrawn"),
     On_("offered", "cancel", "cancelled"), On_("accepted", "terminate", "terminated")}

WithUpdate == Default \cup {On_("offered", "update", "offered")}

\* The second version of the definition has no update.
UpdateLifecycle == [v \in Versions |-> IF v = 1 THEN WithUpdate ELSE Default]

\* a1 and a2 post one acceptance, u1 an update under the same key;
\* c1 cancels and c2 terminates.
Commands == [r \in Requests |-> r \in {c1, c2}]
ActionsOf == [r \in Requests |->
                 CASE r \in {a1, a2} -> "accept"
                   [] r = u1 -> "update"
                   [] r = c1 -> "cancelled"
                   [] r = c2 -> "terminated"]
KeysOf == [r \in Requests |-> CASE r \in {a1, a2, u1} -> "k1"
                                [] r = c1 -> "k2"
                                [] r = c2 -> "k3"]

\* The two postings are alike, and the run checks invariants only.
Postings == Permutations({a1, a2})
=============================================================================
