----------------------------- MODULE MCEventBox -----------------------------
(***************************************************************************)
(* Instances of EventBox for TLC.                                          *)
(***************************************************************************)
EXTENDS EventBoxImplements

\* Rows are 1, 2, ... in the order of their event time; a corrected payload
\* carries a time that sorts its row first.
RowOrder == [r \in Rows |-> [p \in Payloads |-> IF p = "sent" THEN r ELSE 0]]
AllSent == [r \in Rows |-> "sent"]

\* Every row in one group; and one group with a legacy row that has none.
OneRef == [r \in Rows |-> "ref1"]
FirstRowLegacy == [r \in Rows |-> IF r = 1 THEN None ELSE "ref1"]
=============================================================================
