------------------------------ MODULE MCClaims ------------------------------
(***************************************************************************)
(* Instances of Claims for TLC.                                            *)
(***************************************************************************)
EXTENDS Claims, FiniteSetsExt

\* Any two of the requests, and two threes.
PairsAndThrees == kSubset(2, Requests) \cup {{"s1", "s2", "s3"}, {"c1", "s1", "u1"}}

\* Submissions s1, s2 and s3 (s3 sends the claim of s1 again), creations c1 and
\* c2 and an update u1.
Kinds == [r \in Requests |->
             CASE r \in {"s1", "s2", "s3"} -> "submit"
               [] r \in {"c1", "c2"} -> "create"
               [] r \in {"u1"} -> "update"]
RefsOf == [r \in Requests |-> IF r = "s2" THEN "f2" ELSE "f1"]
FirstSlot == [r \in Requests |-> 1]

\* Versions after the first allow fewer claims and more entitlements and need
\* no approval; only the second pays.
FallsToOne == [v \in Versions |-> IF v = 1 THEN 2 ELSE 1]
RisesToTwo == [v \in Versions |-> IF v = 1 THEN 1 ELSE 2]
FirstOnly == [v \in Versions |-> v = 1]
SecondOnly == [v \in Versions |-> v = 2]
=============================================================================
