------------------------------ MODULE MCPayments ------------------------------
(***************************************************************************)
(* Instances of Payments for TLC.                                          *)
(***************************************************************************)
EXTENDS Payments

\* Every request has a source of its own, and they share a definition.
OwnSource == [m \in Messages |-> m]
OneVersion == [m \in Messages |-> 1]

\* At most one of the requests does not fit.
SecondMayNotFit ==
    {[m \in Messages |-> IF m = "m2" THEN f ELSE "yes"] : f \in {"yes", "no mapping",
                                                                "no payment"}}
=============================================================================
