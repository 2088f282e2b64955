------------------------ MODULE MCApplicationStatus ------------------------
(***************************************************************************)
(* The lifecycle of the "pigs might fly" grant                             *)
(* (test/fixtures/pmf-grant-definition.json), for TLC, with a position for *)
(* an application whose claims are all in.                                 *)
(***************************************************************************)
EXTENDS ApplicationStatus

P(stage, status) == [stage |-> stage, status |-> status]

RECEIVED == P("REVIEW_APPLICATION", "APPLICATION_RECEIVED")
IN_REVIEW == P("REVIEW_APPLICATION", "IN_REVIEW")
ON_HOLD == P("REVIEW_APPLICATION", "ON_HOLD")
REJECTED == P("REVIEW_APPLICATION", "APPLICATION_REJECTED")
GENERATING == P("REVIEW_APPLICATION", "AGREEMENT_GENERATING")
DRAFTED == P("REVIEW_OFFER", "AGREEMENT_DRAFTED")
OFFERED == P("CUSTOMER_AGREEMENT_REVIEW", "AGREEMENT_OFFERED")
ACCEPTED == P("MONITORING", "AGREEMENT_ACCEPTED")
CLAIMED == P("MONITORING", "CLAIMS_COMPLETE")
CHECKS == P("AGREEMENT_TERMINATION", "PRE_TERMINATION_CHECKS")
TERMINATING == P("AGREEMENT_TERMINATION", "TERMINATION_REQUESTED")
TERMINATED == P("AGREEMENT_TERMINATION", "AGREEMENT_TERMINATED")

Stages == {"REVIEW_APPLICATION", "REVIEW_OFFER", "CUSTOMER_AGREEMENT_REVIEW"}
OfferStages == {"REVIEW_OFFER", "CUSTOMER_AGREEMENT_REVIEW"}
WITHDRAWING(stage) == P(stage, "WITHDRAWAL_REQUESTED")
WITHDRAWN(stage) == P(stage, "APPLICATION_WITHDRAWN")
AMENDING(stage) == P(stage, "AMENDMENT_REQUESTED")
AMEND(stage) == P(stage, "APPLICATION_AMEND")

Places ==
    {RECEIVED, IN_REVIEW, ON_HOLD, REJECTED, GENERATING, DRAFTED, OFFERED, ACCEPTED,
     CLAIMED, CHECKS, TERMINATING, TERMINATED}
    \cup {WITHDRAWING(s) : s \in Stages} \cup {WITHDRAWN(s) : s \in Stages}
    \cup {AMENDING(s) : s \in OfferStages} \cup {AMEND(s) : s \in OfferStages}

T(from, to, processes) == [from |-> from, to |-> to, processes |-> processes]

Lifecycles ==
    {T(RECEIVED, IN_REVIEW, <<>>), T(REJECTED, IN_REVIEW, <<>>), T(ON_HOLD, IN_REVIEW, <<>>),
     T(IN_REVIEW, ON_HOLD, <<>>), T(IN_REVIEW, REJECTED, <<>>),
     T(IN_REVIEW, WITHDRAWING("REVIEW_APPLICATION"), <<"REQUEST_APPLICATION_WITHDRAWAL">>),
     T(IN_REVIEW, GENERATING, <<"GENERATE_OFFER">>),
     T(GENERATING, DRAFTED, <<"STORE_AGREEMENT_CASE">>),
     T(DRAFTED, AMENDING("REVIEW_OFFER"), <<"REQUEST_AGREEMENT_CANCELLATION">>),
     T(DRAFTED, WITHDRAWING("REVIEW_OFFER"), <<"REQUEST_APPLICATION_WITHDRAWAL">>),
     T(DRAFTED, OFFERED, <<>>),
     T(OFFERED, AMENDING("CUSTOMER_AGREEMENT_REVIEW"), <<"REQUEST_AGREEMENT_CANCELLATION">>),
     T(OFFERED, WITHDRAWING("CUSTOMER_AGREEMENT_REVIEW"), <<"REQUEST_APPLICATION_WITHDRAWAL">>),
     T(OFFERED, ACCEPTED, <<"ACCEPT_AGREEMENT">>),
     T(AMENDING("CUSTOMER_AGREEMENT_REVIEW"), ACCEPTED, <<"ACCEPT_AGREEMENT">>),
     T(CHECKS, ACCEPTED, <<>>), T(ACCEPTED, CHECKS, <<>>), T(ACCEPTED, CLAIMED, <<>>),
     T(CHECKS, TERMINATING, <<"REQUEST_AGREEMENT_TERMINATION">>),
     T(TERMINATING, TERMINATED, <<"APPLY_AGREEMENT_TERMINATION">>)}
    \cup {T(AMENDING(s), AMEND(s), <<"CANCEL_AGREEMENT">>) : s \in OfferStages}
    \cup {T(WITHDRAWING(s), WITHDRAWN(s), <<"WITHDRAW_AGREEMENT">>) : s \in OfferStages}

M(stage, source, code, to) == [stage |-> stage, source |-> source, code |-> code, to |-> to]
CW(stage, to) == M(stage, "CW", to.status, to)

ExternalStatusMap ==
    {CW("REVIEW_APPLICATION", to) :
        to \in {IN_REVIEW, ON_HOLD, REJECTED, GENERATING, WITHDRAWING("REVIEW_APPLICATION")}}
    \cup {CW("REVIEW_OFFER", to) :
        to \in {DRAFTED, OFFERED, AMENDING("REVIEW_OFFER"), WITHDRAWING("REVIEW_OFFER")}}
    \cup {CW("CUSTOMER_AGREEMENT_REVIEW", to) :
        to \in {AMENDING("CUSTOMER_AGREEMENT_REVIEW"),
                WITHDRAWING("CUSTOMER_AGREEMENT_REVIEW")}}
    \cup {CW("MONITORING", to) : to \in {ACCEPTED, CHECKS}}
    \cup {CW("AGREEMENT_TERMINATION", TERMINATING)}
    \cup {M("REVIEW_APPLICATION", "AS", "offered", DRAFTED),
          M("CUSTOMER_AGREEMENT_REVIEW", "AS", "accepted", ACCEPTED),
          M("AGREEMENT_TERMINATION", "AS", "terminated", TERMINATED),
          M("MONITORING", "CW", "UNREADABLE", None)}
    \cup {M(s, "AS", "cancelled", AMEND(s)) : s \in OfferStages}
    \cup {M(s, "AS", "withdrawn", WITHDRAWN(s)) : s \in OfferStages}

FinalClaim == [from |-> ACCEPTED, to |-> CLAIMED]
WhenOffered == {OFFERED}

At(position, states) == [position |-> position, states |-> states]
FromReceived == {At(RECEIVED, <<>>)}
FromOffered == {At(OFFERED, <<"offered">>)}
FromAccepted == {At(ACCEPTED, <<"offered", "accepted">>)}
FromAll == FromReceived \cup FromOffered \cup FromAccepted

Withdrawals == {Withdrawn(p) : p \in Places}

\* The histories of the agreement in each position of this grant.
PigsHeld ==
    [p \in Places \cup Withdrawals |->
        CASE p \in {RECEIVED, IN_REVIEW, ON_HOLD, REJECTED, GENERATING,
                    WITHDRAWN("REVIEW_APPLICATION")} -> {<<>>}
          [] p \in {DRAFTED, OFFERED} \cup {AMENDING(s) : s \in OfferStages}
                   \cup {WITHDRAWING(s) : s \in OfferStages} -> {<<"offered">>}
          [] p \in {AMEND(s) : s \in OfferStages} -> {<<"offered", "cancelled">>}
          [] p \in {WITHDRAWN(s) : s \in OfferStages} -> {<<"offered", "withdrawn">>}
          [] p \in {ACCEPTED, CLAIMED, CHECKS, TERMINATING} -> {<<"offered", "accepted">>}
          [] p = TERMINATED -> {<<"offered", "accepted", "terminated">>}
          [] OTHER -> {}]

PigsFresh == {RECEIVED, IN_REVIEW, ON_HOLD, REJECTED, WITHDRAWN("REVIEW_APPLICATION")}

\* The conditions of the theorems in InboxProofs hold of this grant.
ASSUME PigsAreLawful == Lawful(PigsHeld, PigsFresh) /\ FinalClaimRecordsNothing
=============================================================================
