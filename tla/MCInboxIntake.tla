---------------------------- MODULE MCInboxIntake ----------------------------
(***************************************************************************)
(* Instances of InboxIntake for TLC.                                       *)
(***************************************************************************)
EXTENDS InboxIntake

\* One message for one event; and two messages that carry one event.
OneEvent == [m \in Messages |-> 1]
=============================================================================
