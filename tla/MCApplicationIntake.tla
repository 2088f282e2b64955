------------------------ MODULE MCApplicationIntake ------------------------
(* Two versions of one major and one of the next; one request submits an   *)
(* application, the others replace it or ask for its status.               *)
EXTENDS ApplicationIntake, TLC

CONSTANTS refA, refB, refC, q1, q2, q3, p1, p2

MCMajorOf == [v \in Versions |-> IF v = 3 THEN 2 ELSE 1]

Submit(ref, want) ==
    [kind |-> "submit", ref |-> ref, previous |-> None, want |-> want]

Replace(previous, ref, want) ==
    [kind |-> "replace", ref |-> ref, previous |-> previous, want |-> want]

Status(ref) == [kind |-> "status", ref |-> None, previous |-> ref, want |-> None]

MCTasks == (q1 :> {Submit(refA, 1)})
        @@ (q2 :> {Replace(refA, refB, None)})
        @@ (q3 :> {Replace(refA, refC, 1), Replace(refA, refB, 1), Status(refA)})

MCProcessOf == (q1 :> p1) @@ (q2 :> p1) @@ (q3 :> p2)
============================================================================
