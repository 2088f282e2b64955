------------------------ MODULE MCAgreementCreation ------------------------
(* One application whose command arrives twice, in two processes; a third  *)
(* caller creates another agreement, which competes for the numbers, or    *)
(* opens the first one.                                                    *)
EXTENDS AgreementCreation, TLC

CONSTANTS refA, refB, c1, c2, c3, p1, p2

MCMajorOf == [v \in Versions |-> IF v = 1 THEN 1 ELSE 2]

Create(ref, version) == [kind |-> "create", ref |-> ref, version |-> version]

Open(ref) == [kind |-> "open", ref |-> ref]

MCTasks == (c1 :> {Create(refA, 3)}) @@ (c2 :> {Create(refA, 3)})
        @@ (c3 :> {Create(refB, 2), Open(refA)})

MCProcessOf == (c1 :> p1) @@ (c2 :> p2) @@ (c3 :> p1)
============================================================================
