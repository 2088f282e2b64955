CONSTANTS
    refA = refA
    refB = refB
    c1 = c1
    c2 = c2
    c3 = c3
    p1 = p1
    p2 = p2
    Versions = {1, 2, 3}
    MajorOf <- MCMajorOf
    Files = {"grant", "agreement"}
    Published = {1, 2, 3}
    None = None
    Callers = {c1, c2, c3}
    Processes = {p1, p2}
    ProcessOf <- MCProcessOf
    MaxFaults = 1
    Refs = {refA, refB}
    Numbers = {n1, n2}
    Tasks <- MCTasks
    MaxNumberAttempts = 2
    MaxRestarts = 1
    MaxEvents = 1
SPECIFICATION Spec
INVARIANTS CreatedOnce CreatedFromUsable LoadedIsStored
