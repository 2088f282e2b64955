CONSTANTS
    refA = refA
    refB = refB
    refC = refC
    q1 = q1
    q2 = q2
    q3 = q3
    p1 = p1
    p2 = p2
    Versions = {1, 2, 3}
    MajorOf <- MCMajorOf
    Files = {"grant"}
    Published = {1}
    None = None
    Requests = {q1, q2, q3}
    Processes = {p1, p2}
    ProcessOf <- MCProcessOf
    MaxFetchAttempts = 1
    MaxCacheEntries = 1
    MaxFaults = 1
    Refs = {refA, refB, refC}
    Tasks <- MCTasks
    MaxRestarts = 1
    MaxEvents = 2
SPECIFICATION Spec
INVARIANTS SeriesAreChains MajorsNeverMix OriginalIsStored
PROPERTY ReplacedWhileAmendable
