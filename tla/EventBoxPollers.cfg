CONSTANTS
    Rows = {1, 2}
    Refs = {"ref1"}
    Workers = {w1, w2}
    Operators = {}
    Tokens = {t1, t2, t3}
    Payloads = {"sent"}
    SegregationRef <- FirstRowLegacy
    EventTime <- RowOrder
    FirstPayload <- AllSent
    MAX_RETRIES = 2
    NUMBER_OF_RECORDS = 2
    MAX_ATTEMPT_HISTORY = 1
    Outcomes = {"ok", "retryable"}
    MaxFaults = 1
    MaxOperations = 0
    DeadlinesPass = TRUE
    None = None
SPECIFICATION FairSpec
INVARIANT RowsAreSound
PROPERTY EveryEventSettles
