CONSTANTS
    Rows = {1}
    Refs = {"ref1"}
    Workers = {w1, w2}
    Operators = {e1}
    Tokens = {t1, t2, t3}
    Payloads = {"sent", "corrected"}
    SegregationRef <- OneRef
    EventTime <- RowOrder
    FirstPayload <- AllSent
    MAX_RETRIES = 1
    NUMBER_OF_RECORDS = 2
    MAX_ATTEMPT_HISTORY = 1
    Outcomes = {"ok", "permanent"}
    MaxFaults = 1
    MaxOperations = 2
    DeadlinesPass = TRUE
    None = None
SPECIFICATION FairSpec
INVARIANT OriginalIsKept
PROPERTIES NoBlindEdit DeliveryPromise
