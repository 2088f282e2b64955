CONSTANTS
    Rows = {1, 2}
    Refs = {"ref1"}
    Workers = {w1}
    Operators = {}
    Tokens = {t1, t2, t3}
    Payloads = {"sent"}
    SegregationRef <- OneRef
    EventTime <- RowOrder
    FirstPayload <- AllSent
    MAX_RETRIES = 2
    NUMBER_OF_RECORDS = 2
    MAX_ATTEMPT_HISTORY = 1
    Outcomes = {"ok", "retryable"}
    MaxFaults = 0
    MaxOperations = 0
    DeadlinesPass = FALSE
    None = None
SPECIFICATION Spec
INVARIANT ProcessedInOrder
