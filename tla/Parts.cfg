\* What is worked out from definitions: processes, identities, pages,
\* lists; and who is allowed to apply.
CONSTANTS
    pay = pay
    Handlers = {pay}
    Outputs = {"actions", "items"}
    Definitions <- MCDefinitions
    Absent = Absent
    MaxRuns = 2
    Candidates <- MCCandidates
    Missing = Missing
    MaxTransitions = 2
    Sites <- MCSites
    Contexts <- MCContexts
    Undefined = Undefined
    MaxRequests = 2
    BucketDefinitions <- MCBucketDefinitions
    Collections <- MCCollections
    Documents <- MCDocuments
    Queries <- MCQueries
    Null = Null
    SCAN_BUDGET = 2
    MAX_SCANS = 3
    COUNT_CAP = 2
    SUMMARY_COUNT_CAP = 2
    MAX_VALUES = 2
    PageLimit = 1
    MaxChanges = 1
    Calls = {c1, c2}
    Identifiers = {"1", "2"}
    Asks <- MCAsks
    FirstStored <- MCFirstStored
    NoDocument = NoDocument
    Malformed = Malformed
    MaxConflicts = 2
SPECIFICATION Spec
INVARIANTS
    CompiledDefinitionsRun
    StagedAsStored
    IdentitiesAreForever
    PrintedAsShown
    OfferedIsAccepted
    ListsAreWhole
    NumbersAreLists
    TrailIsTheHistory
    ToldAsAudited
CHECK_DEADLOCK FALSE
