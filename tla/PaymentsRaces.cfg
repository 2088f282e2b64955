CONSTANTS
    Messages = {"m1", "m2"}
    Sources = {"m1", "m2"}
    SourceOf <- OwnSource
    Versions = {1}
    VersionOf <- OneVersion
    Catalogued = {1}
    Inputs <- SecondMayNotFit
    Instances = {i1, i2}
    MAX_RETRIES = 2
    MaxFaults = 2
    None = None
SPECIFICATION FairSpec
INVARIANTS PaymentsAreWhole PaidNeedsNoDefinition
PROPERTY EveryRequestEnds
CHECK_DEADLOCK FALSE
