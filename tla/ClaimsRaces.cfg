CONSTANTS
    Requests = {"c1", "c2", "s1", "s2", "s3", "u1"}
    Mixes <- PairsAndThrees
    KindOf <- Kinds
    Refs = {"f1", "f2"}
    RefOf <- RefsOf
    Slots = {1, 2, 3}
    SlotOf <- FirstSlot
    Given = {1}
    Latest = 3
    MaximumClaims <- FallsToOne
    MaxEntitlements <- RisesToTwo
    RequiresApproval <- FirstOnly
    HasPayment <- SecondOnly
    MaxFaults = 1
    None = None
SPECIFICATION FairSpec
INVARIANTS LimitsHold ClaimedStaysAsClaimed EventsMatchClaims
PROPERTIES EveryRequestIsAnswered ReplaysAreNotRefused
CHECK_DEADLOCK FALSE
