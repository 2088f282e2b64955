CONSTANTS
    Statuses <- Places
    Mappings <- ExternalStatusMap
    Transitions <- Lifecycles
    ClaimApproval <- FinalClaim
    OfferShownAt <- WhenOffered
    Starts <- FromAccepted
    Handlers = {h1}
    Latest = 1
    MaxAttempts = 3
    MaxRequests = 2
    MaxFaults = 0
    None = None
SPECIFICATION Spec
PROPERTY MovesAreValid
CHECK_DEADLOCK FALSE
