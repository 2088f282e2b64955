CONSTANTS
    Statuses <- Places
    Mappings <- ExternalStatusMap
    Transitions <- Lifecycles
    ClaimApproval <- FinalClaim
    OfferShownAt <- WhenOffered
    Starts <- FromAll
    Handlers = {h1}
    Latest = 2
    MaxAttempts = 2
    MaxRequests = 2
    MaxFaults = 1
    None = None
SPECIFICATION FairSpec
INVARIANTS ToldWhatIsStored HistoryFollows WithdrawnHasNoLiveAgreement
PROPERTIES MovesAreChained AgreementSettles
CHECK_DEADLOCK FALSE
