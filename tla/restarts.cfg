CONSTANTS
    N = 2
    Threshold = 2
    Order = 23
    TapHash <- MCTapHash
    NonceHash <- MCNonceHash
    CoeffHash <- MCCoeffHash
    PadHash <- MCPadHash
    SelfPadHash <- MCSelfPadHash
    Parties <- MCParties
    HostSec <- MCHostSec
    Honest = {1, 2}
    CoordHonest = FALSE
    ParamChoices <- SameParams
    CoordParams <- OneParams
    Randoms = {1, 2}
    FakeRandoms = {}
    Orders <- InOrder
    MaxSessions = 2
    AllowClones = FALSE
    AllowMisuse = FALSE
SPECIFICATION Spec
INVARIANTS CertifiedByAll ContributionIncluded ContributionSignedOnce
CHECK_DEADLOCK FALSE
