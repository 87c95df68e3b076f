CONSTANTS
    N = 3
    Threshold = 2
    Order = 11
    TapHash <- MCTapHash
    NonceHash <- MCNonceHash
    CoeffHash <- MCCoeffHash
    PadHash <- MCPadHash
    SelfPadHash <- MCSelfPadHash
    Parties <- MCParties
    HostSec <- MCHostSec
    Honest = {1, 2}
    CoordHonest = FALSE
    ParamChoices <- DisagreeingParams
    CoordParams <- DisagreeingCoordParams
    Randoms = {1}
    FakeRandoms = {2}
    Orders <- TwoOrdersOrShort
    MaxSessions = 1
    AllowClones = FALSE
    AllowMisuse = FALSE
SPECIFICATION FairRecoverySpec
INVARIANTS ParametersAgreed Agreement ContributionIncluded Recoverable KeyUsable
PROPERTIES ImplementsCertEq OneSucceedsAllSucceed
CHECK_DEADLOCK FALSE
