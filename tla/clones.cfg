CONSTANTS
    N = 2
    Threshold = 2
    Order = 11
    TapHash <- MCTapHash
    NonceHash <- MCNonceHash
    CoeffHash <- MCCoeffHash
    PadHash <- MCPadHash
    SelfPadHash <- MCSelfPadHash
    Parties <- MCParties
    HostSec <- MCHostSec
    Honest = {1}
    CoordHonest = FALSE
    ParamChoices <- SameParams
    CoordParams <- OneParams
    Randoms = {1}
    FakeRandoms = {}
    Orders <- InOrder
    MaxSessions = 2
    AllowClones = TRUE
    AllowMisuse = TRUE
SPECIFICATION Spec
INVARIANTS SignOncePerSession Recoverable
CHECK_DEADLOCK FALSE
