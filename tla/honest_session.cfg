CONSTANTS
    N = 3
    Threshold = 2
    Order = 11
    TapHash <- MCTapHash
    NonceHash <- MCNonceHash
    CoeffHash <- MCCoeffHash
    PadHash <- MCPadHash
    SelfPadHash <- MCSelfPadHash
    Parties <- MCParties
    HostSec <- MCHostSec
    Honest = {1, 2, 3}
    CoordHonest = TRUE
    ParamChoices <- SameParams
    CoordParams <- OneParams
    Randoms = {1, 2}
    FakeRandoms = {}
    Orders <- InOrder
    MaxSessions = 1
    AllowClones = FALSE
    AllowMisuse = FALSE
SPECIFICATION FairSpec
PROPERTIES HonestSessionCompletes
CHECK_DEADLOCK FALSE
