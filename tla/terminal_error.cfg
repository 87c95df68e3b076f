CONSTANTS
    N = 2
    Threshold = 2
    Order = 11
    TapHash <- MCTapHash
    NonceHash <- MCNonceHash
    CoeffHash <- MCCoeffHash
    PadHash <- MCPadHash
    SelfPadHash <- MCSelfPadHash
    Parties <- MCParties
    HostSec <- MCHostSec
    Honest = {1, 2}
    CoordHonest = TRUE
    ParamChoices <- SameParams
    CoordParams <- OneParams
    Randoms = {1}
    FakeRandoms = {}
    Orders <- InOrder
    MaxSessions = 1
    AllowClones = FALSE
    AllowMisuse = TRUE
SPECIFICATION Spec
INVARIANTS ErrorMovesToFailed
CHECK_DEADLOCK FALSE
