CONSTANTS
    N = 3
    Threshold = 2
    Order = 11
    TapHash <- MCTapHash
    NonceHash <- MCNonceHash
    CoeffHash <- MCCoeffHash
    PadHash <- MCPadHash
    SelfPadHash <- MCSelfPadHash
    Parties <- MCParties
    HostSec <- MCHostSec
    Honest = {1, 2, 3}
    CoordHonest = TRUE
    ParamChoices <- MixedParams
    CoordParams <- MixedCoordParams
    Randoms = {1}
    FakeRandoms = {}
    Orders <- AnyOrder
    MaxSessions = 1
    AllowClones = FALSE
    AllowMisuse = TRUE
SPECIFICATION Spec
INVARIANTS TypeOK SignedInPlace
PROPERTIES ImplementsLifecycle
CHECK_DEADLOCK FALSE
