CONSTANTS
    N = 3
    Threshold = 2
    Order = 40009
    TapHash <- MCTapHash
    NonceHash <- MCNonceHash
    CoeffHash <- MCCoeffHash
    PadHash <- MCPadHash
    SelfPadHash <- MCSelfPadHash
    FrostNonceHash <- MCFrostNonceHash
    NonceCoefHash <- MCNonceCoefHash
    ChallengeHash <- MCChallengeHash
    MaxParticipants = 3
    Parties <- MCParties
    Key <- MCKey
    SecShare <- MCSecShare
    Honest = {1, 2}
    CoordHonest = TRUE
    FaultyNonces <- OneFaultyNonce
    Requests <- ManyTweaks
    CallersAgree = TRUE
    Bindings <- Unbound
    Randoms = {1, 2}
    FreshRandoms = FALSE
    Groups <- PairsAndAll
    MaxSessions = 1
    AllowMisuse = FALSE
SPECIFICATION FairSpec
INVARIANTS AbortNamesFaulty
PROPERTIES SigningCompletes
CHECK_DEADLOCK FALSE
