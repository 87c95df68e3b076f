CONSTANTS
    N = 3
    Threshold = 2
    Order = 40009
    TapHash <- MCTapHash
    NonceHash <- MCNonceHash
    CoeffHash <- MCCoeffHash
    PadHash <- MCPadHash
    SelfPadHash <- MCSelfPadHash
    FrostNonceHash <- MCFrostNonceHash
    NonceCoefHash <- MCNonceCoefHash
    ChallengeHash <- MCChallengeHash
    MaxParticipants = 3
    Parties <- MCParties
    Key <- MCKey
    SecShare <- MCSecShare
    Honest = {1}
    CoordHonest = FALSE
    FaultyNonces <- OneFaultyNonce
    Requests <- TwoMessages
    CallersAgree = FALSE
    Bindings <- NoneOrAll
    Randoms = {1, 2}
    FreshRandoms = TRUE
    Groups <- OnePair
    MaxSessions = 2
    AllowMisuse = TRUE
SPECIFICATION Spec
INVARIANTS NonceUsedOnce
CHECK_DEADLOCK FALSE
