CONSTANTS
    N = 3
    Threshold = 2
    Order = 40009
    TapHash <- MCTapHash
    NonceHash <- MCNonceHash
    CoeffHash <- MCCoeffHash
    PadHash <- MCPadHash
    SelfPadHash <- MCSelfPadHash
    FrostNonceHash <- MCFrostNonceHash
    NonceCoefHash <- MCNonceCoefHash
    ChallengeHash <- MCChallengeHash
    MaxParticipants = 3
    Parties <- MCParties
    Key <- MCKey
    SecShare <- MCSecShare
    Honest = {1}
    CoordHonest = TRUE
    FaultyNonces <- FaultyNonce
    Requests <- TwoRequests
    CallersAgree = FALSE
    Bindings <- NoneOrAll
    Randoms = {1, 2}
    FreshRandoms = TRUE
    Groups <- OnePair
    MaxSessions = 2
    AllowMisuse = FALSE
SPECIFICATION Spec
INVARIANTS OneViewPerSignature
PROPERTIES ImplementsThresholdSigning
CHECK_DEADLOCK FALSE
