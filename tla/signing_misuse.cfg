CONSTANTS
    N = 3
    Threshold = 2
    Order = 40009
    TapHash <- MCTapHash
    NonceHash <- MCNonceHash
    CoeffHash <- MCCoeffHash
    PadHash <- MCPadHash
    SelfPadHash <- MCSelfPadHash
    FrostNonceHash <- MCFrostNonceHash
    NonceCoefHash <- MCNonceCoefHash
    ChallengeHash <- MCChallengeHash
    MaxParticipants = 3
    Parties <- MCParties
    Key <- MCKey
    SecShare <- MCSecShare
    Honest = {1}
    CoordHonest = TRUE
    FaultyNonces <- OneFaultyNonce
    Requests <- MessagesAndKeys
    CallersAgree = FALSE
    Bindings <- AllBound
    Randoms = {1}
    FreshRandoms = FALSE
    Groups <- PairOrRepeated
    MaxSessions = 2
    AllowMisuse = TRUE
SPECIFICATION Spec
INVARIANTS SignTypeOK NonceKeepsItsRequest
PROPERTIES ImplementsSignLifecycle
CHECK_DEADLOCK FALSE
