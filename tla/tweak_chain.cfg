CONSTANTS
    Order = 13
    TapHash <- MCTapHash
    Keys <- MCKeys
    Tweaks <- MCTweaks
SPECIFICATION Spec
INVARIANTS TypeOK AccumulatorsTrack SignersHoldEvenKey
