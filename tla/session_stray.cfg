SPECIFICATION FairSpec
CONSTANTS
    Configs <- FewConfigs
    MaxPending = 2
    PinAfterEnd = TRUE
    StrayReplies = TRUE
INVARIANT StrayHarmless
PROPERTY HandshakeEnds
