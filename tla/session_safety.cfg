SPECIFICATION Spec
CONSTANTS
    Configs <- AllConfigs
    MaxPending = 3
    PinAfterEnd = FALSE
    StrayReplies = FALSE
INVARIANTS
    TypeOK
    WatchdogArmed
    RepliesReachTheirHandler
    EncryptionInStep
    StrictReceiverProved
    Ap2StatePresent
    EventContract
    SocketsFollowState
PROPERTIES
    ImplementsHostContract
