SPECIFICATION Spec
CONSTANTS
    Configs <- PasswordConfigs
    MaxPending = 2
    PinAfterEnd = FALSE
    StrayReplies = FALSE
PROPERTY
    VolumeBeforeStartKept
