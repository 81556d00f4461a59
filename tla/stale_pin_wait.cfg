SPECIFICATION Spec
CONSTANTS
    Configs <- PinConfigs
    MaxPending = 2
    PinAfterEnd = TRUE
    StrayReplies = FALSE
PROPERTY
    StopIsSilent
