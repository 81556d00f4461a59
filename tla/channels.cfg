CONSTANTS
    Bodies = {0, 2}
    Chunk = 2
    Cap = 4
    PairSteps = 1
    MaxRequests = 3
    MaxPending = 2
    MaxPushes = 1
    MaxDamage = 1
    MaxSessions = 2
    BodyLens = {0, 1}
    MaxFrames = 8
    MaxAsked = 2
SPECIFICATION ChannelsSpec
INVARIANTS RepliesIntact ControlInStep AnsweredOnce
PROPERTY ChannelsCatchUp
CHECK_DEADLOCK FALSE
