SPECIFICATION FairSpec
CONSTANTS
    SeqMod = 8
    RtpMod = 16
    ClockMod = 16
    FramesPerPacket = 2
    MaxPacketsPerTick = 2
    BacklogSize = 4
    Rate = 3
    Second = 2
    Latency = 9
    MaxElapsed = 14
    FirstSeqs <- Draws
    Stalls <- Pauses
    LostCounts <- Counts
PROPERTY TracksClock
