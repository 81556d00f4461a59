SPECIFICATION ThreadsSpec
CONSTANTS
    WordBits = 3
    Channels = 2
    Requests <- RequestSizes
    PushSizes <- SampleCounts
    Wants <- FrameCounts
    Files <- WholeFiles
    Chunk = 4
    Capacity = 8
INVARIANTS TypeOK NoRace CheckedCallsSucceed ProgramSafe
PROPERTIES ImplementsFifo ProgramEnds
