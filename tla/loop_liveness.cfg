CONSTANTS
    NTcp = 2
    NUdp = 1
    Fds = {f1, f2}
    kBadSock = kBadSock
    Burst = 1
    MaxGen = 1
    MaxSend = 2
    MaxRx = 1
SPECIFICATION SparingSpec
PROPERTIES ConnectionsServed PumpEnds
