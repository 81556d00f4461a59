SPECIFICATION Spec
CONSTANTS
    Fds = {f1, f2}
    kBadSock = kBadSock
    Socks = {o1, o2, o3}
    nullptr = nullptr
SYMMETRY HostSymmetry
INVARIANTS SocketsOwned BytesUnbroken
PROPERTY ImplementsIoContract
