CONSTANTS
    N = 23
    g = 5
    k = 6
    Hu <- MCHu
    Hx <- MCHx
    Secrets = {1, 2, 7, 10}
    Salts = {0, 1, 2}
    Pins = {1, 2}
    FixedPin = 3
    MaxSessions = 3
SPECIFICATION CryptoSpec
INVARIANTS KeyedTogether HonestAccepted CredentialsGood CodecsInvert
CHECK_DEADLOCK FALSE
