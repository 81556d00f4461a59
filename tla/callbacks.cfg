SPECIFICATION Spec
CONSTANTS
    StartIn <- LastCalls
    MaxGen = 5
    MaxDepth = 4
    MaxRx = 3
INVARIANTS CallbacksTrue SettledConsistent NothingStaleUsed
CHECK_DEADLOCK FALSE
