SPECIFICATION Spec
CONSTANTS
    Threads = {1, 2, 3}
    Addr = {n1, n2, n3, n4, n5}
    Null = Null
    Value <- MCValue
    NoValue <- MCNoValue
    Calls <- LostCalls
    MaxExternal = 6
INVARIANTS NothingLost
