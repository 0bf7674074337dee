SPECIFICATION Spec
CONSTANTS
    Threads = {1, 2, 3}
    Main = 1
    Addr = {n1, n2, n3, n4, n5, n6}
    Null = Null
    Value <- MCValue
    NoValue <- MCNoValue
    Calls <- MCCalls
    MaxExternal = 6
SYMMETRY AddrSymmetry
INVARIANTS NoUseAfterFree AllDeleted PoppedOnce
