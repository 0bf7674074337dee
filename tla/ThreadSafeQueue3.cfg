\* Three threads, two of them removers, and spurious failures of the weak exchanges.
SPECIFICATION HistorySpec
CONSTANTS
    threadnum = 3
    Addr = {a1, a2}
    Null = Null
    Value = {1}
    Calls <- ThreeThreadCalls
    WeakFails = TRUE
SYMMETRY AddrSymmetry
INVARIANT HandshakeExclusion
PROPERTIES DeletesOnlyUnhazarded ImplementsFifo
