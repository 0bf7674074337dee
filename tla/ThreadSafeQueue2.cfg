\* Two threads: everything, liveness included, with addresses that come back.
SPECIFICATION FairHistorySpec
CONSTANTS
    threadnum = 2
    Addr = {a1, a2, a3, a4}
    Null = Null
    Value = {1, 2, 3}
    Calls <- TwoThreadCalls
    WeakFails = FALSE
INVARIANTS TypeOK NoUseAfterFree MemoryPartition TailInQueue
PROPERTIES AdvanceByOne ImplementsFifo Termination OnlyRemoversStarve
