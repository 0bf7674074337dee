SPECIFICATION ContainersSpec
CONSTANTS
    Thread = {t1, t2, t3}
    Mutex = {1, 2, 3}
    Level <- MCLevel
    NoOwner = NoOwner
    NoMutex = NoMutex
    Client = {1, 2, 3, 4}
    Programs <- MCPrograms
    QueueCalls <- MCQueueCalls
    ListCalls <- MCListCalls
    TableCalls <- MCTableCalls
    MaxPushes = 5
    None <- Minus1
    Empty <- Zero
    Free <- Minus1
    Nobody <- Zero
    Default <- Zero
    num_buckets = 2
INVARIANTS LevelsExact BlockedBelow DeadlockFree NoFault RightContents NoLostWakeup
PROPERTIES ImplementsFifo AllReturn
