\* No fairness for any single thread: the others must get on without it.
SPECIFICATION ProgressSpec
CONSTANTS
    threadnum = 2
    Addr = {a1, a2}
    Null = Null
    Value = {1}
    Calls <- OneCallEach
    WeakFails = FALSE
PROPERTIES LockFree
