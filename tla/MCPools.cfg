SPECIFICATION PoolsSpec
CONSTANTS
    Worker = {0, 1, 2}
    max_thread_count = 2
    Caller = c
    None = None
    Pending = Pending
    Value = {1, 2, 3, 4}
    Programs <- MCPrograms
INVARIANTS SortsSorted EachRunOnce NoneDropped
PROPERTY AllTerminate
