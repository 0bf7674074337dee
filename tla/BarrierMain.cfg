SPECIFICATION Spec
CONSTANTS
    Thread = {t1, t2, t3, t4}
    Capacity = 2
PROPERTY AllJoined
CHECK_DEADLOCK FALSE
