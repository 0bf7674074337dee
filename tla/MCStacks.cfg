SPECIFICATION Spec
CONSTANTS
    Client = {1, 2, 3}
    Address = {a1, a2, a3}
    Null = Null
    Scripts <- MCScripts
    InitialCounts <- MCInitialCounts
    Slot = {0, 1, 2}
    MaxExternal = 4
    Value = {1, 2}
SYMMETRY AddressSymmetry
INVARIANTS NoUseAfterFree NoLeak
PROPERTY ImplementsLifo
