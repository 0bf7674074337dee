SPECIFICATION TasksSpec
CONSTANTS
    Capacity = 5
    Thread <- MCThread
    input <- MCInput
    Algorithms <- MCAlgorithms
    Lengths = {1, 4, 5, 8, 9}
    hardware_concurrency = {0, 1, 3}
    min_per_thread = 3
    Matches <- MCMatches
    Kinds = {"for_each", "accumulate", "find", "sort"}
    LeafLength = 2
    Lists <- MCLists
    Trees <- MCTrees
    Rounds = 2
INVARIANTS NoDataRace LockStep RoundSum HandedOutOnce Results NothingLost
PROPERTY AllTerminate
