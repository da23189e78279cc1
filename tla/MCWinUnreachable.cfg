SPECIFICATION WinSpec
CONSTANTS
    Names = {"f", "F", "g"}
    Dirs <- RootOnly
    Files <- FlatFiles
    Vals <- NoVals
    MaxLen = 0
    TTL = 1
    MaxClock = 1
    MaxNode = 6
    MaxHandle = 4
    Modes <- OnDemand
    ReadOnlys <- Writable
    Ops = {}
    FirstFiles <- AtFirst
    Threads = {t1, t2}
    Fold <- FoldCase
    MaxOpen = 2
    MaxJobs = 3
SYMMETRY SameThreads
INVARIANT ServedWhenUnreachable
CHECK_DEADLOCK FALSE
