SPECIFICATION SharedSpec
CONSTANTS
    Names = {"f"}
    Dirs <- Root
    Files <- OneFile
    Vals = {"a"}
    MaxLen = 0
    TTL = 1
    MaxClock = 2
    MaxNode = 2
    MaxHandle = 1
    Modes = {"OnDemand"}
    ReadOnlys = {FALSE}
    Ops = {"list"}
INVARIANTS
    ListingBoundedStale
