SPECIFICATION SharedSpec
CONSTANTS
    Names = {"f"}
    Dirs <- Root
    Files <- OneFile
    Vals = {"a"}
    MaxLen = 2
    TTL = 2
    MaxClock = 1
    MaxNode = 2
    MaxHandle = 1
    Modes = {"OnDemand"}
    ReadOnlys = {FALSE}
    Ops = {"read"}
INVARIANTS
    ReadsInPlace
