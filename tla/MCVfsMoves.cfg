SPECIFICATION Spec
CONSTANTS
    Names = {"d","e","f"}
    Dirs <- RootAndTwo
    Files <- InOneAndBeside
    Vals = {"a","b"}
    MaxLen = 1
    TTL = 2
    MaxClock = 0
    MaxNode = 4
    MaxHandle = 2
    Modes = {"OnDemand"}
    ReadOnlys = {FALSE}
    Ops = {"make","rename","read","write"}
INVARIANTS
    NodeTable
    ContentCurrent
