SPECIFICATION Spec
CONSTANTS
    Names = {"d","e","f"}
    Dirs <- RootAndTwo
    Files <- InTwo
    Vals = {"a"}
    MaxLen = 1
    TTL = 2
    MaxClock = 1
    MaxNode = 5
    MaxHandle = 1
    Modes = {"OnDemand"}
    ReadOnlys = {FALSE}
    Ops = {"list","make","rename"}
INVARIANTS
    ListYourChanges
