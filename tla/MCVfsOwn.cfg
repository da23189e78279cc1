SPECIFICATION Spec
CONSTANTS
    Names = {"d","f"}
    Dirs <- RootAndOne
    Files <- InOne
    Vals = {"a"}
    MaxLen = 2
    TTL = 2
    MaxClock = 2
    MaxNode = 3
    MaxHandle = 2
    Modes = {"OnDemand"}
    ReadOnlys = {FALSE}
    Ops = {"list","read","close","write","make","setattr","link"}
INVARIANTS
    TypeOK
    ReadYourWrites
    ListYourChanges
    NegativeSound
    ContentCurrent
