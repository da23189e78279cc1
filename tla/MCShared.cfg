SPECIFICATION SharedSpec
CONSTANTS
    Names = {"f"}
    Dirs <- Root
    Files <- OneFile
    Vals = {"a","b"}
    MaxLen = 1
    TTL = 1
    MaxClock = 2
    MaxNode = 2
    MaxHandle = 1
    Modes = {"OnDemand", "Offline"}
    ReadOnlys = {TRUE, FALSE}
    Ops = {"list", "read", "close", "write", "make", "link", "remount"}
INVARIANTS
    ContentCurrent
    AttrsBoundedStale
PROPERTIES
    OfflineFrozen
    ReadOnlyKeepsServer
