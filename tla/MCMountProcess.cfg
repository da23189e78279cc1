SPECIFICATION Spec
CONSTANTS
    Word = 65536
    DefaultChunk = 4096
    DefaultTTL = 5000
    DefaultTimeout = 30000
    DefaultIds <- Defaults
    CommandLines <- AllCommandLines
    Repeated <- LaterLogins
    KnownHosts <- FirstKnownHosts
    HostKeys <- ServerKeys
    UserKeys <- FileKeys
    MaxTries = 2
    Names = {"a", "b"}
    FileLen = 3
    ReadRanges <- Ranges
INVARIANTS
    ConfiguredAsWritten
    
    SessionTrusted
    DeniedForGoodReason
    CleanExit
    ScanFaithful
    ReadAssembled
PROPERTIES
    ShutdownCompletes
