SPECIFICATION Spec
CONSTANTS
    Threads = {t1}
    Files <- TreeFiles
    Dirs <- TreeDirs
    Names = {"d", "f", "g"}
    Tags = {1}
    MaxChunk = 0
    ChunkSizes = {1, 2}
    MaxObject = 2
    PersistMayFail = FALSE
    IndexMayBeLost = TRUE
INVARIANTS
    TypeOK
    ObjectIntegrity
    NoSharedObject
    DiskCurrent
    OnlyLostMissing
PROPERTIES
    ImplementsCache
