SPECIFICATION Spec
CONSTANTS
    Threads = {t1, t2}
    Files <- OneFile
    Dirs = {}
    Names = {"f"}
    Tags = {1, 2}
    MaxChunk = 1
    ChunkSizes = {1}
    MaxObject = 2
    PersistMayFail = TRUE
    IndexMayBeLost = FALSE
SYMMETRY Symmetry
INVARIANTS
    ReadIntegrity
    LiveObjectsKept
    OnlyLostMissing
    ObjectIntegrity
