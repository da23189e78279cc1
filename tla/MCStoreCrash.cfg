SPECIFICATION Spec
CONSTANTS
    Threads = {t1}
    Files <- OneFile
    Dirs = {}
    Names = {"f"}
    Tags = {1}
    MaxChunk = 0
    ChunkSizes = {1, 2}
    MaxObject = 3
    PersistMayFail = FALSE
    IndexMayBeLost = FALSE
INVARIANTS
    RecoveredRefsReadable
