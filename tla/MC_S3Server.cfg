CONSTANTS
    Procs = {p1, p2}
    NoProc = NoProc
    NoHandle = NoHandle
    DirHandle = DirHandle
    Methods = {"GET", "PUT", "DELETE", "POST"}
    Chars <- MC_Chars
    Root <- MC_Root
    URLPaths <- MC_MuxURLPaths
    Payloads <- MC_Payloads
    QueryPrefixes <- MC_QueryPrefixes
    MaxInode <- MC_MaxInode
    DirSize = 4096
    BodyMayFail = TRUE
    CloseMayFail = TRUE
    WriteMayFail = TRUE
    Mux = TRUE

SPECIFICATION Spec

INVARIANT TypeOK
INVARIANT AckedWriteVisible
INVARIANT WriterExclusive
PROPERTY LockRefinement
PROPERTY ListingReflectsWrites
PROPERTY StoreRefinement
