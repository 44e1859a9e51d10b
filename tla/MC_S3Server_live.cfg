CONSTANTS
    Procs <- MC_LiveProcs
    NoProc = NoProc
    NoHandle = NoHandle
    DirHandle = DirHandle
    Methods = {"GET", "PUT", "DELETE"}
    Chars <- MC_Chars
    Root <- MC_Root
    URLPaths <- MC_LiveURLPaths
    Payloads <- MC_LivePayloads
    QueryPrefixes <- MC_LiveQueryPrefixes
    MaxInode <- MC_MaxInode
    DirSize = 4096
    BodyMayFail = FALSE
    CloseMayFail = FALSE
    WriteMayFail = TRUE
    Mux = FALSE

SPECIFICATION Spec

PROPERTY EveryRequestAnswered
PROPERTY LockRefinement
