CONSTANTS
    p1 = p1
    p2 = p2
    p3 = p3
    s1 = s1
    n1 = n1
    rRead = rRead
    rSync = rSync
    Paths <- MCPaths
    HostKind <- MCHostKind
    MaxPreopens = 2
    Names = {}
    Stats = {"default"}
    DefaultStat = "default"
    Rights <- MCRights
    DATASYNC = rSync
    GrantSets <- MCGrantSets
    MaxSymlinks = 1
    FdWidth = 3
    Build = "debug"
    MaxInodes = 2
    InsertKinds = {"File", "Dir", "Symlink", "Buffer"}
    QueryFds = {0, 1, 3, 4, 7}
INIT Init
NEXT Next
CHECK_DEADLOCK FALSE
INVARIANTS TypeOK FdIdsBelowNext PreopensMounted FlushGuarded
PROPERTIES FdTableRefined
