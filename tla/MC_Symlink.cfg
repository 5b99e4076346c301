CONSTANTS
    p1 = p1
    p2 = p2
    p3 = p3
    s1 = s1
    n1 = n1
    rRead = rRead
    rSync = rSync
    Paths <- MCPaths
    HostKind <- MCHostKind
    MaxPreopens = 1
    Names = {n1}
    Stats <- MCStats
    DefaultStat = "default"
    Rights <- MCRights
    DATASYNC = rSync
    MaxSymlinks = 2
    FdWidth = 3
    Build = "debug"
    MaxInodes = 5
    InsertKinds = {"File", "Symlink"}
    QueryFds = {}
    GrantSets = {}
INIT Init
NEXT Next
CHECK_DEADLOCK FALSE
INVARIANTS SymlinkResolution
