SPECIFICATION Spec
CONSTANTS
    new = new
    old = old
    Deploys = {new, old}
    Files <- ReleaseFiles
    RoleFile = 2
    MaxRetries = 2
    release = new
    Requesters = {t1, t2}
    worker = worker
    MaxPools = 3
    NULL = NULL
    None = None
INVARIANTS EachFileOnceInOrder OnePool
PROPERTIES WaitsEnd
