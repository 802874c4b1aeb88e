CONSTANTS
    Req = {r1}
    n1 = n1
    n2 = n2
    Missing = Missing
    NoNodes = NoNodes
    Throw = Throw
    None = None
    Handed = Handed
    MaxUpdates = 1
    Paths <- MCPaths
    Queries <- MCQueries
    NsNames <- MCNsNames
    NsCfgs <- MCNsCfgs
    LogCfgs <- MCLogCfgs
    RemoteCfgs <- MCRemoteCfgs
    MastermindCfgs <- MCMastermindCfgs
    DieLimitCfgs <- MCDieLimitCfgs
    UnsetDieLimits <- MCUnsetDieLimits
SPECIFICATION Spec
INVARIANTS
    TypeOK
    RoutesDisjoint
    UploadNeverReachesMissingBalancer
    CacheBodyInFixedOrder
PROPERTY
    AnsweredUnlessCrashed
\* After a dereference of an unset member the process is gone.
CHECK_DEADLOCK FALSE
