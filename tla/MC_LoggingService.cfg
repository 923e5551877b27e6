CONSTANTS
    Requests = {r1, r2}
    LogScopes <- MCLogScopes
    BackendNames <- MCBackendNames
    MaxTotal = 1
    RateScale = 2
    RngPeriod = 2
    ExecErr = ExecErr
    ConfigErr = ConfigErr
    OK = OK
    None = None

SPECIFICATION ServingSpec

INVARIANT TypeOK
INVARIANT DistinctDraws
PROPERTY ImplementsQueryService
