SPECIFICATION EitherSpec
CONSTANTS
    MaxCommits = 4
    MaxAttempts = 3
    MaxPlans = 2
    MaxTime = 1
    AuthorizationLife = 1
    ExceptionLife = 1
    MaxPlanAge = 1
    TrustChanges = {}
    Departs = {}
    Accounts = {"ada", "ben", "cyd"}
    Permissions = {"write", "read"}
    NoEvidence = NoEvidence
    NoRecord = NoRecord
    NoRun = NoRun
    Pull <- MCPull
    Attested <- MCAttested
    EnvironmentStates <- MCEnvironments
    Sessions = {"s1", "s2"}
    Provisioners = {"s2"}
    RawCallers = {"s1"}
    Backends = {p1, p2}
    Tenants = {"t1", "t2"}
    Bindings = {"b1", "b2"}
    Expiring = {"b2"}
    Scopes <- MCScopes
    Asked <- MCAsked
    Provisioning <- MCProvisioning
    MaxXid = 2
    MaxSavepoints = 1
    MaxRecords = 4
    None = None
SYMMETRY Symmetry
ACTION_CONSTRAINT Within
INVARIANTS EveryRecordCanBePromoted EveryImageCanBeResumed DeploymentsWereSanctioned NoPlanIsAppliedTwice NoContextIsInherited MapsHoldTheCallersRows
PROPERTIES ImplementsReleaseBook ImplementsAuthorityBook DeadCredentialsAcquireNothing
CHECK_DEADLOCK FALSE
