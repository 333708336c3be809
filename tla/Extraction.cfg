SPECIFICATION FairSpec
CONSTANTS
    Users = {u1}
    Handlers = {h1, h2, h3}
    Nobody = Nobody
    Limit = 2
    RateWindow = 2
    ActiveWindow = 2
    Timeout = 1
INVARIANTS
    TypeOK
    OneCallPerUser
    RateLimited
    DeletedUserLeavesNothing
PROPERTIES
    AdmissionRecovers
