SPECIFICATION Spec
CONSTANTS
    Users = {u1}
    Handlers = {h1, h2}
    Nobody = Nobody
    Limit = 2
    RateWindow = 4
    ActiveWindow = 3
    Timeout = 2
INVARIANTS
    EveryCallAudited
