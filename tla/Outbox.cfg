SPECIFICATION FairSpec
CONSTANTS
    Rows = {r1, r2}
    Workers = {w1, w2}
    Nobody = Nobody
    Nothing = Nothing
    Lease = 1
    Window = 2
    MaxExponent = 1
    MaxDelay = 2
    Horizon = 1
    MaxCopies = 1
INVARIANTS
    TypeOK
    PublishedIsStored
PROPERTIES
    LeaseRespected
    PublishedIsFinal
    AtLeastOnce
    EventuallyPublished
