CONSTANTS
    None = None
    Zones <- MCZones
    Offset <- MCOffset
    From <- MCFrom
    To <- MCTo
    Hour = 1
    Spacing = 29
    Ids = {1, 2, 3}
    Contents <- MCContents
    Filters <- MCFilters
    Limits = {1, 2}
    MaxExport = 2
SPECIFICATION FairSpec
INVARIANTS
    TypeOK
    NothingMissed
    PagesAdvance
PROPERTIES
    ListingEnds
