CONSTANTS
    None = None
    Zones <- MCZonesWest
    Offset <- MCOffsetWest
    From <- MCFrom
    To <- MCTo
    Hour = 1
    Spacing = 29
    BaseYear = 2027
    BaseWeekday = 4
    MaxMonth = 36
    Requests <- MCRequestsWest
    Moves = {}
SPECIFICATION Spec
INVARIANTS
    UntilInclusive
