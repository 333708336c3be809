CONSTANTS
    None = None
    Zones <- MCZones
    Offset <- MCOffset
    From <- MCFrom
    To <- MCTo
    Hour = 1
    Spacing = 29
    BaseYear = 2027
    BaseWeekday = 4
    MaxMonth = 36
    Requests <- MCRequests
    Moves <- MCMoves
SPECIFICATION Spec
INVARIANTS
    WallTimeKept
    RuleHonoured
    ClockKept
    MonthsAccounted
    RefusalJustified
    MovesTogether
