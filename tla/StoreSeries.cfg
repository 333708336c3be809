CONSTANTS
    Users = {u1, u2}
    Keys = {}
    NoKey = NoKey
    Titles = {"a", "b"}
    NoEnd = NoEnd
    Keep = Keep
    Creates <- MCCreates
    Patches <- MCPatches
    Minutes = {10, 20}
    Txs = {t1}
    MaxReminders = 1
    MaxSchedules = 2
    MaxRevision = 3
SPECIFICATION Spec
INVARIANTS
    TypeOK
    RevisionsOrdered
    EventsConverge
    SeriesLive
    TimesValid
    DeletedAccountOwnsNothing
    SingleRemindersConverge
    RemindersBounded
PROPERTIES
    ETagSound
