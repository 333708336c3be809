CONSTANTS
    Users = {u1}
    Keys = {}
    NoKey = NoKey
    Titles = {"a", "b"}
    NoEnd = NoEnd
    Keep = Keep
    Creates <- MCSeries
    Patches <- MCPatches
    Minutes = {10, 20}
    Txs = {t1}
    MaxReminders = 1
    MaxSchedules = 2
    MaxRevision = 3
SPECIFICATION Spec
PROPERTIES
    NoLostUpdate
