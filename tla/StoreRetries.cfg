CONSTANTS
    Users = {u1}
    Keys = {k1, k2}
    NoKey = NoKey
    Titles = {"a", "b"}
    NoEnd = NoEnd
    Keep = Keep
    Creates <- MCBare
    Patches <- MCTitle
    Minutes = {}
    Txs = {t1}
    MaxReminders = 1
    MaxSchedules = 2
    MaxRevision = 3
SPECIFICATION Spec
SYMMETRY MCSymmetry
INVARIANTS
    RepliesTruthful
PROPERTIES
    RepliesStable
