SPECIFICATION FairSpec
CONSTANTS
    Users = {u1}
    Malformed = Malformed
    Messages = {m1, m2}
    Replicas = {r1, r2}
    Requests = {q1}
    Nothing = Nothing
INVARIANTS
    TypeOK
    CompletedIsGone
    ReminderGenuine
PROPERTIES
    NothingAfterTombstone
    DeletionCompletes
