SPECIFICATION PromptSpec
CONSTANTS
    Rows = {r1}
    Workers = {w1}
    Nobody = Nobody
    Nothing = Nothing
    Lease = 1
    Window = 5
    MaxExponent = 3
    MaxDelay = 9
    Horizon = 1
    MaxCopies = 2
INVARIANTS
    RetriesAbsorbed
