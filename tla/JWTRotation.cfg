SPECIFICATION Spec
SYMMETRY Interchangeable
CONSTANTS
    Users = {u1}
    Keys = {k1, k2, k3}
    Foreign = Foreign
    Clients = {c1, c2}
    NoSet = NoSet
    NoToken = NoToken
INVARIANTS
    TypeOK
    RejectionJustified
    AdmissionJustified
