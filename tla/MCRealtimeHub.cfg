SPECIFICATION Spec
CONSTANTS
    c1 = c1
    c2 = c2
    u1 = u1
    Clients <- MCClients
    Users <- MCOneUser
    UserOf <- MCSameUser
    SendCap = 1
SYMMETRY Symmetry
INVARIANTS
    PanicHasACause
    MapsAgree
    NoGhostClient
    BatchIsBuffered
CHECK_DEADLOCK FALSE
