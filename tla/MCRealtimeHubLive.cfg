SPECIFICATION FairSpec
CONSTANTS
    c1 = c1
    c2 = c2
    u1 = u1
    Clients <- MCOneClient
    Users <- MCOneUser
    UserOf <- MCSingle
    SendCap = 1
PROPERTIES
    HubServesAll
    DeadClientReleased
CHECK_DEADLOCK FALSE
