SPECIFICATION Spec
CONSTANTS
    u1 = u1
    u2 = u2
    n1 = n1
    n2 = n2
    e1 = e1
    e2 = e2
    p1 = p1
    p2 = p2
    r1 = r1
    r2 = r2
    Users <- MCOneUser
    Names <- MCNames
    Emails <- MCEmails
    Passwords <- MCPasswords
    Requests <- MCOneRequest
PROPERTIES
    ProfileKeepsPassword
CHECK_DEADLOCK FALSE
