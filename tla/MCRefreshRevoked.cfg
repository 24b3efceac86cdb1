SPECIFICATION Spec
CONSTANTS
    None = None
    Emails = {e1}
    Users = {u1}
    Devices = {d1}
    Sessions = {s1}
    Requests = {r1, r2}
    RefreshTTL = 2
    MaxTime = 2
SYMMETRY Symmetry
PROPERTY RevokedStaysRevoked
CHECK_DEADLOCK FALSE
