SPECIFICATION Spec
CONSTANTS
    None = None
    Emails = {e1}
    Users = {u1, u2}
    Devices = {d1}
    Sessions = {s1, s2}
    Requests = {r1, r2}
    RefreshTTL = 2
    MaxTime = 3
SYMMETRY Symmetry
INVARIANT TypeOK
INVARIANT OneActiveSessionPerDevice
INVARIANT RowMatchesToken
INVARIANT CurrentTokenAccountedFor
INVARIANT NoOrphanSession
PROPERTY DeadSessionStaysDead
PROPERTY SupersededTokenStaysDead
PROPERTY OnlySignOutEndsLiveSession
CHECK_DEADLOCK FALSE
