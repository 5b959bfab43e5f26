SPECIFICATION EdgeSpec
CONSTANTS
    Callers = {c1, c2}
    Emails = {alice}
    Passwords = {pw1, pw2}
    Missing = Missing
    AccessTTL = 1
    RefreshTTL = 1
    MaxTime = 2
    MaxTokens = 1
    MaxFaults = 1
    Paths <- MCPaths
    NoUser = 0
INVARIANTS
    EdgeTypeOK
    OneOwnerPerEmail
    RefreshNeedsLiveSession
PROPERTIES
    AdmissionNeedsSession
SYMMETRY Symmetry
CHECK_DEADLOCK FALSE
