SPECIFICATION Spec
CONSTANTS
    u1 = u1
    r1 = r1
    r2 = r2
    Updaters = {r1, r2}
    Feed <- MCFeed
    Users = {u1}
    NilUser = NilUser
    Callers = {c1}
    Amounts = {1, 3, 15}
    DailyLimit = 7
    Velocity = 3
    Large = 3
    MaxInt = 15
    TTL = 2
    MaxFaults = 1
INVARIANTS
    TypeOK
    
    RejectionsEarned
