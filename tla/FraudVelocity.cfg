SPECIFICATION Spec
CONSTANTS
    u1 = u1
    r1 = r1
    r2 = r2
    Updaters = {r1, r2}
    Feed <- MCFeed
    Users = {u1}
    NilUser = NilUser
    Callers = {c1}
    Amounts = {1}
    DailyLimit = 15
    Velocity = 2
    Large = 3
    MaxInt = 15
    TTL = 3
    MaxFaults = 0
INVARIANT
    VelocityWithinMinute
