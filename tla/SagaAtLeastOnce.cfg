SPECIFICATION FairSpec
CONSTANTS
    e1 = e1
    e2 = e2
    e3 = e3
    Members = {m1, m2}
    NoMember = NoMember
    Feed <- MCFeed
    MaxFaults = 1
PROPERTIES
    AtLeastOnce
CHECK_DEADLOCK FALSE
