SPECIFICATION Spec
CONSTANTS
    e1 = e1
    e2 = e2
    e3 = e3
    e4 = e4
    e5 = e5
    e6 = e6
    w1 = w1
    u1 = u1
    nil = nil
    Members = {m1, m2}
    Topic <- MCTopic
    MaxFaults = 2
SYMMETRY Symmetry
INVARIANTS
    TypeOK
    StatementIsIdempotent
    ExactUnlessTorn
CHECK_DEADLOCK FALSE
