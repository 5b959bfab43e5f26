SPECIFICATION Spec
CONSTANTS
    Procs = {p1, p2}
    Txs = {t1, t2}
    NoTx = NoTx
    Keys = {k1}
    NoKey = NoKey
    MaxEvents = 3
SYMMETRY Symmetry
INVARIANTS
    NoEventLost
