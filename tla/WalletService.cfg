SPECIFICATION Spec
CONSTANTS
    w1 = w1
    w2 = w2
    p1 = p1
    p2 = p2
    Wallets = {w1}
    Procs = {p1, p2}
    NoWallet = NoWallet
    MaxInt64 = 1
    Amounts = {0, 1}
    SnapshotInterval = 2
    MaxVersion = 3
SYMMETRY Symmetry
INVARIANTS
    TypeOK
    LogGapless
    DebitsCovered
    SnapshotsFaithful
    LoadsFaithful
    AcksDurable
PROPERTIES
    ImplementsLedger
