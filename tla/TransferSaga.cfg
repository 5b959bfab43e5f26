SPECIFICATION SagaSpec
CONSTANTS
    Procs = {p1}
    Txs = {t1}
    NoTx = NoTx
    Keys = {}
    NoKey = NoKey
    Members = {m1}
    NoMember = NoMember
    Senders = {n1}
    MaxEvents = 2
    MaxDuplicates = 1
    MaxFaults = 1
INVARIANTS
    EffectsExplained
PROPERTIES
    EventsArrive
