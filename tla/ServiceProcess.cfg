SPECIFICATION ProcessSpec
CONSTANTS
    Services = {"wallet", "transaction", "query", "notification", "identity", "fraud", "gateway"}
    Callers = {c1, c2}
INVARIANTS
    ProcessTypeOK
    OnlyForceAbandons
PROPERTIES
    StopsAfterSignal
CHECK_DEADLOCK FALSE
