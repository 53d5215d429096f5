SPECIFICATION Spec
CONSTANTS
    Threads = {t1}
    Worker = worker
    Nobody = nobody
    Messages = {m1, m2}
    MaxConnections = 2
INVARIANTS
    InvalidIdsSettleNothing
