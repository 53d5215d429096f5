SPECIFICATION Spec
CONSTANTS
    Threads = {t1, t2}
    Worker = worker
    Nobody = nobody
    Messages = {m1, m2}
    MaxConnections = 3
SYMMETRY MCSymmetry
INVARIANTS
    TypeOK
    AckQueueExclusive
    OnlyTheCallbackRaces
    DeliveriesHaveOneHolder
    StaleIdsAreFew
    LossesAreBounded
PROPERTIES
    AcksSettleWhatWasProcessed
