SPECIFICATION FairSpec
CONSTANTS
    Threads = {t1, t2}
    Worker = worker
    Nobody = nobody
    Messages = {m1}
    MaxConnections = 2
PROPERTIES
    AcknowledgedIsSettledOrReady
    StopEndsWorker
