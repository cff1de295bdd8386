CONSTANTS
    Clients = {c1, c2}
    Conns = {n1, n2, n3, n4}
    MaxSize = 2
    MinSize = 1
    NoConn = NoConn
    Tasks = {t1, t2}
    Asking = {t2}
    MaxEntries = 3
    MaxBuffer = 2
    BufferSize = 2
    MaxLogged = 5
    SendSize = 1
    QueueSize = 1
    MaxConnections = 2
    Watchers = {w1, w2}
    Links = {l1, l2, l3, l4}
    MaxRetries = 1
    MaxLate = 1
    NoLink = NoLink
SPECIFICATION MCSpec
INVARIANTS
    TypesOK
    PoolSound
    
PROPERTIES
    ServicesRecover
CHECK_DEADLOCK FALSE
