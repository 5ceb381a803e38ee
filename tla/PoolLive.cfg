SPECIFICATION FairSpec
CONSTANTS
    Threads = {t1, t2}
    Handles = {h1}
    Conns = {c1}
    None = None
    PoolSize = 1
    PoolMax = 1
    MaxTries = 1
    Windows = {"zombieCas", "take", "close"}
    Env = {}
PROPERTY AcquireReturns
