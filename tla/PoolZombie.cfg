SPECIFICATION Spec
CONSTANTS
    Threads = {t1, t2}
    Handles = {h1}
    Conns = {c1, c2}
    None = None
    PoolSize = 1
    PoolMax = 1
    MaxTries = 0
    Windows = {"zombieCas"}
    Env = {}
INVARIANT Exclusive
