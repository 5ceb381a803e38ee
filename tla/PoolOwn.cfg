SPECIFICATION Spec
CONSTANTS
    Threads = {t1, t2}
    Handles = {h1, h2}
    Conns = {c1}
    None = None
    PoolSize = 1
    PoolMax = 2
    MaxTries = 0
    Windows = {}
    Env = {"stream"}
SYMMETRY Symmetry
INVARIANTS TypeOK Exclusive
PROPERTY GivenIdle
