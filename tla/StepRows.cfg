SPECIFICATION Spec
CONSTANTS
    t1 = t1
    t2 = t2
    r1 = r1
    r2 = r2
    w1 = w1
    None = None
    Threads = {t1, t2}
    Reads = {r1, r2}
    Writes = {}
    Conns = {c1, c2}
    Rows = 2
    Sparse = {r1, r2}
    Returning = {}
    MaxRetries = 1
    MaxSchema = 2
    Home <- TwoThreads
    Env = {"cross", "migrate"}
SYMMETRY Alike
INVARIANTS TypeOK StreamsMatch DoneIsTrue
PROPERTIES RowsInOrder
