SPECIFICATION Spec
CONSTANTS
    t1 = t1
    t2 = t2
    r1 = r1
    r2 = r2
    w1 = w1
    None = None
    Threads = {t1}
    Reads = {r1, r2}
    Writes = {}
    Conns = {c1}
    Rows = 2
    Sparse = {}
    Returning = {}
    MaxRetries = 1
    MaxSchema = 2
    Home <- OneThread
    Env = {"error", "migrate"}
PROPERTIES RowsInOrder
