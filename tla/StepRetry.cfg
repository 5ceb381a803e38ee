SPECIFICATION FairSpec
CONSTANTS
    t1 = t1
    t2 = t2
    r1 = r1
    r2 = r2
    w1 = w1
    None = None
    Threads = {t1}
    Reads = {r1}
    Writes = {w1}
    Conns = {c1, c2}
    Rows = 2
    Sparse = {r1}
    Returning = {w1}
    MaxRetries = 1
    MaxSchema = 1
    Home <- OneThread
    Env = {"refuse", "break", "down"}
INVARIANTS StreamsMatch DoneIsTrue RunsOnce
PROPERTIES Answered
