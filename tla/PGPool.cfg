\* Three threads; the pool starts with one connection, as HiveMind does.
CONSTANTS
    t1 = t1  t2 = t2  t3 = t3  c1 = c1  c2 = c2  c3 = c3  c4 = c4  None = None
    Threads = {t1, t2, t3}
    Conns = {c1, c2, c3, c4}
    initial_conns = 1
    max_idle <- NoLimit
    max_idle_time = 1
    MaxTime = 3
SPECIFICATION Spec
SYMMETRY Symmetric
INVARIANTS OwnedOnce PoolBounded NeverUsedAfterFailure
PROPERTY StaleCleared
