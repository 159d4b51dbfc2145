\* Two workers handle three requests for two devices, with crashes in between.
CONSTANTS
    d1 = d1  d2 = d2  w1 = w1  w2 = w2  nsA = nsA  nsB = nsB  o1 = o1  o2 = o2
    Devices = {d1, d2}
    Workers = {w1, w2}
    Namespaces = {nsA, nsB}
    Options = {o1, o2}
    SIGNATURE_EXPIRY = 2
    SIGNATURE_EARLY = 1
    LoadMargin = 1
    MaxTime = 2
    MaxRequests = 3
SPECIFICATION Spec
SYMMETRY Symmetric
INVARIANTS NewestInMemory MonitoredOnceMerged StoredUnlessOverlapped
CHECK_DEADLOCK FALSE
