\* Three nodes compete for one attempt; nodes move, leave and return.
CONSTANTS
    n1 = n1  n2 = n2  n3 = n3  x = x  y = y
    Nodes = {n1, n2, n3}
    Addrs = {x, y}
    Absent = Absent
    max_pending_connects = 1
    MaxResponses = 3
    MaxFailures = 1
SPECIFICATION MCLiveSpec
INVARIANTS TypeOK NoOrphanConnection PendingExact
PROPERTY EventuallyConnected
CHECK_DEADLOCK FALSE
