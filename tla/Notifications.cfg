\* Redelivery around the rotation of the filters, with crashes.
CONSTANTS
    a1 = a1  h1 = h1  s1 = s1  d1 = d1  junk = junk
    Accounts = {a1}
    Namespaces = {0, 1}
    Services = {s1}
    SvcIds = {d1}
    Hashes = {h1}
    Messages <- OneMessage
    Junk = junk
    FilterLifetime = 2
    MAX_BATCH = 2
    Hwm = 1
    MaxTime = 5
    MaxAccepted = 3
    MaxCommits = 1
    MaxCrashes = 1
SPECIFICATION MCLiveSpec
INVARIANTS TypeOK NothingLost NoSleepWithWork StatsNeverOverReport FilterRemembers FilterForgets
PROPERTIES NoEarlyDuplicate ProcessedUnlessStalled
CHECK_DEADLOCK FALSE
