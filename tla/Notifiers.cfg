\* One push over apns, two over huawei, reports in any order, a crash of each.
CONSTANTS
    a1 = a1  h1 = h1  h2 = h2
    Pushes = {a1, h1, h2}
    ServiceOf <- ServiceOfPush
    MAX_RETRIES = 1
    r1 = r1  r2 = r2
    Reports = {r1, r2}
    None = None
    MaxCrashes = 1
SPECIFICATION LiveSpec
INVARIANT StatsAddUp
PROPERTY EventuallySettled
CHECK_DEADLOCK FALSE
