\* A list of up to two elements and a single object, during and after startup.
CONSTANTS
    r1 = r1  r2 = r2  s1 = s1  s2 = s2
    Requests = {r1, r2}
    OverQuic = {r2}
    MaxSize = 2
    Services = {s1, s2}
    ServiceOf <- ServicePerElement
    notifiers_expected = {s1, s2}
SPECIFICATION MCLiveSpec
INVARIANTS TypeOK ReplyComplete NothingStranded UnavailableOnlyAfterWait
PROPERTIES ImplementsService EventuallyReplied
CHECK_DEADLOCK FALSE
