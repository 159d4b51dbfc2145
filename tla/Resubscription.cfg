\* Insertions, a removal or a lost connection, full requests and renewals.
SPECIFICATION MCLiveSpec
CONSTANTS
    a1 = a1
    a2 = a2
    None = None
    Accounts = {a1, a2}
    Weight <- TwoOfOne
    SUBS_REQUEST_LIMIT = 2
    RESUBSCRIBE_MIN = 2
    RESUBSCRIBE_MAX = 3
    MaxClock = 4
    MaxAdds = 3
    MaxRemovals = 1
INVARIANTS QueueSorted OneLiveEntry RenewalScheduled
PROPERTIES ImplementsRenewals DrainComplete EventuallySubmitted
CHECK_DEADLOCK FALSE
