\* More general threads than batch threads, so that both reserves matter.
CONSTANTS
    general_threads = 3
    batch_threads = 2
    reply_threads = 1
    MaxSwarms = 2
    MaxLoad <- MixedLoad
SPECIFICATION LiveSpec
INVARIANT SwarmJobsOnlyWhileBlocked
PROPERTY ReleasedUnlessExhausted
CHECK_DEADLOCK FALSE
