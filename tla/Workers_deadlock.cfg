\* The thread counts that the constructor sets on a machine of up to eight cores.
CONSTANTS
    general_threads = 4
    batch_threads = 4
    reply_threads = 1
    MaxSwarms = 1
    MaxLoad <- QuicLoad
SPECIFICATION LiveSpec
PROPERTY AlwaysReleased
CHECK_DEADLOCK FALSE
