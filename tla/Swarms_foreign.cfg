\* Two responses with different swarms.
CONSTANTS
    a1 = a1  a2 = a2  n1 = n1  n2 = n2  s1 = s1  s2 = s2  NoRow = NoRow
    RingSize = 8
    Accounts = {a1, a2}
    Position <- TwoPositions
    SwarmIds = {0, 4}
    Nodes = {n1, n2}
    Devices = {"d1"}
    Settings = {s1, s2}
    MaxResponses = 2
    MaxTxns = 0
    MaxEvents = 0
SPECIFICATION MCSpec
SYMMETRY Symmetry
INVARIANT NoForeignAccounts
CHECK_DEADLOCK FALSE
