\* Responses, some of which fail, between subscriptions and renewals.
CONSTANTS
    a1 = a1  a2 = a2  n1 = n1  n2 = n2  s1 = s1  s2 = s2  NoRow = NoRow
    RingSize = 8
    Accounts = {a1}
    Position <- OnePosition
    SwarmIds = {0, 4}
    Nodes = {n1, n2}
    Devices = {"d1"}
    Settings = {s1, s2}
    MaxResponses = 3
    MaxTxns = 2
    MaxEvents = 1
SPECIFICATION MCSpec
SYMMETRY Symmetry
INVARIANTS MembersCovered SettingsInPlace
CHECK_DEADLOCK FALSE
